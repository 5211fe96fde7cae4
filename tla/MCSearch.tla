------------------------------ MODULE MCSearch ------------------------------
(***************************************************************************)
(* A handful of records over the letters a and b, a capital A, the dot and *)
(* characters that mean something to LIKE or regexp; patterns of one to    *)
(* three characters.                                                       *)
(***************************************************************************)
EXTENDS Search

A  == <<"a">>
B  == <<"b">>
AB == <<"a", "b">>
ADotB == <<"a", ".", "b">>
BDotA == <<"b", ".", "a">>

MCCharacters == {"a", "A", "b", ".", "-", "*", "?", "_", "%", "\\", "+"}

MCLower == [c \in Characters |-> IF c = "A" THEN "a" ELSE c]

Domain(name, ns, entities, expires) ==
    [name |-> name, ns |-> ns, entities |-> entities, expires |-> expires]
Contact(handle, role, fn, email) ==
    [handle |-> handle, role |-> role, fn |-> fn, email |-> email]
Host(name, v4, v6) == [name |-> name, v4 |-> v4, v6 |-> v6]

\* The third domain has no expires_at, the first refers to a missing entity; the
\* third host has an address in both lists.
MCDomains ==
    {Domain(ADotB, {BDotA}, {<<"A">>, BDotA}, TRUE), Domain(AB, {BDotA, ADotB}, {<<"b", "_">>}, TRUE),
     Domain(BDotA, {ADotB}, {}, FALSE)}
MCContacts ==
    {Contact(<<"A">>, B, AB, ADotB), Contact(<<"b", "_">>, A, BDotA, <<"A", "b">>),
     Contact(AB, A, <<"a", "+">>, B)}
MCHosts == {Host(BDotA, {A}, {B}), Host(ADotB, {A}, {}), Host(AB, {AB}, {AB})}

PatternsOver(chars, length) == UNION {[1..n -> chars] : n \in 1..length}

\* Patterns of letters, dots and wildcards, some also of the other characters.
AllPatterns ==
    PatternsOver({"a", ".", "*", "?"}, 3) \union PatternsOver({"A", "b", "*", "_", "%", "\\", "+"}, 2)

=============================================================================
