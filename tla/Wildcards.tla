----------------------------- MODULE Wildcards ------------------------------
(***************************************************************************)
(* Search patterns.  Texts are sequences of characters; in a pattern the   *)
(* characters "*" and "?" are wildcards.  The code turns a pattern into a  *)
(* LIKE pattern (SQL stores) or into a regular expression (memory store)   *)
(* and leaves the matching to the database or to package regexp.  Neither  *)
(* translation takes away the meaning that other characters have there.    *)
(*                                                                         *)
(* A translated pattern is a sequence of elements: a character, "one" (any *)
(* character) or "any" (any run of characters), possibly optional.         *)
(***************************************************************************)
EXTENDS Sequences, SequencesExt, Integers

CONSTANTS
    Characters,  \* the characters of texts and patterns
    Lower        \* [Characters -> the character in lower case]

\* The operators of package regexp that compileGlob leaves in an expression.
Operators == {"+", "(", ")", "[", "]", "{", "}", "|", "^", "$", "\\"}

\* The characters of LIKE that patternToSQL leaves in a pattern.
LikeCharacters == {"%", "_", "\\"}

\* The characters the code writes or looks for are among them, the two marks are
\* not; letters have a lower case, the others are their own.
ASSUME CharactersAssumption ==
    /\ {"*", "?", ".", "-", "%", "_"} \subseteq Characters
    /\ Characters \intersect {"one", "any"} = {}
    /\ Lower \in [Characters -> Characters]
    /\ \A c \in Characters :
           {c, Lower[c]} \intersect ({"*", "?", ".", "-"} \union Operators \union LikeCharacters) # {}
               => Lower[c] = c

\* strings.ToLower
ToLower(s) == [i \in DOMAIN s |-> Lower[s[i]]]

Element(what, optional) == [what |-> what, optional |-> optional]

\* Reach(e, s)[i] are the lengths of the beginnings of the text s that the first
\* i elements of the translated pattern e match.
Reach(e, s) ==
    LET reach[i \in 0..Len(e)] ==
          IF i = 0 THEN {0}
          ELSE LET before == reach[i-1] IN
               {j \in 0..Len(s) :
                   \/ e[i].what = "any" /\ \E k \in before : k <= j
                   \/ e[i].what # "any" /\ j > 0 /\ e[i].what \in {"one", s[j]} /\ j - 1 \in before
                   \/ e[i].optional /\ j \in before}
    IN  reach

\* What LIKE and regexp do: the whole pattern matches the whole text.
MatchString(e, s) == Len(s) \in Reach(e, s)[Len(e)]

\* "*" becomes %, "?" becomes _; nothing is escaped.
PatternToSQL(p) ==
    [i \in DOMAIN p |-> CASE p[i] = "*" -> "%" [] p[i] = "?" -> "_" [] OTHER -> p[i]]

\* The character at i follows a backslash that is not itself escaped: the run of
\* backslashes before it is odd.
Escaped(q, i) ==
    \E k \in 1..(i-1) :
        /\ (i - k) % 2 = 1
        /\ \A j \in k..(i-1) : q[j] = "\\"
        /\ k > 1 => q[k-1] # "\\"

EndsInEscape(q) == q # <<>> /\ q[Len(q)] = "\\" /\ ~Escaped(q, Len(q))

\* The operator LIKE of the databases: % stands for any run, _ for a character, and
\* a backslash takes the meaning from the character behind it.
Like(q) ==
    LET At(i) == CASE Escaped(q, i)                  -> <<Element(q[i], FALSE)>>
                   [] ~Escaped(q, i) /\ q[i] = "%"   -> <<Element("any", FALSE)>>
                   [] ~Escaped(q, i) /\ q[i] = "_"   -> <<Element("one", FALSE)>>
                   [] ~Escaped(q, i) /\ q[i] = "\\" /\ i < Len(q) -> <<>>
                   [] OTHER                          -> <<Element(q[i], FALSE)>>
    IN  FlattenSeq([i \in DOMAIN q |-> At(i)])

\* Mutant: dots are not escaped.
CompileGlob_Dots(p) ==
    [i \in DOMAIN p |-> Element(CASE p[i] = "*" -> "any" [] p[i] = "." -> "one" [] OTHER -> p[i], FALSE)]

\* compileGlob: dots are escaped and "*" becomes .*; a "?" stays as it is and
\* makes what stands before it optional, at the start of the pattern the ^.  This
\* is the expression of a pattern without Operators.
CompileGlob(p) ==
    LET At(i) == IF p[i] = "?" THEN <<>>
                 ELSE <<Element(IF p[i] = "*" THEN "any" ELSE p[i], i < Len(p) /\ p[i+1] = "?")>>
        start == IF p # <<>> /\ p[1] = "?" THEN <<Element("any", FALSE)>> ELSE <<>>
    IN  start \o FlattenSeq([i \in DOMAIN p |-> At(i)])

\* A pattern without Operators compiles unless it repeats a repetition: a?? and .*?
\* are lazy forms, another "?" after them is an error.
Compiles(p) ==
    \A i \in 1..(Len(p) - 2) :
        ~(p[i] \in {"*", "?"} /\ p[i+1] = "?" /\ p[i+2] = "?")

\* What the domain search of the memory store does before compileGlob: "*"
\* becomes .* and "?" becomes a dot (which compileGlob then escapes).
RewriteDomainPattern(p) ==
    FlattenSeq([i \in DOMAIN p |->
        CASE p[i] = "*" -> <<".", "*">> [] p[i] = "?" -> <<".">> [] OTHER -> <<p[i]>>])

-----------------------------------------------------------------------------

\* The meaning of a pattern, "*" (any run) and "?" (single char) (memory.go:476):
\* the text can be cut so that each piece is what its character asks for.
Means(p, s) ==
    \E cut \in [0..Len(p) -> 0..Len(s)] :
        /\ cut[0] = 0 /\ cut[Len(p)] = Len(s)
        /\ \A i \in DOMAIN p :
             IF p[i] = "*" THEN cut[i-1] <= cut[i]
             ELSE cut[i] = cut[i-1] + 1 /\ p[i] \in {"?", s[cut[i]]}

=============================================================================
