--------------------------- MODULE MCDomainLookup ---------------------------
(***************************************************************************)
(* Small instances of DomainLookup: one domain, two entities, one          *)
(* nameserver, and the committed states below.  A and B are before and     *)
(* after a transfer that also rewrites the contact data (so that no mix of *)
(* the two is itself a committed state), C has an admin contact that was   *)
(* deleted (a schema without foreign keys, or a view), D a NULL            *)
(* expires_at, E no domain at all.                                         *)
(***************************************************************************)
EXTENDS DomainLookup

CONSTANTS r1, r2, n1, h1, h2, v1, v2, ns1, g1, g2

Row(registrant, admin, glue, expires) ==
    [contacts    |-> [role \in Roles |-> IF role = "registrant" THEN registrant ELSE admin],
     registrar   |-> admin,
     nameservers |-> [ns \in {ns1} |-> glue],
     expires     |-> expires]

State(row1, c1, c2, glue) ==
    [domains     |-> [n \in {n1} |-> row1],
     entities    |-> [h \in {h1, h2} |-> IF h = h1 THEN c1 ELSE c2],
     nameservers |-> [ns \in {ns1} |-> glue]]

A == State(Row(h1, h1, g1, TRUE), v1, v1, g1)
B == State(Row(h2, h1, g2, TRUE), v2, v2, g2)
C == State(Row(h1, h2, g1, TRUE), v1, NoRow, g2)
D == State(Row(h1, NoHandle, NoRow, FALSE), v1, NoRow, g1)
E == State(NoRow, v2, NoRow, NoRow)

MCStates == {A, B, C, D, E}

=============================================================================
