---------------------------- MODULE AtomicLookup ----------------------------
(***************************************************************************)
(* What store.Interface promises of GetDomainAggregate, as its callers see *)
(* it: between the request and the answer the whole database is looked at  *)
(* once, and the answer is rendered from what was seen at that moment.  A  *)
(* request may also be answered "not found" because something failed.      *)
(* With MySQL, entities may be missing from the answer although their rows *)
(* exist (the MySQL store drops a contact whose statement fails).          *)
(***************************************************************************)
EXTENDS RegistryData

CONSTANTS Readers, Drivers

VARIABLES
    driver,   \* storage.driver
    db,       \* the committed state of the database
    query,    \* [Readers -> the name and protocol asked for, or NoQuery]
    view,     \* [Readers -> the database as the request saw it, or NoView]
    answer    \* [Readers -> the answer given last]

avars == <<driver, db, query, view, answer>>

AInit ==
    /\ driver \in Drivers
    /\ db \in DBStates
    /\ query = [r \in Readers |-> NoQuery]
    /\ view = [r \in Readers |-> NoView]
    /\ answer = [r \in Readers |-> NotFound]

\* The registry commits a transaction of its own.
Commit ==
    /\ driver # "memory"
    /\ db' \in DBStates
    /\ UNCHANGED <<driver, query, view, answer>>

Ask(r) ==
    /\ query[r] = NoQuery
    /\ \E n \in Names, p \in Protocols :
         query' = [query EXCEPT ![r] = [name |-> n, protocol |-> p]]
    /\ view' = [view EXCEPT ![r] = NoView]
    /\ answer' = [answer EXCEPT ![r] = Pending]
    /\ UNCHANGED <<driver, db>>

\* The one moment the request looks at the database.
Look(r) ==
    /\ query[r] # NoQuery /\ view[r] = NoView
    /\ view' = [view EXCEPT ![r] = db]
    /\ UNCHANGED <<driver, db, query, answer>>

\* The answer to q from the store d, to a request that saw v and lost the
\* entities in L.
AnswerFrom(d, v, q, L) ==
    LET row == Record(d, v.domains[q.name])
        found == [h \in Handles |-> IF h \in L THEN NoRow ELSE Resolve(row, v.entities)[h]]
    IN  IF Scannable(d, row) THEN Answer(q.protocol, row, found) ELSE NotFound

\* The answer is rendered from the view, whatever was committed since.
Reply(r) ==
    /\ query[r] # NoQuery /\ view[r] # NoView
    /\ \E L \in SUBSET Handles :
         /\ L # {} => driver = "mysql"
         /\ answer' = [answer EXCEPT ![r] = AnswerFrom(driver, view[r], query[r], L)]
    /\ query' = [query EXCEPT ![r] = NoQuery]
    /\ UNCHANGED <<driver, db, view>>

\* Something failed on the way.
GiveUp(r) ==
    /\ query[r] # NoQuery
    /\ answer' = [answer EXCEPT ![r] = NotFound]
    /\ query' = [query EXCEPT ![r] = NoQuery]
    /\ UNCHANGED <<driver, db, view>>

ANext == Commit \/ \E r \in Readers : Ask(r) \/ Look(r) \/ Reply(r) \/ GiveUp(r)

ASpec == AInit /\ [][ANext]_avars

=============================================================================
