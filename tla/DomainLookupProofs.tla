------------------------- MODULE DomainLookupProofs -------------------------
(***************************************************************************)
(* Theorems about DomainLookup, for every database, every number of        *)
(* requests and every size of the pool.                                    *)
(***************************************************************************)
EXTENDS DomainLookup, FiniteSetTheorems, TLAPS

USE DEF Roles, Protocols

\* The marker for "nothing read yet" is no state of the database.
LEMMA NoViewIsNoState == \A s \in DBStates : s # NoView
<1> SUFFICES ASSUME NEW s \in DBStates, s = NoView PROVE FALSE
  OBVIOUS
<1>1. s \in Databases
  BY DataAssumption
<1>2. DOMAIN s = {"domains", "entities", "nameservers"}
  BY <1>1 DEF Databases
<1>3. DOMAIN NoView = {"domains"}
  BY DEF NoView
<1> QED
  BY <1>2, <1>3

\* What is asked for is never the marker for "no query".
LEMMA QueryIsNotNone == \A q \in [name : Names, protocol : Protocols] : q # NoQuery
BY DEF NoQuery

\* The fields of a committed state have their types.
LEMMA StateFields ==
    ASSUME NEW s \in DBStates
    PROVE  /\ s.entities \in [Handles -> VCards \union {NoRow}]
           /\ \A n \in Names : s.domains[n] \in DomainRows \union {NoRow}
BY DataAssumption DEF Databases

\* A row only names entities and nameservers that have a handle.
LEMMA RowReferences ==
    ASSUME NEW w \in DomainRows
    PROVE  HandlesOf(w) \subseteq Handles /\ NameserversOf(w) \subseteq Nameservers
BY DEF DomainRows, HandlesOf, NameserversOf

\* Scanning changes the registrar of a row and nothing else.
LEMMA RecordOf ==
    ASSUME NEW d, NEW w \in DomainRows \union {NoRow}
    PROVE  /\ Record(d, w) \in DomainRows \union {NoRow}
           /\ Record(d, w) = NoRow <=> w = NoRow
<1>1. CASE d = "memory" \/ w = NoRow
  BY <1>1 DEF Record
<1>2. CASE ~(d = "memory" \/ w = NoRow)
  <2>1. w \in DomainRows /\ w.contacts["registrant"] \in Handles \union {NoHandle}
    BY <1>2 DEF DomainRows
  <2>2. Record(d, w) \in DomainRows
    BY <1>2, <2>1 DEF Record, DomainRows
  <2> QED
    BY <1>2, <2>2, DataAssumption
<1> QED
  BY <1>1, <1>2

\* The store is chosen once, at start-up.
LEMMA DriverFixed == [Next]_vars => driver' = driver
BY DEF Next, vars, poolVars, Store, Fault, RegistryCommits, Request, MemoryAggregate, Begin,
       SetIsolation, ReadDomain, ReadContact, ReadNameserver, CommitTx, BeginFails,
       StatementFails, ContactFails, NameserverFails, ConnectionLost, Respond

-----------------------------------------------------------------------------
(* Type correctness.                                                       *)

\* A request under way asks for a name.
LEMMA QueryUnderWay ==
    ASSUME RequestType, NEW r \in Readers, pc[r] # "idle"
    PROVE  query[r] \in [name : Names, protocol : Protocols] /\ query[r].name \in Names
BY DEF RequestType, Queries

LEMMA InitType == Init => TypeOK
<1> SUFFICES ASSUME Init PROVE TypeOK
  OBVIOUS
<1>1. PoolType
  BY MaxOpenAssumption DEF Init, PoolType
<1>2. RequestType
  BY DEF Init, RequestType, Locations, Queries
<1>3. TxType
  BY DEF Init, TxType
<1>4. AggregateType
  BY DEF Init, AggregateType, NothingFound
<1> QED
  BY <1>1, <1>2, <1>3, <1>4 DEF TypeOK

LEMMA NextType == TypeOK /\ [Next]_vars => TypeOK'
<1> SUFFICES ASSUME TypeOK, [Next]_vars PROVE TypeOK'
  OBVIOUS
<1> USE DEF TypeOK
<1>1. CASE UNCHANGED vars
  BY <1>1 DEF vars, PoolType, RequestType, TxType, AggregateType
<1>2. CASE RegistryCommits
  BY <1>2 DEF RegistryCommits, txVars, aggVars, PoolType, RequestType, TxType, AggregateType
<1>3. ASSUME NEW r \in Readers, Request(r) PROVE TypeOK'
  <2>1. PoolType'
    BY <1>3 DEF Request, poolVars, aggVars, PoolType
  <2>2. RequestType'
    <3>1. PICK n \in Names, p \in Protocols :
            query' = [query EXCEPT ![r] = [name |-> n, protocol |-> p]]
      BY <1>3 DEF Request
    <3>2. /\ [name |-> n, protocol |-> p] \in [name : Names, protocol : Protocols]
          /\ [name |-> n, protocol |-> p] # NoQuery
      BY QueryIsNotNone
    <3> QED
      BY <1>3, <3>1, <3>2 DEF Request, RequestType, Locations, Queries
  <2>3. TxType'
    BY <1>3 DEF Request, poolVars, aggVars, TxType
  <2>4. AggregateType'
    BY <1>3 DEF Request, poolVars, aggVars, AggregateType
  <2> QED
    BY <2>1, <2>2, <2>3, <2>4
<1>4. ASSUME NEW r \in Readers, MemoryAggregate(r) PROVE TypeOK'
  <2>1. PoolType'
    BY <1>4 DEF MemoryAggregate, poolVars, PoolType
  <2>2. RequestType'
    BY <1>4 DEF MemoryAggregate, poolVars, RequestType, Locations
  <2>3. TxType'
    BY <1>4 DEF MemoryAggregate, TxType, PoolType
  <2>4. AggregateType'
    <3> DEFINE record == Record(driver, db.domains[query[r].name])
    <3>1. record \in DomainRows \union {NoRow} /\ db.entities \in [Handles -> VCards \union {NoRow}]
      BY <1>4, QueryUnderWay, StateFields, RecordOf DEF MemoryAggregate, PoolType
    <3>2. Resolve(record, db.entities) \in [Handles -> VCards \union {NoRow}]
      BY <3>1 DEF Resolve
    <3> QED
      BY <1>4, <3>1, <3>2 DEF MemoryAggregate, AggregateType
  <2> QED
    BY <2>1, <2>2, <2>3, <2>4
<1>5. ASSUME NEW r \in Readers, Begin(r) PROVE TypeOK'
  <2>1. PoolType'
    <3>1. driver' = driver /\ db' = db /\ free > 0 /\ free' = free - 1
      BY <1>5 DEF Begin
    <3> QED
      BY <3>1 DEF PoolType
  <2>2. RequestType'
    BY <1>5 DEF Begin, aggVars, RequestType, Locations
  <2>3. TxType'
    BY <1>5 DEF Begin, aggVars, TxType
  <2>4. AggregateType'
    BY <1>5 DEF Begin, aggVars, AggregateType
  <2> QED
    BY <2>1, <2>2, <2>3, <2>4
<1>6. ASSUME NEW r \in Readers, SetIsolation(r) PROVE TypeOK'
  <2>1. PoolType'
    BY <1>6 DEF SetIsolation, poolVars, aggVars, PoolType
  <2>2. RequestType'
    BY <1>6 DEF SetIsolation, poolVars, aggVars, RequestType, Locations
  <2>3. TxType'
    BY <1>6 DEF SetIsolation, poolVars, aggVars, TxType
  <2>4. AggregateType'
    BY <1>6 DEF SetIsolation, poolVars, aggVars, AggregateType
  <2> QED
    BY <2>1, <2>2, <2>3, <2>4
<1>7. ASSUME NEW r \in Readers, ReadDomain(r) PROVE TypeOK'
  <2>1. PoolType'
    BY <1>7 DEF ReadDomain, Release, PoolType
  <2>2. RequestType'
    BY <1>7 DEF ReadDomain, Release, RequestType, Locations
  <2>3. TxType'
    BY <1>7 DEF ReadDomain, Release, TxType, PoolType
  <2>4. AggregateType'
    <3> DEFINE record == Record(driver, db.domains[query[r].name])
    <3>1. record \in DomainRows \union {NoRow}
      BY <1>7, QueryUnderWay, StateFields, RecordOf DEF ReadDomain, PoolType
    <3>2. CASE Scannable(driver, record)
      <4>1. record \in DomainRows
        BY <3>1, <3>2 DEF Scannable
      <4>2. HandlesOf(record) \subseteq Handles /\ NameserversOf(record) \subseteq Nameservers
        BY <4>1, RowReferences
      <4>3. /\ row' = [row EXCEPT ![r] = record] /\ found' = found
            /\ todo' = [todo EXCEPT ![r] = HandlesOf(record)]
            /\ todoNS' = [todoNS EXCEPT ![r] = NameserversOf(record)]
        BY <1>7, <3>2 DEF ReadDomain
      <4> HIDE DEF record
      <4> QED
        BY <4>1, <4>2, <4>3 DEF AggregateType
    <3>3. CASE ~Scannable(driver, record)
      BY <1>7, <3>3 DEF ReadDomain, AggregateType
    <3> QED
      BY <3>2, <3>3
  <2> QED
    BY <2>1, <2>2, <2>3, <2>4
<1>8. ASSUME NEW r \in Readers, ReadContact(r) PROVE TypeOK'
  <2>1. PoolType'
    BY <1>8 DEF ReadContact, poolVars, txVars, PoolType
  <2>2. RequestType'
    BY <1>8 DEF ReadContact, poolVars, txVars, RequestType, Locations
  <2>3. TxType'
    BY <1>8 DEF ReadContact, poolVars, txVars, TxType
  <2>4. AggregateType'
    <3>1. PICK h \in todo[r] :
             /\ todo' = [todo EXCEPT ![r] = @ \ {h}]
             /\ found' = [found EXCEPT ![r][h] =
                            IF tx[r] = "open" THEN ReadView(r).entities[h] ELSE NoRow]
      BY <1>8 DEF ReadContact
    <3>2. h \in Handles
      BY DEF AggregateType
    <3>3. ReadView(r) \in DBStates
      BY DEF ReadView, PoolType, TxType
    <3>4. ReadView(r).entities[h] \in VCards \union {NoRow}
      BY <3>2, <3>3, StateFields
    <3>5. found' \in [Readers -> [Handles -> VCards \union {NoRow}]]
      BY <3>1, <3>2, <3>4 DEF AggregateType
    <3> QED
      BY <1>8, <3>1, <3>5 DEF ReadContact, AggregateType
  <2> QED
    BY <2>1, <2>2, <2>3, <2>4
<1>9. ASSUME NEW r \in Readers, ReadNameserver(r) PROVE TypeOK'
  <2>1. PoolType'
    BY <1>9 DEF ReadNameserver, poolVars, txVars, PoolType
  <2>2. RequestType'
    BY <1>9 DEF ReadNameserver, poolVars, txVars, RequestType, Locations
  <2>3. TxType'
    BY <1>9 DEF ReadNameserver, poolVars, txVars, TxType
  <2>4. AggregateType'
    BY <1>9 DEF ReadNameserver, poolVars, txVars, AggregateType
  <2> QED
    BY <2>1, <2>2, <2>3, <2>4
<1>10. ASSUME NEW r \in Readers, CommitTx(r) PROVE TypeOK'
  <2>1. PoolType'
    BY <1>10 DEF CommitTx, Release, aggVars, PoolType
  <2>2. RequestType'
    BY <1>10 DEF CommitTx, Release, aggVars, RequestType, Locations
  <2>3. TxType'
    BY <1>10 DEF CommitTx, Release, aggVars, TxType
  <2>4. AggregateType'
    BY <1>10 DEF CommitTx, Release, aggVars, AggregateType
  <2> QED
    BY <2>1, <2>2, <2>3, <2>4
<1>11. ASSUME NEW r \in Readers, BeginFails(r) PROVE TypeOK'
  <2>1. PoolType'
    BY <1>11 DEF BeginFails, poolVars, txVars, aggVars, PoolType
  <2>2. RequestType'
    BY <1>11 DEF BeginFails, poolVars, txVars, aggVars, RequestType, Locations
  <2>3. TxType'
    BY <1>11 DEF BeginFails, poolVars, txVars, aggVars, TxType
  <2>4. AggregateType'
    BY <1>11 DEF BeginFails, poolVars, txVars, aggVars, AggregateType
  <2> QED
    BY <2>1, <2>2, <2>3, <2>4
<1>12. ASSUME NEW r \in Readers, StatementFails(r) PROVE TypeOK'
  <2>1. PoolType'
    BY <1>12 DEF StatementFails, Release, aggVars, PoolType
  <2>2. RequestType'
    BY <1>12 DEF StatementFails, Release, aggVars, RequestType, Locations
  <2>3. TxType'
    BY <1>12 DEF StatementFails, Release, aggVars, TxType
  <2>4. AggregateType'
    BY <1>12 DEF StatementFails, Release, aggVars, AggregateType
  <2> QED
    BY <2>1, <2>2, <2>3, <2>4
<1>13. ASSUME NEW r \in Readers, ContactFails(r) PROVE TypeOK'
  <2>1. PoolType'
    BY <1>13 DEF ContactFails, AfterRefusal, poolVars, PoolType
  <2>2. RequestType'
    BY <1>13 DEF ContactFails, AfterRefusal, poolVars, RequestType, Locations
  <2>3. TxType'
    BY <1>13 DEF ContactFails, AfterRefusal, poolVars, TxType
  <2>4. AggregateType'
    BY <1>13 DEF ContactFails, AfterRefusal, poolVars, AggregateType
  <2> QED
    BY <2>1, <2>2, <2>3, <2>4
<1>14. ASSUME NEW r \in Readers, NameserverFails(r) PROVE TypeOK'
  <2>1. PoolType'
    BY <1>14 DEF NameserverFails, AfterRefusal, poolVars, PoolType
  <2>2. RequestType'
    BY <1>14 DEF NameserverFails, AfterRefusal, poolVars, RequestType, Locations
  <2>3. TxType'
    BY <1>14 DEF NameserverFails, AfterRefusal, poolVars, TxType
  <2>4. AggregateType'
    BY <1>14 DEF NameserverFails, AfterRefusal, poolVars, AggregateType
  <2> QED
    BY <2>1, <2>2, <2>3, <2>4
<1>15. ASSUME NEW r \in Readers, ConnectionLost(r) PROVE TypeOK'
  <2>1. PoolType'
    BY <1>15 DEF ConnectionLost, poolVars, aggVars, PoolType
  <2>2. RequestType'
    BY <1>15 DEF ConnectionLost, poolVars, aggVars, RequestType, Locations
  <2>3. TxType'
    BY <1>15 DEF ConnectionLost, poolVars, aggVars, TxType
  <2>4. AggregateType'
    BY <1>15 DEF ConnectionLost, poolVars, aggVars, AggregateType
  <2> QED
    BY <2>1, <2>2, <2>3, <2>4
<1>16. ASSUME NEW r \in Readers, Respond(r) PROVE TypeOK'
  <2>1. PoolType'
    BY <1>16 DEF Respond, poolVars, txVars, PoolType
  <2>2. RequestType'
    BY <1>16 DEF Respond, poolVars, txVars, RequestType, Locations
  <2>3. TxType'
    BY <1>16 DEF Respond, poolVars, txVars, TxType
  <2>4. AggregateType'
    BY <1>16 DEF Respond, poolVars, txVars, AggregateType, NothingFound
  <2> QED
    BY <2>1, <2>2, <2>3, <2>4
<1> QED
  BY <1>1, <1>2, <1>3, <1>4, <1>5, <1>6, <1>7, <1>8, <1>9, <1>10, <1>11,
     <1>12, <1>13, <1>14, <1>15, <1>16 DEF Next, Store, Fault

\* Every reachable state is well typed.
THEOREM TypeCorrect == Spec => []TypeOK
BY InitType, NextType, PTL DEF Spec

-----------------------------------------------------------------------------
(* The invariant Inv: an aggregate under construction holds, of every      *)
(* entity looked up, what the snapshot has of it.                          *)

\* A request is not disturbed by the steps of others, nor by commits.
LEMMA ReaderFrame ==
    ASSUME NEW q \in Readers, ReaderInv(q), driver' = driver,
           pc'[q] = pc[q], query'[q] = query[q], tx'[q] = tx[q],
           isolation'[q] = isolation[q], snapshot'[q] = snapshot[q], row'[q] = row[q],
           todo'[q] = todo[q], found'[q] = found[q], answer'[q] = answer[q]
    PROVE  ReaderInv(q)'
<1>1. Untouched(q)' <=> Untouched(q)
  BY DEF Untouched, NothingFound
<1>2. AnswerOf(q)' <=> AnswerOf(q)
  BY DEF AnswerOf, RowSeen, Scannable, NoQuery, Atomic!AnswerFrom
<1>3. AggregateOf(q)' <=> AggregateOf(q)
  BY DEF AggregateOf, ContactsOf, RowSeen, Scannable, HandlesOf
<1>4. Resolve(row[q], snapshot[q].entities)' = Resolve(row[q], snapshot[q].entities)
  BY DEF Resolve, HandlesOf
<1> QED
  BY <1>1, <1>2, <1>3, <1>4 DEF ReaderInv, NoView, NotFound

\* ... nor are the contacts it has found by the end of its transaction.
LEMMA ContactsStay ==
    ASSUME NEW r, ContactsOf(r), driver' = driver, pc' = pc, row' = row, todo' = todo,
           found' = found, snapshot' = snapshot, tx'[r] = tx[r] \/ tx'[r] = "lost"
    PROVE  ContactsOf(r)'
<1>1. HandlesOf(row[r])' = HandlesOf(row[r])
  BY DEF HandlesOf
<1>2. tx[r] # "open" => tx'[r] # "open"
  OBVIOUS
<1> QED
  BY <1>1, <1>2 DEF ContactsOf

\* What a reader has of its snapshot when a step takes no new row.
LEMMA AggregateStays ==
    ASSUME NEW r, AggregateOf(r), ContactsOf(r)', todo'[r] \subseteq todo[r],
           driver' = driver, row' = row, snapshot' = snapshot, query' = query
    PROVE  AggregateOf(r)'
<1>1. RowSeen(r)' = RowSeen(r) /\ HandlesOf(row[r])' = HandlesOf(row[r])
  BY DEF RowSeen, HandlesOf
<1>2. Scannable(driver, RowSeen(r))' = Scannable(driver, RowSeen(r))
  BY <1>1 DEF Scannable
<1> QED
  BY <1>1, <1>2 DEF AggregateOf

\* The abstract specification composes answers with the same operators.
LEMMA SameAnswer ==
    ASSUME NEW p, NEW w, NEW c
    PROVE  Atomic!Answer(p, w, c) = Answer(p, w, c)
BY DEF Answer, DomainToRDAP, DomainToWhois, RegistrantEntity, Card, Resolved,
       Atomic!Answer, Atomic!DomainToRDAP, Atomic!DomainToWhois, Atomic!RegistrantEntity,
       Atomic!Card, Atomic!Resolved, Atomic!Roles

LEMMA SameRow ==
    ASSUME NEW d, NEW w, NEW e
    PROVE  /\ Atomic!Scannable(d, w) <=> Scannable(d, w)
           /\ Atomic!Record(d, w) = Record(d, w)
           /\ Atomic!Resolve(w, e) = Resolve(w, e)
BY DEF Scannable, Record, Resolve, HandlesOf,
       Atomic!Scannable, Atomic!Record, Atomic!Resolve, Atomic!HandlesOf, Atomic!Roles

LEMMA SameMarkers ==
    /\ Atomic!NotFound = NotFound /\ Atomic!Pending = Pending
    /\ Atomic!NoQuery = NoQuery /\ Atomic!NoView = NoView
    /\ Atomic!Protocols = Protocols
BY DEF NotFound, Pending, NoQuery, NoView,
       Atomic!NotFound, Atomic!Pending, Atomic!NoQuery, Atomic!NoView, Atomic!Protocols

\* The contacts of a finished aggregate give the answer of the abstract
\* specification for the snapshot they were read from.
LEMMA RenderedAnswer ==
    ASSUME TypeOK, NEW r \in Readers, pc[r] = "render", ReaderInv(r)
    PROVE  \E L \in SUBSET Handles :
             /\ L # {} => driver = "mysql"
             /\ Answer(query[r].protocol, row[r], found[r])
                  = Atomic!AnswerFrom(driver, snapshot[r], query[r], L)
<1>1. AggregateOf(r) /\ todo[r] = {}
  BY DEF ReaderInv
<1>2. found[r] \in [Handles -> VCards \union {NoRow}]
  BY DEF TypeOK, AggregateType
<1>3. CASE driver = "mysql"
  <2> DEFINE L == {h \in Handles : found[r][h] = NoRow}
  <2> DEFINE shown == [h \in Handles |->
                         IF h \in L THEN NoRow ELSE Resolve(row[r], snapshot[r].entities)[h]]
  <2>1. ASSUME NEW h \in Handles PROVE found[r][h] = shown[h]
    BY <1>1 DEF AggregateOf, ContactsOf, Resolve
  <2>2. found[r] = shown
    BY <1>2, <2>1
  <2>3. Atomic!AnswerFrom(driver, snapshot[r], query[r], L) = Answer(query[r].protocol, row[r], shown)
    <3>1. Record(driver, snapshot[r].domains[query[r].name]) = row[r] /\ Scannable(driver, row[r])
      BY <1>1 DEF AggregateOf, RowSeen
    <3>2. Atomic!Resolve(row[r], snapshot[r].entities) = Resolve(row[r], snapshot[r].entities)
      BY SameRow
    <3> QED
      BY <3>1, <3>2, SameAnswer, SameRow DEF Atomic!AnswerFrom
  <2> QED
    BY <1>3, <2>2, <2>3
<1>4. CASE driver # "mysql"
  <2> DEFINE shown == [h \in Handles |->
                         IF h \in {} THEN NoRow ELSE Resolve(row[r], snapshot[r].entities)[h]]
  <2>1. ASSUME NEW h \in Handles PROVE found[r][h] = shown[h]
    BY <1>1, <1>4, DriversAssumption DEF TypeOK, PoolType, AllDrivers, ReaderInv, AggregateOf, ContactsOf, Resolve
  <2>2. found[r] = shown
    BY <1>2, <2>1
  <2>3. Atomic!AnswerFrom(driver, snapshot[r], query[r], {}) = Answer(query[r].protocol, row[r], shown)
    <3>1. Record(driver, snapshot[r].domains[query[r].name]) = row[r] /\ Scannable(driver, row[r])
      BY <1>1 DEF AggregateOf, RowSeen
    <3>2. Atomic!Resolve(row[r], snapshot[r].entities) = Resolve(row[r], snapshot[r].entities)
      BY SameRow
    <3> QED
      BY <3>1, <3>2, SameAnswer, SameRow DEF Atomic!AnswerFrom
  <2> QED
    BY <2>2, <2>3
<1> QED
  BY <1>3, <1>4

LEMMA InitInv == Init => Inv
<1> SUFFICES ASSUME Init, NEW r \in Readers PROVE ReaderInv(r)
  BY DEF Inv
<1>1. pc[r] = "idle" /\ Untouched(r) /\ answer[r] = NotFound
  BY DEF Init, Untouched
<1> QED
  BY <1>1 DEF ReaderInv

LEMMA NextInv == TypeOK /\ Inv /\ [Next]_vars => Inv'
<1> SUFFICES ASSUME TypeOK, Inv, [Next]_vars PROVE Inv'
  OBVIOUS
<1>0. driver' = driver
  BY DriverFixed
<1> USE <1>0
<1>1. CASE UNCHANGED vars
  BY <1>1, ReaderFrame DEF vars, Inv
<1>2. CASE RegistryCommits
  BY <1>2, ReaderFrame DEF RegistryCommits, txVars, aggVars, Inv
<1>3. ASSUME NEW r \in Readers, Request(r) PROVE Inv'
  <2>1. ASSUME NEW q \in Readers \ {r} PROVE ReaderInv(q)'
    BY <1>3, ReaderFrame DEF Request, poolVars, aggVars, Inv, TypeOK, RequestType, TxType, AggregateType
  <2>2. ReaderInv(r)'
    <3>1. /\ pc[r] = "idle" /\ snapshot'[r] = NoView
          /\ pc'[r] = (IF driver = "memory" THEN "locked" ELSE "begin")
          /\ row' = row /\ found' = found /\ todo' = todo
      BY <1>3 DEF Request, aggVars, TypeOK, RequestType, TxType
    <3>2. Untouched(r)'
      BY <3>1 DEF Inv, ReaderInv, Untouched, NothingFound
    <3> QED
      BY <3>1, <3>2 DEF ReaderInv, NoView
  <2> QED
    BY <2>1, <2>2 DEF Inv
<1>4. ASSUME NEW r \in Readers, MemoryAggregate(r) PROVE Inv'
  <2>1. ASSUME NEW q \in Readers \ {r} PROVE ReaderInv(q)'
    BY <1>4, ReaderFrame DEF MemoryAggregate, poolVars, Inv, TypeOK, RequestType, TxType, AggregateType
  <2>2. ReaderInv(r)'
    <3> DEFINE record == Record(driver, db.domains[query[r].name])
    <3>1. pc[r] = "locked" /\ Untouched(r) /\ driver = "memory"
      BY <1>4 DEF MemoryAggregate, Inv, ReaderInv
    <3>2. CASE Scannable(driver, record)
      <4>1. /\ row'[r] = record /\ snapshot'[r] = db /\ pc'[r] = "render"
            /\ found'[r] = Resolve(record, db.entities) /\ todo'[r] = {} /\ query' = query
        BY <1>4, <3>1, <3>2 DEF MemoryAggregate, TypeOK, RequestType, TxType, AggregateType, Untouched
      <4>2. \A h \in Handles : found'[r][h] =
              IF h \in HandlesOf(record) THEN db.entities[h] ELSE NoRow
        BY <4>1 DEF Resolve
      <4>3. AggregateOf(r)'
        <5>1. /\ driver' = driver /\ db \in DBStates
          BY <1>4 DEF MemoryAggregate, poolVars, TypeOK, PoolType
        <5>2. RowSeen(r)' = record /\ row'[r] = record
          BY <4>1, <5>1 DEF RowSeen
        <5>3. Scannable(driver, RowSeen(r))'
          BY <3>2, <5>1, <5>2 DEF Scannable
        <5>4. HandlesOf(row[r])' = HandlesOf(record)
          BY <4>1 DEF HandlesOf
        <5>5. ContactsOf(r)'
          BY <4>1, <4>2, <5>4 DEF ContactsOf
        <5> QED
          BY <4>1, <5>1, <5>2, <5>3, <5>4, <5>5 DEF AggregateOf
      <4>4. Resolve(row[r], snapshot[r].entities)' = Resolve(record, db.entities)
        <5>1. HandlesOf(row[r])' = HandlesOf(record)
          BY <4>1 DEF HandlesOf
        <5> QED
          BY <4>1, <5>1 DEF Resolve
      <4> QED
        BY <4>1, <4>3, <4>4 DEF ReaderInv
    <3>3. CASE ~Scannable(driver, record)
      BY <1>4, <3>3 DEF MemoryAggregate, TypeOK, RequestType, ReaderInv
    <3> QED
      BY <3>2, <3>3
  <2> QED
    BY <2>1, <2>2 DEF Inv
<1>5. ASSUME NEW r \in Readers, Begin(r) PROVE Inv'
  <2>1. ASSUME NEW q \in Readers \ {r} PROVE ReaderInv(q)'
    BY <1>5, ReaderFrame DEF Begin, aggVars, Inv, TypeOK, RequestType, TxType, AggregateType
  <2>2. ReaderInv(r)'
    <3>1. Untouched(r)' /\ snapshot'[r] = NoView /\ driver # "memory"
      BY <1>5 DEF Begin, aggVars, Inv, ReaderInv, Untouched, NothingFound
    <3>2. /\ pc'[r] = IF driver = "mysql" THEN "domain" ELSE "isolation"
          /\ pc'[r] = "domain" => isolation'[r] = "repeatable read"
          /\ tx'[r] = "open"
      BY <1>5 DEF Begin, aggVars, Inv, ReaderInv, TypeOK, RequestType, TxType
    <3> QED
      BY <3>1, <3>2 DEF ReaderInv, NoView
  <2> QED
    BY <2>1, <2>2 DEF Inv
<1>6. ASSUME NEW r \in Readers, SetIsolation(r) PROVE Inv'
  <2>1. ASSUME NEW q \in Readers \ {r} PROVE ReaderInv(q)'
    BY <1>6, ReaderFrame DEF SetIsolation, poolVars, aggVars, Inv, TypeOK, RequestType, TxType, AggregateType
  <2>2. ReaderInv(r)'
    <3>1. Untouched(r)' /\ snapshot'[r] = NoView /\ driver # "memory"
      BY <1>6 DEF SetIsolation, poolVars, aggVars, Inv, ReaderInv, Untouched, NothingFound
    <3>2. /\ pc'[r] = "domain"
          /\ pc'[r] = "domain" => isolation'[r] = "repeatable read"
          /\ tx'[r] = "open"
      BY <1>6 DEF SetIsolation, poolVars, aggVars, Inv, ReaderInv, TypeOK, RequestType, TxType
    <3> QED
      BY <3>1, <3>2 DEF ReaderInv, NoView
  <2> QED
    BY <2>1, <2>2 DEF Inv
<1>7. ASSUME NEW r \in Readers, ReadDomain(r) PROVE Inv'
  <2>1. ASSUME NEW q \in Readers \ {r} PROVE ReaderInv(q)'
    <3>1. /\ pc'[q] = pc[q] /\ tx'[q] = tx[q] /\ snapshot'[q] = snapshot[q]
          /\ row'[q] = row[q] /\ todo'[q] = todo[q]
      <4> DEFINE record == Record(driver, db.domains[query[r].name])
      <4>1. snapshot'[q] = snapshot[q]
        BY <1>7 DEF ReadDomain, TypeOK, TxType
      <4>2. CASE Scannable(driver, record)
        <5>1. /\ row' = [row EXCEPT ![r] = record]
              /\ todo' = [todo EXCEPT ![r] = HandlesOf(record)]
              /\ pc' = [pc EXCEPT ![r] = "related"]
              /\ tx' = tx
          BY <1>7, <4>2 DEF ReadDomain
        <5> QED
          BY <4>1, <5>1 DEF TypeOK, RequestType, AggregateType
      <4>3. CASE ~Scannable(driver, record)
        <5>1. /\ pc' = [pc EXCEPT ![r] = "error"] /\ row' = row /\ todo' = todo
              /\ tx'[q] = tx[q]
          BY <1>7, <4>3 DEF ReadDomain, Release, TypeOK, TxType
        <5> QED
          BY <4>1, <5>1 DEF TypeOK, RequestType
      <4> QED
        BY <4>2, <4>3
    <3>2. query' = query /\ isolation' = isolation /\ found' = found /\ answer' = answer
      BY <1>7 DEF ReadDomain
    <3> QED
      BY <3>1, <3>2, ReaderFrame DEF Inv
  <2>2. ReaderInv(r)'
    <3> DEFINE record == Record(driver, db.domains[query[r].name])
    <3>1. Untouched(r) /\ driver # "memory" /\ isolation[r] = "repeatable read"
      BY <1>7 DEF ReadDomain, Inv, ReaderInv
    <3>2. CASE Scannable(driver, record)
      <4>1. /\ row'[r] = record /\ snapshot'[r] = db /\ pc'[r] = "related"
            /\ todo'[r] = HandlesOf(record) /\ found' = found /\ query' = query
            /\ isolation' = isolation
        <5>1. /\ snapshot' = [snapshot EXCEPT ![r] = db]
              /\ row' = [row EXCEPT ![r] = record]
              /\ todo' = [todo EXCEPT ![r] = HandlesOf(record)]
              /\ pc' = [pc EXCEPT ![r] = "related"]
              /\ found' = found /\ query' = query /\ isolation' = isolation
          BY <1>7, <3>2 DEF ReadDomain
        <5> QED
          BY <5>1 DEF TypeOK, RequestType, TxType, AggregateType
      <4>2. \A h \in Handles : found'[r][h] = NoRow
        <5>1. found'[r] = [h \in Handles |-> NoRow]
          BY <3>1, <4>1 DEF Untouched, NothingFound
        <5> QED
          BY <5>1
      <4>3. AggregateOf(r)'
        BY <3>2, <4>1, <4>2
        DEF AggregateOf, ContactsOf, RowSeen, TypeOK, PoolType, HandlesOf, Scannable
      <4> QED
        BY <3>1, <4>1, <4>3 DEF ReaderInv
    <3>3. CASE ~Scannable(driver, record)
      BY <1>7, <3>3 DEF ReadDomain, TypeOK, RequestType, ReaderInv
    <3> QED
      BY <3>2, <3>3
  <2> QED
    BY <2>1, <2>2 DEF Inv
<1>8. ASSUME NEW r \in Readers, ReadContact(r) PROVE Inv'
  <2>1. ASSUME NEW q \in Readers \ {r} PROVE ReaderInv(q)'
    BY <1>8, ReaderFrame DEF ReadContact, poolVars, txVars, Inv, TypeOK, RequestType, TxType, AggregateType
  <2>2. ReaderInv(r)'
    <3>1. PICK h \in todo[r] :
             /\ todo' = [todo EXCEPT ![r] = @ \ {h}]
             /\ found' = [found EXCEPT ![r][h] =
                            IF tx[r] = "open" THEN ReadView(r).entities[h] ELSE NoRow]
      BY <1>8 DEF ReadContact
    <3>2. /\ pc[r] = "related" /\ isolation[r] = "repeatable read"
          /\ AggregateOf(r) /\ driver # "memory"
      BY <1>8 DEF ReadContact, Inv, ReaderInv
    <3>3. ReadView(r) = snapshot[r]
      BY <3>2, NoViewIsNoState DEF ReadView, AggregateOf
    <3>4. h \in Handles /\ h \in HandlesOf(row[r])
      BY <3>2 DEF TypeOK, AggregateType, AggregateOf
    <3>5. /\ found'[r][h] = IF tx[r] = "open" THEN snapshot[r].entities[h] ELSE NoRow
          /\ \A g \in Handles \ {h} : found'[r][g] = found[r][g]
          /\ todo'[r] = todo[r] \ {h}
      BY <3>1, <3>3, <3>4 DEF TypeOK, AggregateType
    <3>6. /\ pc' = pc /\ query' = query /\ tx' = tx /\ isolation' = isolation
          /\ snapshot' = snapshot /\ row' = row
      BY <1>8 DEF ReadContact, txVars
    <3>7. HandlesOf(row[r])' = HandlesOf(row[r])
      BY <3>6 DEF HandlesOf
    <3>8. ContactsOf(r)'
      <4> SUFFICES ASSUME NEW g \in Handles
                   PROVE  IF g \in HandlesOf(row[r]) \ (todo[r] \ {h})
                          THEN \/ found'[r][g] = snapshot[r].entities[g]
                               \/ /\ found'[r][g] = NoRow
                                  /\ driver = "postgres" => tx[r] # "open" /\ pc[r] # "render"
                          ELSE found'[r][g] = NoRow
        BY <3>5, <3>6, <3>7 DEF ContactsOf
      <4>1. CASE g = h
        BY <3>2, <3>4, <3>5, <4>1
      <4>2. CASE g # h
        BY <3>2, <3>5, <4>2 DEF AggregateOf, ContactsOf
      <4> QED
        BY <4>1, <4>2
    <3>9. AggregateOf(r)'
      BY <3>2, <3>5, <3>6, <3>7, <3>8 DEF AggregateOf, RowSeen, Scannable
    <3> QED
      BY <3>2, <3>6, <3>9 DEF ReaderInv
  <2> QED
    BY <2>1, <2>2 DEF Inv
<1>9. ASSUME NEW r \in Readers, ReadNameserver(r) PROVE Inv'
  <2>1. ASSUME NEW q \in Readers \ {r} PROVE ReaderInv(q)'
    BY <1>9, ReaderFrame DEF ReadNameserver, poolVars, txVars, Inv, TypeOK, RequestType, TxType, AggregateType
  <2>2. ReaderInv(r)'
    <3>1. pc[r] = "related" /\ isolation[r] = "repeatable read" /\ AggregateOf(r) /\ driver # "memory"
      BY <1>9 DEF ReadNameserver, Inv, ReaderInv
    <3>2. /\ todo' = todo /\ found' = found /\ row' = row /\ snapshot' = snapshot
          /\ query' = query /\ pc' = pc /\ isolation' = isolation /\ driver' = driver
          /\ tx'[r] = tx[r] \/ tx'[r] = "lost"
      BY <1>9 DEF ReadNameserver, poolVars, txVars, TypeOK, TxType
    <3>3. ContactsOf(r)'
      BY <3>1, <3>2, ContactsStay DEF AggregateOf
    <3>4. AggregateOf(r)'
      BY <3>1, <3>2, <3>3, AggregateStays
    <3> QED
      BY <3>1, <3>2, <3>4 DEF ReaderInv
  <2> QED
    BY <2>1, <2>2 DEF Inv
<1>10. ASSUME NEW r \in Readers, CommitTx(r) PROVE Inv'
  <2>1. ASSUME NEW q \in Readers \ {r} PROVE ReaderInv(q)'
    BY <1>10, ReaderFrame DEF CommitTx, Release, aggVars, Inv, TypeOK, RequestType, TxType, AggregateType
  <2>2. ReaderInv(r)'
    <3>1. /\ pc[r] = "related" /\ AggregateOf(r) /\ driver # "memory" /\ todo[r] = {}
          /\ todo' = todo /\ found' = found /\ row' = row /\ snapshot' = snapshot /\ query' = query
      BY <1>10 DEF CommitTx, aggVars, Inv, ReaderInv
    <3>2. CASE tx[r] = "open"
      <4>1. pc'[r] = "render"
        BY <1>10, <3>2 DEF CommitTx, TypeOK, RequestType
      <4>2. ContactsOf(r)'
        BY <3>1, <3>2, DriversAssumption DEF TypeOK, PoolType, AllDrivers, AggregateOf, ContactsOf, HandlesOf
      <4>3. AggregateOf(r)'
        BY <3>1, <4>2 DEF AggregateOf, RowSeen, Scannable, HandlesOf
      <4> QED
        BY <3>1, <4>1, <4>3 DEF ReaderInv
    <3>3. CASE tx[r] # "open"
      BY <1>10, <3>3 DEF CommitTx, TypeOK, RequestType, ReaderInv
    <3> QED
      BY <3>2, <3>3
  <2> QED
    BY <2>1, <2>2 DEF Inv
<1>11. ASSUME NEW r \in Readers, BeginFails(r) PROVE Inv'
  <2>1. ASSUME NEW q \in Readers \ {r} PROVE ReaderInv(q)'
    BY <1>11, ReaderFrame DEF BeginFails, poolVars, txVars, aggVars, Inv, TypeOK, RequestType, TxType, AggregateType
  <2>2. ReaderInv(r)'
    BY <1>11 DEF BeginFails, TypeOK, RequestType, ReaderInv
  <2> QED
    BY <2>1, <2>2 DEF Inv
<1>12. ASSUME NEW r \in Readers, StatementFails(r) PROVE Inv'
  <2>1. ASSUME NEW q \in Readers \ {r} PROVE ReaderInv(q)'
    BY <1>12, ReaderFrame DEF StatementFails, Release, aggVars, Inv, TypeOK, RequestType, TxType, AggregateType
  <2>2. ReaderInv(r)'
    BY <1>12 DEF StatementFails, TypeOK, RequestType, ReaderInv
  <2> QED
    BY <2>1, <2>2 DEF Inv
<1>13. ASSUME NEW r \in Readers, ContactFails(r) PROVE Inv'
  <2>1. ASSUME NEW q \in Readers \ {r} PROVE ReaderInv(q)'
    BY <1>13, ReaderFrame DEF ContactFails, poolVars, Inv, TypeOK, RequestType, TxType, AggregateType
  <2>2. ReaderInv(r)'
    <3>1. pc[r] = "related" /\ isolation[r] = "repeatable read" /\ AggregateOf(r) /\ driver # "memory"
      BY <1>13 DEF ContactFails, Inv, ReaderInv
    <3>2. driver = "postgres" => tx'[r] # "open"
      BY <1>13 DEF ContactFails, AfterRefusal, TypeOK, TxType
    <3>3. todo'[r] \subseteq todo[r] /\ found' = found /\ row' = row /\ snapshot' = snapshot
          /\ query' = query /\ pc' = pc /\ isolation' = isolation
      BY <1>13 DEF ContactFails, TypeOK, AggregateType
    <3>4. ContactsOf(r)'
      BY <3>1, <3>2, <3>3 DEF AggregateOf, ContactsOf, HandlesOf
    <3>5. AggregateOf(r)'
      BY <3>1, <3>3, <3>4, AggregateStays
    <3> QED
      BY <3>1, <3>3, <3>5 DEF ReaderInv
  <2> QED
    BY <2>1, <2>2 DEF Inv
<1>14. ASSUME NEW r \in Readers, NameserverFails(r) PROVE Inv'
  <2>1. ASSUME NEW q \in Readers \ {r} PROVE ReaderInv(q)'
    BY <1>14, ReaderFrame DEF NameserverFails, poolVars, Inv, TypeOK, RequestType, TxType, AggregateType
  <2>2. ReaderInv(r)'
    <3>1. pc[r] = "related" /\ isolation[r] = "repeatable read" /\ AggregateOf(r) /\ driver # "memory"
      BY <1>14 DEF NameserverFails, Inv, ReaderInv
    <3>2. driver = "postgres" => tx'[r] # "open"
      BY <1>14 DEF NameserverFails, AfterRefusal, TypeOK, TxType
    <3>3. todo'[r] \subseteq todo[r] /\ found' = found /\ row' = row /\ snapshot' = snapshot
          /\ query' = query /\ pc' = pc /\ isolation' = isolation
      BY <1>14 DEF NameserverFails, TypeOK, AggregateType
    <3>4. ContactsOf(r)'
      BY <3>1, <3>2, <3>3 DEF AggregateOf, ContactsOf, HandlesOf
    <3>5. AggregateOf(r)'
      BY <3>1, <3>3, <3>4, AggregateStays
    <3> QED
      BY <3>1, <3>3, <3>5 DEF ReaderInv
  <2> QED
    BY <2>1, <2>2 DEF Inv
<1>15. ASSUME NEW r \in Readers, ConnectionLost(r) PROVE Inv'
  <2>1. ASSUME NEW q \in Readers \ {r} PROVE ReaderInv(q)'
    BY <1>15, ReaderFrame DEF ConnectionLost, poolVars, aggVars, Inv, TypeOK, RequestType, TxType, AggregateType
  <2>2. ReaderInv(r)'
    <3>1. pc[r] = "related" /\ isolation[r] = "repeatable read" /\ AggregateOf(r) /\ driver # "memory"
      BY <1>15 DEF ConnectionLost, Inv, ReaderInv
    <3>2. /\ todo' = todo /\ found' = found /\ row' = row /\ snapshot' = snapshot
          /\ query' = query /\ pc' = pc /\ isolation' = isolation /\ driver' = driver
          /\ tx'[r] = tx[r] \/ tx'[r] = "lost"
      BY <1>15 DEF ConnectionLost, poolVars, aggVars, TypeOK, TxType
    <3>3. ContactsOf(r)'
      BY <3>1, <3>2, ContactsStay DEF AggregateOf
    <3>4. AggregateOf(r)'
      BY <3>1, <3>2, <3>3, AggregateStays
    <3> QED
      BY <3>1, <3>2, <3>4 DEF ReaderInv
  <2> QED
    BY <2>1, <2>2 DEF Inv
<1>16. ASSUME NEW r \in Readers, Respond(r) PROVE Inv'
  <2>1. ASSUME NEW q \in Readers \ {r} PROVE ReaderInv(q)'
    BY <1>16, ReaderFrame DEF Respond, poolVars, txVars, Inv, TypeOK, RequestType, TxType, AggregateType
  <2>2. ReaderInv(r)'
    <3>1. pc'[r] = "idle" /\ Untouched(r)'
      BY <1>16 DEF Respond, Untouched, NothingFound, TypeOK, RequestType, AggregateType
    <3>2. CASE answer'[r] = NotFound
      BY <3>1, <3>2 DEF ReaderInv, NotFound
    <3>3. CASE answer'[r] # NotFound
      <4>1. /\ pc[r] = "render" /\ snapshot' = snapshot /\ query' = query
            /\ answer'[r] = Answer(query[r].protocol, row[r], found[r])
        BY <1>16, <3>3 DEF Respond, txVars, TypeOK, RequestType
      <4>0. ReaderInv(r)
        BY DEF Inv
      <4>2. PICK L \in SUBSET Handles :
              /\ L # {} => driver = "mysql"
              /\ Answer(query[r].protocol, row[r], found[r])
                   = Atomic!AnswerFrom(driver, snapshot[r], query[r], L)
        BY <4>0, <4>1, RenderedAnswer
      <4>3. snapshot[r] \in DBStates /\ Scannable(driver, RowSeen(r)) /\ query[r] # NoQuery
        <5>1. AggregateOf(r)
          BY <4>0, <4>1 DEF ReaderInv
        <5>2. query[r] # NoQuery
          BY <4>1 DEF TypeOK, RequestType
        <5> QED
          BY <5>1, <5>2 DEF AggregateOf
      <4>4. AnswerOf(r)'
        BY <4>1, <4>2, <4>3 DEF AnswerOf, RowSeen, Scannable, NoQuery, Atomic!AnswerFrom
      <4> QED
        BY <3>1, <4>4 DEF ReaderInv
    <3> QED
      BY <3>2, <3>3
  <2> QED
    BY <2>1, <2>2 DEF Inv
<1> QED
  BY <1>1, <1>2, <1>3, <1>4, <1>5, <1>6, <1>7, <1>8, <1>9, <1>10, <1>11,
     <1>12, <1>13, <1>14, <1>15, <1>16 DEF Next, Store, Fault

LEMMA Invariance == Spec => []Inv
BY InitType, NextType, InitInv, NextInv, PTL DEF Spec

-----------------------------------------------------------------------------
(* Consequences of the invariant.                                          *)

\* The abstract answer for a row that can be read.
LEMMA AnswerFromRow ==
    ASSUME NEW r \in Readers, Scannable(driver, RowSeen(r)), NEW L \in SUBSET Handles
    PROVE  Atomic!AnswerFrom(driver, snapshot[r], query[r], L) =
             Answer(query[r].protocol, RowSeen(r),
                    [h \in Handles |-> IF h \in L THEN NoRow
                                       ELSE Resolve(RowSeen(r), snapshot[r].entities)[h]])
<1>1. /\ Atomic!Record(driver, snapshot[r].domains[query[r].name]) = RowSeen(r)
      /\ Atomic!Scannable(driver, RowSeen(r))
      /\ Atomic!Resolve(RowSeen(r), snapshot[r].entities) = Resolve(RowSeen(r), snapshot[r].entities)
  BY SameRow DEF RowSeen
<1> QED
  BY <1>1, SameAnswer DEF Atomic!AnswerFrom

LEMMA NothingMissingInv == TypeOK /\ Inv /\ driver # "mysql" => NothingMissing
<1> SUFFICES ASSUME TypeOK, Inv, driver # "mysql", NEW r \in Readers, Answered(r)
             PROVE  Whole(r)
  BY DEF NothingMissing
<1>1. AnswerOf(r)
  BY DEF Answered, Inv, ReaderInv
<1>2. answer[r] = Atomic!AnswerFrom(driver, snapshot[r], query[r], {}) /\ Scannable(driver, RowSeen(r))
  BY <1>1 DEF AnswerOf
<1> DEFINE shown == [h \in Handles |-> IF h \in {} THEN NoRow
                                       ELSE Resolve(RowSeen(r), snapshot[r].entities)[h]]
<1>3. shown = Resolve(RowSeen(r), snapshot[r].entities)
  BY DEF Resolve
<1> QED
  BY <1>2, <1>3, AnswerFromRow DEF Whole

\* What an answer composed of the contacts c shows comes from c.
LEMMA ShownOf ==
    ASSUME NEW p, NEW w, NEW c
    PROVE  LET a == Answer(p, w, c) IN
           /\ a.nameservers = w.nameservers
           /\ a.kind = "rdap" => a.registrar.handle = w.registrar
           /\ CardsShown(a) \subseteq {Example} \union
                {<<h, c[h]>> : h \in {g \in {w.registrar} \union {w.contacts[role] : role \in Roles} :
                                        Resolved(c, g)}}
<1> DEFINE S == {<<h, c[h]>> : h \in {g \in {w.registrar} \union {w.contacts[role] : role \in Roles} :
                                        Resolved(c, g)}}
<1>1. CASE p = "rdap"
  <2> DEFINE a == DomainToRDAP(w, c)
  <2>1. Card(c, w.registrar) \in {Example} \union S
    BY DEF Card
  <2>2. Card(c, w.contacts["registrant"]) \in {Example} \union S
    BY DEF Card
  <2>3. /\ a.kind = "rdap" /\ a.nameservers = w.nameservers
        /\ a.registrar.handle = w.registrar /\ a.registrar.card = Card(c, w.registrar)
    BY DEF DomainToRDAP
  <2>4. \A e \in a.registrant : e.card = Card(c, w.contacts["registrant"])
    BY DEF DomainToRDAP, RegistrantEntity
  <2>5. CardsShown(a) = {a.registrar.card} \union {e.card : e \in a.registrant}
    BY <2>3 DEF CardsShown
  <2> QED
    BY <1>1, <2>1, <2>2, <2>3, <2>4, <2>5 DEF Answer
<1>2. CASE p # "rdap"
  <2> DEFINE a == DomainToWhois(w, c)
  <2>1. a.kind = "whois" /\ a.nameservers = w.nameservers
    BY DEF DomainToWhois
  <2>2. a.registrar \subseteq S
    BY DEF DomainToWhois
  <2>3. \A x \in a.contacts : <<x[2], x[3]>> \in S
    BY DEF DomainToWhois
  <2>4. CardsShown(a) = a.registrar \union {<<x[2], x[3]>> : x \in a.contacts}
    BY <2>1 DEF CardsShown
  <2> QED
    BY <1>2, <2>1, <2>2, <2>3, <2>4 DEF Answer
<1> QED
  BY <1>1, <1>2

LEMMA NeverTornInv == TypeOK /\ Inv => NeverTorn
<1> SUFFICES ASSUME TypeOK, Inv, NEW r \in Readers, Answered(r)
             PROVE  /\ snapshot[r] \in DBStates
                    /\ Scannable(driver, RowSeen(r))
                    /\ answer[r].nameservers = RowSeen(r).nameservers
                    /\ answer[r].kind = "rdap" => answer[r].registrar.handle = RowSeen(r).registrar
                    /\ CardsShown(answer[r]) \subseteq {Example} \union
                         {<<h, snapshot[r].entities[h]>> : h \in HandlesOf(RowSeen(r))}
  BY DEF NeverTorn
<1>1. AnswerOf(r)
  BY DEF Answered, Inv, ReaderInv
<1>2. PICK L \in SUBSET Handles : answer[r] = Atomic!AnswerFrom(driver, snapshot[r], query[r], L)
  BY <1>1 DEF AnswerOf
<1>3. snapshot[r] \in DBStates /\ Scannable(driver, RowSeen(r)) /\ query[r] # NoQuery
  BY <1>1 DEF AnswerOf
<1> DEFINE w == RowSeen(r)
           full == Resolve(w, snapshot[r].entities)
           c == [h \in Handles |-> IF h \in L THEN NoRow ELSE full[h]]
<1>4. answer[r] = Answer(query[r].protocol, w, c)
  BY <1>2, <1>3, AnswerFromRow
<1>5. w \in DomainRows
  <2>1. query[r].name \in Names
    BY <1>3 DEF TypeOK, RequestType, Queries
  <2> QED
    BY <1>3, <2>1, StateFields, RecordOf DEF RowSeen, Scannable
<1>6. ASSUME NEW h \in {w.registrar} \union {w.contacts[role] : role \in Roles}, Resolved(c, h)
      PROVE  h \in HandlesOf(w) /\ c[h] = snapshot[r].entities[h]
  <2>1. h \in HandlesOf(w)
    BY <1>6 DEF Resolved, HandlesOf
  <2>2. h \in Handles
    BY <1>5, <2>1, RowReferences
  <2> QED
    BY <1>6, <2>1, <2>2 DEF Resolved, Resolve
<1> HIDE DEF c, w
<1> QED
  BY <1>3, <1>4, <1>6, ShownOf DEF w

\* No answer mixes two committed states, whatever the backend, whatever fails.
THEOREM NeverTornHolds == Spec => []NeverTorn
BY TypeCorrect, Invariance, NeverTornInv, PTL

-----------------------------------------------------------------------------
(* The connection pool.                                                    *)

LEMMA InitPool == Init => PoolAccounting
<1> SUFFICES ASSUME Init PROVE PoolAccounting
  OBVIOUS
<1>1. Holders = {}
  BY DEF Init, Holders
<1>2. Cardinality(Holders) = 0
  BY <1>1, FS_EmptySet
<1>3. free + Cardinality(Holders) = MaxOpen
  <2>1. free = MaxOpen
    BY DEF Init
  <2> QED
    BY <1>2, <2>1, MaxOpenAssumption
<1>4. \A r \in Readers : tx[r] # "none" <=> r \in Holders
  BY <1>1 DEF Init
<1> QED
  BY <1>3, <1>4 DEF PoolAccounting

\* A step that starts or ends a transaction moves exactly one connection.
LEMMA HolderArrives ==
    ASSUME TypeOK, PoolAccounting, NEW r \in Readers, r \notin Holders,
           Holders' = Holders \union {r}, free' = free - 1,
           tx' = [tx EXCEPT ![r] = "open"]
    PROVE  PoolAccounting'
<1>1. IsFiniteSet(Holders)
  BY ReadersAssumption, FS_Subset DEF Holders
<1>2. Cardinality(Holders \union {r}) = Cardinality(Holders) + 1 /\ Cardinality(Holders) \in Nat
  BY <1>1, FS_AddElement, FS_CardinalityType
<1>3. free' + Cardinality(Holders') = MaxOpen
  <2>1. free \in Nat /\ free + Cardinality(Holders) = MaxOpen
    BY DEF TypeOK, PoolType, PoolAccounting
  <2>2. Cardinality(Holders') = Cardinality(Holders) + 1
    BY <1>2
  <2> QED
    BY <1>2, <2>1, <2>2
<1>4. \A q \in Readers : tx'[q] # "none" <=> q \in Holders'
  BY DEF PoolAccounting, TypeOK, TxType
<1> QED
  BY <1>3, <1>4 DEF PoolAccounting

LEMMA HolderLeaves ==
    ASSUME TypeOK, PoolAccounting, NEW r \in Holders,
           Holders' = Holders \ {r}, Release(r)
    PROVE  PoolAccounting'
<1>1. IsFiniteSet(Holders)
  BY ReadersAssumption, FS_Subset DEF Holders
<1>2. Cardinality(Holders \ {r}) = Cardinality(Holders) - 1 /\ Cardinality(Holders) \in Nat
  BY <1>1, FS_RemoveElement, FS_CardinalityType
<1>3. free' + Cardinality(Holders') = MaxOpen
  <2>1. free \in Nat /\ free + Cardinality(Holders) = MaxOpen /\ free' = free + 1
    BY DEF TypeOK, PoolType, PoolAccounting, Release
  <2>2. Cardinality(Holders') = Cardinality(Holders) - 1
    BY <1>2
  <2> QED
    BY <1>2, <2>1, <2>2
<1>4. \A q \in Readers : tx'[q] # "none" <=> q \in Holders'
  BY DEF PoolAccounting, TypeOK, TxType, Release, Holders
<1> QED
  BY <1>3, <1>4 DEF PoolAccounting

\* A step that neither starts nor ends a transaction leaves the pool alone.
LEMMA HoldersStay ==
    ASSUME PoolAccounting, Holders' = Holders, free' = free,
           \A q \in Readers : tx'[q] = "none" <=> tx[q] = "none"
    PROVE  PoolAccounting'
BY DEF PoolAccounting

LEMMA NextPool == TypeOK /\ PoolAccounting /\ [Next]_vars => PoolAccounting'
<1> SUFFICES ASSUME TypeOK, PoolAccounting, [Next]_vars PROVE PoolAccounting'
  OBVIOUS
<1> USE DEF TypeOK, RequestType, TxType
<1>1. CASE UNCHANGED vars
  BY <1>1, HoldersStay DEF vars, Holders
<1>2. CASE RegistryCommits
  BY <1>2, HoldersStay DEF RegistryCommits, txVars, Holders
<1>3. ASSUME NEW r \in Readers, Request(r) PROVE PoolAccounting'
  <2>1. Holders' = Holders
    BY <1>3 DEF Request, Holders
  <2> QED
    BY <1>3, <2>1, HoldersStay DEF Request, poolVars
<1>4. ASSUME NEW r \in Readers, MemoryAggregate(r) PROVE PoolAccounting'
  <2>1. Holders' = Holders
    BY <1>4 DEF MemoryAggregate, Holders
  <2> QED
    BY <1>4, <2>1, HoldersStay DEF MemoryAggregate, poolVars
<1>5. ASSUME NEW r \in Readers, Begin(r) PROVE PoolAccounting'
  <2>1. r \notin Holders /\ Holders' = Holders \union {r}
    BY <1>5 DEF Begin, Holders
  <2>2. free' = free - 1 /\ tx' = [tx EXCEPT ![r] = "open"]
    BY <1>5 DEF Begin
  <2> QED
    BY <2>1, <2>2, HolderArrives
<1>6. ASSUME NEW r \in Readers, SetIsolation(r) PROVE PoolAccounting'
  <2>1. Holders' = Holders
    BY <1>6 DEF SetIsolation, Holders
  <2> QED
    BY <1>6, <2>1, HoldersStay DEF SetIsolation, poolVars
<1>7. ASSUME NEW r \in Readers, ReadDomain(r) PROVE PoolAccounting'
  <2>1. CASE Scannable(driver, Record(driver, db.domains[query[r].name]))
    <3>1. Holders' = Holders
      BY <1>7, <2>1 DEF ReadDomain, Holders
    <3> QED
      BY <1>7, <2>1, <3>1, HoldersStay DEF ReadDomain
  <2>2. CASE ~Scannable(driver, Record(driver, db.domains[query[r].name]))
    <3>1. r \in Holders /\ Holders' = Holders \ {r} /\ Release(r)
      BY <1>7, <2>2 DEF ReadDomain, Holders
    <3> QED
      BY <3>1, HolderLeaves
  <2> QED
    BY <2>1, <2>2
<1>8. ASSUME NEW r \in Readers, ReadContact(r) \/ ReadNameserver(r) PROVE PoolAccounting'
  BY <1>8, HoldersStay DEF ReadContact, ReadNameserver, poolVars, txVars, Holders
<1>9. ASSUME NEW r \in Readers, CommitTx(r) PROVE PoolAccounting'
  <2>1. r \in Holders /\ Holders' = Holders \ {r} /\ Release(r)
    BY <1>9 DEF CommitTx, Holders
  <2> QED
    BY <2>1, HolderLeaves
<1>10. ASSUME NEW r \in Readers, BeginFails(r) PROVE PoolAccounting'
  <2>1. Holders' = Holders
    BY <1>10 DEF BeginFails, Holders
  <2> QED
    BY <1>10, <2>1, HoldersStay DEF BeginFails, poolVars, txVars
<1>11. ASSUME NEW r \in Readers, StatementFails(r) PROVE PoolAccounting'
  <2>1. r \in Holders /\ Holders' = Holders \ {r} /\ Release(r)
    BY <1>11 DEF StatementFails, Holders
  <2> QED
    BY <2>1, HolderLeaves
<1>12. ASSUME NEW r \in Readers, ContactFails(r) \/ NameserverFails(r) \/ ConnectionLost(r)
       PROVE  PoolAccounting'
  <2>1. Holders' = Holders /\ free' = free
    BY <1>12 DEF ContactFails, NameserverFails, ConnectionLost, poolVars, Holders
  <2>2. \A q \in Readers : tx'[q] = "none" <=> tx[q] = "none"
    BY <1>12 DEF ContactFails, NameserverFails, ConnectionLost, AfterRefusal
  <2> QED
    BY <2>1, <2>2, HoldersStay
<1>13. ASSUME NEW r \in Readers, Respond(r) PROVE PoolAccounting'
  <2>1. Holders' = Holders
    BY <1>13 DEF Respond, Holders
  <2> QED
    BY <1>13, <2>1, HoldersStay DEF Respond, poolVars, txVars
<1> QED
  BY <1>1, <1>2, <1>3, <1>4, <1>5, <1>6, <1>7, <1>8, <1>9, <1>10, <1>11, <1>12, <1>13
  DEF Next, Store, Fault

\* Connections are neither leaked nor shared, on any path, for any pool size.
THEOREM PoolAccountingHolds == Spec => []PoolAccounting
BY InitType, NextType, InitPool, NextPool, PTL DEF Spec

-----------------------------------------------------------------------------
(* Answers of "not found".                                                 *)

LEMMA InitMisses == Init => MissesInv
<1> SUFFICES ASSUME Init, NEW r \in Readers PROVE MissInv(r)
  BY DEF MissesInv
<1>1. pc[r] = "idle" /\ query[r] = NoQuery
  BY DEF Init
<1> QED
  BY <1>1 DEF MissInv

\* A step of another request, or of the registry, changes nothing for r.
LEMMA MissFrame ==
    ASSUME NEW q \in Readers, MissInv(q), driver' = driver, pc'[q] = pc[q], query'[q] = query[q],
           tx'[q] = tx[q], snapshot'[q] = snapshot[q], answer'[q] = answer[q],
           q \in faulty' <=> q \in faulty
    PROVE  MissInv(q)'
BY DEF MissInv, Missed, RowSeen

\* An answer that is composed is never "not found".
LEMMA ComposedIsFound ==
    ASSUME NEW p, NEW w, NEW c
    PROVE  Answer(p, w, c) # NotFound
<1>1. Answer(p, w, c).kind \in {"rdap", "whois"}
  BY DEF Answer, DomainToRDAP, DomainToWhois
<1>2. NotFound.kind = "notfound"
  BY DEF NotFound
<1> QED
  BY <1>1, <1>2

\* Reading a row that cannot be scanned is a miss.
LEMMA ReadMisses ==
    ASSUME TypeOK, NEW r \in Readers, driver' = driver, query' = query,
           snapshot' = [snapshot EXCEPT ![r] = db],
           ~Scannable(driver, Record(driver, db.domains[query[r].name]))
    PROVE  Missed(r)'
<1>1. snapshot'[r] = db /\ db # NoView
  BY NoViewIsNoState DEF TypeOK, PoolType, TxType
<1> QED
  BY <1>1 DEF Missed, RowSeen

LEMMA NextMisses == TypeOK /\ Inv /\ MissesInv /\ [Next]_vars => MissesInv'
<1> SUFFICES ASSUME TypeOK, Inv, MissesInv, [Next]_vars, NEW q \in Readers PROVE MissInv(q)'
  BY DEF MissesInv
<1>0. driver' = driver /\ MissInv(q)
  BY DriverFixed DEF MissesInv
<1> USE <1>0 DEF TypeOK, RequestType, TxType
<1>1. CASE UNCHANGED vars
  BY <1>1, MissFrame DEF vars
<1>2. CASE RegistryCommits
  BY <1>2, MissFrame DEF RegistryCommits, txVars
<1>3. ASSUME NEW r \in Readers, r # q, Request(r) \/ Begin(r) \/ Store(r) \/ Fault(r) \/ Respond(r)
      PROVE  MissInv(q)'
  <2>1. CASE Request(r) \/ Begin(r) \/ Respond(r)
    BY <1>3, <2>1, MissFrame DEF Request, Begin, Respond, txVars
  <2>2. CASE Store(r)
    BY <1>3, <2>2, MissFrame DEF Store, MemoryAggregate, SetIsolation, ReadDomain, ReadContact,
                                 ReadNameserver, CommitTx, Release, txVars
  <2>3. CASE Fault(r)
    BY <1>3, <2>3, MissFrame DEF Fault, BeginFails, StatementFails, ContactFails, NameserverFails,
                                 ConnectionLost, Release, txVars
  <2> QED
    BY <1>3, <2>1, <2>2, <2>3
<1>4. CASE Request(q) \/ Begin(q) \/ SetIsolation(q)
  <2>1. pc'[q] \in {"locked", "begin", "isolation", "domain"}
    BY <1>4 DEF Request, Begin, SetIsolation
  <2> QED
    BY <2>1 DEF MissInv
<1>5. CASE MemoryAggregate(q)
  <2>1. pc'[q] \in {"render", "error"}
    BY <1>5 DEF MemoryAggregate
  <2>2. pc'[q] = "error" => Missed(q)'
    BY <1>5, ReadMisses DEF MemoryAggregate
  <2> QED
    BY <2>1, <2>2 DEF MissInv
<1>6. CASE ReadDomain(q)
  <2>1. (pc'[q] = "related" /\ tx'[q] = "open") \/ pc'[q] = "error"
    <3>1. tx[q] = "open"
      BY <1>6 DEF ReadDomain, Inv, ReaderInv
    <3> QED
      BY <1>6, <3>1 DEF ReadDomain
  <2>2. pc'[q] = "error" => Missed(q)'
    BY <1>6, ReadMisses DEF ReadDomain
  <2> QED
    BY <2>1, <2>2 DEF MissInv
<1>7. CASE ReadContact(q) \/ ReadNameserver(q)
  BY <1>7, MissFrame DEF ReadContact, ReadNameserver, txVars
<1>8. CASE CommitTx(q)
  <2>1. faulty' = faulty /\ (pc'[q] = "render" \/ (pc'[q] = "error" /\ q \in faulty))
    BY <1>8 DEF CommitTx, MissInv
  <2> QED
    BY <2>1 DEF MissInv
<1>9. CASE Fault(q)
  <2>1. q \in faulty' /\ pc'[q] \in {"related", "error"}
    BY <1>9 DEF Fault, BeginFails, StatementFails, ContactFails, NameserverFails, ConnectionLost
  <2> QED
    BY <2>1 DEF MissInv
<1>10. CASE Respond(q)
  <2>1. /\ pc'[q] = "idle" /\ faulty' = faulty /\ query' = query /\ snapshot' = snapshot
        /\ answer'[q] = NotFound => pc[q] = "error"
    BY <1>10, ComposedIsFound DEF Respond, txVars
  <2>2. Missed(q)' <=> Missed(q)
    BY <2>1 DEF Missed, RowSeen
  <2> QED
    BY <2>1, <2>2 DEF MissInv
<1> QED
  BY <1>1, <1>2, <1>3, <1>4, <1>5, <1>6, <1>7, <1>8, <1>9, <1>10 DEF Next, Store

\* Without a failure "not found" is the truth: the request has looked at the
\* database, and the domain has no row there that can be read.
THEOREM NotFoundIsTrueHolds == Spec => []NotFoundIsTrue
<1>1. MissesInv => NotFoundIsTrue
  BY DEF MissesInv, MissInv, Missed, NotFoundIsTrue
<1> QED
  BY <1>1, InitType, NextType, InitInv, NextInv, InitMisses, NextMisses, PTL DEF Spec

-----------------------------------------------------------------------------
(* Complete answers.                                                       *)

LEMMA InitWholes == Init => WholesInv
<1> SUFFICES ASSUME Init, NEW r \in Readers PROVE WholeInv(r)
  BY DEF WholesInv
<1>1. pc[r] = "idle" /\ answer[r] = NotFound
  BY DEF Init
<1> QED
  BY <1>1 DEF WholeInv, Answered

\* A step of another request, or of the registry, changes nothing for q.
LEMMA WholeFrame ==
    ASSUME NEW q \in Readers, WholeInv(q), driver' = driver, pc'[q] = pc[q], query'[q] = query[q],
           snapshot'[q] = snapshot[q], row'[q] = row[q], todo'[q] = todo[q], found'[q] = found[q],
           answer'[q] = answer[q], q \in faulty' <=> q \in faulty
    PROVE  WholeInv(q)'
<1>1. AllRead(q)' <=> AllRead(q)
  BY DEF AllRead, HandlesOf
<1>2. Answered(q)' <=> Answered(q)
  BY DEF Answered, NotFound
<1>3. RowSeen(q)' = RowSeen(q)
  BY DEF RowSeen
<1>4. Resolve(RowSeen(q), snapshot[q].entities)' = Resolve(RowSeen(q), snapshot[q].entities)
  BY <1>3 DEF Resolve, HandlesOf
<1>5. Whole(q)' <=> Whole(q)
  BY <1>3, <1>4 DEF Whole
<1> QED
  BY <1>1, <1>2, <1>5 DEF WholeInv

\* What is in the aggregate when a request is rendered that nothing failed for.
LEMMA FoundAll ==
    ASSUME TypeOK, Inv, NEW r \in Readers, pc[r] = "render", AllRead(r)
    PROVE  row[r] = RowSeen(r) /\ found[r] = Resolve(row[r], snapshot[r].entities)
<1>1. AggregateOf(r) /\ todo[r] = {}
  BY DEF Inv, ReaderInv
<1>2. found[r] \in [Handles -> VCards \union {NoRow}]
  BY DEF TypeOK, AggregateType
<1>3. ASSUME NEW h \in Handles
      PROVE  found[r][h] = IF h \in HandlesOf(row[r]) THEN snapshot[r].entities[h] ELSE NoRow
  BY <1>1 DEF AggregateOf, ContactsOf, AllRead
<1>4. found[r] = [h \in Handles |-> IF h \in HandlesOf(row[r]) THEN snapshot[r].entities[h] ELSE NoRow]
  BY <1>2, <1>3
<1> QED
  BY <1>1, <1>4 DEF AggregateOf, Resolve

LEMMA NextWholes == TypeOK /\ Inv /\ MissesInv /\ WholesInv /\ [Next]_vars => WholesInv'
<1> SUFFICES ASSUME TypeOK, Inv, MissesInv, WholesInv, [Next]_vars, NEW q \in Readers
             PROVE  WholeInv(q)'
  BY DEF WholesInv
<1>0. driver' = driver /\ WholeInv(q) /\ ReaderInv(q) /\ MissInv(q)
  BY DriverFixed DEF WholesInv, Inv, MissesInv
<1> USE <1>0 DEF TypeOK, RequestType, TxType, AggregateType
<1>1. CASE UNCHANGED vars
  BY <1>1, WholeFrame DEF vars
<1>2. CASE RegistryCommits
  BY <1>2, WholeFrame DEF RegistryCommits, txVars, aggVars
<1>3. ASSUME NEW r \in Readers, r # q, Request(r) \/ Begin(r) \/ Store(r) \/ Fault(r) \/ Respond(r)
      PROVE  WholeInv(q)'
  <2>1. CASE Request(r) \/ Begin(r) \/ Respond(r)
    BY <1>3, <2>1, WholeFrame DEF Request, Begin, Respond, txVars, aggVars
  <2>2. CASE MemoryAggregate(r) \/ ReadDomain(r)
    <3> DEFINE record == Record(driver, db.domains[query[r].name])
    <3>1. snapshot'[q] = snapshot[q] /\ query' = query /\ answer' = answer /\ faulty' = faulty
      BY <1>3, <2>2 DEF MemoryAggregate, ReadDomain
    <3>2. pc'[q] = pc[q] /\ row'[q] = row[q] /\ todo'[q] = todo[q] /\ found'[q] = found[q]
      <4>1. CASE Scannable(driver, record)
        <5>1. /\ row' = [row EXCEPT ![r] = record]
              /\ pc' = [pc EXCEPT ![r] = "related"] \/ pc' = [pc EXCEPT ![r] = "render"]
              /\ todo' = todo \/ todo' = [todo EXCEPT ![r] = HandlesOf(record)]
              /\ found' = found \/ found' = [found EXCEPT ![r] = Resolve(record, db.entities)]
          BY <2>2, <4>1 DEF MemoryAggregate, ReadDomain
        <5> QED
          BY <1>3, <5>1
      <4>2. CASE ~Scannable(driver, record)
        BY <1>3, <2>2, <4>2 DEF MemoryAggregate, ReadDomain
      <4> QED
        BY <4>1, <4>2
    <3> QED
      BY <3>1, <3>2, WholeFrame
  <2>3. CASE SetIsolation(r) \/ ReadContact(r) \/ ReadNameserver(r) \/ CommitTx(r)
    BY <1>3, <2>3, WholeFrame DEF SetIsolation, ReadContact, ReadNameserver, CommitTx, txVars, aggVars
  <2>4. CASE Fault(r)
    BY <1>3, <2>4, WholeFrame DEF Fault, BeginFails, StatementFails, ContactFails, NameserverFails,
                                  ConnectionLost, txVars, aggVars
  <2> QED
    BY <1>3, <2>1, <2>2, <2>3, <2>4 DEF Store
<1>4. CASE Request(q) \/ Begin(q) \/ SetIsolation(q)
  <2>1. pc'[q] \in {"locked", "begin", "isolation", "domain"}
    BY <1>4 DEF Request, Begin, SetIsolation
  <2> QED
    BY <2>1 DEF WholeInv, Answered
<1>5. CASE MemoryAggregate(q)
  <2> DEFINE record == Record(driver, db.domains[query[q].name])
  <2>1. CASE Scannable(driver, record)
    <3>1. /\ pc'[q] = "render" /\ row'[q] = record /\ snapshot'[q] = db
          /\ found'[q] = Resolve(record, db.entities)
      BY <1>5, <2>1 DEF MemoryAggregate
    <3>2. record \in DomainRows
      <4>1. query[q] # NoQuery /\ query[q] \in Queries
        BY <1>5 DEF MemoryAggregate
      <4>2. query[q].name \in Names /\ db \in DBStates
        BY <4>1 DEF Queries, PoolType
      <4> QED
        BY <2>1, <4>2, StateFields, RecordOf DEF Scannable
    <3>3. HandlesOf(record) \subseteq Handles
      BY <3>2, RowReferences
    <3>4. AllRead(q)'
      <4>1. \A h \in HandlesOf(record) : found'[q][h] = db.entities[h]
        BY <3>1, <3>3 DEF Resolve
      <4>2. HandlesOf(row[q])' = HandlesOf(record)
        BY <3>1 DEF HandlesOf
      <4> QED
        BY <3>1, <4>1, <4>2 DEF AllRead
    <3> QED
      BY <3>1, <3>4 DEF WholeInv, Answered
  <2>2. CASE ~Scannable(driver, record)
    <3>1. pc'[q] = "error"
      BY <1>5, <2>2 DEF MemoryAggregate
    <3> QED
      BY <3>1 DEF WholeInv, Answered
  <2> QED
    BY <2>1, <2>2
<1>6. CASE ReadDomain(q)
  <2>1. /\ pc'[q] \in {"related", "error"}
        /\ pc'[q] = "related" => todo'[q] = HandlesOf(row'[q])
    <3> DEFINE record == Record(driver, db.domains[query[q].name])
    <3>1. CASE Scannable(driver, record)
      <4>1. /\ pc' = [pc EXCEPT ![q] = "related"]
            /\ row' = [row EXCEPT ![q] = record]
            /\ todo' = [todo EXCEPT ![q] = HandlesOf(record)]
        BY <1>6, <3>1 DEF ReadDomain
      <4>2. pc'[q] = "related" /\ row'[q] = record /\ todo'[q] = HandlesOf(record)
        BY <4>1
      <4> QED
        BY <4>2
    <3>2. CASE ~Scannable(driver, record)
      BY <1>6, <3>2 DEF ReadDomain
    <3> QED
      BY <3>1, <3>2
  <2>2. pc'[q] = "related" => AllRead(q)'
    BY <2>1 DEF AllRead, HandlesOf
  <2> QED
    BY <2>1, <2>2 DEF WholeInv, Answered
<1>7. CASE ReadContact(q)
  <2>1. PICK h \in todo[q] :
          /\ todo' = [todo EXCEPT ![q] = @ \ {h}]
          /\ found' = [found EXCEPT ![q][h] =
                         IF tx[q] = "open" THEN ReadView(q).entities[h] ELSE NoRow]
    BY <1>7 DEF ReadContact
  <2>2. /\ pc[q] = "related" /\ pc' = pc /\ row' = row /\ snapshot' = snapshot /\ faulty' = faulty
        /\ isolation[q] = "repeatable read"
    BY <1>7 DEF ReadContact, txVars, ReaderInv
  <2>a. HandlesOf(row[q])' = HandlesOf(row[q])
    BY <2>2 DEF HandlesOf
  <2>b. SUFFICES ASSUME q \notin faulty PROVE AllRead(q)'
    BY <2>2 DEF WholeInv, Answered
  <2>3. SUFFICES ASSUME NEW g \in HandlesOf(row[q]) \ todo'[q]
                 PROVE  found'[q][g] = snapshot[q].entities[g]
    BY <2>2, <2>a DEF AllRead
  <2>4. tx[q] = "open" /\ ReadView(q) = snapshot[q]
    <3>1. tx[q] = "open"
      BY <2>2, <2>b DEF MissInv
    <3>2. snapshot[q] # NoView
      BY <2>2, NoViewIsNoState DEF ReaderInv, AggregateOf
    <3> QED
      BY <2>2, <3>1, <3>2 DEF ReadView
  <2>5. g = h \/ g \in HandlesOf(row[q]) \ todo[q]
    BY <2>1, <2>3
  <2>6. h \in Handles /\ found[q] \in [Handles -> VCards \union {NoRow}]
    BY <2>1
  <2>7. CASE g = h
    BY <2>1, <2>4, <2>6, <2>7
  <2>8. CASE g # h
    <3>1. found'[q][g] = found[q][g]
      <4>1. PICK v : found' = [found EXCEPT ![q][h] = v]
        BY <2>1
      <4>2. found'[q] = [found[q] EXCEPT ![h] = v]
        BY <4>1
      <4>3. row[q] \in DomainRows
        BY <2>2 DEF ReaderInv, AggregateOf, Scannable
      <4>4. g \in Handles
        BY <2>3, <4>3, RowReferences
      <4> QED
        BY <2>6, <2>8, <4>2, <4>4
    <3> QED
      BY <2>2, <2>b, <2>5, <2>8, <3>1 DEF WholeInv, AllRead
  <2> QED
    BY <2>7, <2>8
<1>8. CASE ReadNameserver(q)
  BY <1>8, WholeFrame DEF ReadNameserver, txVars
<1>9. CASE CommitTx(q)
  <2>1. /\ pc[q] = "related" /\ pc'[q] \in {"render", "error"} /\ faulty' = faulty
        /\ row' = row /\ todo' = todo /\ found' = found /\ snapshot' = snapshot
    BY <1>9 DEF CommitTx, aggVars
  <2>2. AllRead(q)' <=> AllRead(q)
    <3>1. HandlesOf(row[q])' = HandlesOf(row[q])
      BY <2>1 DEF HandlesOf
    <3> QED
      BY <2>1, <3>1 DEF AllRead
  <2> QED
    BY <2>1, <2>2 DEF WholeInv, Answered
<1>10. CASE Fault(q)
  <2>1. q \in faulty'
    BY <1>10 DEF Fault, BeginFails, StatementFails, ContactFails, NameserverFails, ConnectionLost
  <2> QED
    BY <2>1 DEF WholeInv
<1>11. CASE Respond(q)
  <2>1. pc'[q] = "idle" /\ faulty' = faulty /\ query' = query /\ snapshot' = snapshot
    BY <1>11 DEF Respond, txVars
  <2>2. SUFFICES ASSUME q \notin faulty, answer'[q] # NotFound PROVE Whole(q)'
    BY <2>1 DEF WholeInv, Answered, NotFound
  <2>3. pc[q] = "render" /\ answer'[q] = Answer(query[q].protocol, row[q], found[q])
    BY <1>11, <2>2 DEF Respond
  <2>4. row[q] = RowSeen(q) /\ found[q] = Resolve(row[q], snapshot[q].entities)
    <3>1. AllRead(q)
      BY <2>2, <2>3 DEF WholeInv
    <3> QED
      BY <2>3, <3>1, FoundAll
  <2>5. RowSeen(q)' = RowSeen(q)
    BY <2>1 DEF RowSeen
  <2>6. Resolve(RowSeen(q), snapshot[q].entities)' = Resolve(RowSeen(q), snapshot[q].entities)
    BY <2>1, <2>5 DEF Resolve, HandlesOf
  <2> QED
    BY <2>1, <2>3, <2>4, <2>5, <2>6 DEF Whole
<1> QED
  BY <1>1, <1>2, <1>3, <1>4, <1>5, <1>6, <1>7, <1>8, <1>9, <1>10, <1>11 DEF Next, Store

\* With PostgreSQL and in memory, an answer shows every entity the database
\* has for the domain, from one committed state; with MySQL, unless a statement
\* of the request failed.
THEOREM CompleteAnswersHolds == Spec => []CompleteAnswers
<1>1. TypeOK /\ Inv /\ WholesInv => CompleteAnswers
  <2> SUFFICES ASSUME TypeOK, Inv, WholesInv, NEW r \in Readers, Answered(r),
                      driver = "mysql" => r \notin faulty
               PROVE  Whole(r)
    BY DEF CompleteAnswers
  <2>1. CASE driver # "mysql"
    BY <2>1, NothingMissingInv DEF NothingMissing
  <2>2. CASE r \notin faulty
    BY <2>2 DEF WholesInv, WholeInv
  <2> QED
    BY <2>1, <2>2
<1> QED
  BY <1>1, InitType, NextType, InitInv, NextInv, InitMisses, NextMisses, InitWholes, NextWholes,
     PTL DEF Spec

-----------------------------------------------------------------------------
(* Progress: the variant behind EveryRequestAnswered.                      *)

\* The steps that go on to another place of GetDomainAggregate.
LEMMA MovesOn ==
    ASSUME TypeOK, NEW r \in Readers,
           \/ MemoryAggregate(r) \/ Begin(r) \/ SetIsolation(r) \/ ReadDomain(r) \/ CommitTx(r)
           \/ BeginFails(r) \/ StatementFails(r) \/ Respond(r)
    PROVE  Closer(r)
<1>0. pc \in [Readers -> Locations]
  BY DEF TypeOK, RequestType
<1>1. \/ pc[r] = "locked" /\ pc'[r] \in {"render", "error"}
      \/ pc[r] = "begin" /\ pc'[r] \in {"isolation", "domain", "error"}
      \/ pc[r] = "isolation" /\ pc'[r] \in {"domain", "error"}
      \/ pc[r] = "domain" /\ pc'[r] \in {"related", "error"}
      \/ pc[r] = "related" /\ pc'[r] \in {"render", "error"}
      \/ pc[r] \in {"render", "error"} /\ pc'[r] = "idle"
  <2>1. CASE MemoryAggregate(r)
    BY <1>0, <2>1 DEF MemoryAggregate
  <2>2. CASE Begin(r) \/ SetIsolation(r) \/ CommitTx(r)
    BY <1>0, <2>2 DEF Begin, SetIsolation, CommitTx
  <2>3. CASE ReadDomain(r)
    BY <1>0, <2>3 DEF ReadDomain
  <2>4. CASE BeginFails(r) \/ StatementFails(r) \/ Respond(r)
    BY <1>0, <2>4 DEF BeginFails, StatementFails, Respond
  <2> QED
    BY <2>1, <2>2, <2>3, <2>4
<1>2. Remaining[pc'[r]] < Remaining[pc[r]]
  BY <1>1 DEF Remaining
<1> QED
  BY <1>2 DEF Closer

\* The steps among the related rows.
LEMMA ReadsOn ==
    ASSUME TypeOK, NEW r \in Readers,
           ReadContact(r) \/ ReadNameserver(r) \/ ContactFails(r) \/ NameserverFails(r)
           \/ ConnectionLost(r)
    PROVE  Closer(r)
<1>0. /\ tx \in [Readers -> {"none", "open", "aborted", "lost"}]
      /\ todo \in [Readers -> SUBSET Handles] /\ todoNS \in [Readers -> SUBSET Nameservers]
  BY DEF TypeOK, TxType, AggregateType
<1>1. CASE ReadContact(r) \/ ContactFails(r)
  <2>1. PICK h \in todo[r] : todo' = [todo EXCEPT ![r] = @ \ {h}] /\ todoNS' = todoNS /\ pc' = pc
    BY <1>1 DEF ReadContact, ContactFails
  <2>2. todo'[r] = todo[r] \ {h}
    BY <1>0, <2>1
  <2> QED
    BY <2>1, <2>2 DEF Closer
<1>2. CASE ReadNameserver(r) \/ NameserverFails(r)
  <2>1. PICK n \in todoNS[r] : todoNS' = [todoNS EXCEPT ![r] = @ \ {n}] /\ todo' = todo /\ pc' = pc
    BY <1>2 DEF ReadNameserver, NameserverFails
  <2>2. todoNS'[r] = todoNS[r] \ {n}
    BY <1>0, <2>1
  <2> QED
    BY <2>1, <2>2 DEF Closer
<1>3. CASE ConnectionLost(r)
  <2>1. /\ pc' = pc /\ todo' = todo /\ todoNS' = todoNS
        /\ tx[r] \in {"open", "aborted"} /\ tx'[r] = "lost"
    BY <1>0, <1>3 DEF ConnectionLost, aggVars
  <2> QED
    BY <2>1 DEF Closer
<1> QED
  BY <1>1, <1>2, <1>3

\* The steps of another request.
LEMMA OthersStay ==
    ASSUME TypeOK, NEW q \in Readers, NEW r \in Readers \ {q},
           Request(r) \/ Begin(r) \/ Store(r) \/ Fault(r) \/ Respond(r)
    PROVE  UNCHANGED Place(q)
<1> USE DEF Place
<1>0. /\ pc \in [Readers -> Locations] /\ tx \in [Readers -> {"none", "open", "aborted", "lost"}]
      /\ row \in [Readers -> DomainRows \union {NoRow}]
      /\ todo \in [Readers -> SUBSET Handles] /\ todoNS \in [Readers -> SUBSET Nameservers]
      /\ found \in [Readers -> [Handles -> VCards \union {NoRow}]]
  BY DEF TypeOK, RequestType, TxType, AggregateType
<1>1. CASE Request(r) \/ Begin(r) \/ Respond(r)
  BY <1>0, <1>1 DEF Request, Begin, Respond, txVars, aggVars
<1>2. CASE MemoryAggregate(r)
  BY <1>0, <1>2 DEF MemoryAggregate
<1>3. CASE ReadDomain(r)
  BY <1>0, <1>3 DEF ReadDomain, Release
<1>4. CASE SetIsolation(r) \/ ReadContact(r)
  BY <1>0, <1>4 DEF SetIsolation, ReadContact, txVars, aggVars
<1>5. CASE ReadNameserver(r) \/ CommitTx(r)
  BY <1>0, <1>5 DEF ReadNameserver, CommitTx, Release, txVars, aggVars
<1>6. CASE BeginFails(r) \/ StatementFails(r) \/ ConnectionLost(r)
  BY <1>0, <1>6 DEF BeginFails, StatementFails, ConnectionLost, Release, txVars, aggVars
<1>7. CASE ContactFails(r) \/ NameserverFails(r)
  BY <1>0, <1>7 DEF ContactFails, NameserverFails
<1> QED
  BY <1>1, <1>2, <1>3, <1>4, <1>5, <1>6, <1>7 DEF Store, Fault

\* A step of a request brings it closer to its answer, whatever fails: with
\* fairness this is why every request is answered, for any number of contacts,
\* nameservers and competing requests.
THEOREM RequestsAdvanceHolds == Spec => RequestsAdvance
<1>1. TypeOK /\ [Next]_vars =>
        [\A r \in Readers : pc[r] # "idle" => UNCHANGED Place(r) \/ Closer(r)]_vars
  <2> SUFFICES ASSUME TypeOK, Next, NEW q \in Readers, pc[q] # "idle"
               PROVE  UNCHANGED Place(q) \/ Closer(q)
    OBVIOUS
  <2>1. CASE RegistryCommits
    BY <2>1 DEF RegistryCommits, Place, txVars, aggVars
  <2>2. ASSUME NEW r \in Readers \ {q}, Request(r) \/ Begin(r) \/ Store(r) \/ Fault(r) \/ Respond(r)
        PROVE  UNCHANGED Place(q)
    BY <2>2, OthersStay
  <2>3. ~Request(q)
    BY DEF Request
  <2>4. CASE Begin(q) \/ Store(q) \/ Fault(q) \/ Respond(q)
    BY <2>4, MovesOn, ReadsOn DEF Store, Fault
  <2> QED
    BY <2>1, <2>2, <2>3, <2>4 DEF Next
<1> QED
  BY <1>1, TypeCorrect, PTL DEF Spec, RequestsAdvance

-----------------------------------------------------------------------------
(* Refinement: the statements of a request amount to one look at the       *)
(* database.                                                               *)

\* The abstract query: none while the request goroutine is idle.
AbsQuery == [r \in Readers |-> IF pc[r] = "idle" THEN NoQuery ELSE query[r]]

LEMMA InitRefines == Init => Atomic!AInit
<1> SUFFICES ASSUME Init PROVE Atomic!AInit
  OBVIOUS
<1>1. AbsQuery = [r \in Readers |-> NoQuery]
  BY DEF Init, AbsQuery
<1> QED
  BY <1>1, SameMarkers DEF Init, AbsQuery, Atomic!AInit

\* A step that answers nothing, starts no request and reads no domain row is
\* invisible to the abstract specification.
LEMMA Invisible ==
    ASSUME driver' = driver, db' = db, query' = query, snapshot' = snapshot, answer' = answer,
           \A r \in Readers : pc'[r] = "idle" <=> pc[r] = "idle"
    PROVE  UNCHANGED Atomic!avars
<1>1. AbsQuery' = AbsQuery
  BY DEF AbsQuery, NoQuery
<1> QED
  BY <1>1 DEF AbsQuery, Atomic!avars

\* Reading the domain row is the one look.
LEMMA LookRefines ==
    ASSUME TypeOK, NEW r \in Readers, pc[r] # "idle", snapshot[r] = NoView,
           snapshot' = [snapshot EXCEPT ![r] = db],
           driver' = driver, db' = db, query' = query, answer' = answer,
           \A q \in Readers : pc'[q] = "idle" <=> pc[q] = "idle"
    PROVE  Atomic!Look(r)
<1>1. AbsQuery' = AbsQuery
  BY DEF AbsQuery, NoQuery
<1>2. AbsQuery[r] # NoQuery
  BY DEF AbsQuery, TypeOK, RequestType
<1> QED
  BY <1>1, <1>2, SameMarkers DEF AbsQuery, Atomic!Look

LEMMA RequestRefines ==
    ASSUME TypeOK, NEW r \in Readers, Request(r)
    PROVE  Atomic!Ask(r)
<1>1. PICK n \in Names, p \in Protocols :
        query' = [query EXCEPT ![r] = [name |-> n, protocol |-> p]]
  BY DEF Request
<1> DEFINE asked == [name |-> n, protocol |-> p]
<1>2. AbsQuery[r] = NoQuery
  BY DEF Request, AbsQuery
<1>3. AbsQuery' = [AbsQuery EXCEPT ![r] = asked]
  BY <1>1 DEF Request, AbsQuery, NoQuery, TypeOK, RequestType
<1>4. /\ snapshot' = [snapshot EXCEPT ![r] = NoView]
      /\ answer' = [answer EXCEPT ![r] = Pending] /\ db' = db /\ driver' = driver
  BY DEF Request, poolVars
<1> QED
  BY <1>2, <1>3, <1>4, SameMarkers DEF AbsQuery, Atomic!Ask

LEMMA RespondRefines ==
    ASSUME TypeOK, Inv, NEW r \in Readers, Respond(r)
    PROVE  Atomic!Reply(r) \/ Atomic!GiveUp(r)
<1>1. AbsQuery[r] = query[r] /\ AbsQuery[r] # NoQuery
  BY DEF Respond, AbsQuery, TypeOK, RequestType
<1>2. AbsQuery' = [AbsQuery EXCEPT ![r] = NoQuery]
  BY DEF Respond, AbsQuery, NoQuery, TypeOK, RequestType
<1>3. driver' = driver /\ db' = db /\ snapshot' = snapshot
  BY DEF Respond, poolVars, txVars
<1>4. CASE pc[r] = "error"
  <2>1. answer' = [answer EXCEPT ![r] = NotFound]
    BY <1>4 DEF Respond
  <2> QED
    BY <1>1, <1>2, <1>3, <2>1, SameMarkers DEF AbsQuery, Atomic!GiveUp
<1>5. CASE pc[r] = "render"
  <2>1. answer' = [answer EXCEPT ![r] = Answer(query[r].protocol, row[r], found[r])]
    BY <1>5 DEF Respond
  <2>2. PICK L \in SUBSET Handles :
          /\ L # {} => driver = "mysql"
          /\ Answer(query[r].protocol, row[r], found[r])
               = Atomic!AnswerFrom(driver, snapshot[r], query[r], L)
    BY <1>5, RenderedAnswer DEF Inv
  <2>3. snapshot[r] # NoView
    BY <1>5, NoViewIsNoState DEF Inv, ReaderInv, AggregateOf
  <2>4. answer' = [answer EXCEPT ![r] = Atomic!AnswerFrom(driver, snapshot[r], AbsQuery[r], L)]
    BY <1>1, <2>1, <2>2
  <2> QED
    BY <1>1, <1>2, <1>3, <2>2, <2>3, <2>4, SameMarkers DEF AbsQuery, Atomic!Reply
<1> QED
  BY <1>4, <1>5 DEF Respond

LEMMA NextRefines == TypeOK /\ Inv /\ [Next]_vars => [Atomic!ANext]_(Atomic!avars)
<1> SUFFICES ASSUME TypeOK, Inv, [Next]_vars PROVE Atomic!ANext \/ UNCHANGED Atomic!avars
  OBVIOUS
<1>0. driver' = driver
  BY DriverFixed
<1> USE <1>0
<1>1. CASE UNCHANGED vars
  BY <1>1, Invisible DEF vars
<1>2. CASE RegistryCommits
  <2>1. AbsQuery' = AbsQuery
    BY <1>2 DEF RegistryCommits, AbsQuery, NoQuery
  <2>2. Atomic!Commit
    BY <1>2, <2>1 DEF RegistryCommits, txVars, AbsQuery, Atomic!Commit
  <2> QED
    BY <2>2 DEF Atomic!ANext
<1>3. ASSUME NEW r \in Readers, Request(r) PROVE Atomic!ANext
  BY <1>3, RequestRefines DEF Atomic!ANext
<1>4. ASSUME NEW r \in Readers, MemoryAggregate(r) PROVE Atomic!ANext
  <2>1. pc[r] # "idle" /\ snapshot[r] = NoView
    BY <1>4 DEF MemoryAggregate, Inv, ReaderInv
  <2>2. \A q \in Readers : pc'[q] = "idle" <=> pc[q] = "idle"
    BY <1>4 DEF MemoryAggregate, TypeOK, RequestType
  <2>3. Atomic!Look(r)
    BY <1>4, <2>1, <2>2, LookRefines DEF MemoryAggregate, poolVars
  <2> QED
    BY <2>3 DEF Atomic!ANext
<1>5. ASSUME NEW r \in Readers, ReadDomain(r) PROVE Atomic!ANext
  <2>1. pc[r] # "idle" /\ snapshot[r] = NoView
    BY <1>5 DEF ReadDomain, Inv, ReaderInv
  <2>2. \A q \in Readers : pc'[q] = "idle" <=> pc[q] = "idle"
    BY <1>5 DEF ReadDomain, TypeOK, RequestType
  <2>3. Atomic!Look(r)
    BY <1>5, <2>1, <2>2, LookRefines DEF ReadDomain
  <2> QED
    BY <2>3 DEF Atomic!ANext
<1>6. ASSUME NEW r \in Readers, Respond(r) PROVE Atomic!ANext
  BY <1>6, RespondRefines DEF Atomic!ANext
<1>7. ASSUME NEW r \in Readers, Begin(r) \/ SetIsolation(r) \/ CommitTx(r)
      PROVE  UNCHANGED Atomic!avars
  <2>1. \A q \in Readers : pc'[q] = "idle" <=> pc[q] = "idle"
    BY <1>7 DEF Begin, SetIsolation, CommitTx, TypeOK, RequestType
  <2> QED
    BY <1>7, <2>1, Invisible DEF Begin, SetIsolation, CommitTx, poolVars
<1>8. ASSUME NEW r \in Readers, ReadContact(r) \/ ReadNameserver(r)
      PROVE  UNCHANGED Atomic!avars
  BY <1>8, Invisible DEF ReadContact, ReadNameserver, poolVars, txVars
<1>9. ASSUME NEW r \in Readers, Fault(r) PROVE UNCHANGED Atomic!avars
  <2>1. \A q \in Readers : pc'[q] = "idle" <=> pc[q] = "idle"
    BY <1>9 DEF Fault, BeginFails, StatementFails, ContactFails, NameserverFails, ConnectionLost,
                TypeOK, RequestType
  <2>2. driver' = driver /\ db' = db /\ query' = query /\ snapshot' = snapshot /\ answer' = answer
    BY <1>9 DEF Fault, BeginFails, StatementFails, ContactFails, NameserverFails, ConnectionLost,
                poolVars, txVars
  <2> QED
    BY <2>1, <2>2, Invisible
<1> QED
  BY <1>1, <1>2, <1>3, <1>4, <1>5, <1>6, <1>7, <1>8, <1>9 DEF Next, Store

\* GetDomainAggregate keeps the promise of store.Interface: every request is
\* answered as if it had looked at the whole database at one moment between
\* its arrival and its answer.
THEOREM AtomicLookupRefined == Spec => LooksAtomic
BY TypeCorrect, Invariance, InitRefines, NextRefines, PTL DEF Spec, LooksAtomic, Atomic!ASpec

=============================================================================
