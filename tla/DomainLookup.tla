---------------------------- MODULE DomainLookup ----------------------------
(***************************************************************************)
(* Concurrent domain requests (HTTP GET /domain/{name} and WHOIS queries)  *)
(* against one store, while the registry that owns the database commits    *)
(* transactions of its own.  A request is a goroutine: it takes a          *)
(* connection from the pool, runs GetDomainAggregate one statement at a    *)
(* time in a transaction, gives the connection back, and renders the       *)
(* aggregate.  Every statement can fail, and the connection can be lost.   *)
(*                                                                         *)
(* The database itself is external.  It is modelled by what the code uses: *)
(* READ COMMITTED is the isolation level of a new transaction; under       *)
(* REPEATABLE READ all statements read the state that was committed when   *)
(* the first of them ran; PostgreSQL aborts a transaction in which a       *)
(* statement failed (and then refuses to commit it), MySQL does not.       *)
(***************************************************************************)
EXTENDS RegistryData, Integers, FiniteSets

CONSTANTS
    Drivers,      \* the settings of storage.driver
    Readers,      \* request goroutines
    MaxOpen       \* storage.max_open_conns

ASSUME DriversAssumption == Drivers \subseteq AllDrivers
ASSUME ReadersAssumption == IsFiniteSet(Readers)
ASSUME MaxOpenAssumption == MaxOpen \in Nat \ {0}

VARIABLES
    driver,     \* storage.driver
    db,         \* the committed state of the database
    free,       \* connections the pool can still hand out
    pc,         \* [Readers -> where the request is]
    query,      \* [Readers -> the name and the protocol asked for]
    tx,         \* [Readers -> state of the request's transaction]
    isolation,  \* [Readers -> its isolation level]
    snapshot,   \* [Readers -> the state its first statement read]
    row,        \* [Readers -> the domain row read]
    todo,       \* [Readers -> the entities still to be looked up]
    todoNS,     \* [Readers -> the nameservers still to be looked up]
    found,      \* [Readers -> the contacts of the aggregate so far]
    faulty,     \* the requests for which a statement or connection has failed
    answer      \* [Readers -> what was answered]

poolVars == <<driver, db, free>>
txVars   == <<tx, isolation, snapshot>>
aggVars  == <<row, todo, todoNS, found>>
vars     == <<driver, db, free, pc, query, tx, isolation, snapshot,
              row, todo, todoNS, found, faulty, answer>>

\* The contacts of an aggregate nothing has been resolved for.
NothingFound == [h \in Handles |-> NoRow]

Init ==
    /\ driver \in Drivers
    /\ db \in DBStates
    /\ free = MaxOpen
    /\ pc = [r \in Readers |-> "idle"]
    /\ query = [r \in Readers |-> NoQuery]
    /\ tx = [r \in Readers |-> "none"]
    /\ isolation = [r \in Readers |-> "read committed"]
    /\ snapshot = [r \in Readers |-> NoView]
    /\ row = [r \in Readers |-> NoRow]
    /\ todo = [r \in Readers |-> {}]
    /\ todoNS = [r \in Readers |-> {}]
    /\ found = [r \in Readers |-> NothingFound]
    /\ faulty = {}
    /\ answer = [r \in Readers |-> NotFound]

-----------------------------------------------------------------------------
(* The environment: the registry's own transactions.  They are atomic and  *)
(* may change any rows at once (a transfer, a contact update, a deletion). *)
(* Nothing writes the memory store's maps after they are seeded.           *)

RegistryCommits ==
    /\ driver # "memory"
    /\ db' \in DBStates
    /\ UNCHANGED <<driver, free, pc, query, txVars, aggVars, faulty, answer>>

\* The state a statement of r's transaction reads.
ReadView(r) ==
    IF isolation[r] = "repeatable read" /\ snapshot[r] # NoView THEN snapshot[r] ELSE db

-----------------------------------------------------------------------------
(* A request arrives.                                                      *)

Request(r) ==
    /\ pc[r] = "idle"
    /\ \E n \in Names, p \in Protocols :
         query' = [query EXCEPT ![r] = [name |-> n, protocol |-> p]]
    /\ pc' = [pc EXCEPT ![r] = IF driver = "memory" THEN "locked" ELSE "begin"]
    /\ snapshot' = [snapshot EXCEPT ![r] = NoView]
    /\ faulty' = faulty \ {r}
    /\ answer' = [answer EXCEPT ![r] = Pending]
    /\ UNCHANGED <<poolVars, tx, isolation, aggVars>>

\* GetDomainAggregate of the memory store: one read lock over everything.
MemoryAggregate(r) ==
    /\ pc[r] = "locked"
    /\ snapshot' = [snapshot EXCEPT ![r] = db]
    /\ LET record == Record(driver, db.domains[query[r].name])
       IN  IF Scannable(driver, record)
           THEN /\ row' = [row EXCEPT ![r] = record]
                /\ found' = [found EXCEPT ![r] = Resolve(record, db.entities)]
                /\ pc' = [pc EXCEPT ![r] = "render"]
           ELSE /\ pc' = [pc EXCEPT ![r] = "error"]
                /\ UNCHANGED <<row, found>>
    /\ UNCHANGED <<poolVars, query, tx, isolation, todo, todoNS, faulty, answer>>

\* Mutant: an exhausted pool is an error instead of a wait.
Begin_NoWait(r) ==
    /\ pc[r] = "begin"
    /\ IF free > 0
       THEN /\ free' = free - 1
            /\ tx' = [tx EXCEPT ![r] = "open"]
            /\ pc' = [pc EXCEPT ![r] = "isolation"]
       ELSE /\ pc' = [pc EXCEPT ![r] = "error"]
            /\ UNCHANGED <<free, tx>>
    /\ UNCHANGED <<driver, db, query, isolation, snapshot, aggVars, faulty, answer>>

\* Mutant: the pool opens connections beyond max_open_conns.
Begin_NoLimit(r) ==
    /\ pc[r] = "begin"
    /\ free' = free - 1
    /\ tx' = [tx EXCEPT ![r] = "open"]
    /\ pc' = [pc EXCEPT ![r] = "isolation"]
    /\ UNCHANGED <<driver, db, query, isolation, snapshot, aggVars, faulty, answer>>

\* pool.Begin / db.BeginTx: waits, without a limit of time, for a connection.
\* BeginTx also sets the isolation level; the PostgreSQL store sets it next.
Begin(r) ==
    /\ pc[r] = "begin"
    /\ free > 0
    /\ free' = free - 1
    /\ tx' = [tx EXCEPT ![r] = "open"]
    /\ isolation' = [isolation EXCEPT ![r] =
                       IF driver = "mysql" THEN "repeatable read" ELSE "read committed"]
    /\ pc' = [pc EXCEPT ![r] = IF driver = "mysql" THEN "domain" ELSE "isolation"]
    /\ UNCHANGED <<driver, db, query, snapshot, aggVars, faulty, answer>>

\* Mutant: the isolation level is left at the default.
SetIsolation_Skipped(r) ==
    /\ pc[r] = "isolation"
    /\ pc' = [pc EXCEPT ![r] = "domain"]
    /\ UNCHANGED <<poolVars, query, txVars, aggVars, faulty, answer>>

\* SET TRANSACTION ISOLATION LEVEL REPEATABLE READ, before any other statement.
SetIsolation(r) ==
    /\ pc[r] = "isolation"
    /\ isolation' = [isolation EXCEPT ![r] = "repeatable read"]
    /\ pc' = [pc EXCEPT ![r] = "domain"]
    /\ UNCHANGED <<poolVars, query, tx, snapshot, aggVars, faulty, answer>>

\* The deferred Rollback (a no-op after Commit) ends the transaction and gives
\* the connection back on every way out of GetDomainAggregate.
Release(r) ==
    /\ free' = free + 1
    /\ tx' = [tx EXCEPT ![r] = "none"]

\* Mutant: a missing row returns without the rollback.
ReadDomain_Leak(r) ==
    /\ pc[r] = "domain"
    /\ snapshot' = [snapshot EXCEPT ![r] = db]
    /\ LET record == Record(driver, db.domains[query[r].name])
       IN  IF Scannable(driver, record)
           THEN /\ row' = [row EXCEPT ![r] = record]
                /\ todo' = [todo EXCEPT ![r] = HandlesOf(record)]
                /\ todoNS' = [todoNS EXCEPT ![r] = NameserversOf(record)]
                /\ pc' = [pc EXCEPT ![r] = "related"]
                /\ UNCHANGED tx
           ELSE /\ tx' = [tx EXCEPT ![r] = "none"]
                /\ pc' = [pc EXCEPT ![r] = "error"]
                /\ UNCHANGED <<row, todo, todoNS>>
    /\ UNCHANGED <<poolVars, query, isolation, found, faulty, answer>>

\* The domain row: the first read of the transaction, so its snapshot.
ReadDomain(r) ==
    /\ pc[r] = "domain"
    /\ snapshot' = [snapshot EXCEPT ![r] = db]
    /\ LET record == Record(driver, db.domains[query[r].name])
       IN  IF Scannable(driver, record)
           THEN /\ row' = [row EXCEPT ![r] = record]
                /\ todo' = [todo EXCEPT ![r] = HandlesOf(record)]
                /\ todoNS' = [todoNS EXCEPT ![r] = NameserversOf(record)]
                /\ pc' = [pc EXCEPT ![r] = "related"]
                /\ UNCHANGED <<free, tx>>
           ELSE /\ Release(r)
                /\ pc' = [pc EXCEPT ![r] = "error"]
                /\ UNCHANGED <<row, todo, todoNS>>
    /\ UNCHANGED <<driver, db, query, isolation, found, faulty, answer>>

\* Mutant: contacts are read on another connection (LookupContact).
ReadContact_OutsideTx(r) ==
    /\ pc[r] = "related"
    /\ \E h \in todo[r] :
         /\ todo' = [todo EXCEPT ![r] = @ \ {h}]
         /\ found' = [found EXCEPT ![r][h] = db.entities[h]]
    /\ UNCHANGED <<poolVars, pc, query, txVars, row, todoNS, faulty, answer>>

\* lookupContactTx of one handle (the map is ranged over in any order).  A row
\* that does not exist and a statement that is refused are both skipped.
ReadContact(r) ==
    /\ pc[r] = "related"
    /\ \E h \in todo[r] :
         /\ todo' = [todo EXCEPT ![r] = @ \ {h}]
         /\ found' = [found EXCEPT ![r][h] =
                        IF tx[r] = "open" THEN ReadView(r).entities[h] ELSE NoRow]
    /\ UNCHANGED <<poolVars, pc, query, txVars, row, todoNS, faulty, answer>>

\* A nameserver row; it enters the aggregate but no renderer looks at it.
ReadNameserver(r) ==
    /\ pc[r] = "related" /\ todo[r] = {}
    /\ \E ns \in todoNS[r] : todoNS' = [todoNS EXCEPT ![r] = @ \ {ns}]
    /\ UNCHANGED <<poolVars, pc, query, txVars, row, todo, found, faulty, answer>>

\* The database refuses the statement, and with it (PostgreSQL) the rest of
\* the transaction.
AfterRefusal == IF driver = "postgres" THEN "aborted" ELSE "open"

\* Mutant: a statement that was refused is sent again.
ContactFails_Retried(r) ==
    /\ pc[r] = "related" /\ tx[r] = "open" /\ todo[r] # {}
    /\ tx' = [tx EXCEPT ![r] = AfterRefusal]
    /\ faulty' = faulty \union {r}
    /\ UNCHANGED <<poolVars, pc, query, isolation, snapshot, aggVars, answer>>

ContactFails(r) ==
    /\ pc[r] = "related" /\ tx[r] = "open"
    /\ \E h \in todo[r] : todo' = [todo EXCEPT ![r] = @ \ {h}]
    /\ tx' = [tx EXCEPT ![r] = AfterRefusal]
    /\ faulty' = faulty \union {r}
    /\ UNCHANGED <<poolVars, pc, query, isolation, snapshot, row, todoNS, found, answer>>

NameserverFails(r) ==
    /\ pc[r] = "related" /\ tx[r] = "open" /\ todo[r] = {}
    /\ \E ns \in todoNS[r] : todoNS' = [todoNS EXCEPT ![r] = @ \ {ns}]
    /\ tx' = [tx EXCEPT ![r] = AfterRefusal]
    /\ faulty' = faulty \union {r}
    /\ UNCHANGED <<poolVars, pc, query, isolation, snapshot, row, todo, found, answer>>

\* The connection is lost while the related rows are read: every later
\* statement and the Commit fail.
ConnectionLost(r) ==
    /\ pc[r] = "related" /\ tx[r] \in {"open", "aborted"}
    /\ tx' = [tx EXCEPT ![r] = "lost"]
    /\ faulty' = faulty \union {r}
    /\ UNCHANGED <<poolVars, pc, query, isolation, snapshot, aggVars, answer>>

\* Mutant: the error of Commit is ignored.
CommitTx_ErrorIgnored(r) ==
    /\ pc[r] = "related" /\ todo[r] = {} /\ todoNS[r] = {}
    /\ pc' = [pc EXCEPT ![r] = "render"]
    /\ Release(r)
    /\ UNCHANGED <<driver, db, query, isolation, snapshot, aggVars, faulty, answer>>

\* Commit returns the aggregate, or an error if the transaction is not open.
CommitTx(r) ==
    /\ pc[r] = "related" /\ todo[r] = {} /\ todoNS[r] = {}
    /\ pc' = [pc EXCEPT ![r] = IF tx[r] = "open" THEN "render" ELSE "error"]
    /\ Release(r)
    /\ UNCHANGED <<driver, db, query, isolation, snapshot, aggVars, faulty, answer>>

\* Begin fails without a connection; the isolation or the domain statement or
\* the Commit fails with one.
BeginFails(r) ==
    /\ pc[r] = "begin"
    /\ pc' = [pc EXCEPT ![r] = "error"]
    /\ faulty' = faulty \union {r}
    /\ UNCHANGED <<poolVars, query, txVars, aggVars, answer>>

StatementFails(r) ==
    /\ \/ pc[r] \in {"isolation", "domain"}
       \/ pc[r] = "related" /\ todo[r] = {} /\ todoNS[r] = {}
    /\ pc' = [pc EXCEPT ![r] = "error"]
    /\ faulty' = faulty \union {r}
    /\ Release(r)
    /\ UNCHANGED <<driver, db, query, isolation, snapshot, aggVars, answer>>

\* The aggregate is rendered; an error of the store is answered "not found".
Respond(r) ==
    /\ pc[r] \in {"render", "error"}
    /\ answer' = [answer EXCEPT ![r] =
                    IF pc[r] = "render"
                    THEN Answer(query[r].protocol, row[r], found[r]) ELSE NotFound]
    /\ pc' = [pc EXCEPT ![r] = "idle"]
    /\ row' = [row EXCEPT ![r] = NoRow]
    /\ todo' = [todo EXCEPT ![r] = {}]
    /\ todoNS' = [todoNS EXCEPT ![r] = {}]
    /\ found' = [found EXCEPT ![r] = NothingFound]
    /\ UNCHANGED <<poolVars, query, txVars, faulty>>

-----------------------------------------------------------------------------

Store(r) ==
    \/ MemoryAggregate(r)
    \/ SetIsolation(r)
    \/ ReadDomain(r)
    \/ ReadContact(r)
    \/ ReadNameserver(r)
    \/ CommitTx(r)

Fault(r) ==
    \/ BeginFails(r)
    \/ StatementFails(r)
    \/ ContactFails(r)
    \/ NameserverFails(r)
    \/ ConnectionLost(r)

Next ==
    \/ RegistryCommits
    \/ \E r \in Readers : Request(r) \/ Begin(r) \/ Store(r) \/ Fault(r) \/ Respond(r)

\* A goroutine with something to do is eventually scheduled and the database
\* answers each statement; puddle (and, up to chance, database/sql) hands a
\* freed connection to a waiter, so no waiter is passed over for ever.
Fairness ==
    \A r \in Readers :
        /\ SF_vars(Begin(r))
        /\ WF_vars(Store(r))
        /\ WF_vars(Respond(r))

Spec == Init /\ [][Next]_vars /\ Fairness

-----------------------------------------------------------------------------
(* Properties.                                                             *)

Locations == {"idle", "locked", "begin", "isolation", "domain", "related", "render", "error"}

Queries == [name : Names, protocol : Protocols] \union {NoQuery}

PoolType == driver \in Drivers /\ db \in DBStates /\ free \in Nat

RequestType ==
    /\ pc \in [Readers -> Locations]
    /\ query \in [Readers -> Queries]
    /\ \A r \in Readers : pc[r] # "idle" => query[r] # NoQuery
    /\ faulty \subseteq Readers
    /\ DOMAIN answer = Readers

TxType ==
    /\ tx \in [Readers -> {"none", "open", "aborted", "lost"}]
    /\ isolation \in [Readers -> {"read committed", "repeatable read"}]
    /\ snapshot \in [Readers -> DBStates \union {NoView}]

AggregateType ==
    /\ row \in [Readers -> DomainRows \union {NoRow}]
    /\ todo \in [Readers -> SUBSET Handles]
    /\ todoNS \in [Readers -> SUBSET Nameservers]
    /\ found \in [Readers -> [Handles -> VCards \union {NoRow}]]

\* Every variable holds a value of its type; the pool never promises more
\* connections than it has, and a request under way has a query.
TypeOK == PoolType /\ RequestType /\ TxType /\ AggregateType

\* The requests that hold a connection.
Holders == {r \in Readers : pc[r] \in {"isolation", "domain", "related"}}

\* No connection leaks and none is handed out twice: every way out of
\* GetDomainAggregate (postgres.go:111, mysql.go:169), errors included, gives
\* back exactly the connection that Begin took.
PoolAccounting ==
    /\ free + Cardinality(Holders) = MaxOpen
    /\ \A r \in Readers : tx[r] # "none" <=> r \in Holders

\* The requests that were answered with data, and the row they saw.
Answered(r) == pc[r] = "idle" /\ answer[r] # NotFound
RowSeen(r)  == Record(driver, snapshot[r].domains[query[r].name])

\* No torn answer (domain/models.go:193): whatever is committed while a
\* request runs, and whatever fails, the registrar, the contacts and the
\* nameservers it shows are those of one and the same committed state.
NeverTorn ==
    \A r \in Readers : Answered(r) =>
        /\ snapshot[r] \in DBStates
        /\ Scannable(driver, RowSeen(r))
        /\ answer[r].nameservers = RowSeen(r).nameservers
        /\ answer[r].kind = "rdap" => answer[r].registrar.handle = RowSeen(r).registrar
        /\ CardsShown(answer[r]) \subseteq
             {Example} \union {<<h, snapshot[r].entities[h]>> : h \in HandlesOf(RowSeen(r))}

\* The answer shows all the snapshot has of the domain.
Whole(r) ==
    answer[r] = Answer(query[r].protocol, RowSeen(r), Resolve(RowSeen(r), snapshot[r].entities))

\* An answer leaves nothing out: an entity that has a row in the state the
\* answer shows is rendered from that row, never as the example and never
\* skipped (service.go:326-331).
NothingMissing ==
    \A r \in Readers : Answered(r) => Whole(r)

\* The PostgreSQL and the memory store leave nothing out of an answer, whatever
\* fails and whatever is committed meanwhile: a statement that PostgreSQL refuses
\* aborts the transaction, and the Commit reports it (postgres.go:173).  The MySQL
\* store leaves nothing out unless a statement of the same request failed.
CompleteAnswers ==
    \A r \in Readers : Answered(r) /\ (driver = "mysql" => r \notin faulty) => Whole(r)

\* "Not found" is the truth unless something failed: the request looked at the
\* database and the domain had no row that can be read (handlers.go:158-161).
NotFoundIsTrue ==
    \A r \in Readers :
        (pc[r] = "idle" /\ query[r] # NoQuery /\ answer[r] = NotFound /\ r \notin faulty) =>
            snapshot[r] # NoView /\ ~Scannable(driver, RowSeen(r))

\* How far a request is from its answer, and what it has got so far.
Remaining == [begin |-> 5, isolation |-> 4, domain |-> 3, locked |-> 3, related |-> 2,
              render |-> 1, error |-> 1, idle |-> 0]
Place(r) == <<pc[r], tx[r], row[r], todo[r], todoNS[r], found[r]>>

Closer(r) ==
    \/ Remaining[pc'[r]] < Remaining[pc[r]]
    \/ /\ pc'[r] = pc[r] /\ todo'[r] \subseteq todo[r] /\ todoNS'[r] \subseteq todoNS[r]
       /\ \/ todo'[r] # todo[r] \/ todoNS'[r] # todoNS[r]
          \/ tx[r] # "lost" /\ tx'[r] = "lost"

\* Whatever fails, a step of a request brings it closer to its answer, and no step
\* of another touches it: nothing is sent again, a lookup that is still to come
\* is never added, and a lost connection stays lost (postgres.go:111-178).
RequestsAdvance ==
    [][\A r \in Readers : pc[r] # "idle" => UNCHANGED Place(r) \/ Closer(r)]_vars

\* Every request is answered, however many requests compete for the pool.
EveryRequestAnswered == \A r \in Readers : (pc[r] # "idle") ~> (pc[r] = "idle")

\* The store does what its interface promises (store.go:22-28): the many
\* statements of a request amount to one look at the database.
Atomic == INSTANCE AtomicLookup WITH
    query <- [r \in Readers |-> IF pc[r] = "idle" THEN NoQuery ELSE query[r]],
    view <- snapshot
LooksAtomic == Atomic!ASpec

-----------------------------------------------------------------------------
(* The inductive invariant behind NeverTorn, NothingMissing and            *)
(* LooksAtomic.                                                            *)

\* What the aggregate holds of the entities that have been looked up: their
\* rows in the snapshot or, where a statement failed, nothing.
ContactsOf(r) ==
    \A h \in Handles :
        IF h \in HandlesOf(row[r]) \ todo[r]
        THEN \/ found[r][h] = snapshot[r].entities[h]
             \/ /\ found[r][h] = NoRow
                /\ driver = "postgres" => tx[r] # "open" /\ pc[r] # "render"
        ELSE found[r][h] = NoRow

\* The row and the contacts come from one snapshot.
AggregateOf(r) ==
    /\ snapshot[r] \in DBStates
    /\ Scannable(driver, RowSeen(r))
    /\ row[r] = RowSeen(r)
    /\ todo[r] \subseteq HandlesOf(row[r])
    /\ ContactsOf(r)

\* An answer, once given, is the one the abstract specification gives for the
\* snapshot of the request.
AnswerOf(r) ==
    /\ snapshot[r] \in DBStates
    /\ Scannable(driver, RowSeen(r))
    /\ query[r] # NoQuery
    /\ \E L \in SUBSET Handles :
         /\ L # {} => driver = "mysql"
         /\ answer[r] = Atomic!AnswerFrom(driver, snapshot[r], query[r], L)

Untouched(r) == row[r] = NoRow /\ found[r] = NothingFound /\ todo[r] = {}

ReaderInv(r) ==
    /\ pc[r] = "idle" => Untouched(r) /\ (answer[r] = NotFound \/ AnswerOf(r))
    /\ pc[r] = "locked" => Untouched(r) /\ snapshot[r] = NoView /\ driver = "memory"
    /\ pc[r] \in {"begin", "isolation", "domain"} =>
         Untouched(r) /\ snapshot[r] = NoView /\ driver # "memory"
    /\ pc[r] \in {"domain", "related"} => isolation[r] = "repeatable read"
    /\ pc[r] = "related" => driver # "memory" /\ AggregateOf(r)
    /\ pc[r] = "render" =>
         /\ AggregateOf(r) /\ todo[r] = {}
         /\ driver = "memory" => found[r] = Resolve(row[r], snapshot[r].entities)
    /\ pc[r] \in {"isolation", "domain"} => tx[r] = "open"

Inv == \A r \in Readers : ReaderInv(r)

\* What NotFoundIsTrue needs besides: a transaction that is no longer open is
\* one of a request something failed for, and so is an error of the store
\* unless the row could not be read.
Missed(r) == snapshot[r] # NoView /\ ~Scannable(driver, RowSeen(r))

MissInv(r) ==
    /\ (pc[r] = "related" /\ tx[r] # "open") => r \in faulty
    /\ (pc[r] = "error" /\ r \notin faulty) => Missed(r)
    /\ (pc[r] = "idle" /\ query[r] # NoQuery /\ answer[r] = NotFound /\ r \notin faulty) => Missed(r)

MissesInv == \A r \in Readers : MissInv(r)

\* What CompleteAnswers needs of MySQL: as long as nothing failed for a request,
\* it has of every entity looked up what the snapshot has.
AllRead(r) == \A h \in HandlesOf(row[r]) \ todo[r] : found[r][h] = snapshot[r].entities[h]

WholeInv(r) ==
    r \notin faulty =>
        /\ pc[r] \in {"related", "render"} => AllRead(r)
        /\ Answered(r) => Whole(r)

WholesInv == \A r \in Readers : WholeInv(r)

=============================================================================
