-------------------------- MODULE LifecycleProofs ---------------------------
(***************************************************************************)
(* Proofs about the life of the process, for any number of RDAP requests    *)
(* and WHOIS connections, with and without the metrics server and the       *)
(* gateway.  Every step of the process is a step of the gateway or leaves   *)
(* it alone (GatewayStep), so what WhoisServerProofs shows of the gateway   *)
(* holds in the process as well.                                           *)
(***************************************************************************)
EXTENDS Lifecycle, WhoisServerProofs

\* The steps of run that leave the gateway alone.
LEMMA GatewayStep == [Next]_vars => [WhoisNext]_whoisVars
<1> SUFFICES ASSUME [Next]_vars PROVE WhoisNext \/ UNCHANGED whoisVars
  OBVIOUS
<1>1. CASE UNCHANGED vars
  BY <1>1 DEF vars
<1>2. CASE StartFails \/ WhoisListenFails \/ HTTPListens \/ DrainTimeout \/ Exited
  BY <1>2 DEF StartFails, WhoisListenFails, HTTPListens, DrainTimeout, Exited, vars
<1>3. CASE StartStep
  BY <1>3 DEF StartStep, LoadConfig, OpenStore, StartMetrics, StartWhois, StartHTTP, WhoisNext
<1>4. CASE Quit
  BY <1>4 DEF Quit, WhoisNext
<1>5. CASE StopStep
  BY <1>5 DEF StopStep, StopHTTP, HTTPDrained, StopMetrics, StopWhois, CloseStore, StoreClosed,
              WhoisNext
<1>6. ASSUME NEW q \in Requests,
             \/ RequestArrives(q) \/ RequestLooksUp(q) \/ RequestFound(q)
             \/ RequestFails(q) \/ RequestWritten(q)
      PROVE  UNCHANGED whoisVars
  BY <1>6 DEF RequestArrives, RequestLooksUp, RequestFound, RequestFails, RequestWritten
<1>7. CASE WhoisServes
  BY <1>7 DEF WhoisServes, WhoisNext
<1> QED
  BY <1>1, <1>2, <1>3, <1>4, <1>5, <1>6, <1>7 DEF Next

-----------------------------------------------------------------------------
(* Types.                                                                  *)

\* The part of the type invariant that is about run.
ProcessType ==
    /\ main \in {"load", "store", "metrics", "whois", "http", "wait", "stop http", "drain http",
                 "stop metrics", "stop whois", "close", "closing", "exited"}
    /\ store \in {"none", "open", "closing", "closed"}
    /\ http \in {"off", "starting", "serving", "failed", "shutdown"}

RequestsType ==
    /\ request \in [Requests -> {"none", "handler", "tx", "writing", "done"}]
    /\ result \in [Requests -> {"none", "record", "failed", "refused"}]

\* A metrics server is there only if the configuration has one.
MetricsType ==
    /\ config \in Configs
    /\ metrics \in IF config.metrics THEN {"off", "serving", "failed", "shutdown"} ELSE {"off"}

RunType == ProcessType /\ RequestsType /\ MetricsType /\ forced \in BOOLEAN

LEMMA TypeParts == TypeOK <=> WhoisTypeOK /\ RunType
BY DEF TypeOK, RunType, ProcessType, RequestsType, MetricsType

LEMMA InitType == Init => TypeOK
<1>1. Init => WhoisTypeOK
  BY WhoisInitType DEF Init
<1>2. Init => RunType
  BY DEF Init, RunType, ProcessType, RequestsType, MetricsType
<1> QED
  BY <1>1, <1>2, TypeParts

LEMMA NextProcessType == ProcessType /\ [Next]_vars => ProcessType'
<1> SUFFICES ASSUME ProcessType, [Next]_vars PROVE ProcessType'
  OBVIOUS
<1> USE DEF ProcessType
<1>1. CASE StartFails \/ WhoisListenFails \/ HTTPListens \/ DrainTimeout \/ Quit
  BY <1>1 DEF StartFails, WhoisListenFails, HTTPListens, DrainTimeout, Quit, httpVars
<1>2. CASE StartStep
  BY <1>2 DEF StartStep, LoadConfig, OpenStore, StartMetrics, StartWhois, StartHTTP, httpVars
<1>3. CASE StopStep
  BY <1>3 DEF StopStep, StopHTTP, HTTPDrained, StopMetrics, StopWhois, CloseStore, StoreClosed, httpVars
<1>4. ASSUME NEW q \in Requests,
             \/ RequestArrives(q) \/ RequestLooksUp(q) \/ RequestFound(q)
             \/ RequestFails(q) \/ RequestWritten(q)
      PROVE  UNCHANGED <<main, store, http>>
  BY <1>4 DEF RequestArrives, RequestLooksUp, RequestFound, RequestFails, RequestWritten
<1>5. CASE UNCHANGED <<main, store, http>>
  BY <1>5
<1>6. CASE WhoisServes \/ Exited \/ UNCHANGED vars
  <2>1. UNCHANGED <<main, store, http>>
    BY <1>6 DEF WhoisServes, Exited, vars, httpVars
  <2> QED
    BY <1>5, <2>1
<1> QED
  BY <1>1, <1>2, <1>3, <1>4, <1>5, <1>6 DEF Next

\* Only the handlers' own steps touch a request or its result.
LEMMA NextRequestsType == RequestsType /\ [Next]_vars => RequestsType'
<1> SUFFICES ASSUME RequestsType, [Next]_vars PROVE RequestsType'
  OBVIOUS
<1>1. CASE UNCHANGED <<request, result>>
  BY <1>1 DEF RequestsType
<1>2. ASSUME NEW q \in Requests, RequestArrives(q) \/ RequestWritten(q) PROVE RequestsType'
  BY <1>2 DEF RequestsType, RequestArrives, RequestWritten
<1>3. ASSUME NEW q \in Requests, RequestLooksUp(q) PROVE RequestsType'
  BY <1>3 DEF RequestsType, RequestLooksUp
<1>4. ASSUME NEW q \in Requests, RequestFound(q) \/ RequestFails(q) PROVE RequestsType'
  BY <1>4 DEF RequestsType, RequestFound, RequestFails
<1>5. CASE StartFails \/ WhoisListenFails \/ HTTPListens \/ DrainTimeout \/ Quit
  BY <1>1, <1>5 DEF StartFails, WhoisListenFails, HTTPListens, DrainTimeout, Quit, httpVars
<1>6. CASE StartStep
  BY <1>1, <1>6 DEF StartStep, LoadConfig, OpenStore, StartMetrics, StartWhois, StartHTTP, httpVars
<1>7. CASE StopStep
  BY <1>1, <1>7 DEF StopStep, StopHTTP, HTTPDrained, StopMetrics, StopWhois, CloseStore, StoreClosed,
                    httpVars
<1>8. CASE WhoisServes \/ Exited \/ UNCHANGED vars
  BY <1>1, <1>8 DEF WhoisServes, Exited, vars, httpVars
<1> QED
  BY <1>2, <1>3, <1>4, <1>5, <1>6, <1>7, <1>8 DEF Next

\* The configuration is read once; only the two steps of run about the metrics
\* server touch that server.
LEMMA NextMetricsType == MetricsType /\ [Next]_vars => MetricsType'
<1> SUFFICES ASSUME MetricsType, [Next]_vars PROVE MetricsType'
  OBVIOUS
<1>1. CASE UNCHANGED <<config, metrics>>
  BY <1>1 DEF MetricsType
<1>2. CASE StartMetrics \/ StopMetrics
  BY <1>2 DEF StartMetrics, StopMetrics, MetricsType
<1>3. CASE StartFails \/ WhoisListenFails \/ HTTPListens \/ DrainTimeout \/ Quit
  BY <1>1, <1>3 DEF StartFails, WhoisListenFails, HTTPListens, DrainTimeout, Quit
<1>4. CASE LoadConfig \/ OpenStore \/ StartWhois \/ StartHTTP
  BY <1>1, <1>4 DEF LoadConfig, OpenStore, StartWhois, StartHTTP
<1>5. CASE StopHTTP \/ HTTPDrained \/ StopWhois \/ CloseStore \/ StoreClosed
  BY <1>1, <1>5 DEF StopHTTP, HTTPDrained, StopWhois, CloseStore, StoreClosed
<1>6. ASSUME NEW q \in Requests,
             \/ RequestArrives(q) \/ RequestLooksUp(q) \/ RequestFound(q)
             \/ RequestFails(q) \/ RequestWritten(q)
      PROVE  UNCHANGED <<config, metrics>>
  BY <1>6 DEF RequestArrives, RequestLooksUp, RequestFound, RequestFails, RequestWritten
<1>7. CASE WhoisServes \/ Exited \/ UNCHANGED vars
  BY <1>1, <1>7 DEF WhoisServes, Exited, vars
<1> QED
  BY <1>1, <1>2, <1>3, <1>4, <1>5, <1>6, <1>7 DEF Next, StartStep, StopStep

LEMMA ConfigKept == [Next]_vars => config' = config
<1> SUFFICES ASSUME [Next]_vars PROVE config' = config
  OBVIOUS
<1>1. CASE StartFails \/ WhoisListenFails \/ HTTPListens \/ DrainTimeout \/ Quit
  BY <1>1 DEF StartFails, WhoisListenFails, HTTPListens, DrainTimeout, Quit
<1>2. CASE StartStep
  BY <1>2 DEF StartStep, LoadConfig, OpenStore, StartMetrics, StartWhois, StartHTTP
<1>3. CASE StopStep
  BY <1>3 DEF StopStep, StopHTTP, HTTPDrained, StopMetrics, StopWhois, CloseStore, StoreClosed
<1>4. ASSUME NEW q \in Requests,
             \/ RequestArrives(q) \/ RequestLooksUp(q) \/ RequestFound(q)
             \/ RequestFails(q) \/ RequestWritten(q)
      PROVE  config' = config
  BY <1>4 DEF RequestArrives, RequestLooksUp, RequestFound, RequestFails, RequestWritten
<1>5. CASE WhoisServes \/ Exited \/ UNCHANGED vars
  BY <1>5 DEF WhoisServes, Exited, vars
<1> QED
  BY <1>1, <1>2, <1>3, <1>4, <1>5 DEF Next

LEMMA NextForcedType == forced \in BOOLEAN /\ [Next]_vars => forced' \in BOOLEAN
<1> SUFFICES ASSUME forced \in BOOLEAN, [Next]_vars PROVE forced' = forced \/ forced' = TRUE
  OBVIOUS
<1>1. CASE StartFails \/ WhoisListenFails \/ HTTPListens \/ DrainTimeout \/ Quit
  BY <1>1 DEF StartFails, WhoisListenFails, HTTPListens, DrainTimeout, Quit, httpVars
<1>2. CASE StartStep
  BY <1>2 DEF StartStep, LoadConfig, OpenStore, StartMetrics, StartWhois, StartHTTP, httpVars
<1>3. CASE StopStep
  BY <1>3 DEF StopStep, StopHTTP, HTTPDrained, StopMetrics, StopWhois, CloseStore, StoreClosed, httpVars
<1>4. ASSUME NEW q \in Requests,
             \/ RequestArrives(q) \/ RequestLooksUp(q) \/ RequestFound(q)
             \/ RequestFails(q) \/ RequestWritten(q)
      PROVE  forced' = forced
  BY <1>4 DEF RequestArrives, RequestLooksUp, RequestFound, RequestFails, RequestWritten
<1>5. CASE WhoisServes \/ Exited \/ UNCHANGED vars
  BY <1>5 DEF WhoisServes, Exited, vars, httpVars
<1> QED
  BY <1>1, <1>2, <1>3, <1>4, <1>5 DEF Next

LEMMA NextRunType == RunType /\ [Next]_vars => RunType'
BY NextProcessType, NextRequestsType, NextMetricsType, NextForcedType DEF RunType

LEMMA NextType == TypeOK /\ [Next]_vars => TypeOK'
<1> SUFFICES ASSUME TypeOK, [Next]_vars PROVE TypeOK'
  OBVIOUS
<1>1. WhoisTypeOK'
  BY GatewayStep, WhoisNextType, TypeParts
<1>2. RunType'
  BY NextRunType, TypeParts
<1> QED
  BY <1>1, <1>2 DEF TypeOK, RunType, ProcessType, RequestsType, MetricsType

\* Every variable of the process keeps its type.
THEOREM LifecycleTypeCorrect == Spec => []TypeOK
BY InitType, NextType, PTL DEF Spec

-----------------------------------------------------------------------------
(* The invariant.                                                          *)

LEMMA InitInv == Init => LifecycleInv
<1> SUFFICES ASSUME Init PROVE LifecycleInv
  OBVIOUS
<1>1. Active = {} /\ InStore = {}
  BY DEF Init, WhoisInit, Active, InStore
<1> QED
  BY <1>1 DEF Init, LifecycleInv, StoreFollowsRun, ServerFollowsRun, StoreWaits, NoneRefused

LEMMA NextStoreFollowsRun == RunType /\ StoreFollowsRun /\ [Next]_vars => StoreFollowsRun'
<1> SUFFICES ASSUME RunType, StoreFollowsRun, [Next]_vars PROVE StoreFollowsRun'
  OBVIOUS
<1> USE DEF RunType, ProcessType, RequestsType, StoreFollowsRun
<1>1. CASE UNCHANGED <<main, store>>
  BY <1>1
<1>2. CASE StartFails \/ WhoisListenFails \/ Quit \/ DrainTimeout
  BY <1>2 DEF StartFails, WhoisListenFails, Quit, DrainTimeout
<1>3. CASE StartStep
  BY <1>3 DEF StartStep, LoadConfig, OpenStore, StartMetrics, StartWhois, StartHTTP
<1>4. CASE StopStep
  BY <1>4 DEF StopStep, StopHTTP, HTTPDrained, StopMetrics, StopWhois, CloseStore, StoreClosed
<1>5. ASSUME NEW q \in Requests,
             \/ RequestArrives(q) \/ RequestLooksUp(q) \/ RequestFound(q)
             \/ RequestFails(q) \/ RequestWritten(q)
      PROVE  UNCHANGED <<main, store>>
  BY <1>5 DEF RequestArrives, RequestLooksUp, RequestFound, RequestFails, RequestWritten
<1>6. CASE WhoisServes \/ HTTPListens \/ Exited \/ UNCHANGED vars
  BY <1>1, <1>6 DEF WhoisServes, HTTPListens, Exited, vars
<1> QED
  BY <1>1, <1>2, <1>3, <1>4, <1>5, <1>6 DEF Next

LEMMA NextServerFollowsRun ==
    RunType /\ ServerFollowsRun /\ [Next]_vars => ServerFollowsRun'
<1> SUFFICES ASSUME RunType, ServerFollowsRun, [Next]_vars PROVE ServerFollowsRun'
  OBVIOUS
<1> USE DEF RunType, ProcessType, RequestsType, ServerFollowsRun, httpVars
<1>1. CASE UNCHANGED <<main, http, request, forced>>
  BY <1>1 DEF Active
<1>2. CASE StartFails \/ WhoisListenFails
  BY <1>2 DEF StartFails, WhoisListenFails, Active
<1>3. CASE StartStep
  BY <1>3 DEF StartStep, LoadConfig, OpenStore, StartMetrics, StartWhois, StartHTTP, Active
<1>4. CASE HTTPListens
  BY <1>4 DEF HTTPListens, Active
<1>5. CASE Quit \/ DrainTimeout
  BY <1>5 DEF Quit, DrainTimeout, Active
<1>6. CASE StopStep
  BY <1>6 DEF StopStep, StopHTTP, HTTPDrained, StopMetrics, StopWhois, CloseStore, StoreClosed, Active
<1>7. ASSUME NEW q \in Requests, RequestArrives(q) PROVE ServerFollowsRun'
  BY <1>7 DEF RequestArrives
<1>8. ASSUME NEW q \in Requests, RequestLooksUp(q) \/ RequestFound(q)
             \/ RequestFails(q) \/ RequestWritten(q)
      PROVE  ServerFollowsRun'
  <2>1. q \in Active /\ UNCHANGED <<main, http, forced>>
    BY <1>8 DEF RequestLooksUp, RequestFound, RequestFails, RequestWritten, Active
  <2> QED
    BY <2>1
<1>9. CASE WhoisServes \/ Exited \/ UNCHANGED vars
  BY <1>1, <1>9 DEF WhoisServes, Exited, vars
<1> QED
  BY <1>2, <1>3, <1>4, <1>5, <1>6, <1>7, <1>8, <1>9 DEF Next

\* A store that refuses lets no lookup of the gateway start.
LEMMA GatewayLookups ==
    ASSUME WhoisTypeOK, WhoisServes, Refuses, NEW c \in Clients, conn'[c] = "lookup"
    PROVE  conn[c] = "lookup"
<1> USE DEF WhoisTypeOK
<1>1. CASE ServeStarts \/ AcceptFails \/ AfterAcceptError
  BY <1>1 DEF ServeStarts, AcceptFails, AfterAcceptError
<1>2. CASE CloserRuns
  BY <1>2 DEF CloserRuns, CloseSocket
<1>3. ASSUME NEW d \in Clients,
             \/ Dial(d) \/ Accept(d) \/ HandlerStep(d)
             \/ LookupDone(d) \/ LookupFails(d) \/ LookupRefused(d)
      PROVE  conn[c] = "lookup"
  BY <1>3 DEF Dial, Accept, HandlerStep, ReadQuery, ReadFails, LookupDone, LookupFails, LookupRefused, Hangup
<1> QED
  BY <1>1, <1>2, <1>3 DEF WhoisServes

\* A step of run starts no lookup of the gateway.
LEMMA GatewayIdle ==
    ASSUME WhoisTypeOK, UNCHANGED whoisVars \/ Listen \/ Cancel \/ Shutdown,
           NEW c \in Clients, conn'[c] = "lookup"
    PROVE  conn[c] = "lookup"
BY DEF WhoisTypeOK, whoisVars, Listen, Cancel, Shutdown, CloseSocket

LEMMA NextStoreWaits ==
    TypeOK /\ StoreFollowsRun /\ StoreWaits /\ [Next]_vars => StoreWaits'
<1> SUFFICES ASSUME TypeOK, StoreFollowsRun, StoreWaits, [Next]_vars, config.driver = "postgres",
                    store' \in {"none", "closed"} \/ main' = "exited"
             PROVE  InStore' = {}
  BY ConfigKept DEF StoreWaits
<1>0. WhoisTypeOK /\ RunType
  BY TypeParts
<1>a. ASSUME InStore = {}, UNCHANGED request, UNCHANGED whoisVars \/ Listen \/ Cancel \/ Shutdown
      PROVE  InStore' = {}
  BY <1>0, <1>a, GatewayIdle DEF InStore
<1> USE <1>0 DEF RunType, ProcessType, RequestsType, StoreFollowsRun, StoreWaits, httpVars
<1>1. CASE StartFails \/ WhoisListenFails \/ HTTPListens \/ Quit \/ DrainTimeout
  <2>1. InStore = {} /\ UNCHANGED request /\ (UNCHANGED whoisVars \/ Cancel)
    BY <1>1 DEF StartFails, WhoisListenFails, HTTPListens, Quit, DrainTimeout, Running
  <2> QED
    BY <1>a, <2>1
<1>2. CASE StartStep
  <2>1. InStore = {} /\ UNCHANGED request /\ (UNCHANGED whoisVars \/ Listen)
    BY <1>2 DEF StartStep, LoadConfig, OpenStore, StartMetrics, StartWhois, StartHTTP
  <2> QED
    BY <1>a, <2>1
<1>3. CASE StopStep
  <2>1. InStore = {} /\ UNCHANGED request /\ (UNCHANGED whoisVars \/ Shutdown)
    BY <1>3 DEF StopStep, StopHTTP, HTTPDrained, StopMetrics, StopWhois, CloseStore, StoreClosed
  <2> QED
    BY <1>a, <2>1
<1>4. ASSUME NEW q \in Requests,
             \/ RequestArrives(q) \/ RequestLooksUp(q) \/ RequestFound(q)
             \/ RequestFails(q) \/ RequestWritten(q)
      PROVE  InStore' = {}
  <2>1. InStore = {} /\ Refuses /\ UNCHANGED conn
    BY <1>4 DEF RequestArrives, RequestLooksUp, RequestFound, RequestFails, RequestWritten, Running, Refuses, whoisVars
  <2>2. \A p \in Requests : request'[p] = "tx" => request[p] = "tx"
    BY <1>4, <2>1 DEF RequestArrives, RequestLooksUp, RequestFound, RequestFails, RequestWritten
  <2> QED
    BY <2>1, <2>2 DEF InStore
<1>5. CASE WhoisServes
  <2>1. InStore = {} /\ Refuses /\ UNCHANGED request
    BY <1>5 DEF WhoisServes, Running, Refuses
  <2> QED
    BY <1>5, <2>1, GatewayLookups DEF InStore
<1>6. CASE Exited \/ UNCHANGED vars
  <2>1. InStore = {} /\ UNCHANGED request /\ UNCHANGED whoisVars
    BY <1>6 DEF Exited, vars
  <2> QED
    BY <1>a, <2>1
<1> QED
  BY <1>1, <1>2, <1>3, <1>4, <1>5, <1>6 DEF Next

LEMMA NextNoneRefused ==
    RunType /\ StoreFollowsRun /\ ServerFollowsRun /\ NoneRefused /\ [Next]_vars => NoneRefused'
<1> SUFFICES ASSUME RunType, StoreFollowsRun, ServerFollowsRun, NoneRefused, [Next]_vars, ~forced'
             PROVE  \A q \in Requests : result'[q] # "refused"
  BY DEF NoneRefused
<1> USE DEF RunType, ProcessType, RequestsType, NoneRefused, httpVars
<1>1. CASE UNCHANGED <<result, forced>>
  BY <1>1
<1>2. CASE StartFails \/ WhoisListenFails \/ HTTPListens \/ Quit \/ WhoisServes \/ Exited \/ UNCHANGED vars
  BY <1>1, <1>2 DEF StartFails, WhoisListenFails, HTTPListens, Quit, WhoisServes, Exited, vars
<1>3. CASE DrainTimeout
  BY <1>3 DEF DrainTimeout
<1>4. CASE StartStep
  BY <1>1, <1>4 DEF StartStep, LoadConfig, OpenStore, StartMetrics, StartWhois, StartHTTP
<1>5. CASE StopStep
  BY <1>1, <1>5 DEF StopStep, StopHTTP, HTTPDrained, StopMetrics, StopWhois, CloseStore, StoreClosed
<1>6. ASSUME NEW q \in Requests, RequestArrives(q) \/ RequestWritten(q)
      PROVE  UNCHANGED <<result, forced>>
  BY <1>6 DEF RequestArrives, RequestWritten
<1>7. ASSUME NEW q \in Requests, RequestFound(q) \/ RequestFails(q)
      PROVE  \A p \in Requests : result'[p] # "refused"
  BY <1>7 DEF RequestFound, RequestFails
<1>8. ASSUME NEW q \in Requests, RequestLooksUp(q) PROVE UNCHANGED <<result, forced>>
  <2>1. q \in Active /\ forced' = forced
    BY <1>8 DEF RequestLooksUp, Active
  <2>2. store = "open"
    BY <2>1 DEF StoreFollowsRun, ServerFollowsRun
  <2> QED
    BY <1>8, <2>2 DEF RequestLooksUp, Refuses
<1> QED
  BY <1>1, <1>2, <1>3, <1>4, <1>5, <1>6, <1>7, <1>8 DEF Next

LEMMA NextInv == TypeOK /\ LifecycleInv /\ [Next]_vars => LifecycleInv'
BY TypeParts, NextStoreFollowsRun, NextServerFollowsRun, NextStoreWaits, NextNoneRefused
DEF LifecycleInv

\* The states of run, the servers, the store and the lookups fit together, in
\* every order in which signals, timeouts, errors and clients may come.
THEOREM LifecycleInvHolds == Spec => []LifecycleInv
BY InitType, NextType, InitInv, NextInv, PTL DEF Spec

\* Unless the 30 s run out, the shutdown of the RDAP server is graceful: no
\* accepted request meets a closed store, and all are answered before it is closed.
THEOREM HTTPGracefulHolds == Spec => []HTTPGraceful
<1>1. TypeOK /\ LifecycleInv => HTTPGraceful
  BY DEF TypeOK, LifecycleInv, StoreFollowsRun, ServerFollowsRun, NoneRefused, HTTPGraceful
<1> QED
  BY <1>1, LifecycleTypeCorrect, LifecycleInvHolds, PTL

\* With PostgreSQL neither the store nor the process ends under a transaction,
\* forced or not.
THEOREM NoLookupCutOffHolds == Spec => []NoLookupCutOff
<1>1. LifecycleInv => NoLookupCutOff
  BY DEF LifecycleInv, StoreWaits, NoLookupCutOff
<1> QED
  BY <1>1, LifecycleInvHolds, PTL

-----------------------------------------------------------------------------
(* The gateway in the process.                                             *)

\* In the process, too, the lines that ask for a domain are answered as on their
\* own: run's use of Listen, Serve, Shutdown and the context, and the closing of
\* the store, keep what the gateway promises.
THEOREM GatewayInProcess == Spec => []DomainsAreServed
<1>1. Init => HandlersInv
  BY HandlerInitInv DEF Init
<1>2. TypeOK /\ HandlersInv /\ [Next]_vars => HandlersInv'
  BY GatewayStep, HandlerNextInv, TypeParts
<1>3. TypeOK /\ HandlersInv => DomainsAreServed
  BY HandlersServe, TypeParts
<1> QED
  BY <1>1, <1>2, <1>3, InitType, NextType, PTL DEF Spec

=============================================================================
