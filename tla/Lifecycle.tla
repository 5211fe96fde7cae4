----------------------------- MODULE Lifecycle ------------------------------
(***************************************************************************)
(* The life of the process (cmd/rdapd/main.go): run starts the store, the  *)
(* metrics server, the WHOIS gateway and the RDAP server, waits for a      *)
(* signal, and takes them down again, while requests are being served.     *)
(* When run returns the process ends, and with it every goroutine.         *)
(*                                                                         *)
(* Composed with WhoisServer.  Close differs between the stores: that of   *)
(* PostgreSQL refuses new transactions and waits for those under way, that *)
(* of MySQL refuses and does not wait, that of the memory store does       *)
(* nothing.  The HTTP server is net/http's: Shutdown stops accepting, and  *)
(* waits for the requests under way until its context expires.             *)
(***************************************************************************)
EXTENDS WhoisServer

CONSTANTS
    Requests,  \* RDAP requests, each for a domain that is registered
    Configs    \* the configurations the process may be started with

\* storage.driver, metrics.enabled and whois.enabled.
ConfigType == [driver : {"postgres", "mysql", "memory"}, metrics : BOOLEAN, whois : BOOLEAN]

ASSUME ConfigsAssumption == Configs \subseteq ConfigType

VARIABLES
    config,    \* what the configuration file says
    main,      \* where run is
    store,     \* "none", "open", "closing" (Close was called) or "closed"
    metrics,   \* the metrics server: "off", "serving", "failed" or "shutdown"
    http,      \* the RDAP server: "off", "starting", "serving", "failed", "shutdown"
    request,   \* [Requests -> state of the request]
    result,    \* [Requests -> the outcome of its lookup]
    forced     \* whether srv.Shutdown gave up waiting

httpVars == <<http, request, result>>
vars     == <<whoisVars, config, main, store, metrics, httpVars, forced>>

Running == main # "exited"

Init ==
    /\ WhoisInit
    /\ config \in Configs
    /\ main = "load" /\ store = "none" /\ metrics = "off" /\ http = "off"
    /\ request = [q \in Requests |-> "none"]
    /\ result = [q \in Requests |-> "none"]
    /\ forced = FALSE

-----------------------------------------------------------------------------
(* Starting.                                                               *)

\* The configuration cannot be read, or the store cannot be opened.
StartFails ==
    /\ main \in {"load", "store"}
    /\ main' = "exited"
    /\ UNCHANGED <<whoisVars, config, store, metrics, httpVars, forced>>

LoadConfig ==
    /\ main = "load"
    /\ main' = "store"
    /\ UNCHANGED <<whoisVars, config, store, metrics, httpVars, forced>>

OpenStore ==
    /\ main = "store"
    /\ store' = "open" /\ main' = "metrics"
    /\ UNCHANGED <<whoisVars, config, metrics, httpVars, forced>>

\* A metrics server that cannot bind is logged and forgotten.
StartMetrics ==
    /\ main = "metrics"
    /\ metrics' \in IF config.metrics THEN {"serving", "failed"} ELSE {"off"}
    /\ main' = "whois"
    /\ UNCHANGED <<whoisVars, config, store, httpVars, forced>>

StartWhois ==
    /\ main = "whois"
    /\ IF config.whois THEN Listen ELSE UNCHANGED whoisVars
    /\ main' = "http"
    /\ UNCHANGED <<config, store, metrics, httpVars, forced>>

\* run returns at once; its deferred calls close the store.
WhoisListenFails ==
    /\ main = "whois" /\ config.whois
    /\ main' = "close"
    /\ UNCHANGED <<whoisVars, config, store, metrics, httpVars, forced>>

StartHTTP ==
    /\ main = "http"
    /\ http' = "starting" /\ main' = "wait"
    /\ UNCHANGED <<whoisVars, config, store, metrics, request, result, forced>>

\* The goroutine of the RDAP server binds its port; failing to is only logged.
HTTPListens ==
    /\ Running /\ http = "starting"
    /\ http' \in {"serving", "failed"}
    /\ UNCHANGED <<whoisVars, config, main, store, metrics, request, result, forced>>

-----------------------------------------------------------------------------
(* Stopping.                                                               *)

\* A signal arrives; the context of the gateway is cancelled.
Quit ==
    /\ main = "wait"
    /\ Cancel
    /\ main' = "stop http"
    /\ UNCHANGED <<config, store, metrics, httpVars, forced>>

\* Mutant: the shutdown of the RDAP server is started but not waited for.
StopHTTP_NoWait ==
    /\ main = "stop http"
    /\ http' = "shutdown" /\ main' = "stop metrics"
    /\ UNCHANGED <<whoisVars, config, store, metrics, request, result, forced>>

\* srv.Shutdown: no request is accepted from here on.
StopHTTP ==
    /\ main = "stop http"
    /\ http' = "shutdown" /\ main' = "drain http"
    /\ UNCHANGED <<whoisVars, config, store, metrics, request, result, forced>>

Active == {q \in Requests : request[q] \in {"handler", "tx", "writing"}}

\* ... and returns when the last request under way has ended.
HTTPDrained ==
    /\ main = "drain http" /\ Active = {}
    /\ main' = "stop metrics"
    /\ UNCHANGED <<whoisVars, config, store, metrics, httpVars, forced>>

\* Mutant: Shutdown is given a context that never expires.
DrainTimeout_Never ==
    /\ main = "drain http" /\ forced
    /\ forced' = TRUE /\ main' = "close"
    /\ UNCHANGED <<whoisVars, config, store, metrics, httpVars>>

\* ... or gives up after 30 s.  run then returns an error at once: the metrics
\* server and the gateway are not shut down.
DrainTimeout ==
    /\ main = "drain http"
    /\ forced' = TRUE /\ main' = "close"
    /\ UNCHANGED <<whoisVars, config, store, metrics, httpVars>>

\* Mutant: without the check of metricsSrv against nil.
StopMetrics_NoCheck ==
    /\ main = "stop metrics"
    /\ metrics' = "shutdown"
    /\ main' = "stop whois"
    /\ UNCHANGED <<whoisVars, config, store, httpVars, forced>>

StopMetrics ==
    /\ main = "stop metrics"
    /\ metrics' = IF metrics = "off" THEN "off" ELSE "shutdown"
    /\ main' = "stop whois"
    /\ UNCHANGED <<whoisVars, config, store, httpVars, forced>>

\* An error (the cancelled context closed the listener first) is only logged.
StopWhois ==
    /\ main = "stop whois"
    /\ IF config.whois THEN Shutdown ELSE UNCHANGED whoisVars
    /\ main' = "close"
    /\ UNCHANGED <<config, store, metrics, httpVars, forced>>

\* The lookups that are inside the store, with a connection of the pool if it
\* has one.
InStore == {q \in Requests : request[q] = "tx"} \union {c \in Clients : conn[c] = "lookup"}

\* The deferred st.Close() ...
CloseStore ==
    /\ main = "close"
    /\ store' = "closing" /\ main' = "closing"
    /\ UNCHANGED <<whoisVars, config, metrics, httpVars, forced>>

\* Mutant: the pool of PostgreSQL is not waited for either.
StoreClosed_NoWait ==
    /\ main = "closing"
    /\ store' = "closed" /\ main' = "exited"
    /\ UNCHANGED <<whoisVars, config, metrics, httpVars, forced>>

\* ... waits, with PostgreSQL, for the connections to come back; sql.DB.Close of
\* the MySQL store leaves those in use alone, and the memory store has nothing
\* to close.  Then the process ends.
StoreClosed ==
    /\ main = "closing"
    /\ config.driver = "postgres" => InStore = {}
    /\ store' = "closed" /\ main' = "exited"
    /\ UNCHANGED <<whoisVars, config, metrics, httpVars, forced>>

-----------------------------------------------------------------------------
(* Serving.                                                                *)

RequestArrives(q) ==
    /\ Running /\ http = "serving" /\ request[q] = "none"
    /\ request' = [request EXCEPT ![q] = "handler"]
    /\ UNCHANGED <<whoisVars, config, main, store, metrics, http, result, forced>>

\* A pool that has been closed begins no transaction; the memory store goes on.
Refuses == store # "open" /\ config.driver # "memory"

\* The handler asks the store.  Every error of it is answered 404; "refused" and
\* "failed" tell apart where it came from.
RequestLooksUp(q) ==
    /\ Running /\ request[q] = "handler"
    /\ IF Refuses
       THEN /\ request' = [request EXCEPT ![q] = "writing"]
            /\ result' = [result EXCEPT ![q] = "refused"]
       ELSE request' = [request EXCEPT ![q] = "tx"] /\ UNCHANGED result
    /\ UNCHANGED <<whoisVars, config, main, store, metrics, http, forced>>

RequestFound(q) ==
    /\ Running /\ request[q] = "tx"
    /\ request' = [request EXCEPT ![q] = "writing"]
    /\ result' = [result EXCEPT ![q] = "record"]
    /\ UNCHANGED <<whoisVars, config, main, store, metrics, http, forced>>

\* The database refuses the connection, or a statement.
RequestFails(q) ==
    /\ Running /\ config.driver # "memory"
    /\ request[q] = "tx" \/ (request[q] = "handler" /\ ~Refuses)
    /\ request' = [request EXCEPT ![q] = "writing"]
    /\ result' = [result EXCEPT ![q] = "failed"]
    /\ UNCHANGED <<whoisVars, config, main, store, metrics, http, forced>>

\* The client has taken the answer.  It may be slow, or never do so.
RequestWritten(q) ==
    /\ Running /\ request[q] = "writing"
    /\ request' = [request EXCEPT ![q] = "done"]
    /\ UNCHANGED <<whoisVars, config, main, store, metrics, http, result, forced>>

\* The gateway's goroutines, each of its lookups being one of the store.
WhoisServes ==
    /\ Running /\ config.whois /\ main \notin {"load", "store", "metrics", "whois"}
    /\ \/ ServeStarts
       \/ CloserRuns
       \/ AcceptFails
       \/ AfterAcceptError
       \/ \E c \in Clients :
            \/ Dial(c) \/ Accept(c) \/ HandlerStep(c) \/ LookupDone(c)
            \/ ~Refuses /\ Lookup(c)
            \/ Refuses /\ LookupRefused(c)
            \/ config.driver # "memory" /\ (Refuses => conn[c] = "lookup") /\ LookupFails(c)
    /\ UNCHANGED <<config, main, store, metrics, httpVars, forced>>

\* The process is gone.
Exited == main = "exited" /\ UNCHANGED vars

StartStep == LoadConfig \/ OpenStore \/ StartMetrics \/ StartWhois \/ StartHTTP
StopStep  == StopHTTP \/ HTTPDrained \/ StopMetrics \/ StopWhois \/ CloseStore \/ StoreClosed

Next ==
    \/ StartFails \/ WhoisListenFails \/ StartStep
    \/ HTTPListens \/ Quit \/ StopStep \/ DrainTimeout
    \/ \E q \in Requests :
         \/ RequestArrives(q) \/ RequestLooksUp(q)
         \/ RequestFound(q) \/ RequestFails(q) \/ RequestWritten(q)
    \/ WhoisServes
    \/ Exited

\* run goes on, its timer fires, and the database answers what it was asked.
\* No fairness for signals, for clients, or for the taking of answers.
Fairness ==
    /\ WF_vars(StartStep) /\ WF_vars(StopStep) /\ WF_vars(DrainTimeout)
    /\ \A q \in Requests : WF_vars(RequestFound(q))
    /\ \A c \in Clients :
         WF_vars(Running /\ LookupDone(c) /\ UNCHANGED <<config, main, store, metrics, httpVars, forced>>)

Spec == Init /\ [][Next]_vars /\ Fairness

-----------------------------------------------------------------------------
(* Properties.                                                             *)

\* Every variable holds a value of its type, and a metrics server is there only
\* if the configuration has one (main.go:55-63, 112-116).
TypeOK ==
    /\ WhoisTypeOK
    /\ config \in Configs
    /\ main \in {"load", "store", "metrics", "whois", "http", "wait", "stop http", "drain http",
                 "stop metrics", "stop whois", "close", "closing", "exited"}
    /\ store \in {"none", "open", "closing", "closed"}
    /\ metrics \in IF config.metrics THEN {"off", "serving", "failed", "shutdown"} ELSE {"off"}
    /\ http \in {"off", "starting", "serving", "failed", "shutdown"}
    /\ request \in [Requests -> {"none", "handler", "tx", "writing", "done"}]
    /\ result \in [Requests -> {"none", "record", "failed", "refused"}]
    /\ forced \in BOOLEAN

\* RDAP requests are shut down gracefully (main.go:37-39): unless the 30 s ran
\* out, no request that was accepted finds the store closed, and all of them
\* have been answered in full before the store is closed and the process ends.
HTTPGraceful ==
    ~forced => /\ \A q \in Requests : result[q] # "refused"
               /\ store # "open" => Active = {}

\* With PostgreSQL the store is never closed under a transaction, and the process
\* never ends in the middle of one, forced or not (main.go:53, postgres.go:617).
NoLookupCutOff ==
    (config.driver = "postgres" /\ (store = "closed" \/ main = "exited")) => InStore = {}

\* A shutdown comes to an end, whatever the clients do (main.go:106-111).
ShutdownEnds == (main = "stop http") ~> (main = "exited")

\* "shuts everything down gracefully" (main.go:38), of the gateway: no WHOIS
\* client that asks for a registered domain is told that it does not exist
\* because the process is about to end.
WhoisGraceful ==
    \A c \in Clients :
        reply[c] \in {"not found", "store closed"} => AskedName(c) \notin Registered

-----------------------------------------------------------------------------
(* The inductive invariant behind HTTPGraceful and NoLookupCutOff.          *)

\* The store is open exactly while run is between opening and closing it.
StoreFollowsRun ==
    /\ main \in {"load", "store"} => store = "none"
    /\ main \in {"metrics", "whois", "http", "wait", "stop http", "drain http",
                "stop metrics", "stop whois", "close"} => store = "open"
    /\ main = "closing" => store = "closing"
    /\ store = "closed" => main = "exited"

\* The RDAP server takes requests only until run shuts it down, and unless the
\* 30 s ran out run goes on only when all of them have ended.
ServerFollowsRun ==
    /\ http \in {"starting", "serving", "failed"} => main \in {"wait", "stop http"}
    /\ (~forced /\ Active # {}) => main \in {"wait", "stop http", "drain http"}

\* What is under way in a PostgreSQL store keeps the process alive.
StoreWaits ==
    config.driver = "postgres" =>
        ((store \in {"none", "closed"} \/ main = "exited") => InStore = {})

\* A lookup of an accepted request is refused only after a forced shutdown.
NoneRefused == ~forced => \A q \in Requests : result[q] # "refused"

LifecycleInv == StoreFollowsRun /\ ServerFollowsRun /\ StoreWaits /\ NoneRefused

=============================================================================
