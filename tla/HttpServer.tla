----------------------------- MODULE HttpServer ------------------------------
(***************************************************************************)
(* The RDAP server (server.go): the configuration it is made from          *)
(* (config.go) and the chain of middleware a request goes through.  The    *)
(* links that share state or wait for something are actions: the arrival   *)
(* with the resolution of the client's address, the rate limiter, the      *)
(* bearer-token check, the route handler.  The links that a response       *)
(* passes on its way back are functions, composed in the order of the      *)
(* chain: the timeout, the recovery from a panic, the access log.          *)
(*                                                                         *)
(* Requests are handled concurrently and share the counters of the         *)
(* limiter.  Who sends them is the environment: anyone may write anything  *)
(* into the forwarding headers; a proxy that is trusted replaces them by   *)
(* the address of its own peer, as the snippet of the repository's README  *)
(* does, or appends that address to what its client wrote.                 *)
(***************************************************************************)
EXTENDS Integers, Sequences

CONSTANTS
    Requests,             \* requests that are in hand at the same time
    Clients,              \* the addresses of clients
    Proxies,              \* the addresses of reverse proxies
    Style,                \* [Proxies -> what a proxy does with the forwarding headers]
    Block,                \* [addresses -> what the limiter counts an address under]
    ConfigFiles,          \* what the configuration file may say
    DefaultRequests,      \* the default of rate_limiting.requests
    DefaultWriteTimeout,  \* the default of server.write_timeout
    TimeoutAfter,         \* the 30 seconds of chimw.Timeout
    MaxElapsed,           \* the longest time a request takes
    Statuses              \* the statuses the route handlers answer with

Addresses == Clients \cup Proxies

\* httprate counts an IPv4 address under itself, an IPv6 address under its /64.
Blocks == {Block[a] : a \in Addresses}

\* 0 and "" stand for a setting that is not in the file.
FileType ==
    [mode : {"", "registrar", "registry", "other"}, baseURL : BOOLEAN, extensions : {"known", "unknown"},
     rateEnabled : BOOLEAN, requests : Int, writeTimeout : Int, trusted : SUBSET Proxies,
     authEnabled : BOOLEAN]

ASSUME HttpAssumption ==
    /\ ConfigFiles \subseteq FileType
    /\ Clients \cap Proxies = {} /\ "none" \notin Addresses
    /\ Style \in [Proxies -> {"replaces", "appends"}]
    /\ DOMAIN Block = Addresses
    /\ \A a \in Addresses : Block[a] = a \/ Block[a] \notin Addresses
    /\ DefaultRequests \in Nat \ {0} /\ DefaultWriteTimeout \in Nat \ {0}
    /\ TimeoutAfter \in Nat \ {0} /\ MaxElapsed \in Nat
    /\ Statuses \subseteq {200, 400, 404, 500, 501}

VARIABLES
    config,  \* the configuration the server runs with
    req,     \* [Requests -> the state of the request]
    count,   \* the counters of the limiter: for each block, this and the last window
    used     \* for each address and block, how many of the requests sent from it were admitted

vars == <<config, req, count, used>>

NoConfig == [mode |-> "none"]
NoHeaders == [forwardedFor |-> <<>>, realIP |-> "none"]

\* The state of a request: where it is in the chain, who sent it and which address
\* it is counted for, its token, the status written to the connection and the last
\* one written through the logger's writer, and what became of it: whether the
\* timeout and the write deadline had passed, the status in the log, and the one
\* the client was given, 0 if none.
Idle ==
    [pc |-> "idle", source |-> "none", client |-> "none", token |-> "none", panics |-> FALSE,
     handled |-> FALSE, written |-> 0, seen |-> 0, late |-> FALSE, lost |-> FALSE, logged |-> 0, received |-> 0]

Unused == [curr |-> 0, prev |-> 0]

Init ==
    /\ config = NoConfig
    /\ req = [r \in Requests |-> Idle]
    /\ count = [b \in Blocks |-> Unused]
    /\ used = [k \in Addresses \cup Blocks |-> Unused]

-----------------------------------------------------------------------------
(* config.Load                                                             *)

OrDefault(value, default) == IF value = 0 THEN default ELSE value

\* The defaults without that of rate_limiting.requests.
SetDefaults_NoRequests(file) ==
    [file EXCEPT !.writeTimeout = OrDefault(@, DefaultWriteTimeout)]

SetDefaults(file) ==
    [file EXCEPT !.writeTimeout = OrDefault(@, DefaultWriteTimeout),
                 !.requests = OrDefault(@, DefaultRequests)]

\* Every mode is accepted.
Valid_AnyMode(file) == file.baseURL /\ file.extensions = "known"

Valid(file) ==
    /\ file.mode \in {"", "registrar", "registry"}
    /\ file.baseURL
    /\ file.extensions = "known"

\* A negative number is neither replaced nor refused.  A file that is not valid
\* keeps the server from starting; the operator may try another one.
Load(file) ==
    /\ config = NoConfig
    /\ Valid(file)
    /\ config' = [SetDefaults(file) EXCEPT !.mode = IF @ = "" THEN "registrar" ELSE @]
    /\ UNCHANGED <<req, count, used>>

LoadFails(file) ==
    /\ config = NoConfig
    /\ ~Valid(file)
    /\ UNCHANGED vars

-----------------------------------------------------------------------------
(* The environment: who sends a request, through which peer, with which    *)
(* forwarding headers.                                                     *)

\* What a client may write: X-Forwarded-For is a list, whose elements may be empty.
\* The elements behind the first are never looked at.
Headers ==
    [forwardedFor : {<<>>} \cup {<<a>> : a \in Addresses \cup {"none"}},
     realIP : Addresses \cup {"none"}]

\* A request comes from its peer itself, or from a client of a trusted proxy.  A
\* proxy that is not trusted is a sender like any other.
Sends(source, peer, sent) ==
    \/ source = peer /\ (peer \in config.trusted => sent = NoHeaders)
    \/ source \in Clients /\ peer \in config.trusted

\* What becomes of the headers on the way: a proxy that replaces them sets one of
\* the two (and leaves the other, or takes it out, so that its own counts).
Received(source, peer, sent) ==
    IF source = peer THEN {sent}
    ELSE IF Style[peer] = "replaces"
         THEN {[sent EXCEPT !.forwardedFor = <<source>>], [NoHeaders EXCEPT !.realIP = source]}
         ELSE {[sent EXCEPT !.forwardedFor = Append(@, source)]}

-----------------------------------------------------------------------------
(* The way in.                                                             *)

\* forwardedFor: the first element of the list, unless it is empty.
ForwardedFor(headers) ==
    IF headers.forwardedFor = <<>> THEN "none" ELSE Head(headers.forwardedFor)

FirstOf(headers, peer) ==
    IF ForwardedFor(headers) # "none" THEN ForwardedFor(headers)
    ELSE IF headers.realIP # "none" THEN headers.realIP
    ELSE peer

\* The headers are used whoever the peer is.
ClientIP_TrustAll(peer, headers) == FirstOf(headers, peer)

\* TrustedProxyClientIP
ClientIP(peer, headers) == IF peer \in config.trusted THEN FirstOf(headers, peer) ELSE peer

\* WriteHeader: the first status goes to the connection, the last one is the one
\* the logger's writer remembers.
WriteHeader(q, status) ==
    [q EXCEPT !.written = IF @ = 0 THEN status ELSE @, !.seen = status]

\* A status is written and the way back begins.
Answer(q, status) == [WriteHeader(q, status) EXCEPT !.pc = "back"]

\* The client's address is resolved; a CORS preflight is answered before it gets
\* to the limiter and the token check.
Arrive(r, preflight, source, peer, sent) ==
    /\ config # NoConfig
    /\ req[r].pc = "idle"
    /\ Sends(source, peer, sent)
    /\ \E headers \in Received(source, peer, sent) :
           LET q == [Idle EXCEPT !.pc = "limit", !.source = source, !.client = ClientIP(peer, headers)]
           IN  req' = [req EXCEPT ![r] = IF preflight THEN Answer(q, 200) ELSE q]
    /\ UNCHANGED <<config, count, used>>

\* httprate.LimitByIP: this window's requests and a share of the last window's,
\* which falls with the time, are checked and counted in one critical section.
Refused(key, share) == count[key].curr + share + 1 > config.requests

LimitByIP(r) ==
    /\ req[r].pc = "limit"
    /\ LET key    == Block[req[r].client]
           source == req[r].source
       IN  \/ /\ ~config.rateEnabled
              /\ req' = [req EXCEPT ![r].pc = "auth"]
              /\ UNCHANGED <<count, used>>
           \/ /\ config.rateEnabled
              /\ \E share \in 0 .. count[key].prev : Refused(key, share)
              /\ req' = [req EXCEPT ![r] = Answer(@, 429)]
              /\ UNCHANGED <<count, used>>
           \/ /\ config.rateEnabled
              /\ \E share \in 0 .. count[key].prev : ~Refused(key, share)
              /\ req' = [req EXCEPT ![r].pc = "auth"]
              /\ count' = [count EXCEPT ![key].curr = @ + 1]
              /\ used' = [k \in DOMAIN used |->
                             IF k \in {source, Block[source]}
                             THEN [used[k] EXCEPT !.curr = @ + 1] ELSE used[k]]
    /\ UNCHANGED config

\* A new window of the limiter begins.
NextWindow ==
    /\ count' = [b \in Blocks |-> [curr |-> 0, prev |-> count[b].curr]]
    /\ used' = [k \in Addresses \cup Blocks |-> [curr |-> 0, prev |-> used[k].curr]]
    /\ UNCHANGED <<config, req>>

\* A request whose token is missing or refused goes on after the 401.
Authenticate_NoReturn(r, token) ==
    /\ req[r].pc = "auth"
    /\ config.authEnabled \/ token = "none"
    /\ LET q == [req[r] EXCEPT !.token = token, !.pc = "handle"]
       IN  req' = [req EXCEPT ![r] =
               IF config.authEnabled /\ token \in {"none", "invalid"} THEN WriteHeader(q, 401) ELSE q]
    /\ UNCHANGED <<config, count, used>>

\* The token is missing, refused, accepted, or accepted and without the time of
\* issue, which ValidateToken then reads: a panic.  Without authentication it is
\* not looked at.
Authenticate(r, token) ==
    /\ req[r].pc = "auth"
    /\ config.authEnabled \/ token = "none"
    /\ LET q == [req[r] EXCEPT !.token = token]
       IN  req' = [req EXCEPT ![r] =
               CASE ~config.authEnabled \/ token = "valid" -> [q EXCEPT !.pc = "handle"]
                 [] config.authEnabled /\ token \in {"none", "invalid"} -> Answer(q, 401)
                 [] config.authEnabled /\ token = "no iat" -> [q EXCEPT !.panics = TRUE, !.pc = "back"]]
    /\ UNCHANGED <<config, count, used>>

\* The route handlers write one response and do not look at the context.
Handle(r, status) ==
    /\ req[r].pc = "handle"
    /\ req' = [req EXCEPT ![r] = [Answer(@, status) EXCEPT !.handled = TRUE]]
    /\ UNCHANGED <<config, count, used>>

-----------------------------------------------------------------------------
(* The way back.                                                           *)

\* chimw.Timeout: its deferred function writes 504 when the deadline has passed.
Timeout(q) == IF q.late THEN WriteHeader(q, 504) ELSE q

\* chimw.Recoverer answers a panic with 500.
Recoverer(q) == IF q.panics THEN WriteHeader(q, 500) ELSE q

Logger(q) == [q EXCEPT !.logged = q.seen]

\* The logger within the recovery, which a panic goes past.
Chain_LoggerInside(q) ==
    LET t == Timeout(q) IN Recoverer(IF t.panics THEN t ELSE Logger(t))

\* The logger is the outermost of the three, the timeout the innermost.
Chain(q) == Logger(Recoverer(Timeout(q)))

\* The request took so long.  The response goes through the chain and net/http
\* sends it, unless there is a write deadline and it has passed: then the
\* connection is closed and the client gets nothing.
Finish(r, elapsed) ==
    /\ req[r].pc = "back"
    /\ LET q    == Chain([req[r] EXCEPT !.late = (elapsed >= TimeoutAfter)])
           lost == config.writeTimeout > 0 /\ elapsed >= config.writeTimeout
       IN  req' = [req EXCEPT ![r] = [q EXCEPT !.pc = "ended", !.lost = lost,
                                               !.received = IF lost THEN 0 ELSE q.written]]
    /\ UNCHANGED <<config, count, used>>

\* The connection is used for another request.
Reuse(r) ==
    /\ req[r].pc = "ended"
    /\ req' = [req EXCEPT ![r] = Idle]
    /\ UNCHANGED <<config, count, used>>

Next ==
    \/ \E file \in ConfigFiles : Load(file) \/ LoadFails(file)
    \/ \E r \in Requests, preflight \in BOOLEAN, source, peer \in Addresses, sent \in Headers :
           Arrive(r, preflight, source, peer, sent)
    \/ \E r \in Requests : LimitByIP(r)
    \/ \E r \in Requests, token \in {"none", "invalid", "valid", "no iat"} : Authenticate(r, token)
    \/ \E r \in Requests, status \in Statuses : Handle(r, status)
    \/ \E r \in Requests, elapsed \in 0..MaxElapsed : Finish(r, elapsed)
    \/ \E r \in Requests : Reuse(r)
    \/ NextWindow

Spec == Init /\ [][Next]_vars

-----------------------------------------------------------------------------
(* Properties.                                                             *)

Windows == [curr : Nat, prev : Nat]

\* The server runs with a known mode and a limit and a write timeout that are set
\* (setDefaults and validate in config.go), and a request has been given a status
\* by the time it is logged.
TypeOK ==
    /\ \/ config = NoConfig
       \/ /\ config.mode \in {"registrar", "registry"}
          /\ config.requests \in Int \ {0} /\ config.writeTimeout \in Int \ {0}
    /\ count \in [Blocks -> Windows] /\ used \in [Addresses \cup Blocks -> Windows]
    /\ \A r \in Requests :
           /\ req[r].pc \in {"idle", "limit", "auth", "handle", "back", "ended"}
           /\ req[r].written \in {0, 401, 429, 500, 504} \cup {200} \cup Statuses
           /\ req[r].pc = "ended" => req[r].written # 0

\* The trusted proxies leave nothing of what their clients wrote in the first place
\* of X-Forwarded-For.
Replacing(cfg) == \A p \in cfg.trusted : Style[p] = "replaces"

\* If the trusted proxies replace the forwarding headers, then whatever headers it
\* sends, and through a proxy as well as directly, no sender and no /64 gets more
\* than rate_limiting.requests of its requests past the limiter in a window
\* (TrustedProxyClientIP in clientip.go; the proxy as in README.md:863-885).  A
\* trusted proxy that appends lets its clients choose the address they are counted
\* for, which README.md:914 rules out.
WithinBudget ==
    (config # NoConfig /\ config.rateEnabled /\ Replacing(config)) =>
        \A k \in Addresses \cup Blocks : used[k].curr # 0 => used[k].curr <= config.requests

\* A sender's 429: r is refused by the limiter, and the requests admitted from k in
\* this and the last window do not add up to the limit.
RefusedUnused(r, k) ==
    /\ req[r].pc = "limit" /\ req'[r].written = 429
    /\ ~ (used[k].curr + used[k].prev >= config.requests /\ used[k].curr + used[k].prev > 0)

\* If the trusted proxies replace the headers, a request is refused with 429 only
\* when the address of its sender, or the /64 of that address, has used up the
\* limit in this and the last window, and never the first request of a block
\* (httprate.LimitByIP in server.go, with the defaults of config.go).  Within a /64
\* one address is refused for the use of another, although README.md:237 has peers
\* limited by their real socket IP; a negative limit refuses everything.
ThrottledForOwnUse ==
    [][(config # NoConfig /\ Replacing(config) /\ config.requests >= 0) =>
           \A r \in Requests : ~RefusedUnused(r, Block[req[r].source])]_vars

\* With authentication on, a route handler runs for requests with an accepted
\* token only, and a response goes out with the status the handler chose
\* (Authenticate in middleware/auth.go): neither another middleware nor the
\* timeout replaces it.
OnlyAuthorizedHandled ==
    \A r \in Requests :
        req[r].handled =>
            /\ config.authEnabled => req[r].token = "valid"
            /\ req[r].written \in Statuses

\* The access log has every request that has ended, a panic in the token check
\* included, with the status that was written for the client unless the 30 seconds
\* of the timeout had passed.  The client has been given that status unless the
\* write timeout had passed as well: a response that is lost to it (after 10 s, by
\* default) is in the log like any other (Logger in middleware.go; the order of
\* the middleware and WriteTimeout in server.go).
LogAgrees ==
    \A r \in Requests :
        req[r].pc = "ended" =>
            /\ req[r].logged # 0
            /\ req[r].logged = req[r].written \/ req[r].late
            /\ req[r].logged = req[r].received \/ req[r].late \/ req[r].lost
            /\ req[r].lost => req[r].received = 0

=============================================================================
