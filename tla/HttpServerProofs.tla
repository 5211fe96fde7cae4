-------------------------- MODULE HttpServerProofs --------------------------
(***************************************************************************)
(* The invariants of HttpServer, for any number of concurrent requests,    *)
(* any addresses, any configuration files and any limits.                  *)
(***************************************************************************)
EXTENDS HttpServer, TLAPS

\* What a loaded configuration is.
Configs ==
    [mode : {"registrar", "registry"}, baseURL : BOOLEAN, extensions : {"known", "unknown"},
     rateEnabled : BOOLEAN, requests : Int \ {0}, writeTimeout : Int \ {0},
     trusted : SUBSET Proxies, authEnabled : BOOLEAN]

Written == {0, 401, 429, 500, 504} \cup {200} \cup Statuses

RequestType ==
    [pc : {"idle", "limit", "auth", "handle", "back", "ended"},
     source : Addresses \cup {"none"}, client : Addresses \cup {"none"},
     token : {"none", "invalid", "valid", "no iat"}, panics : BOOLEAN, handled : BOOLEAN,
     written : Written, seen : Written, late : BOOLEAN, lost : BOOLEAN, logged : Written,
     received : Written]

\* What holds of a request under a configuration: until it is answered nothing is
\* written; behind proxies that replace the headers it is counted for its own
\* sender; one on its way back has a status or panics, and one that has ended is
\* in the log.
RequestOK(q, cfg) ==
    /\ q \in RequestType
    /\ q.pc \in {"idle", "limit", "auth", "handle"} => q.written = 0 /\ ~q.handled /\ ~q.panics
    /\ q.pc = "limit" => /\ q.source \in Addresses /\ q.client \in Addresses
                         /\ Replacing(cfg) => q.client = q.source
    /\ q.pc = "handle" => (cfg.authEnabled => q.token = "valid")
    /\ q.handled => (cfg.authEnabled => q.token = "valid") /\ q.written \in Statuses /\ ~q.panics
    /\ q.pc = "back" => \/ q.written # 0 /\ q.seen = q.written /\ ~q.panics
                        \/ q.written = 0 /\ q.panics
    /\ q.pc = "ended" => /\ q.written # 0 /\ q.logged # 0
                         /\ q.logged = q.written \/ q.late
                         /\ q.received = IF q.lost THEN 0 ELSE q.written

\* A block is within the limit; what is admitted from it is what it is counted for,
\* if the proxies replace the headers; an address has no more than its block.
LimitsOK(cfg, c, u) ==
    /\ \A b \in Blocks : c[b].curr = 0 \/ c[b].curr <= cfg.requests
    /\ Replacing(cfg) => \A b \in Blocks : u[b] = c[b]
    /\ \A a \in Addresses : u[a].curr <= u[Block[a]].curr

CountsOK ==
    /\ count \in [Blocks -> Windows] /\ used \in [Addresses \cup Blocks -> Windows]
    /\ config = NoConfig => /\ count = [b \in Blocks |-> Unused]
                            /\ used = [k \in Addresses \cup Blocks |-> Unused]
    /\ config # NoConfig => LimitsOK(config, count, used)

RequestsOK ==
    /\ req \in [Requests -> RequestType]
    /\ config = NoConfig => req = [r \in Requests |-> Idle]
    /\ \A r \in Requests : RequestOK(req[r], config)

\* The inductive invariant.
HInv ==
    /\ config = NoConfig \/ config \in Configs
    /\ CountsOK
    /\ RequestsOK

-----------------------------------------------------------------------------
(* Lemmas.                                                                 *)

\* The statuses the middleware writes.
LEMMA Codes == {200, 401, 429, 500, 504} \subseteq Written \ {0}
  BY DEF Written

\* NoConfig is not the result of Load.
LEMMA LoadedIsSome == ASSUME NEW cfg \in Configs PROVE cfg # NoConfig
  BY DEF Configs, NoConfig

\* An idle request is in order under every configuration.
LEMMA IdleOK == ASSUME NEW cfg PROVE RequestOK(Idle, cfg)
  BY DEF RequestOK, RequestType, Idle, Written

\* An address is counted for at most one block, and is a block only of itself.
LEMMA BlockFacts ==
    ASSUME NEW a \in Addresses
    PROVE  /\ Block[a] \in Blocks
           /\ a \in Blocks => Block[a] = a
           /\ Block[a] \in Addresses => Block[a] = a
  BY HttpAssumption DEF Blocks

\* A request is counted for an address.
LEMMA ClientIsAddress ==
    ASSUME NEW source \in Addresses, NEW peer \in Addresses, NEW sent \in Headers,
           Sends(source, peer, sent), config \in Configs, NEW headers \in Received(source, peer, sent)
    PROVE  ClientIP(peer, headers) \in Addresses
  <1>1. sent.realIP \in Addresses \cup {"none"}
    BY DEF Headers
  <1>2. sent.forwardedFor = <<>> \/ \E a \in Addresses \cup {"none"} : sent.forwardedFor = <<a>>
    BY DEF Headers
  <1>3. sent = [forwardedFor |-> sent.forwardedFor, realIP |-> sent.realIP]
    BY DEF Headers
  <1>4. \/ headers = sent
        \/ headers = [sent EXCEPT !.forwardedFor = <<source>>]
        \/ headers = [NoHeaders EXCEPT !.realIP = source]
        \/ headers = [sent EXCEPT !.forwardedFor = Append(@, source)]
    BY DEF Received
  <1>5. headers.realIP \in Addresses \cup {"none"}
    BY <1>1, <1>3, <1>4 DEF NoHeaders
  <1>6. ForwardedFor(headers) \in Addresses \cup {"none"}
    <2>1. CASE headers = sent
      BY <1>2, <2>1 DEF ForwardedFor
    <2>2. CASE headers = [sent EXCEPT !.forwardedFor = <<source>>]
      BY <1>3, <2>2 DEF ForwardedFor
    <2>3. CASE headers = [NoHeaders EXCEPT !.realIP = source]
      BY <2>3 DEF ForwardedFor, NoHeaders
    <2>4. CASE headers = [sent EXCEPT !.forwardedFor = Append(@, source)]
      <3>1. headers.forwardedFor = Append(sent.forwardedFor, source)
        BY <1>3, <2>4
      <3>2. CASE sent.forwardedFor = <<>>
        BY <3>1, <3>2 DEF ForwardedFor
      <3>3. ASSUME NEW a \in Addresses \cup {"none"}, sent.forwardedFor = <<a>>
            PROVE  ForwardedFor(headers) \in Addresses \cup {"none"}
        BY <3>1, <3>3 DEF ForwardedFor
      <3>. QED
        BY <1>2, <3>2, <3>3
    <2>. QED
      BY <1>4, <2>1, <2>2, <2>3, <2>4
  <1>. QED
    BY <1>5, <1>6 DEF ClientIP, FirstOf

\* Behind proxies that replace the headers, the address a request is counted for is
\* that of its sender.
LEMMA ClientIsSource ==
    ASSUME NEW source \in Addresses, NEW peer \in Addresses, NEW sent \in Headers,
           Sends(source, peer, sent), config \in Configs, Replacing(config),
           NEW headers \in Received(source, peer, sent)
    PROVE  ClientIP(peer, headers) = source
  <1>1. CASE source = peer /\ peer \notin config.trusted
    BY <1>1 DEF ClientIP
  <1>2. CASE source # peer
    <2>1. source # "none" /\ peer \in config.trusted /\ Style[peer] = "replaces"
      BY <1>2, HttpAssumption DEF Sends, Replacing
    <2>2. headers \in {[sent EXCEPT !.forwardedFor = <<source>>], [NoHeaders EXCEPT !.realIP = source]}
      BY <1>2, <2>1 DEF Received
    <2>3. sent = [forwardedFor |-> sent.forwardedFor, realIP |-> sent.realIP]
      BY DEF Headers
    <2>4. ForwardedFor(headers) = source \/ (ForwardedFor(headers) = "none" /\ headers.realIP = source)
      <3>1. CASE headers = [sent EXCEPT !.forwardedFor = <<source>>]
        <4>1. headers.forwardedFor = <<source>>
          BY <2>3, <3>1
        <4>. QED
          BY <4>1 DEF ForwardedFor
      <3>2. CASE headers = [NoHeaders EXCEPT !.realIP = source]
        BY <3>2 DEF ForwardedFor, NoHeaders
      <3>. QED
        BY <2>2, <3>1, <3>2
    <2>. QED
      BY <2>1, <2>4 DEF ClientIP, FirstOf
  <1>3. CASE source = peer /\ peer \in config.trusted
    <2>1. CASE sent = NoHeaders
      BY <1>3, <2>1 DEF ClientIP, FirstOf, NoHeaders, Received, ForwardedFor
    <2>2. CASE source \in Clients
      BY <1>3, <2>2, HttpAssumption DEF Configs
    <2>. QED
      BY <1>3, <2>1, <2>2 DEF Sends
  <1>. QED
    BY <1>1, <1>2, <1>3

\* A step that changes one request leaves the others in order.
LEMMA OneRequest ==
    ASSUME RequestsOK, config # NoConfig, config' = config,
           NEW r \in Requests, NEW q, RequestOK(q, config), req' = [req EXCEPT ![r] = q]
    PROVE  RequestsOK'
  <1>1. q \in RequestType
    BY DEF RequestOK
  <1>2. req' \in [Requests -> RequestType]
    BY <1>1 DEF RequestsOK
  <1>3. ASSUME NEW s \in Requests PROVE RequestOK(req'[s], config)
    BY DEF RequestsOK
  <1>4. config' # NoConfig
    OBVIOUS
  <1>. QED
    BY <1>2, <1>3, <1>4 DEF RequestsOK

\* A request that is not idle belongs to a running server.
LEMMA Running ==
    ASSUME HInv, NEW r \in Requests, req[r].pc # "idle"
    PROVE  config \in Configs /\ config # NoConfig
  BY LoadedIsSome DEF HInv, RequestsOK, Idle

\* A step that leaves the counters alone.
LEMMA CountersKept ==
    ASSUME CountsOK, UNCHANGED <<config, count, used>>
    PROVE  CountsOK'
  BY DEF CountsOK

\* A status is written: the first one goes out, the last one is remembered.
LEMMA Writes ==
    ASSUME NEW q \in RequestType, NEW status \in Written
    PROVE  /\ WriteHeader(q, status) \in RequestType
           /\ WriteHeader(q, status).written = IF q.written = 0 THEN status ELSE q.written
           /\ WriteHeader(q, status).seen = status
           /\ \A f \in {"pc", "source", "client", "token", "panics", "handled", "late"} :
                  WriteHeader(q, status)[f] = q[f]
  BY DEF WriteHeader, RequestType

\* What the links of the way back make of a request.
Kept(q, t) ==
    /\ t \in RequestType /\ t.token = q.token /\ t.panics = q.panics
    /\ t.handled = q.handled /\ t.late = q.late

AfterTimeout(q, t) ==
    /\ Kept(q, t)
    /\ q.written # 0 => t.written = q.written
    /\ q.late = FALSE => t.written = q.written /\ t.seen = q.seen
    /\ q.late = TRUE => t.written # 0 /\ t.seen = 504

AfterRecoverer(q, t) ==
    /\ Kept(q, t)
    /\ q.panics = FALSE => t.written = q.written /\ t.seen = q.seen
    /\ q.panics = TRUE => t.seen = 500 /\ t.written = IF q.written = 0 THEN 500 ELSE q.written

AfterLogger(q, t) ==
    /\ Kept(q, t)
    /\ t.written = q.written /\ t.logged = q.seen

\* The timeout writes to a request that is late, and only to one.
LEMMA TimeoutStep == ASSUME NEW q \in RequestType PROVE AfterTimeout(q, Timeout(q))
  <1>0. 504 \in Written
    BY Codes
  <1>1. CASE q.late = TRUE
    <2>1. Timeout(q) = WriteHeader(q, 504)
      BY <1>1 DEF Timeout
    <2>. QED
      BY <1>0, <1>1, <2>1, Writes DEF AfterTimeout, Kept
  <1>2. CASE q.late = FALSE
    BY <1>2 DEF Timeout, AfterTimeout, Kept
  <1>. QED
    BY <1>1, <1>2 DEF RequestType

\* The recovery writes to a request that panics, and only to one.
LEMMA RecovererStep == ASSUME NEW q \in RequestType PROVE AfterRecoverer(q, Recoverer(q))
  <1>0. 500 \in Written
    BY Codes
  <1>1. CASE q.panics = TRUE
    <2>1. Recoverer(q) = WriteHeader(q, 500)
      BY <1>1 DEF Recoverer
    <2>. QED
      BY <1>0, <1>1, <2>1, Writes DEF AfterRecoverer, Kept
  <1>2. CASE q.panics = FALSE
    BY <1>2 DEF Recoverer, AfterRecoverer, Kept
  <1>. QED
    BY <1>1, <1>2 DEF RequestType

\* The logger keeps what the chain has made of a request and logs it.
LEMMA LoggerStep == ASSUME NEW q \in RequestType PROVE AfterLogger(q, Logger(q))
  BY DEF Logger, RequestType, AfterLogger, Kept

\* The response is sent or lost.
Ended(q, lost) ==
    [q EXCEPT !.pc = "ended", !.lost = lost, !.received = IF lost THEN 0 ELSE q.written]

LEMMA EndStep ==
    ASSUME NEW q \in RequestType, NEW lost \in BOOLEAN
    PROVE  /\ Kept(q, Ended(q, lost)) /\ Ended(q, lost).pc = "ended" /\ Ended(q, lost).lost = lost
           /\ Ended(q, lost).written = q.written /\ Ended(q, lost).logged = q.logged
           /\ Ended(q, lost).received = IF lost THEN 0 ELSE q.written
  <1>1. PICK given : given = IF lost THEN 0 ELSE q.written
    OBVIOUS
  <1>2. given \in Written
    <2>0. 0 \in Written
      BY DEF Written
    <2>1. q.written \in Written
      BY DEF RequestType
    <2>2. CASE lost
      BY <1>1, <2>0, <2>2
    <2>3. CASE ~lost
      BY <1>1, <2>1, <2>3
    <2>. QED
      BY <2>2, <2>3
  <1>3. Ended(q, lost) = [q EXCEPT !.pc = "ended", !.lost = lost, !.received = given]
    BY <1>1 DEF Ended
  <1>4. [q EXCEPT !.pc = "ended", !.lost = lost, !.received = given] \in RequestType
    BY <1>2 DEF RequestType
  <1>5. PICK e : e = [q EXCEPT !.pc = "ended", !.lost = lost, !.received = given]
    OBVIOUS
  <1>6. e \in RequestType /\ e.pc = "ended" /\ e.received = given
    <2>1. e \in RequestType
      BY <1>4, <1>5, Zenon
    <2>2. e.pc = "ended"
      BY <1>5 DEF RequestType
    <2>3. e.received = given
      BY <1>5 DEF RequestType
    <2>. QED
      BY <2>1, <2>2, <2>3
  <1>7. e.lost = lost
    BY <1>5 DEF RequestType
  <1>8. e.written = q.written /\ e.logged = q.logged /\ e.token = q.token
    BY <1>5 DEF RequestType
  <1>9. e.panics = q.panics /\ e.handled = q.handled /\ e.late = q.late
    BY <1>5 DEF RequestType
  <1>. QED
    BY <1>1, <1>3, <1>5, <1>6, <1>7, <1>8, <1>9, Zenon DEF Kept

\* The way back ends with a status and an entry in the log, which agree unless
\* the request was late, and leaves the handler's status alone.
LEMMA ChainOK ==
    ASSUME NEW q, NEW cfg, RequestOK(q, cfg), q.pc = "back", NEW late \in BOOLEAN, NEW lost \in BOOLEAN
    PROVE  RequestOK(Ended(Chain([q EXCEPT !.late = late]), lost), cfg)
  <1>1. PICK q1 : q1 = [q EXCEPT !.late = late]
    OBVIOUS
  <1>2. /\ q1 \in RequestType /\ q1.late = late
        /\ q1.written = q.written /\ q1.seen = q.seen /\ q1.panics = q.panics
        /\ q1.handled = q.handled /\ q1.token = q.token
    BY <1>1 DEF RequestOK, RequestType
  <1>3. PICK q2 : q2 = Timeout(q1)
    OBVIOUS
  <1>4. PICK q3 : q3 = Recoverer(q2)
    OBVIOUS
  <1>5. PICK q4 : q4 = Logger(q3)
    OBVIOUS
  <1>6. \/ q.written # 0 /\ q.seen = q.written /\ q.panics = FALSE
        \/ q.written = 0 /\ q.panics = TRUE /\ q.handled = FALSE
    BY DEF RequestOK, RequestType
  <1>7. late = TRUE \/ late = FALSE
    OBVIOUS
  <1>8. AfterTimeout(q1, q2)
    BY <1>2, <1>3, TimeoutStep, Zenon
  <1>9. AfterRecoverer(q2, q3)
    <2>1. q2 \in RequestType
      BY <1>8 DEF AfterTimeout, Kept
    <2>. QED
      BY <1>4, <2>1, RecovererStep, Zenon
  <1>10. AfterLogger(q3, q4)
    <2>1. q3 \in RequestType
      BY <1>9 DEF AfterRecoverer, Kept
    <2>. QED
      BY <1>5, <2>1, LoggerStep, Zenon
  <1>11. PICK q5 : q5 = Ended(q4, lost)
    OBVIOUS
  <1>12. /\ Kept(q4, q5) /\ q5.pc = "ended" /\ q5.lost = lost
         /\ q5.written = q4.written /\ q5.logged = q4.logged
         /\ q5.received = IF lost THEN 0 ELSE q4.written
    <2>1. q4 \in RequestType
      BY <1>10 DEF AfterLogger, Kept
    <2>. QED
      BY <1>11, <2>1, EndStep, Zenon
  <1>13. /\ q5 \in RequestType /\ q5.written = q3.written /\ q5.logged = q3.seen
         /\ q5.handled = q.handled /\ q5.token = q.token /\ q5.late = late /\ q5.panics = q.panics
    BY <1>2, <1>8, <1>9, <1>10, <1>12 DEF AfterTimeout, AfterRecoverer, AfterLogger, Kept
  <1>14. /\ q.written # 0 => q3.written = q.written
         /\ q3.written # 0 /\ q3.seen # 0
         /\ late = FALSE => q3.seen = q3.written
    BY <1>2, <1>6, <1>7, <1>8, <1>9 DEF AfterTimeout, AfterRecoverer, Kept
  <1>15. RequestOK(q5, cfg)
    BY <1>6, <1>7, <1>12, <1>13, <1>14 DEF RequestOK
  <1>. QED
    BY <1>1, <1>3, <1>4, <1>5, <1>11, <1>15 DEF Chain

\* An answer that is written to a request that has none.
LEMMA AnswerOK ==
    ASSUME NEW q, NEW cfg, RequestOK(q, cfg), q.pc \in {"limit", "auth", "handle"},
           NEW status \in Written \ {0}
    PROVE  RequestOK(Answer(q, status), cfg)
  <1>1. PICK w : w = WriteHeader(q, status)
    OBVIOUS
  <1>2. q \in RequestType /\ q.written = 0 /\ q.handled = FALSE /\ q.panics = FALSE
    BY DEF RequestOK, RequestType
  <1>3. /\ w \in RequestType /\ w.written = status /\ w.seen = status
        /\ w.handled = FALSE /\ w.panics = FALSE
    BY <1>1, <1>2, Writes
  <1>4. PICK b : b = [w EXCEPT !.pc = "back"]
    OBVIOUS
  <1>5. /\ b \in RequestType /\ b.pc = "back" /\ b.written = status /\ b.seen = status
        /\ b.handled = FALSE /\ b.panics = FALSE
    BY <1>3, <1>4 DEF RequestType
  <1>6. RequestOK(b, cfg)
    BY <1>5 DEF RequestOK
  <1>. QED
    BY <1>1, <1>4, <1>6 DEF Answer

-----------------------------------------------------------------------------
(* One lemma for each action.                                              *)

LEMMA InitOK == Init => HInv
  <1>. SUFFICES ASSUME Init PROVE HInv
    OBVIOUS
  <1>1. CountsOK
    BY DEF Init, CountsOK, Windows, Unused
  <1>2. RequestsOK
    BY IdleOK DEF Init, RequestsOK, RequestOK
  <1>. QED
    BY <1>1, <1>2 DEF Init, HInv

LEMMA LoadOK == ASSUME HInv, NEW file \in ConfigFiles, Load(file) PROVE HInv'
  <1>1. file \in FileType
    BY HttpAssumption
  <1>2. config' \in Configs
    <2>1. PICK c : c = SetDefaults(file)
      OBVIOUS
    <2>2. PICK mode : mode = IF c.mode = "" THEN "registrar" ELSE c.mode
      OBVIOUS
    <2>3. config' = [c EXCEPT !.mode = mode]
      BY <2>1, <2>2 DEF Load
    <2>4. file.mode \in {"", "registrar", "registry"}
      BY DEF Load, Valid
    <2>5. /\ OrDefault(file.writeTimeout, DefaultWriteTimeout) \in Int \ {0}
          /\ OrDefault(file.requests, DefaultRequests) \in Int \ {0}
      <3>1. file.writeTimeout \in Int /\ file.requests \in Int
        BY <1>1 DEF FileType
      <3>. QED
        BY <3>1, HttpAssumption DEF OrDefault
    <2>6. c \in [mode : {"", "registrar", "registry"}, baseURL : BOOLEAN,
                 extensions : {"known", "unknown"}, rateEnabled : BOOLEAN, requests : Int \ {0},
                 writeTimeout : Int \ {0}, trusted : SUBSET Proxies, authEnabled : BOOLEAN]
      BY <1>1, <2>1, <2>4, <2>5 DEF SetDefaults, FileType
    <2>7. mode \in {"registrar", "registry"}
      BY <2>2, <2>6
    <2>. QED
      BY <2>3, <2>6, <2>7 DEF Configs
  <1>3. config' # NoConfig
    BY <1>2, LoadedIsSome
  <1>4. config = NoConfig /\ req' = req /\ count' = count /\ used' = used
    BY DEF Load
  <1>5. CountsOK'
    <2>1. /\ count' = [b \in Blocks |-> Unused] /\ count' \in [Blocks -> Windows]
          /\ used' = [k \in Addresses \cup Blocks |-> Unused]
          /\ used' \in [Addresses \cup Blocks -> Windows]
      BY <1>4 DEF HInv, CountsOK
    <2>2. LimitsOK(config', count', used')
      BY <2>1, BlockFacts DEF LimitsOK, Unused
    <2>. QED
      BY <1>3, <2>1, <2>2 DEF CountsOK
  <1>6. RequestsOK'
    <2>1. req' = [r \in Requests |-> Idle] /\ req' \in [Requests -> RequestType]
      BY <1>4 DEF HInv, RequestsOK
    <2>2. \A r \in Requests : RequestOK(req'[r], config')
      BY <2>1, IdleOK
    <2>. QED
      BY <2>1, <2>2 DEF RequestsOK
  <1>. QED
    BY <1>2, <1>5, <1>6 DEF HInv

LEMMA ArriveOK ==
    ASSUME HInv, NEW r \in Requests, NEW preflight \in BOOLEAN, NEW source \in Addresses,
           NEW peer \in Addresses, NEW sent \in Headers,
           Arrive(r, preflight, source, peer, sent)
    PROVE  HInv'
  <1>0. PICK headers \in Received(source, peer, sent) :
            req' = [req EXCEPT ![r] =
                LET q == [Idle EXCEPT !.pc = "limit", !.source = source, !.client = ClientIP(peer, headers)]
                IN  IF preflight THEN Answer(q, 200) ELSE q]
    BY DEF Arrive
  <1>1. PICK q : q = [Idle EXCEPT !.pc = "limit", !.source = source, !.client = ClientIP(peer, headers)]
    OBVIOUS
  <1>2. PICK client : client = ClientIP(peer, headers)
    OBVIOUS
  <1>c. config \in Configs /\ Sends(source, peer, sent)
    BY DEF Arrive, HInv
  <1>a. client \in Addresses /\ (Replacing(config) => client = source)
    BY <1>2, <1>c, ClientIsAddress, ClientIsSource
  <1>3. RequestOK(q, config) /\ q.pc = "limit"
    <2>1. /\ q \in RequestType /\ q.pc = "limit" /\ q.written = 0 /\ q.handled = FALSE
          /\ q.panics = FALSE /\ q.source = source /\ q.client = client
      <3>1. q = [pc |-> "limit", source |-> source, client |-> client, token |-> "none",
                 panics |-> FALSE, handled |-> FALSE, written |-> 0, seen |-> 0, late |-> FALSE,
                 lost |-> FALSE, logged |-> 0, received |-> 0]
        BY <1>1, <1>2 DEF Idle
      <3>2. 0 \in Written
        BY DEF Written
      <3>. QED
        BY <1>a, <3>1, <3>2 DEF RequestType
    <2>. QED
      BY <1>a, <2>1 DEF RequestOK
  <1>4. RequestOK(IF preflight THEN Answer(q, 200) ELSE q, config)
    <2>1. 200 \in Written \ {0}
      BY Codes
    <2>. QED
      BY <1>3, <2>1, AnswerOK
  <1>5. /\ config # NoConfig /\ UNCHANGED <<config, count, used>>
        /\ req' = [req EXCEPT ![r] = IF preflight THEN Answer(q, 200) ELSE q]
    BY <1>0, <1>1 DEF Arrive
  <1>6. RequestsOK'
    BY <1>4, <1>5, OneRequest DEF HInv
  <1>. QED
    BY <1>5, <1>6, CountersKept DEF HInv

\* A counter that is increased.
LEMMA OneMore ==
    ASSUME NEW v, NEW w, w = [curr |-> v.curr + 1, prev |-> v.prev]
    PROVE  w.curr = v.curr + 1
  OBVIOUS

\* A request that is admitted is counted once: under the block of the address it is
\* counted for, for its sender and for the block of its sender.
LEMMA AdmitOK ==
    ASSUME CountsOK, config \in Configs, config # NoConfig, config' = config,
           NEW source \in Addresses, NEW client \in Addresses, Replacing(config) => client = source,
           \E share \in 0 .. count[Block[client]].prev : ~Refused(Block[client], share),
           count' = [count EXCEPT ![Block[client]].curr = @ + 1],
           used' = [k \in DOMAIN used |->
                       IF k \in {source, Block[source]}
                       THEN [used[k] EXCEPT !.curr = @ + 1] ELSE used[k]]
    PROVE  CountsOK'
  <1>1. PICK key \in Blocks : key = Block[client]
    BY BlockFacts
  <1>2. PICK own \in Blocks : own = Block[source]
    BY BlockFacts
  <1>3. /\ count \in [Blocks -> Windows] /\ used \in [Addresses \cup Blocks -> Windows]
        /\ LimitsOK(config, count, used)
    BY DEF CountsOK
  <1>4. count' = [count EXCEPT ![key].curr = @ + 1]
    BY <1>1
  <1>5. count' \in [Blocks -> Windows]
    BY <1>3, <1>4 DEF Windows
  <1>6. ASSUME NEW k \in Addresses \cup Blocks
        PROVE  /\ k \in {source, own} => used'[k] = [curr |-> used[k].curr + 1, prev |-> used[k].prev]
               /\ ~(k \in {source, own}) => used'[k] = used[k]
               /\ used'[k] \in Windows
    BY <1>2, <1>3 DEF Windows
  <1>7. used' \in [Addresses \cup Blocks -> Windows]
    <2>1. used' = [k \in Addresses \cup Blocks |-> used'[k]]
      BY <1>3
    <2>. QED
      BY <1>6, <2>1
  <1>8. count[key].curr + 1 <= config.requests
    <2>1. PICK share \in 0 .. count[key].prev : ~(count[key].curr + share + 1 > config.requests)
      BY <1>1 DEF Refused
    <2>2. count[key].curr \in Nat /\ count[key].prev \in Nat /\ config.requests \in Int
      BY <1>3 DEF Windows, Configs
    <2>. QED
      BY <2>1, <2>2
  <1>9. ASSUME NEW b \in Blocks PROVE count'[b].curr = 0 \/ count'[b].curr <= config.requests
    <2>1. CASE b = key
      <3>1. count'[b].curr = count[key].curr + 1
        BY <1>3, <1>4, <2>1 DEF Windows
      <3>. QED
        BY <1>8, <3>1
    <2>2. CASE b # key
      BY <1>3, <1>4, <2>2 DEF LimitsOK
    <2>. QED
      BY <2>1, <2>2
  <1>10. ASSUME Replacing(config), NEW b \in Blocks PROVE used'[b] = count'[b]
    <2>1. used[b] = count[b] /\ key = own
      BY <1>1, <1>2, <1>3, <1>10 DEF LimitsOK
    <2>2. b \in {source, own} <=> b = key
      BY <1>2, <2>1, BlockFacts
    <2>3. count'[b] = IF b = key THEN [curr |-> count[b].curr + 1, prev |-> count[b].prev] ELSE count[b]
      BY <1>3, <1>4 DEF Windows
    <2>. QED
      BY <1>6, <2>1, <2>2, <2>3
  <1>11. ASSUME NEW a \in Addresses PROVE used'[a].curr <= used'[Block[a]].curr
    <2>1. PICK b \in Blocks : b = Block[a]
      BY BlockFacts
    <2>2. used[a].curr <= used[b].curr /\ used[a] \in Windows /\ used[b] \in Windows
      BY <1>3, <2>1 DEF LimitsOK
    <2>3. a \in {source, own} => b \in {source, own}
      BY <1>2, <2>1, BlockFacts
    <2>4. ASSUME NEW k \in {a, b}
          PROVE  /\ k \in {source, own} => used'[k].curr = used[k].curr + 1
                 /\ ~(k \in {source, own}) => used'[k].curr = used[k].curr
      <3>1. k \in Addresses \cup Blocks
        OBVIOUS
      <3>2. k \in {source, own} => used'[k] = [curr |-> used[k].curr + 1, prev |-> used[k].prev]
        BY <1>6, <3>1, Zenon
      <3>3. ~(k \in {source, own}) => used'[k] = used[k]
        BY <1>6, <3>1, Zenon
      <3>. QED
        BY <3>2, <3>3, OneMore, Zenon
    <2>5. used[a].curr \in Nat /\ used[b].curr \in Nat
      BY <2>2 DEF Windows
    <2>6. used'[a].curr <= used'[b].curr
      BY <2>2, <2>3, <2>4, <2>5
    <2>. QED
      BY <2>1, <2>6
  <1>12. LimitsOK(config', count', used')
    BY <1>9, <1>10, <1>11 DEF LimitsOK
  <1>. QED
    BY <1>5, <1>7, <1>12 DEF CountsOK

LEMMA LimitByIPOK ==
    ASSUME HInv, NEW r \in Requests, LimitByIP(r)
    PROVE  HInv'
  <1>1. config \in Configs /\ config # NoConfig /\ config' = config
    BY Running DEF LimitByIP
  <1>2. RequestOK(req[r], config) /\ req[r].pc = "limit"
    BY DEF HInv, RequestsOK, LimitByIP
  <1>3. /\ req[r].source \in Addresses /\ req[r].client \in Addresses
        /\ Replacing(config) => req[r].client = req[r].source
    BY <1>2 DEF RequestOK
  <1>4. RequestOK([req[r] EXCEPT !.pc = "auth"], config)
    BY <1>2 DEF RequestOK, RequestType
  <1>5. CASE /\ req' = [req EXCEPT ![r].pc = "auth"]
             /\ UNCHANGED <<count, used>>
    <2>1. RequestsOK'
      BY <1>1, <1>4, <1>5, OneRequest DEF HInv
    <2>. QED
      BY <1>1, <1>5, <2>1, CountersKept DEF HInv
  <1>6. CASE /\ req' = [req EXCEPT ![r] = Answer(@, 429)]
             /\ UNCHANGED <<count, used>>
    <2>1. 429 \in Written \ {0}
      BY Codes
    <2>2. RequestOK(Answer(req[r], 429), config)
      BY <1>2, <2>1, AnswerOK
    <2>3. RequestsOK'
      BY <1>1, <1>6, <2>2, OneRequest, ZenonT(60) DEF HInv
    <2>. QED
      BY <1>1, <1>6, <2>3, CountersKept DEF HInv
  <1>7. CASE /\ \E share \in 0 .. count[Block[req[r].client]].prev : ~Refused(Block[req[r].client], share)
             /\ req' = [req EXCEPT ![r].pc = "auth"]
             /\ count' = [count EXCEPT ![Block[req[r].client]].curr = @ + 1]
             /\ used' = [k \in DOMAIN used |->
                            IF k \in {req[r].source, Block[req[r].source]}
                            THEN [used[k] EXCEPT !.curr = @ + 1] ELSE used[k]]
    <2>1. RequestsOK'
      BY <1>1, <1>4, <1>7, OneRequest DEF HInv
    <2>2. CountsOK'
      BY <1>1, <1>3, <1>7, AdmitOK DEF HInv
    <2>. QED
      BY <1>1, <2>1, <2>2 DEF HInv
  <1>. QED
    BY <1>5, <1>6, <1>7 DEF LimitByIP

LEMMA NextWindowOK == ASSUME HInv, NextWindow PROVE HInv'
  <1>1. /\ count' = [b \in Blocks |-> [curr |-> 0, prev |-> count[b].curr]]
        /\ used' = [k \in Addresses \cup Blocks |-> [curr |-> 0, prev |-> used[k].curr]]
        /\ config' = config /\ req' = req
    BY DEF NextWindow
  <1>2. count \in [Blocks -> Windows] /\ used \in [Addresses \cup Blocks -> Windows]
    BY DEF HInv, CountsOK
  <1>3. count' \in [Blocks -> Windows] /\ used' \in [Addresses \cup Blocks -> Windows]
    BY <1>1, <1>2 DEF Windows
  <1>4. ASSUME config # NoConfig PROVE LimitsOK(config, count', used')
    <2>1. \A b \in Blocks : count'[b].curr = 0
      BY <1>1
    <2>2. \A a \in Addresses : used'[a].curr = 0 /\ used'[Block[a]].curr = 0
      BY <1>1, BlockFacts
    <2>3. ASSUME Replacing(config), NEW b \in Blocks PROVE used'[b] = count'[b]
      <3>1. used[b] = count[b]
        BY <1>4, <2>3 DEF HInv, CountsOK, LimitsOK
      <3>. QED
        BY <1>1, <3>1
    <2>. QED
      BY <2>1, <2>2, <2>3 DEF LimitsOK
  <1>5. config = NoConfig => /\ count' = [b \in Blocks |-> Unused]
                             /\ used' = [k \in Addresses \cup Blocks |-> Unused]
    BY <1>1 DEF HInv, CountsOK, Unused
  <1>6. CountsOK'
    BY <1>1, <1>3, <1>4, <1>5 DEF CountsOK
  <1>7. RequestsOK'
    BY <1>1 DEF HInv, RequestsOK
  <1>. QED
    BY <1>1, <1>6, <1>7 DEF HInv

\* A request that is refused for its token.
LEMMA RefusedOK ==
    ASSUME NEW q, NEW cfg, RequestOK(q, cfg), q.pc = "auth"
    PROVE  RequestOK(Answer(q, 401), cfg)
  <1>1. 401 \in Written \ {0}
    BY Codes
  <1>. QED
    BY <1>1, AnswerOK

LEMMA AuthenticateOK ==
    ASSUME HInv, NEW r \in Requests, NEW token \in {"none", "invalid", "valid", "no iat"},
           Authenticate(r, token)
    PROVE  HInv'
  <1>1. config \in Configs /\ config # NoConfig /\ UNCHANGED <<config, count, used>>
    BY Running DEF Authenticate
  <1>2. RequestOK(req[r], config) /\ req[r].pc = "auth"
    BY DEF HInv, RequestsOK, Authenticate
  <1>3. PICK q : q = [req[r] EXCEPT !.token = token]
    OBVIOUS
  <1>4. /\ q \in RequestType /\ q.pc = "auth" /\ q.token = token /\ q.written = 0
        /\ q.handled = FALSE /\ q.panics = FALSE
    BY <1>2, <1>3 DEF RequestOK, RequestType
  <1>5. RequestOK(q, config)
    BY <1>4 DEF RequestOK
  <1>6. CASE ~config.authEnabled \/ token = "valid"
    <2>1. PICK h : h = [q EXCEPT !.pc = "handle"]
      OBVIOUS
    <2>2. /\ h \in RequestType /\ h.pc = "handle" /\ h.token = token /\ h.written = 0
          /\ h.handled = FALSE /\ h.panics = FALSE
      BY <1>4, <2>1 DEF RequestType
    <2>3. RequestOK(h, config)
      BY <1>6, <2>2 DEF RequestOK
    <2>4. req' = [req EXCEPT ![r] = h]
      BY <1>3, <1>6, <2>1 DEF Authenticate
    <2>. QED
      BY <1>1, <2>3, <2>4, OneRequest, CountersKept DEF HInv
  <1>7. CASE config.authEnabled /\ token \in {"none", "invalid"}
    <2>2. RequestOK(Answer(q, 401), config)
      BY <1>4, <1>5, RefusedOK, ZenonT(60)
    <2>3. req' = [req EXCEPT ![r] = Answer(q, 401)]
      BY <1>3, <1>7 DEF Authenticate
    <2>. QED
      BY <1>1, <2>2, <2>3, OneRequest, CountersKept DEF HInv
  <1>8. CASE config.authEnabled /\ token = "no iat"
    <2>1. PICK h : h = [q EXCEPT !.panics = TRUE, !.pc = "back"]
      OBVIOUS
    <2>2. /\ h \in RequestType /\ h.pc = "back" /\ h.written = 0
          /\ h.handled = FALSE /\ h.panics = TRUE
      BY <1>4, <2>1 DEF RequestType
    <2>3. RequestOK(h, config)
      BY <2>2 DEF RequestOK
    <2>4. req' = [req EXCEPT ![r] = h]
      BY <1>3, <1>8, <2>1 DEF Authenticate
    <2>. QED
      BY <1>1, <2>3, <2>4, OneRequest, CountersKept DEF HInv
  <1>. QED
    BY <1>1, <1>6, <1>7, <1>8 DEF Configs

LEMMA HandleOK ==
    ASSUME HInv, NEW r \in Requests, NEW status \in Statuses, Handle(r, status)
    PROVE  HInv'
  <1>1. config \in Configs /\ config # NoConfig /\ UNCHANGED <<config, count, used>>
    BY Running DEF Handle
  <1>2. RequestOK(req[r], config) /\ req[r].pc = "handle"
    BY DEF HInv, RequestsOK, Handle
  <1>3. /\ req[r] \in RequestType /\ req[r].written = 0 /\ req[r].panics = FALSE
        /\ config.authEnabled => req[r].token = "valid"
    BY <1>2 DEF RequestOK, RequestType
  <1>4. status \in Written /\ status # 0
    BY HttpAssumption DEF Written
  <1>5. PICK w : w = WriteHeader(req[r], status)
    OBVIOUS
  <1>6. /\ w \in RequestType /\ w.written = status /\ w.seen = status
        /\ w.panics = FALSE /\ w.token = req[r].token
    BY <1>3, <1>4, <1>5, Writes
  <1>7. PICK h : h = [[w EXCEPT !.pc = "back"] EXCEPT !.handled = TRUE]
    OBVIOUS
  <1>8. /\ h \in RequestType /\ h.pc = "back" /\ h.written = status /\ h.seen = status
        /\ h.panics = FALSE /\ h.token = req[r].token /\ h.handled = TRUE
    BY <1>6, <1>7 DEF RequestType
  <1>9. RequestOK(h, config)
    BY <1>3, <1>4, <1>8 DEF RequestOK
  <1>10. req' = [req EXCEPT ![r] = h]
    BY <1>5, <1>7 DEF Handle, Answer
  <1>. QED
    BY <1>1, <1>9, <1>10, OneRequest, CountersKept DEF HInv

LEMMA FinishOK ==
    ASSUME HInv, NEW r \in Requests, NEW elapsed \in 0..MaxElapsed, Finish(r, elapsed)
    PROVE  HInv'
  <1>1. config \in Configs /\ config # NoConfig /\ UNCHANGED <<config, count, used>>
    BY Running DEF Finish
  <1>2. RequestOK(req[r], config) /\ req[r].pc = "back"
    BY DEF HInv, RequestsOK, Finish
  <1>a. \A x, y : (x >= y) \in BOOLEAN
    OBVIOUS
  <1>b. (config.writeTimeout > 0 /\ elapsed >= config.writeTimeout) \in BOOLEAN
    OBVIOUS
  <1>3. PICK late \in BOOLEAN : late = (elapsed >= TimeoutAfter)
    BY <1>a, Zenon
  <1>4. PICK lost \in BOOLEAN : lost = (config.writeTimeout > 0 /\ elapsed >= config.writeTimeout)
    BY <1>b, Zenon
  <1>5. PICK q : q = Ended(Chain([req[r] EXCEPT !.late = late]), lost)
    OBVIOUS
  <1>6. RequestOK(q, config)
    BY <1>2, <1>5, ChainOK, Zenon
  <1>7. req' = [req EXCEPT ![r] = q]
    BY <1>3, <1>4, <1>5, Zenon DEF Finish, Ended
  <1>. QED
    BY <1>1, <1>6, <1>7, OneRequest, CountersKept DEF HInv

LEMMA ReuseOK == ASSUME HInv, NEW r \in Requests, Reuse(r) PROVE HInv'
  <1>1. config \in Configs /\ config # NoConfig /\ UNCHANGED <<config, count, used>>
    BY Running DEF Reuse
  <1>. QED
    BY <1>1, IdleOK, OneRequest, CountersKept DEF HInv, Reuse

-----------------------------------------------------------------------------
(* Theorems.                                                               *)

\* HInv is inductive.
THEOREM HInvHolds == Spec => []HInv
  <1>1. Init => HInv
    BY InitOK
  <1>2. HInv /\ [Next]_vars => HInv'
    <2>. SUFFICES ASSUME HInv, [Next]_vars PROVE HInv'
      OBVIOUS
    <2>1. CASE UNCHANGED vars
      BY <2>1 DEF HInv, CountsOK, RequestsOK, vars
    <2>2. ASSUME NEW file \in ConfigFiles, LoadFails(file) PROVE HInv'
      BY <2>2 DEF HInv, CountsOK, RequestsOK, LoadFails, vars
    <2>. QED
      BY <2>1, <2>2, LoadOK, ArriveOK, LimitByIPOK, NextWindowOK, AuthenticateOK, HandleOK,
         FinishOK, ReuseOK DEF Next
  <1>. QED
    BY <1>1, <1>2, PTL DEF Spec

\* A loaded configuration has a known mode and its limits set; the counters and
\* the requests keep their types (setDefaults and validate in config.go).
THEOREM TypeOKHolds == Spec => []TypeOK
  <1>1. HInv => TypeOK
    <2>. SUFFICES ASSUME HInv PROVE TypeOK
      OBVIOUS
    <2>1. \/ config = NoConfig
          \/ /\ config.mode \in {"registrar", "registry"}
             /\ config.requests \in Int \ {0} /\ config.writeTimeout \in Int \ {0}
      BY DEF HInv, Configs
    <2>2. count \in [Blocks -> Windows] /\ used \in [Addresses \cup Blocks -> Windows]
      BY DEF HInv, CountsOK
    <2>3. ASSUME NEW r \in Requests
          PROVE  /\ req[r].pc \in {"idle", "limit", "auth", "handle", "back", "ended"}
                 /\ req[r].written \in {0, 401, 429, 500, 504} \cup {200} \cup Statuses
                 /\ req[r].pc = "ended" => req[r].written # 0
      <3>1. RequestOK(req[r], config)
        BY DEF HInv, RequestsOK
      <3>2. /\ req[r].pc \in {"idle", "limit", "auth", "handle", "back", "ended"}
            /\ req[r].written \in Written
        BY <3>1 DEF RequestOK, RequestType
      <3>. QED
        BY <3>1, <3>2 DEF RequestOK, Written
    <2>. QED
      BY <2>1, <2>2, <2>3 DEF TypeOK
  <1>. QED
    BY <1>1, HInvHolds, PTL

\* Behind proxies that replace the headers, no sender and no block gets more than the
\* limit of its requests past the limiter in a window, whatever headers it sends and
\* however many requests are in hand at once (TrustedProxyClientIP and
\* httprate.LimitByIP).
THEOREM WithinBudgetHolds == Spec => []WithinBudget
  <1>1. HInv => WithinBudget
    <2>. SUFFICES ASSUME HInv, config # NoConfig, Replacing(config), NEW k \in Addresses \cup Blocks,
                         used[k].curr # 0
                  PROVE  used[k].curr <= config.requests
      BY DEF WithinBudget
    <2>1. /\ config.requests \in Int /\ LimitsOK(config, count, used)
          /\ \A j \in Addresses \cup Blocks : used[j].curr \in Nat
      BY DEF HInv, CountsOK, Configs, Windows
    <2>2. ASSUME NEW b \in Blocks PROVE used[b].curr = 0 \/ used[b].curr <= config.requests
      BY <2>1 DEF LimitsOK
    <2>3. CASE k \in Blocks
      BY <2>2, <2>3
    <2>4. CASE k \in Addresses
      <3>1. used[k].curr <= used[Block[k]].curr /\ Block[k] \in Blocks
        BY <2>1, <2>4, BlockFacts DEF LimitsOK
      <3>. QED
        BY <2>1, <2>2, <3>1
    <2>. QED
      BY <2>3, <2>4
  <1>. QED
    BY <1>1, HInvHolds, PTL

\* With authentication on, a route handler runs for accepted tokens only, and its
\* status is the one that goes out (Authenticate in middleware/auth.go).
THEOREM OnlyAuthorizedHandledHolds == Spec => []OnlyAuthorizedHandled
  <1>1. HInv => OnlyAuthorizedHandled
    BY DEF HInv, RequestsOK, RequestOK, OnlyAuthorizedHandled
  <1>. QED
    BY <1>1, HInvHolds, PTL

\* The access log has the status that was written for every request that has ended,
\* a panic included, unless it was late; the client was given that status unless
\* the write timeout had passed (Logger in middleware.go, WriteTimeout in server.go).
THEOREM LogAgreesHolds == Spec => []LogAgrees
  <1>1. HInv => LogAgrees
    BY DEF HInv, RequestsOK, RequestOK, LogAgrees
  <1>. QED
    BY <1>1, HInvHolds, PTL

\* A request that waits at the limiter changes only in the limiter.
LEMMA OnlyLimiterMoves ==
    ASSUME HInv, [Next]_vars, NEW r \in Requests, req[r].pc = "limit", ~LimitByIP(r)
    PROVE  req'[r] = req[r]
  <1>. req \in [Requests -> RequestType]
    BY DEF HInv, RequestsOK
  <1>1. CASE UNCHANGED vars
    BY <1>1 DEF vars
  <1>2. ASSUME NEW file \in ConfigFiles, Load(file) \/ LoadFails(file) PROVE req' = req
    BY <1>2 DEF Load, LoadFails, vars
  <1>3. ASSUME NEW s \in Requests, s # r, LimitByIP(s) PROVE req'[r] = req[r]
    BY <1>3 DEF LimitByIP
  <1>4. ASSUME NEW s \in Requests, NEW preflight \in BOOLEAN, NEW source \in Addresses,
               NEW peer \in Addresses, NEW sent \in Headers,
               Arrive(s, preflight, source, peer, sent)
        PROVE  req'[r] = req[r]
    BY <1>4 DEF Arrive
  <1>5. ASSUME NEW s \in Requests, NEW token \in {"none", "invalid", "valid", "no iat"},
               Authenticate(s, token)
        PROVE  req'[r] = req[r]
    BY <1>5 DEF Authenticate
  <1>6. ASSUME NEW s \in Requests, NEW status \in Statuses, Handle(s, status)
        PROVE  req'[r] = req[r]
    BY <1>6 DEF Handle
  <1>7. ASSUME NEW s \in Requests, NEW elapsed \in 0..MaxElapsed, Finish(s, elapsed)
        PROVE  req'[r] = req[r]
    BY <1>7 DEF Finish
  <1>8. ASSUME NEW s \in Requests, Reuse(s) PROVE req'[r] = req[r]
    BY <1>8 DEF Reuse
  <1>9. CASE NextWindow
    BY <1>9 DEF NextWindow
  <1>. QED
    BY <1>1, <1>2, <1>3, <1>4, <1>5, <1>6, <1>7, <1>8, <1>9 DEF Next

\* A request that is passed on has been answered no more than before.
LEMMA MovedWritten ==
    ASSUME NEW q \in RequestType
    PROVE  [q EXCEPT !.pc = "auth"].written = q.written
  BY DEF RequestType

\* Behind proxies that replace the headers nobody is refused for the requests of
\* another block: a 429 goes to a sender whose /64, or IPv4 address, has used up the
\* limit in this and the last window (httprate.LimitByIP).
THEOREM ThrottledForOwnUseHolds == Spec => ThrottledForOwnUse
  <1>. DEFINE OwnUse ==
           (config # NoConfig /\ Replacing(config) /\ config.requests >= 0) =>
               \A r \in Requests : ~RefusedUnused(r, Block[req[r].source])
  <1>1. ASSUME HInv, [Next]_vars, config # NoConfig, Replacing(config), config.requests >= 0,
               NEW r \in Requests, RefusedUnused(r, Block[req[r].source])
        PROVE  FALSE
    <2>0. req[r].pc = "limit" /\ req'[r].written = 429
      BY <1>1 DEF RefusedUnused
    <2>1. /\ req \in [Requests -> RequestType] /\ req[r].written = 0
          /\ req[r].source \in Addresses /\ req[r].client = req[r].source
      BY <1>1, <2>0 DEF HInv, RequestsOK, RequestOK
    <2>2. LimitByIP(r)
      BY <1>1, <2>0, <2>1, OnlyLimiterMoves
    <2>3. ASSUME req' = [req EXCEPT ![r].pc = "auth"] PROVE FALSE
      <3>1. req'[r] = [req[r] EXCEPT !.pc = "auth"]
        BY <2>1, <2>3
      <3>2. req'[r].written = req[r].written
        BY <2>1, <3>1, MovedWritten
      <3>. QED
        BY <2>0, <2>1, <3>2
    <2>4. PICK b \in Blocks : b = Block[req[r].source]
      BY <2>1, BlockFacts
    <2>a. \E share \in 0 .. count[Block[req[r].client]].prev : Refused(Block[req[r].client], share)
      BY <2>2, <2>3, Zenon DEF LimitByIP
    <2>5. PICK share \in 0 .. count[b].prev : Refused(b, share)
      BY <2>1, <2>4, <2>a, Zenon
    <2>6. used[b] = count[b]
      BY <1>1 DEF HInv, CountsOK, LimitsOK
    <2>7. used[b].curr + share + 1 > config.requests /\ share \in 0 .. used[b].prev
      BY <2>5, <2>6 DEF Refused
    <2>8. used[b].curr \in Nat /\ used[b].prev \in Nat
      BY <1>1 DEF HInv, CountsOK, Windows
    <2>9. config.requests \in Int \ {0}
      BY <1>1 DEF HInv, Configs
    <2>10. used[b].curr + used[b].prev >= config.requests /\ used[b].curr + used[b].prev > 0
      BY <1>1, <2>7, <2>8, <2>9
    <2>. QED
      BY <1>1, <2>4, <2>10 DEF RefusedUnused
  <1>2. HInv /\ [Next]_vars => [OwnUse]_vars
    BY <1>1
  <1>3. Spec => [][OwnUse]_vars
    BY <1>2, HInvHolds, PTL DEF Spec
  <1>. QED
    BY <1>3 DEF ThrottledForOwnUse

=============================================================================
