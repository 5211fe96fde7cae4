------------------------------ MODULE JwksAuth ------------------------------
(***************************************************************************)
(* Token validation (internal/auth, internal/middleware/auth.go): requests *)
(* that carry a bearer token are validated concurrently against one cached *)
(* key set.  A token whose kid is not in the cache makes its request fetch *)
(* the key set once, replace the cache by it, and look again; no lock is   *)
(* held while fetching, and fetches are not coordinated.                   *)
(*                                                                         *)
(* The authorization server is external: it publishes a key set, and       *)
(* replaces it when it rotates its keys.  A kid names a key for good.      *)
(***************************************************************************)
CONSTANTS
    Workers,    \* requests being validated at the same time
    Kids,       \* key identifiers ("" included, for keys without one)
    Supported,  \* those whose key parseJWK can parse (RSA, or EC on a known curve)
    KeySets,    \* the key sets the authorization server may publish
    Tokens      \* the tokens clients send

\* A token, after decoding: the key it names, whether its algorithm is allowed,
\* whether its signature verifies under that key, and its claims: all in order,
\* one of exp, iat, iss, aud not acceptable, or in order but without an iat.
TokenType == [kid : Kids, alg : {"allowed", "other"}, signature : {"good", "bad"},
              claims : {"good", "bad", "no iat"}]

ASSUME TokensAssumption == Tokens \subseteq TokenType
ASSUME KeysAssumption == Supported \subseteq Kids /\ KeySets \subseteq SUBSET Kids

VARIABLES
    published,  \* the kids the authorization server serves
    history,    \* every key set it has served
    keySet,     \* j.keySet: the kids of the cached keys
    pc,         \* [Workers -> where the validation is]
    token,      \* [Workers -> the token being validated]
    fetched,    \* [Workers -> the key set the JWKS response carries]
    fresh,      \* [Workers -> whether that response named the token's kid, and whether
                \*             another has taken its place in the cache since]
    outcome     \* [Workers -> how the middleware ended]

vars == <<published, history, keySet, pc, token, fetched, fresh, outcome>>

NoToken == [kid |-> "none"]

Init ==
    /\ published \in KeySets
    /\ history = {published}
    /\ keySet = {}
    /\ pc = [w \in Workers |-> "idle"]
    /\ token = [w \in Workers |-> NoToken]
    /\ fetched = [w \in Workers |-> {}]
    /\ fresh = [w \in Workers |-> "no"]
    /\ outcome = [w \in Workers |-> "none"]

\* The authorization server publishes another key set.
Rotate ==
    /\ published' \in KeySets
    /\ history' = history \union {published'}
    /\ UNCHANGED <<keySet, pc, token, fetched, fresh, outcome>>

-----------------------------------------------------------------------------

\* The middleware ends: 401, 500 (a panic caught by Recoverer), or the next handler.
Finish(w, how) ==
    /\ pc' = [pc EXCEPT ![w] = "idle"]
    /\ outcome' = [outcome EXCEPT ![w] = how]
    /\ fetched' = [fetched EXCEPT ![w] = {}]
    /\ UNCHANGED <<published, history, token>>

\* No Authorization header, or one that is no bearer token.
NoBearer(w) ==
    /\ pc[w] = "idle"
    /\ outcome' = [outcome EXCEPT ![w] = "401"]
    /\ token' = [token EXCEPT ![w] = NoToken]
    /\ fresh' = [fresh EXCEPT ![w] = "no"]
    /\ UNCHANGED <<published, history, keySet, pc, fetched>>

\* A token arrives; one signed with an algorithm that is not allowed is refused
\* before its key is looked up.
Arrive(w) ==
    /\ pc[w] = "idle"
    /\ \E t \in Tokens :
         /\ token' = [token EXCEPT ![w] = t]
         /\ IF t.alg = "allowed"
            THEN /\ pc' = [pc EXCEPT ![w] = "lookup"]
                 /\ outcome' = [outcome EXCEPT ![w] = "none"]
            ELSE /\ outcome' = [outcome EXCEPT ![w] = "401"]
                 /\ UNCHANGED pc
    /\ fresh' = [fresh EXCEPT ![w] = "no"]
    /\ UNCHANGED <<published, history, keySet, fetched>>

\* keyfunc: look in the cache, under the read lock.
LookupKey(w) ==
    /\ pc[w] = "lookup"
    /\ pc' = [pc EXCEPT ![w] = IF token[w].kid \in keySet THEN "verify" ELSE "fetch"]
    /\ UNCHANGED <<published, history, keySet, token, fetched, fresh, outcome>>

\* A miss: the JWKS request is answered with what is published at that moment.
Fetch(w) ==
    /\ pc[w] = "fetch"
    /\ fetched' = [fetched EXCEPT ![w] = published]
    /\ fresh' = [fresh EXCEPT ![w] =
                   IF token[w].kid \in published \intersect Supported THEN "yes" ELSE "no"]
    /\ pc' = [pc EXCEPT ![w] = "install"]
    /\ UNCHANGED <<published, history, keySet, token, outcome>>

\* The request times out (10 s), is refused, or cannot be decoded.
FetchFails(w) ==
    /\ pc[w] = "fetch"
    /\ Finish(w, "401")
    /\ UNCHANGED <<keySet, fresh>>

\* Mutant: a document without usable keys empties the cache.
Install_Empty(w) ==
    /\ pc[w] = "install"
    /\ keySet' = fetched[w] \intersect Supported
    /\ pc' = [pc EXCEPT ![w] = "retry"]
    /\ fetched' = [fetched EXCEPT ![w] = {}]
    /\ UNCHANGED <<published, history, token, fresh, outcome>>

\* Mutant: the fetched keys are added to the cached ones.
Install_Merge(w) ==
    /\ pc[w] = "install"
    /\ keySet' = keySet \union (fetched[w] \intersect Supported)
    /\ pc' = [pc EXCEPT ![w] = "retry"]
    /\ fetched' = [fetched EXCEPT ![w] = {}]
    /\ UNCHANGED <<published, history, token, fresh, outcome>>

\* Mutant: the fetched keys are cached without being parsed.
Install_Unparsed(w) ==
    /\ pc[w] = "install"
    /\ keySet' = fetched[w]
    /\ pc' = [pc EXCEPT ![w] = "retry"]
    /\ fetched' = [fetched EXCEPT ![w] = {}]
    /\ UNCHANGED <<published, history, token, fresh, outcome>>

\* Mutant: a cache that is filled is not replaced.
Install_OnlyFirst(w) ==
    /\ pc[w] = "install"
    /\ keySet' = IF keySet = {} THEN fetched[w] \intersect Supported ELSE keySet
    /\ pc' = [pc EXCEPT ![w] = "retry"]
    /\ fetched' = [fetched EXCEPT ![w] = {}]
    /\ UNCHANGED <<published, history, token, fresh, outcome>>

\* What the requests know of their responses once w's is in the cache.
Overtaken(w) ==
    [u \in Workers |-> IF u # w /\ pc[u] = "retry" /\ fresh[u] = "yes" THEN "replaced" ELSE fresh[u]]

\* refreshKeys: the keys that parse replace the cache, under the write lock; a
\* document without one is an error and leaves the cache alone.
Install(w) ==
    /\ pc[w] = "install"
    /\ IF fetched[w] \intersect Supported # {}
       THEN /\ keySet' = fetched[w] \intersect Supported
            /\ pc' = [pc EXCEPT ![w] = "retry"]
            /\ fetched' = [fetched EXCEPT ![w] = {}]
            /\ fresh' = Overtaken(w)
            /\ UNCHANGED <<published, history, token, outcome>>
       ELSE Finish(w, "401") /\ UNCHANGED <<keySet, fresh>>

\* Mutant: a key that is still missing is fetched again.
RetryLookup_Loop(w) ==
    /\ pc[w] = "retry"
    /\ pc' = [pc EXCEPT ![w] = IF token[w].kid \in keySet THEN "verify" ELSE "fetch"]
    /\ UNCHANGED <<published, history, keySet, token, fetched, fresh, outcome>>

\* keyfunc looks again, in whatever the cache is by now.
RetryLookup(w) ==
    /\ pc[w] = "retry"
    /\ IF token[w].kid \in keySet
       THEN /\ pc' = [pc EXCEPT ![w] = "verify"]
            /\ UNCHANGED <<published, history, token, fetched, outcome>>
       ELSE Finish(w, "401")
    /\ UNCHANGED <<keySet, fresh>>

\* Mutant: the claims are read before the signature is checked.
Verify_ClaimsOnly(w) ==
    /\ pc[w] = "verify"
    /\ Finish(w, IF token[w].claims = "bad" THEN "401" ELSE "accepted")
    /\ UNCHANGED <<keySet, fresh>>

\* The signature, then exp, iat, iss and aud; ValidateToken then reads the iat
\* claim, which WithIssuedAt does not require: without one it panics.
Verify(w) ==
    /\ pc[w] = "verify"
    /\ Finish(w, IF token[w].signature = "bad" \/ token[w].claims = "bad" THEN "401"
                 ELSE IF token[w].claims = "no iat" THEN "500" ELSE "accepted")
    /\ UNCHANGED <<keySet, fresh>>

Validate(w) == LookupKey(w) \/ Fetch(w) \/ FetchFails(w) \/ Install(w) \/ RetryLookup(w) \/ Verify(w)

Next == Rotate \/ \E w \in Workers : NoBearer(w) \/ Arrive(w) \/ Validate(w)

\* Requests are scheduled, and a fetch ends, if only by its timeout.
Fairness == \A w \in Workers : WF_vars(Validate(w))

Spec == Init /\ [][Next]_vars /\ Fairness

-----------------------------------------------------------------------------
(* Properties.                                                             *)

\* Every variable holds a value of its type; only keys that parse are cached.
TypeOK ==
    /\ published \in KeySets /\ history \subseteq KeySets /\ keySet \subseteq Supported
    /\ pc \in [Workers -> {"idle", "lookup", "fetch", "install", "retry", "verify"}]
    /\ token \in [Workers -> Tokens \union {NoToken}]
    /\ fetched \in [Workers -> SUBSET Kids]
    /\ fresh \in [Workers -> {"yes", "no", "replaced"}]
    /\ outcome \in [Workers -> {"none", "401", "500", "accepted"}]

\* The cache is always one key set as it was published, never a mix of two,
\* however many refreshes overlap (auth.go:142-145).
CacheIsOneKeySet == keySet # {} => \E S \in history : keySet = S \intersect Supported

\* A request gets through only with a token whose key the authorization server
\* has published, whose signature verifies and whose claims are in order.
AcceptedIsVouchedFor ==
    \A w \in Workers : outcome[w] = "accepted" =>
        /\ token[w] \in Tokens
        /\ token[w].kid \in Supported \intersect UNION history
        /\ token[w].alg = "allowed" /\ token[w].signature = "good" /\ token[w].claims = "good"

\* A refresh that fails never costs the keys already cached (auth.go:101-140).
CacheNeverLost == [][keySet # {} => keySet' # {}]_vars

\* Every request gets an outcome, also while keys are rotated for ever: a
\* request refreshes at most once (auth.go:207-218).
EveryTokenDecided == \A w \in Workers : (pc[w] # "idle") ~> (pc[w] = "idle")

\* A token that is rejected is a bad one.
RejectedForCause(w) ==
    (outcome[w] = "401" /\ token[w] # NoToken) =>
        token[w].signature = "bad" \/ token[w].claims = "bad"

\* A request whose own refresh delivered the key of its token is rejected for
\* the signature or the claims only, unless another request's refresh replaced
\* the cache before it looked again (auth.go:209-218).
RefreshHelpsAlone == \A w \in Workers : fresh[w] = "yes" => RejectedForCause(w)

\* A rejected token's own refresh did not deliver its key: "refresh once and
\* retry ... is the standard mitigation" of a rotated key (auth.go:207-208).
RefreshHelps ==
    \A w \in Workers : fresh[w] # "no" => RejectedForCause(w)

\* The inductive invariant behind CacheIsOneKeySet and AcceptedIsVouchedFor: a
\* response on its way to the cache was published, and a validation that has got
\* as far as its key found it in the cache of that time.
Published(w) ==
    /\ pc[w] = "install" => fetched[w] \in history
    /\ pc[w] # "idle" => token[w] \in Tokens /\ token[w].alg = "allowed"
    /\ pc[w] # "idle" => outcome[w] = "none"
    /\ pc[w] = "verify" => token[w].kid \in Supported \intersect UNION history

Inv ==
    /\ TypeOK /\ published \in history
    /\ CacheIsOneKeySet /\ AcceptedIsVouchedFor
    /\ \A w \in Workers : Published(w)

\* Behind RefreshHelpsAlone: the key follows its request from the response to
\* the cache, where only another refresh can take it away.
Delivered(w) ==
    /\ pc[w] \in {"lookup", "fetch"} => fresh[w] = "no"
    /\ (pc[w] = "install" /\ fresh[w] = "yes") => token[w].kid \in fetched[w] \intersect Supported
    /\ (pc[w] = "retry" /\ fresh[w] = "yes") => token[w].kid \in keySet
    /\ (pc[w] = "idle" /\ fresh[w] = "yes") => RejectedForCause(w)

DeliveredInv == \A w \in Workers : Delivered(w)

=============================================================================
