--------------------------- MODULE JwksAuthProofs ---------------------------
(***************************************************************************)
(* Proofs about JwksAuth, for any number of concurrent validations, any    *)
(* key sets and any tokens: the cache is one published key set at all      *)
(* times, it is never lost, and only vouched-for tokens are accepted.      *)
(***************************************************************************)
EXTENDS JwksAuth, TLAPS

\* The invariant holds before anything has been published or cached.
LEMMA InitInv == Init => Inv
BY KeysAssumption DEF Init, Inv, TypeOK, CacheIsOneKeySet, AcceptedIsVouchedFor, Published

\* Publishing another key set leaves what was published before vouched for.
LEMMA RotateInv == Inv /\ Rotate => Inv'
BY KeysAssumption
   DEF Rotate, Inv, TypeOK, CacheIsOneKeySet, AcceptedIsVouchedFor, Published

\* A validation that ends changes only what is known of its own request: the
\* cached keys and the history of key sets stay as they are.
LEMMA FinishInv ==
    ASSUME Inv, NEW w \in Workers, NEW how \in {"401", "500", "accepted"},
           Finish(w, how), UNCHANGED <<keySet, fresh>>,
           how = "accepted" =>
             /\ token[w] \in Tokens
             /\ token[w].kid \in Supported \intersect UNION history
             /\ token[w].alg = "allowed" /\ token[w].signature = "good" /\ token[w].claims = "good"
    PROVE  Inv'
<1>1. TypeOK'
  BY DEF Finish, Inv, TypeOK
<1>2. published' \in history' /\ CacheIsOneKeySet'
  BY DEF Finish, Inv, CacheIsOneKeySet
<1>3. AcceptedIsVouchedFor'
  BY DEF Finish, Inv, TypeOK, AcceptedIsVouchedFor
<1>4. \A v \in Workers : Published(v)'
  BY DEF Finish, Inv, TypeOK, Published
<1> QED
  BY <1>1, <1>2, <1>3, <1>4 DEF Inv

\* One step of the middleware: a request arrives, or its validation goes on.
LEMMA WorkerInv ==
    ASSUME Inv, NEW w \in Workers, NoBearer(w) \/ Arrive(w) \/ Validate(w)
    PROVE  Inv'
<1>1. CASE NoBearer(w)
  BY <1>1 DEF NoBearer, Inv, TypeOK, CacheIsOneKeySet, AcceptedIsVouchedFor, Published
<1>2. CASE Arrive(w)
  BY <1>2, TokensAssumption
     DEF Arrive, Inv, TypeOK, CacheIsOneKeySet, AcceptedIsVouchedFor, Published
<1>3. CASE LookupKey(w)
  <2>1. token[w].kid \in keySet => token[w].kid \in Supported \intersect UNION history
    BY DEF Inv, CacheIsOneKeySet
  <2> QED
    BY <1>3, <2>1
       DEF LookupKey, Inv, TypeOK, CacheIsOneKeySet, AcceptedIsVouchedFor, Published
<1>4. CASE Fetch(w)
  BY <1>4, KeysAssumption
     DEF Fetch, Inv, TypeOK, CacheIsOneKeySet, AcceptedIsVouchedFor, Published
<1>5. CASE FetchFails(w)
  BY <1>5, FinishInv DEF FetchFails
<1>6. CASE Install(w)
  <2>1. CASE fetched[w] \intersect Supported = {}
    BY <1>6, <2>1, FinishInv DEF Install
  <2>2. CASE fetched[w] \intersect Supported # {}
    <3>1. fetched[w] \in history
      BY <1>6 DEF Install, Inv, Published
    <3>2. /\ keySet' = fetched[w] \intersect Supported /\ fresh' = Overtaken(w)
          /\ pc' = [pc EXCEPT ![w] = "retry"] /\ fetched' = [fetched EXCEPT ![w] = {}]
          /\ UNCHANGED <<published, history, token, outcome>>
      BY <1>6, <2>2 DEF Install
    <3>3. TypeOK'
      <4>1. Overtaken(w) \in [Workers -> {"yes", "no", "replaced"}]
        BY DEF Overtaken, Inv, TypeOK
      <4> QED
        BY <3>2, <4>1 DEF Inv, TypeOK
    <3>4. CacheIsOneKeySet' /\ AcceptedIsVouchedFor' /\ published' \in history'
      BY <3>1, <3>2 DEF Inv, CacheIsOneKeySet, AcceptedIsVouchedFor
    <3>5. \A v \in Workers : Published(v)'
      BY <1>6, <3>2 DEF Install, Inv, TypeOK, Published
    <3> QED
      BY <3>3, <3>4, <3>5 DEF Inv
  <2> QED
    BY <2>1, <2>2
<1>7. CASE RetryLookup(w)
  <2>1. CASE token[w].kid \in keySet
    <3>1. token[w].kid \in Supported \intersect UNION history
      BY <2>1 DEF Inv, CacheIsOneKeySet
    <3> QED
      BY <1>7, <2>1, <3>1
         DEF RetryLookup, Inv, TypeOK, CacheIsOneKeySet, AcceptedIsVouchedFor, Published
  <2>2. CASE token[w].kid \notin keySet
    BY <1>7, <2>2, FinishInv DEF RetryLookup
  <2> QED
    BY <2>1, <2>2
<1>8. CASE Verify(w)
  <2>1. /\ token[w] \in Tokens /\ token[w].alg = "allowed"
        /\ token[w].kid \in Supported \intersect UNION history
    BY <1>8 DEF Verify, Inv, Published
  <2>2. token[w].signature \in {"good", "bad"} /\ token[w].claims \in {"good", "bad", "no iat"}
    BY <2>1, TokensAssumption DEF TokenType
  <2> DEFINE how == IF token[w].signature = "bad" \/ token[w].claims = "bad" THEN "401"
                    ELSE IF token[w].claims = "no iat" THEN "500" ELSE "accepted"
  <2>3. /\ how \in {"401", "500", "accepted"}
        /\ how = "accepted" => token[w].signature = "good" /\ token[w].claims = "good"
    BY <2>2
  <2>4. Finish(w, how) /\ UNCHANGED <<keySet, fresh>>
    BY <1>8 DEF Verify
  <2> QED
    BY <2>1, <2>3, <2>4, FinishInv
<1> QED
  BY <1>1, <1>2, <1>3, <1>4, <1>5, <1>6, <1>7, <1>8 DEF Validate

\* Every step preserves the invariant.
LEMMA NextInv == Inv /\ [Next]_vars => Inv'
<1> SUFFICES ASSUME Inv, [Next]_vars PROVE Inv'
  OBVIOUS
<1>1. CASE UNCHANGED vars
  BY <1>1 DEF vars, Inv, TypeOK, CacheIsOneKeySet, AcceptedIsVouchedFor, Published
<1>2. CASE Next
  BY <1>2, RotateInv, WorkerInv DEF Next
<1> QED
  BY <1>1, <1>2

\* The invariant holds throughout.
LEMMA InvHolds == Spec => []Inv
BY InitInv, NextInv, PTL DEF Spec

\* Type correctness: in particular only keys that parse are ever cached.
THEOREM JwksTypeCorrect == Spec => []TypeOK
<1>1. Inv => TypeOK
  BY DEF Inv
<1> QED
  BY <1>1, InvHolds, PTL

\* However many refreshes overlap, the cache is one key set as it was published
\* (auth.go:142-145).
THEOREM CacheIsOneKeySetHolds == Spec => []CacheIsOneKeySet
<1>1. Inv => CacheIsOneKeySet
  BY DEF Inv
<1> QED
  BY <1>1, InvHolds, PTL

\* Only a token under a published key, with a good signature and good claims,
\* gets a request through (auth.go:185-256).
THEOREM AcceptedIsVouchedForHolds == Spec => []AcceptedIsVouchedFor
<1>1. Inv => AcceptedIsVouchedFor
  BY DEF Inv
<1> QED
  BY <1>1, InvHolds, PTL

\* No refresh, failed or not, leaves a filled cache empty (auth.go:101-146).
THEOREM CacheNeverLostHolds == Spec => CacheNeverLost
<1>1. [Next]_vars => [keySet # {} => keySet' # {}]_vars
  BY DEF Next, vars, Rotate, NoBearer, Arrive, Validate, LookupKey, Fetch, FetchFails,
         Install, RetryLookup, Verify
<1> QED
  BY <1>1, PTL DEF Spec, CacheNeverLost

-----------------------------------------------------------------------------
(* The key that a request's own refresh delivered.                         *)

LEMMA InitDelivered == Init => DeliveredInv
BY DEF Init, DeliveredInv, Delivered

\* Steps of others that leave the cache alone.
LEMMA DeliveredFrame ==
    ASSUME NEW u, Delivered(u), pc'[u] = pc[u], token'[u] = token[u], fetched'[u] = fetched[u],
           fresh'[u] = fresh[u], outcome'[u] = outcome[u], keySet' = keySet
    PROVE  Delivered(u)'
BY DEF Delivered, RejectedForCause, NoToken

\* A validation that ends rejects a token whose key was delivered for cause only.
LEMMA FinishDelivered ==
    ASSUME Inv, DeliveredInv, NEW w \in Workers, NEW how \in {"401", "500", "accepted"},
           Finish(w, how), UNCHANGED <<keySet, fresh>>,
           fresh[w] = "yes" /\ how = "401" => token[w].signature = "bad" \/ token[w].claims = "bad"
    PROVE  DeliveredInv'
<1> SUFFICES ASSUME NEW u \in Workers PROVE Delivered(u)'
  BY DEF DeliveredInv
<1>0. Delivered(u)
  BY DEF DeliveredInv
<1>1. CASE u = w
  <2>1. /\ pc'[w] = "idle" /\ outcome'[w] = how /\ token' = token /\ fresh' = fresh
    BY DEF Finish, Inv, TypeOK
  <2>2. fresh[w] = "yes" => RejectedForCause(w)'
    BY <2>1 DEF RejectedForCause
  <2> QED
    BY <1>1, <2>1, <2>2 DEF Delivered
<1>2. CASE u # w
  BY <1>0, <1>2, DeliveredFrame DEF Finish, Inv, TypeOK
<1> QED
  BY <1>1, <1>2

\* A refresh brings its own key into the cache, and marks those it overtakes.
LEMMA InstallDelivered ==
    ASSUME Inv, DeliveredInv, NEW w \in Workers, Install(w)
    PROVE  DeliveredInv'
<1>1. CASE fetched[w] \intersect Supported = {}
  <2>1. fresh[w] # "yes"
    BY <1>1 DEF Install, DeliveredInv, Delivered
  <2> QED
    BY <1>1, <2>1, FinishDelivered DEF Install
<1>2. CASE fetched[w] \intersect Supported # {}
  <2> SUFFICES ASSUME NEW u \in Workers PROVE Delivered(u)'
    BY DEF DeliveredInv
  <2>0. Delivered(u)
    BY DEF DeliveredInv
  <2>1. /\ pc[w] = "install" /\ pc' = [pc EXCEPT ![w] = "retry"]
        /\ keySet' = fetched[w] \intersect Supported
        /\ fetched' = [fetched EXCEPT ![w] = {}] /\ fresh' = Overtaken(w)
        /\ token' = token /\ outcome' = outcome
    BY <1>2 DEF Install
  <2>2. fresh'[u] = IF u # w /\ pc[u] = "retry" /\ fresh[u] = "yes" THEN "replaced" ELSE fresh[u]
    BY <2>1 DEF Overtaken
  <2>3. CASE u = w
    <3>1. pc'[w] = "retry" /\ fresh'[w] = fresh[w]
      BY <2>1, <2>2, <2>3 DEF Inv, TypeOK
    <3> QED
      BY <2>0, <2>1, <2>3, <3>1 DEF Delivered
  <2>4. CASE u # w
    <3>1. pc'[u] = pc[u] /\ fetched'[u] = fetched[u]
      BY <2>1, <2>4 DEF Inv, TypeOK
    <3>2. RejectedForCause(u)' <=> RejectedForCause(u)
      BY <2>1 DEF RejectedForCause, NoToken
    <3> QED
      BY <2>0, <2>1, <2>2, <2>4, <3>1, <3>2 DEF Delivered
  <2> QED
    BY <2>3, <2>4
<1> QED
  BY <1>1, <1>2

LEMMA WorkerDelivered ==
    ASSUME Inv, DeliveredInv, NEW w \in Workers, NoBearer(w) \/ Arrive(w) \/ Validate(w)
    PROVE  DeliveredInv'
<1>1. CASE FetchFails(w)
  <2>1. fresh[w] # "yes"
    BY <1>1 DEF FetchFails, DeliveredInv, Delivered
  <2> QED
    BY <1>1, <2>1, FinishDelivered DEF FetchFails
<1>2. CASE Install(w)
  BY <1>2, InstallDelivered
<1>3. CASE RetryLookup(w) /\ token[w].kid \notin keySet
  <2>1. fresh[w] # "yes"
    BY <1>3 DEF RetryLookup, DeliveredInv, Delivered
  <2> QED
    BY <1>3, <2>1, FinishDelivered DEF RetryLookup
<1>4. CASE Verify(w)
  <2> DEFINE how == IF token[w].signature = "bad" \/ token[w].claims = "bad" THEN "401"
                    ELSE IF token[w].claims = "no iat" THEN "500" ELSE "accepted"
  <2>1. Finish(w, how) /\ UNCHANGED <<keySet, fresh>>
    BY <1>4 DEF Verify
  <2>2. /\ how \in {"401", "500", "accepted"}
        /\ how = "401" => token[w].signature = "bad" \/ token[w].claims = "bad"
    OBVIOUS
  <2> HIDE DEF how
  <2> QED
    BY <2>1, <2>2, FinishDelivered
<1>5. CASE \/ NoBearer(w) \/ Arrive(w) \/ LookupKey(w) \/ Fetch(w)
           \/ RetryLookup(w) /\ token[w].kid \in keySet
  <2> SUFFICES ASSUME NEW u \in Workers PROVE Delivered(u)'
    BY DEF DeliveredInv
  <2>0. Delivered(u)
    BY DEF DeliveredInv
  <2>1. CASE u # w
    BY <1>5, <2>0, <2>1, DeliveredFrame
       DEF NoBearer, Arrive, LookupKey, Fetch, RetryLookup, Inv, TypeOK
  <2>2. CASE u = w /\ (NoBearer(w) \/ Arrive(w))
    <3>1. fresh'[w] = "no"
      BY <2>2 DEF NoBearer, Arrive, Inv, TypeOK
    <3> QED
      BY <2>2, <3>1 DEF Delivered
  <2>3. CASE u = w /\ LookupKey(w)
    <3>1. pc'[w] \in {"verify", "fetch"} /\ fresh' = fresh /\ fresh[w] = "no"
      BY <2>0, <2>3 DEF LookupKey, Delivered, Inv, TypeOK
    <3> QED
      BY <2>3, <3>1 DEF Delivered
  <2>4. CASE u = w /\ Fetch(w)
    <3>1. /\ pc'[w] = "install" /\ fetched'[w] = published /\ token' = token
          /\ fresh'[w] = "yes" => token[w].kid \in published \intersect Supported
      BY <2>4 DEF Fetch, Inv, TypeOK
    <3> QED
      BY <2>4, <3>1 DEF Delivered
  <2>5. CASE u = w /\ RetryLookup(w) /\ token[w].kid \in keySet
    <3>1. pc'[w] = "verify"
      BY <2>5 DEF RetryLookup, Inv, TypeOK
    <3> QED
      BY <2>5, <3>1 DEF Delivered
  <2> QED
    BY <1>5, <2>1, <2>2, <2>3, <2>4, <2>5
<1> QED
  BY <1>1, <1>2, <1>3, <1>4, <1>5 DEF Validate

LEMMA NextDelivered == Inv /\ DeliveredInv /\ [Next]_vars => DeliveredInv'
<1> SUFFICES ASSUME Inv, DeliveredInv, [Next]_vars PROVE DeliveredInv'
  OBVIOUS
<1>1. CASE UNCHANGED vars \/ Rotate
  BY <1>1, DeliveredFrame DEF vars, Rotate, DeliveredInv
<1>2. ASSUME NEW w \in Workers, NoBearer(w) \/ Arrive(w) \/ Validate(w) PROVE DeliveredInv'
  BY <1>2, WorkerDelivered
<1> QED
  BY <1>1, <1>2 DEF Next

\* A token whose key its own refresh delivered is rejected for its signature or
\* its claims only, unless the refresh of another request replaced the cache
\* before it looked again (auth.go:209-218).
THEOREM RefreshHelpsAloneHolds == Spec => []RefreshHelpsAlone
<1>1. Inv /\ DeliveredInv => RefreshHelpsAlone
  <2> SUFFICES ASSUME Inv, DeliveredInv, NEW w \in Workers, fresh[w] = "yes"
               PROVE  RejectedForCause(w)
    BY DEF RefreshHelpsAlone
  <2>1. pc[w] # "idle" => outcome[w] = "none"
    BY DEF Inv, Published
  <2> QED
    BY <2>1 DEF DeliveredInv, Delivered, RejectedForCause
<1> QED
  BY <1>1, InitInv, NextInv, InitDelivered, NextDelivered, PTL DEF Spec

=============================================================================
