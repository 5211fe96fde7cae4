------------------------- MODULE WhoisServerProofs --------------------------
(***************************************************************************)
(* Proofs about the WHOIS gateway, for any number of connections, any query *)
(* lines and any registered names.  The lemmas are about WhoisNext, so that *)
(* a composition whose steps are steps of the gateway can cite them.        *)
(***************************************************************************)
EXTENDS WhoisServer, TLAPS

LEMMA WhoisInitType == WhoisInit => WhoisTypeOK
BY DEF WhoisInit, WhoisTypeOK

LEMMA WhoisNextType == WhoisTypeOK /\ [WhoisNext]_whoisVars => WhoisTypeOK'
<1> SUFFICES ASSUME WhoisTypeOK, [WhoisNext]_whoisVars PROVE WhoisTypeOK'
  OBVIOUS
<1> USE DEF WhoisTypeOK, listenerVars
<1>1. CASE UNCHANGED whoisVars
  BY <1>1 DEF whoisVars
<1>2. CASE Listen \/ ServeStarts \/ AcceptFails \/ AfterAcceptError \/ Cancel
  BY <1>2 DEF Listen, ServeStarts, AcceptFails, AfterAcceptError, Cancel
<1>3. CASE CloserRuns \/ Shutdown
  BY <1>3 DEF CloserRuns, Shutdown, CloseSocket
<1>4. ASSUME NEW c \in Clients, Dial(c) \/ Accept(c) \/ Lookup(c) PROVE WhoisTypeOK'
  BY <1>4 DEF Dial, Accept, Lookup
<1>5. ASSUME NEW c \in Clients, ReadQuery(c) PROVE WhoisTypeOK'
  <2>1. PICK l \in Lines : line' = [line EXCEPT ![c] = l]
    BY <1>5 DEF ReadQuery
  <2>2. \/ conn' = [conn EXCEPT ![c] = "closed"] /\ reply' = [reply EXCEPT ![c] = "no query"]
        \/ conn' = [conn EXCEPT ![c] = "query"] /\ reply' = reply
        \/ conn' = [conn EXCEPT ![c] = "closed"] /\ reply' = [reply EXCEPT ![c] = "unsupported"]
    BY <1>5 DEF ReadQuery, Hangup
  <2>3. UNCHANGED <<ln, socket, cancelled, serve, closer>>
    BY <1>5 DEF ReadQuery
  <2> QED
    BY <2>1, <2>2, <2>3
<1>6. ASSUME NEW c \in Clients, ReadFails(c) \/ LookupFails(c) \/ LookupRefused(c) PROVE WhoisTypeOK'
  BY <1>6 DEF ReadFails, LookupFails, LookupRefused, Hangup
<1>7. ASSUME NEW c \in Clients, LookupDone(c) PROVE WhoisTypeOK'
  BY <1>7 DEF LookupDone, Hangup
<1> QED
  BY <1>1, <1>2, <1>3, <1>4, <1>5, <1>6, <1>7 DEF WhoisNext, HandlerStep

\* Every variable of the gateway keeps its type.
THEOREM WhoisTypeCorrect == WhoisSpec => []WhoisTypeOK
BY WhoisInitType, WhoisNextType, PTL DEF WhoisSpec

-----------------------------------------------------------------------------
(* Query lines.                                                            *)

\* The token that is looked up is one of the line.
LEMMA TargetIsToken ==
    ASSUME NEW l \in Seq(Tokens), l # <<>>
    PROVE  \E i \in DOMAIN l : ParseQuery(l).target = l[i]
<1>1. 1 \in DOMAIN l /\ (Len(l) >= 2 => 2 \in DOMAIN l)
  OBVIOUS
<1>2. CASE Len(l) >= 2 /\ Keyword(l[1].word) # "none"
  <2>1. ParseQuery(l).target = l[2]
    BY <1>2 DEF ParseQuery
  <2> QED
    BY <1>1, <1>2, <2>1
<1>3. CASE ~(Len(l) >= 2 /\ Keyword(l[1].word) # "none")
  <2>1. ParseQuery(l).target = l[1]
    BY <1>3 DEF ParseQuery
  <2> QED
    BY <1>1, <2>1
<1> QED
  BY <1>2, <1>3

\* Both documented forms of a domain query are parsed into that query.
LEMMA DomainQueryParsed ==
    ASSUME NEW l \in Seq(Tokens), NEW n, AsksForDomain(l, n)
    PROVE  l # <<>> /\ ParseQuery(l).kind = "domain" /\ ParseQuery(l).target.name = n
<1>0. l # <<>>
  <2>1. Len(l) # 0
    BY DEF AsksForDomain
  <2>2. Len(<<>>) = 0
    OBVIOUS
  <2> QED
    BY <2>1, <2>2
<1>1. CASE Len(l) = 1 /\ l[1].has = {"dot"} /\ l[1].name = n
  <2>1. KindOf(l[1]) = "domain"
    <3>1. "as number" \notin {"dot"} /\ "slash" \notin {"dot"} /\ "ns" \notin {"dot"}
      OBVIOUS
    <3>2. {"dot"} # {"as number"} /\ {"dot"} # {"ns", "dot"}
      BY <3>1
    <3> QED
      BY <1>1, <3>1, <3>2 DEF KindOf
  <2>2. ParseQuery(l) = [target |-> l[1], kind |-> KindOf(l[1])]
    BY <1>1 DEF ParseQuery
  <2> QED
    BY <1>0, <1>1, <2>1, <2>2
<1>2. CASE Len(l) = 2 /\ l[1].word = "domain" /\ l[2].name = n
  <2>1. Keyword(l[1].word) = "domain"
    BY <1>2 DEF Keyword
  <2>2. ParseQuery(l) = [target |-> l[2], kind |-> "domain"]
    BY <1>2, <2>1 DEF ParseQuery
  <2> QED
    BY <1>0, <1>2, <2>2
<1> QED
  BY <1>1, <1>2 DEF AsksForDomain

\* What the reply to a line can be, case by case.
LEMMA ReplyCases ==
    ASSUME NEW l
    PROVE  /\ l = <<>> => ReplyTo(l) = {"no query"}
           /\ l # <<>> /\ ParseQuery(l).kind # "domain" => ReplyTo(l) = {"unsupported"}
           /\ l # <<>> /\ ParseQuery(l).kind = "domain" =>
                ReplyTo(l) = {"store failed", "store closed",
                              IF ParseQuery(l).target.name \in Registered
                              THEN "record" ELSE "not found"}
BY DEF ReplyTo

LEMMA HandlerInitInv == WhoisInit => HandlersInv
BY DEF WhoisInit, HandlersInv, HandlerInv

\* A connection is only disturbed by its own handler, and by the closing of the
\* socket while it is in the backlog.
LEMMA HandlerUntouched ==
    ASSUME NEW c \in Clients, HandlerInv(c), line'[c] = line[c], reply'[c] = reply[c],
           conn'[c] = conn[c] \/ (conn[c] \in {"none", "backlog", "reading"} /\ conn'[c] \in {"backlog", "reading", "closed"})
    PROVE  HandlerInv(c)'
BY DEF HandlerInv

LEMMA HandlerNextInv ==
    WhoisTypeOK /\ HandlersInv /\ [WhoisNext]_whoisVars => HandlersInv'
<1> SUFFICES ASSUME WhoisTypeOK, HandlersInv, [WhoisNext]_whoisVars, NEW c \in Clients
             PROVE  HandlerInv(c)'
  BY DEF HandlersInv
<1>0. HandlerInv(c)
  BY DEF HandlersInv
<1> USE DEF WhoisTypeOK
<1>1. CASE UNCHANGED whoisVars
  BY <1>0, <1>1, HandlerUntouched DEF whoisVars
<1>2. CASE Listen \/ ServeStarts \/ AcceptFails \/ AfterAcceptError \/ Cancel
  BY <1>0, <1>2, HandlerUntouched DEF Listen, ServeStarts, AcceptFails, AfterAcceptError, Cancel
<1>3. CASE CloserRuns \/ Shutdown
  BY <1>0, <1>3, HandlerUntouched DEF CloserRuns, Shutdown, CloseSocket
<1>4. ASSUME NEW d \in Clients, Dial(d) \/ Accept(d) PROVE HandlerInv(c)'
  BY <1>0, <1>4, HandlerUntouched DEF Dial, Accept
<1>5. ASSUME NEW d \in Clients, ReadQuery(d) PROVE HandlerInv(c)'
  <2>1. CASE d # c
    BY <1>0, <1>5, <2>1, HandlerUntouched DEF ReadQuery, Hangup
  <2>2. CASE d = c
    <3>1. PICK l \in Lines :
            /\ line' = [line EXCEPT ![c] = l]
            /\ \/ l = <<>> /\ Hangup(c, "no query")
               \/ /\ l # <<>> /\ ParseQuery(l).kind = "domain"
                  /\ conn' = [conn EXCEPT ![c] = "query"] /\ UNCHANGED reply
               \/ l # <<>> /\ ParseQuery(l).kind # "domain" /\ Hangup(c, "unsupported")
      BY <1>5, <2>2 DEF ReadQuery
    <3>2. line'[c] = l /\ reply[c] = "none"
      BY <1>0, <1>5, <2>2, <3>1 DEF ReadQuery, HandlerInv
    <3>3. CASE l = <<>> /\ Hangup(c, "no query")
      BY <3>2, <3>3, ReplyCases DEF Hangup, HandlerInv
    <3>4. CASE /\ l # <<>> /\ ParseQuery(l).kind = "domain"
               /\ conn' = [conn EXCEPT ![c] = "query"] /\ UNCHANGED reply
      BY <3>2, <3>4 DEF HandlerInv
    <3>5. CASE l # <<>> /\ ParseQuery(l).kind # "domain" /\ Hangup(c, "unsupported")
      BY <3>2, <3>5, ReplyCases DEF Hangup, HandlerInv
    <3> QED
      BY <3>1, <3>3, <3>4, <3>5
  <2> QED
    BY <2>1, <2>2
<1>6. ASSUME NEW d \in Clients, ReadFails(d) PROVE HandlerInv(c)'
  BY <1>0, <1>6 DEF ReadFails, Hangup, HandlerInv
<1>7. ASSUME NEW d \in Clients, Lookup(d) PROVE HandlerInv(c)'
  BY <1>0, <1>7 DEF Lookup, HandlerInv
<1>8. ASSUME NEW d \in Clients, LookupDone(d) \/ LookupFails(d) \/ LookupRefused(d) PROVE HandlerInv(c)'
  <2>1. CASE d # c
    BY <1>0, <1>8, <2>1, HandlerUntouched DEF LookupDone, LookupFails, LookupRefused, Hangup
  <2>2. CASE d = c
    <3>1. /\ line'[c] = line[c] /\ conn'[c] = "closed"
          /\ reply'[c] \in {"store failed", "store closed",
                          IF AskedName(c) \in Registered THEN "record" ELSE "not found"}
      BY <1>8, <2>2 DEF LookupDone, LookupFails, LookupRefused, Hangup
    <3>2. line[c] # <<>> /\ ParseQuery(line[c]).kind = "domain"
      BY <1>0, <1>8, <2>2 DEF LookupDone, LookupFails, LookupRefused, HandlerInv
    <3>3. reply'[c] \in ReplyTo(line[c])
      BY <3>1, <3>2, ReplyCases DEF AskedName
    <3> QED
      BY <3>1, <3>3 DEF HandlerInv
  <2> QED
    BY <2>1, <2>2
<1> QED
  BY <1>1, <1>2, <1>3, <1>4, <1>5, <1>6, <1>7, <1>8 DEF WhoisNext, HandlerStep

LEMMA HandlersServe == WhoisTypeOK /\ HandlersInv => DomainsAreServed
<1> SUFFICES ASSUME WhoisTypeOK, HandlersInv, NEW c \in Clients, conn[c] = "closed", reply[c] # "none"
             PROVE  /\ \A n \in Names : AsksForDomain(line[c], n) =>
                         reply[c] \in {"store failed", "store closed",
                                        IF n \in Registered THEN "record" ELSE "not found"}
                    /\ reply[c] = "record" => \E i \in DOMAIN line[c] : line[c][i].name \in Registered
  BY DEF DomainsAreServed
<1>1. reply[c] \in ReplyTo(line[c])
  BY DEF HandlersInv, HandlerInv
<1>2. line[c] \in Seq(Tokens)
  <2>1. line[c] \in Lines \union {<<>>}
    BY DEF WhoisTypeOK
  <2>2. <<>> \in Seq(Tokens)
    OBVIOUS
  <2> QED
    BY <2>1, <2>2, LinesAssumption
<1>3. ASSUME NEW n \in Names, AsksForDomain(line[c], n)
      PROVE  reply[c] \in {"store failed", "store closed",
                            IF n \in Registered THEN "record" ELSE "not found"}
  <2>1. /\ line[c] # <<>> /\ ParseQuery(line[c]).kind = "domain"
        /\ ParseQuery(line[c]).target.name = n
    BY <1>2, <1>3, DomainQueryParsed
  <2> QED
    BY <1>1, <2>1, ReplyCases
<1>4. ASSUME reply[c] = "record"
      PROVE  \E i \in DOMAIN line[c] : line[c][i].name \in Registered
  <2>1. line[c] # <<>> /\ ParseQuery(line[c]).target.name \in Registered
    BY <1>1, <1>4, ReplyCases
  <2>2. PICK i \in DOMAIN line[c] : ParseQuery(line[c]).target = line[c][i]
    BY <1>2, <2>1, TargetIsToken
  <2> QED
    BY <2>1, <2>2
<1> QED
  BY <1>3, <1>4

\* A line that asks for a domain in one of the documented forms is answered with
\* the record of that domain if it is registered and the store works, and no
\* other line is: for every set of lines, tokens and names.
THEOREM DomainsAreServedHolds == WhoisSpec => []DomainsAreServed
BY WhoisInitType, WhoisNextType, HandlerInitInv, HandlerNextInv, HandlersServe, PTL DEF WhoisSpec

=============================================================================
