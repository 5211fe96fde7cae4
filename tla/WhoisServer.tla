---------------------------- MODULE WhoisServer -----------------------------
(***************************************************************************)
(* The WHOIS gateway (internal/whois): Listen, the accept loop of Serve    *)
(* with the goroutine that closes the listener when the context is         *)
(* cancelled, Shutdown, and one handler goroutine per connection.          *)
(*                                                                         *)
(* The socket, the clients and the context belong to the environment.  The *)
(* lookup is a parameter of the server (LookupFunc): the actions Lookup,   *)
(* LookupDone, LookupFails and LookupRefused are its interface; a          *)
(* composition says when each of them can happen.                          *)
(***************************************************************************)
EXTENDS Naturals, Sequences

CONSTANTS
    Clients,      \* WHOIS connections
    Words,        \* what a token can be, in lower case
    Names,        \* domain names, in lower case and without a trailing dot
    Lines,        \* the query lines a client may send, split into tokens
    Registered    \* the domain names that are registered

\* A token: its text in lower case, the domain name it is when its trailing dot
\* is removed, and the marks parseQuery looks for: "as" and then only digits, a
\* slash, the prefix "ns", a dot.
Tokens == [word : Words, name : Names, has : SUBSET {"as number", "slash", "ns", "dot"}]

ASSUME LinesAssumption == Lines \subseteq Seq(Tokens) /\ Registered \subseteq Names

VARIABLES
    ln,         \* s.ln: "nil" or "set"
    socket,     \* the listening socket: "none", "open" or "closed"
    cancelled,  \* whether the context of Serve is done
    serve,      \* the accept loop: "new", "accept", "error" or "returned"
    closer,     \* the goroutine waiting for ctx.Done: "none", "waiting", "done"
    conn,       \* [Clients -> state of the connection and of its handler]
    line,       \* [Clients -> the line that was read]
    reply       \* [Clients -> what was written to the connection]

listenerVars == <<ln, socket, cancelled, serve, closer>>
whoisVars    == <<ln, socket, cancelled, serve, closer, conn, line, reply>>

WhoisInit ==
    /\ ln = "nil" /\ socket = "none" /\ cancelled = FALSE
    /\ serve = "new" /\ closer = "none"
    /\ conn = [c \in Clients |-> "none"]
    /\ line = [c \in Clients |-> <<>>]
    /\ reply = [c \in Clients |-> "none"]

-----------------------------------------------------------------------------
(* The listener.                                                           *)

\* Binds the socket (a failure to bind changes nothing).
Listen ==
    /\ socket = "none"
    /\ socket' = "open" /\ ln' = "set"
    /\ UNCHANGED <<cancelled, serve, closer, conn, line, reply>>

\* Serve reads s.ln once, and returns an error if there is no listener.
ServeStarts ==
    /\ serve = "new"
    /\ IF ln = "nil"
       THEN serve' = "returned" /\ UNCHANGED closer
       ELSE serve' = "accept" /\ closer' = "waiting"
    /\ UNCHANGED <<ln, socket, cancelled, conn, line, reply>>

\* Connections of the backlog die with the socket.
CloseSocket ==
    /\ socket' = "closed"
    /\ conn' = [c \in Clients |-> IF conn[c] = "backlog" THEN "closed" ELSE conn[c]]

\* <-ctx.Done(); ln.Close()
CloserRuns ==
    /\ closer = "waiting" /\ cancelled
    /\ closer' = "done"
    /\ CloseSocket
    /\ UNCHANGED <<ln, cancelled, serve, line, reply>>

\* Accept returns a connection, which gets a goroutine of its own.
Accept(c) ==
    /\ serve = "accept" /\ conn[c] = "backlog"
    /\ conn' = [conn EXCEPT ![c] = "reading"]
    /\ UNCHANGED <<listenerVars, line, reply>>

\* Accept returns an error: for good if the socket is closed, else in passing
\* (the process has no file descriptor left, the client is gone).
AcceptFails ==
    /\ serve = "accept"
    /\ serve' = "error"
    /\ UNCHANGED <<ln, socket, cancelled, closer, conn, line, reply>>

\* Mutant: any error of Accept ends Serve.
AfterAcceptError_Returns ==
    /\ serve = "error"
    /\ serve' = "returned"
    /\ UNCHANGED <<ln, socket, cancelled, closer, conn, line, reply>>

\* Mutant: a cancelled context is only noticed while the socket is open.
AfterAcceptError_SocketOpen ==
    /\ serve = "error"
    /\ serve' = IF cancelled /\ socket = "open" THEN "returned" ELSE "accept"
    /\ UNCHANGED <<ln, socket, cancelled, closer, conn, line, reply>>

\* Serve returns if the context is done; otherwise it accepts again.
AfterAcceptError ==
    /\ serve = "error"
    /\ serve' = IF cancelled THEN "returned" ELSE "accept"
    /\ UNCHANGED <<ln, socket, cancelled, closer, conn, line, reply>>

\* Mutant: the new state of the field is not the nil the other methods test for.
Shutdown_KeepsListener ==
    /\ IF ln = "set" THEN CloseSocket ELSE UNCHANGED <<socket, conn>>
    /\ ln' = "closed"
    /\ UNCHANGED <<cancelled, serve, closer, line, reply>>

\* Shutdown closes the listener and forgets it; handlers are not waited for.
Shutdown ==
    /\ IF ln = "set" THEN CloseSocket ELSE UNCHANGED <<socket, conn>>
    /\ ln' = "nil"
    /\ UNCHANGED <<cancelled, serve, closer, line, reply>>

Cancel ==
    /\ cancelled' = TRUE
    /\ UNCHANGED <<ln, socket, serve, closer, conn, line, reply>>

-----------------------------------------------------------------------------
(* What a line asks for (parseQuery, for a line that is not blank).        *)

\* The kinds a first token announces, if another token follows.
Keyword(word) ==
    CASE word \in {"domain", "dom"}              -> "domain"
      [] word \in {"nameserver", "ns"}           -> "nameserver"
      [] word \in {"entity", "contact"}          -> "entity"
      [] word \in {"ip", "ipnetwork", "network"} -> "ip"
      [] word \in {"asn", "autnum"}              -> "autnum"
      [] OTHER                                   -> "none"

\* The kind of a token that stands alone.
KindOf(token) ==
    CASE token.has = {"as number"} -> "autnum"
      [] "slash" \in token.has     -> "ip"
      [] token.has = {"ns", "dot"} -> "nameserver"
      [] token.has = {"dot"}       -> "domain"
      [] OTHER                     -> "entity"

\* Mutant: the kind is taken from the keyword, the target from the first token.
ParseQuery_FirstToken(l) ==
    IF Len(l) >= 2 /\ Keyword(l[1].word) # "none"
    THEN [target |-> l[1], kind |-> Keyword(l[1].word)]
    ELSE [target |-> l[1], kind |-> KindOf(l[1])]

ParseQuery(l) ==
    IF Len(l) >= 2 /\ Keyword(l[1].word) # "none"
    THEN [target |-> l[2], kind |-> Keyword(l[1].word)]
    ELSE [target |-> l[1], kind |-> KindOf(l[1])]

-----------------------------------------------------------------------------
(* A connection.                                                           *)

Dial(c) ==
    /\ socket = "open" /\ conn[c] = "none"
    /\ conn' = [conn EXCEPT ![c] = "backlog"]
    /\ UNCHANGED <<listenerVars, line, reply>>

Hangup(c, text) ==
    /\ conn' = [conn EXCEPT ![c] = "closed"]
    /\ reply' = [reply EXCEPT ![c] = text]

\* A line was read.  Only domains are looked up; a blank line and the other
\* kinds of query are answered at once.
ReadQuery(c) ==
    /\ conn[c] = "reading"
    /\ \E l \in Lines :
         /\ line' = [line EXCEPT ![c] = l]
         /\ \/ l = <<>> /\ Hangup(c, "no query")
            \/ /\ l # <<>> /\ ParseQuery(l).kind = "domain"
               /\ conn' = [conn EXCEPT ![c] = "query"] /\ UNCHANGED reply
            \/ l # <<>> /\ ParseQuery(l).kind # "domain" /\ Hangup(c, "unsupported")
    /\ UNCHANGED listenerVars

\* Mutant: the connection has no read deadline.
ReadFails_NoDeadline(c) ==
    /\ conn[c] = "reading" /\ cancelled
    /\ Hangup(c, "none")
    /\ UNCHANGED <<listenerVars, line>>

\* The read fails, or no whole line was sent within the read deadline of 10 s.
ReadFails(c) ==
    /\ conn[c] = "reading"
    /\ Hangup(c, "none")
    /\ UNCHANGED <<listenerVars, line>>

\* The lookup is under way.  The 5 s context it is given is not looked at.
Lookup(c) ==
    /\ conn[c] = "query"
    /\ conn' = [conn EXCEPT ![c] = "lookup"]
    /\ UNCHANGED <<listenerVars, line, reply>>

\* The name StoreLookup asks the store for: in lower case, without a final dot.
AskedName(c) == ParseQuery(line[c]).target.name

LookupDone(c) ==
    /\ conn[c] = "lookup"
    /\ Hangup(c, IF AskedName(c) \in Registered THEN "record" ELSE "not found")
    /\ UNCHANGED <<listenerVars, line>>

\* StoreLookup turns every error of the store into ErrNotFound: the text the
\* client reads is the one of "not found", and only the model tells them apart.
LookupFails(c) ==
    /\ conn[c] \in {"query", "lookup"}
    /\ Hangup(c, "store failed")
    /\ UNCHANGED <<listenerVars, line>>

\* The same text goes out when the store has been closed.
LookupRefused(c) ==
    /\ conn[c] = "query"
    /\ Hangup(c, "store closed")
    /\ UNCHANGED <<listenerVars, line>>

\* What a handler does by itself, given that its lookup works.
HandlerStep(c) == ReadQuery(c) \/ ReadFails(c)

-----------------------------------------------------------------------------
(* The gateway on its own, used by a program that may call its methods in  *)
(* any order.                                                              *)

WhoisNext ==
    \/ Listen
    \/ ServeStarts
    \/ CloserRuns
    \/ AcceptFails
    \/ AfterAcceptError
    \/ Shutdown
    \/ Cancel
    \/ \E c \in Clients :
         \/ Dial(c) \/ Accept(c) \/ HandlerStep(c)
         \/ Lookup(c) \/ LookupDone(c) \/ LookupFails(c) \/ LookupRefused(c)

\* The goroutines of the server are scheduled, Accept on a closed socket fails,
\* and passing errors pass: a loop that calls Accept again and again in the end
\* gets a connection that waits.
AcceptLoopFairness ==
    /\ WF_whoisVars(CloserRuns)
    /\ WF_whoisVars(AfterAcceptError)
    /\ WF_whoisVars(socket = "closed" /\ AcceptFails)
    /\ \A c \in Clients : SF_whoisVars(Accept(c))

\* The read deadline fires, and the database answers what it is asked.
HandlerFairness ==
    \A c \in Clients :
        WF_whoisVars(ReadFails(c)) /\ WF_whoisVars(Lookup(c)) /\ WF_whoisVars(LookupDone(c))

WhoisSpec == WhoisInit /\ [][WhoisNext]_whoisVars /\ AcceptLoopFairness /\ HandlerFairness

-----------------------------------------------------------------------------
(* Properties.                                                             *)

\* Every variable of the gateway holds a value of its type.
WhoisTypeOK ==
    /\ ln \in {"nil", "set"} /\ socket \in {"none", "open", "closed"}
    /\ cancelled \in BOOLEAN
    /\ serve \in {"new", "accept", "error", "returned"}
    /\ closer \in {"none", "waiting", "done"}
    /\ conn \in [Clients -> {"none", "backlog", "reading", "query", "lookup", "closed"}]
    /\ line \in [Clients -> Lines \union {<<>>}]
    /\ reply \in [Clients -> {"none", "no query", "unsupported",
                             "record", "not found", "store failed", "store closed"}]

\* Cancelling the context ends Serve once it has started, whatever calls of
\* Shutdown and passing errors of Accept come in between (whois.go:118-144).
CancelStopsServe == (cancelled /\ serve # "new") ~> (serve = "returned")

\* No passing error of Accept costs the clients that wait: while Serve has a
\* listener, a connection of the backlog is accepted, or ended by the closing of
\* the socket (whois.go:131-143).
BacklogIsServed ==
    \A c \in Clients : (conn[c] = "backlog" /\ closer # "none") ~> (conn[c] # "backlog")

\* "Serve accepts connections on the listener ... and blocks until the context is
\* cancelled or the listener closes" (whois.go:116-117), of a listener that is
\* closed by Shutdown alone.
CloseStopsServe == (socket = "closed" /\ serve # "new") ~> (serve = "returned")

\* What the documentation calls a query for the domain n: "whois example.com" or
\* "domain example.com" (README.md:644).  A lone name that starts with "ns" is
\* a nameserver query (README.md:650).
AsksForDomain(l, n) ==
    \/ Len(l) = 1 /\ l[1].has = {"dot"} /\ l[1].name = n
    \/ Len(l) = 2 /\ l[1].word = "domain" /\ l[2].name = n

\* Both forms are looked up, under the name that follows the keyword, so that a
\* registered domain is answered with its record unless the store fails, and no
\* line that names no registered domain is (whois.go:216-260).
DomainsAreServed ==
    \A c \in Clients : (conn[c] = "closed" /\ reply[c] # "none") =>
        /\ \A n \in Names : AsksForDomain(line[c], n) =>
             reply[c] \in {"store failed", "store closed",
                            IF n \in Registered THEN "record" ELSE "not found"}
        /\ reply[c] = "record" => \E i \in DOMAIN line[c] : line[c][i].name \in Registered

\* Every connection that was accepted is answered and closed, or closed, even
\* if the client never sends a line (whois.go:161-176).
EveryConnectionEnds == \A c \in Clients : (conn[c] = "reading") ~> (conn[c] = "closed")

-----------------------------------------------------------------------------
(* The inductive invariant behind DomainsAreServed.                        *)

\* The reply to a line, by what the line asks for.
ReplyTo(l) ==
    CASE l = <<>> -> {"no query"}
      [] l # <<>> /\ ParseQuery(l).kind # "domain" -> {"unsupported"}
      [] OTHER -> {"store failed", "store closed",
                   IF ParseQuery(l).target.name \in Registered THEN "record" ELSE "not found"}

\* Nothing is written before the connection is closed; a handler that has to do
\* with the store has read a query for a domain; what was written is the reply
\* to the line.
HandlerInv(c) ==
    /\ conn[c] # "closed" => reply[c] = "none"
    /\ conn[c] \in {"query", "lookup"} => line[c] # <<>> /\ ParseQuery(line[c]).kind = "domain"
    /\ reply[c] # "none" => reply[c] \in ReplyTo(line[c])

HandlersInv == \A c \in Clients : HandlerInv(c)

=============================================================================
