---------------------------- MODULE MCHttpServer ----------------------------
(***************************************************************************)
(* Configuration files that leave settings out or give them wrongly, with  *)
(* and without authentication, proxies that are trusted or not, and a      *)
(* write timeout below and above the timeout of a request, or none.  The   *)
(* client and the second proxy have IPv6 addresses of one /64; the first   *)
(* proxy replaces the forwarding headers, the second appends to them.      *)
(***************************************************************************)
EXTENDS HttpServer, TLC

File(mode, requests, writeTimeout, trusted, auth) ==
    [mode |-> mode, baseURL |-> TRUE, extensions |-> "known", rateEnabled |-> TRUE,
     requests |-> requests, writeTimeout |-> writeTimeout, trusted |-> trusted, authEnabled |-> auth]

\* Requests are interchangeable.
Symmetric == Permutations(Requests)

MCStyle == [p \in Proxies |-> IF p = "p1" THEN "replaces" ELSE "appends"]

MCBlock == [a \in Addresses |-> IF a \in {"c1", "p2"} THEN "net" ELSE a]

MCConfigFiles ==
    {File("", 0, 0, {"p1"}, FALSE), File("registry", 1, 3, {}, TRUE), File("", -1, -1, {}, TRUE),
     File("other", 1, 1, {}, FALSE),
     [File("registrar", 1, 1, {}, FALSE) EXCEPT !.baseURL = FALSE],
     [File("registrar", 1, 1, {}, FALSE) EXCEPT !.extensions = "unknown"],
     [File("registrar", 0, -1, {"p2"}, TRUE) EXCEPT !.rateEnabled = FALSE]}

=============================================================================
