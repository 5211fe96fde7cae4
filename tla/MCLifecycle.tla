---------------------------- MODULE MCLifecycle -----------------------------
(***************************************************************************)
(* A small instance of Lifecycle: the WHOIS clients ask for a domain that  *)
(* is registered, for one that is not, or for a nameserver; each store,    *)
(* and a configuration without metrics server and gateway.                 *)
(***************************************************************************)
EXTENDS Lifecycle

Token(word, has) == [word |-> word, name |-> word, has |-> has]

MCWords == {"example.com", "nope.invalid", "ns1.example.com"}

MCLines == {<<Token("example.com", {"dot"})>>, <<Token("nope.invalid", {"dot"})>>,
            <<Token("ns1.example.com", {"ns", "dot"})>>}

Config(driver, on) == [driver |-> driver, metrics |-> on, whois |-> on]

MCConfigs == {Config("postgres", TRUE), Config("mysql", TRUE), Config("memory", TRUE),
              Config("postgres", FALSE)}

=============================================================================
