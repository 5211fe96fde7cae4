--------------------------- MODULE MCWhoisServer ----------------------------
(***************************************************************************)
(* A small instance of WhoisServer: one line of each form parseQuery tells *)
(* apart, the keyword with and without a target included.                  *)
(***************************************************************************)
EXTENDS WhoisServer

Token(word, name, has) == [word |-> word, name |-> name, has |-> has]

Example     == Token("example.com", "example.com", {"dot"})
ExampleRoot == Token("example.com.", "example.com", {"dot"})
Nope        == Token("nope.invalid", "nope.invalid", {"dot"})
Host        == Token("ns1.example.com", "ns1.example.com", {"ns", "dot"})
Handle      == Token("reg1-name", "reg1-name", {})
Prefix      == Token("8.8.8.0/24", "8.8.8.0/24", {"slash", "dot"})
ASNumber    == Token("as15169", "as15169", {"as number"})
KwDomain    == Token("domain", "domain", {})
KwNS        == Token("ns", "ns", {"ns"})

MCWords == {t.word : t \in {Example, ExampleRoot, Nope, Host, Handle, Prefix, ASNumber, KwDomain, KwNS}}
MCNames == {t.name : t \in {Example, ExampleRoot, Nope, Host, Handle, Prefix, ASNumber, KwDomain, KwNS}}

MCLines ==
    {<<>>, <<Example>>, <<ExampleRoot>>, <<Nope>>, <<Host>>, <<Handle>>, <<Prefix>>, <<ASNumber>>,
     <<KwDomain>>, <<KwDomain, Example>>, <<KwDomain, Host>>, <<KwNS, Host>>, <<Example, Nope>>}

=============================================================================
