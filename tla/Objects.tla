------------------------------- MODULE Objects -------------------------------
(***************************************************************************)
(* The lookups of one object and the help page (handlers.go): how the path *)
(* is checked and normalised (rdap.go), what the store selects by it       *)
(* (store/*.go) and which extensions the answer uses and declares          *)
(* (service.go, extensions.go).  A lookup is one query, so each handler is *)
(* one step, which meets the tables with any content they may have.  Of a  *)
(* domain answer the name, the extensions and the registrar's vCard are    *)
(* modelled here; how its aggregate is read is the subject of              *)
(* DomainLookup.  Of the searches, the extensions of the answer are        *)
(* modelled here; what they find is the subject of Search.                 *)
(***************************************************************************)
EXTENDS IPRanges, VCards

CONSTANTS
    Configs,    \* the configurations
    Labels,     \* the names in use, each standing for its spellings
    BadLabels,  \* those of them that are no host names
    Handles,    \* entity handles
    Entities,   \* the handles of the stored entities
    Domains,    \* the labels of the stored domains
    Delegated,  \* those of them that have nameservers
    Hosts,      \* the labels of the stored nameservers
    Registries, \* what the table ip_networks may hold
    Cards,      \* what the column vcard_json of a registrar may hold
    RegistrarHandle,
    AsnBits     \* the width of an AS number

Extensions == {"ttl0", "geofeed1", "cidr0", "reverse_search"}

\* The driver, rdap.extensions, whether rdap.ttl0 has values for domains and for
\* nameservers, whether rdap.geofeed.url is set, and auth.enabled.
ConfigType ==
    [driver : {"memory", "postgres", "mysql"}, extensions : SUBSET Extensions,
     ttl0Domain : BOOLEAN, ttl0NS : BOOLEAN, geofeedURL : BOOLEAN, auth : BOOLEAN]

\* A row has its prefixes, the range they make up together, and a mark: whether
\* its columns name, type and country are all set.
NetworkType ==
    [handle : STRING, cidrs : Seq(Prefixes), first : Nat, last : Nat, named : BOOLEAN]

CIDRs(n)    == {n.cidrs[i] : i \in DOMAIN n.cidrs}
VersionOf(n) == n.cidrs[1].version
AddressesOf(n) == UNION {Addresses(c) : c \in CIDRs(n)}

ASSUME DataAssumption ==
    /\ Configs \subseteq ConfigType
    /\ BadLabels \subseteq Labels
    /\ Domains \subseteq Labels \ BadLabels /\ Hosts \subseteq Labels \ BadLabels
    /\ Entities \subseteq Handles
    /\ AsnBits \in Nat /\ RegistrarHandle \notin Texts
    /\ Cards \subseteq Columns
    /\ Delegated \subseteq Domains
    /\ \A n \in UNION Registries :
           /\ n \in NetworkType /\ n.cidrs # <<>>
           /\ \A c \in CIDRs(n) : c.version = VersionOf(n)
           /\ AddressesOf(n) = n.first .. n.last

\* A name as a client writes it: in which form, with capitals or not, with
\* blanks around it or not, and how many dots follow it.
Names == [label : Labels, form : {"ldh", "unicode"}, capitals : BOOLEAN,
          blanks : BOOLEAN, dots : 0..3]

NoName == [label |-> "none"]

VARIABLES
    config,    \* the configuration
    request,   \* the request in hand
    response   \* its response

vars == <<config, request, response>>

NoRequest  == [kind |-> "none"]
NoResponse == [status |-> 0, object |-> "none", members |-> {}, conformance |-> {}, card |-> {},
               failed |-> FALSE]

Init ==
    /\ config \in Configs
    /\ request = NoRequest
    /\ response = NoResponse

-----------------------------------------------------------------------------
(* Names.                                                                  *)

TrimSpace(name)  == [name EXCEPT !.blanks = FALSE]
ToLower(name)    == [name EXCEPT !.capitals = FALSE]
TrimSuffix(name) == [name EXCEPT !.dots = IF @ = 0 THEN 0 ELSE @ - 1]
ToASCII(name)    == [name EXCEPT !.form = "ldh"]

\* One trailing dot is let through.
ValidateLDHName(name) ==
    /\ name.label \notin BadLabels
    /\ name.form = "ldh" /\ ~name.capitals /\ ~name.blanks
    /\ name.dots <= 1

\* The name is converted before its capitals are removed, and they stay.
NormalizeDomainName_NoLower(name) ==
    LET ascii == ToASCII(TrimSuffix(TrimSpace(name)))
    IN  IF ValidateLDHName(ascii) THEN ascii ELSE NoName

\* The LDH name, or NoName for an error.
NormalizeDomainName(name) ==
    LET ascii == ToASCII(TrimSuffix(ToLower(TrimSpace(name))))
    IN  IF ValidateLDHName(ascii) THEN ascii ELSE NoName

\* What the stores find: the stored names, in either form, have neither capitals
\* nor dots.  The memory store removes one more dot.
StoredAs(name, labels) ==
    LET asked == IF config.driver = "memory" THEN ToLower(TrimSuffix(name)) ELSE name
    IN  /\ asked.label \in labels
        /\ ~asked.capitals /\ ~asked.blanks /\ asked.dots = 0

-----------------------------------------------------------------------------
(* Extensions.                                                             *)

ExtensionsEnabled(ext) == ext \in config.extensions

\* The extensions whose members are found in the object itself.
DomainMembers(label) ==
    {e \in {"ttl0"} :
        ExtensionsEnabled(e) /\ (config.ttl0Domain \/ (config.ttl0NS /\ label \in Delegated))}
NameserverMembers == {e \in {"ttl0"} : ExtensionsEnabled(e) /\ config.ttl0NS}
IPNetworkMembers ==
    {e \in {"geofeed1"} : ExtensionsEnabled(e) /\ config.geofeedURL}
        \cup {e \in {"cidr0"} : ExtensionsEnabled(e)}
HelpMembers ==
    {e \in {"reverse_search"} : ExtensionsEnabled(e)} \cup {e \in {"farv1"} : config.auth}

NewConformance == {"rdap_level_0"}
NewConformance2024 == NewConformance \cup {"icann profiles"}

\* The extensions of exts that are on are declared.
WithExtensions(base, exts) == base \cup {e \in exts : ExtensionsEnabled(e)}

DomainConformance     == WithExtensions(NewConformance2024, {"ttl0"})
NameserverConformance == WithExtensions(NewConformance, {"ttl0"})
IPNetworkConformance  == WithExtensions(NewConformance, {"geofeed1", "cidr0"})
HelpConformance ==
    WithExtensions(NewConformance, {"reverse_search"}) \cup {e \in {"farv1"} : config.auth}

-----------------------------------------------------------------------------
(* Responses.                                                              *)

Found(object, members, conformance) ==
    [NoResponse EXCEPT !.status = 200, !.object = object, !.members = members,
                       !.conformance = conformance]

BadRequest == [NoResponse EXCEPT !.status = 400]
NotFound   == [NoResponse EXCEPT !.status = 404]

\* Every error of a store is answered with 404, that of a database query that
\* failed as well.
QueryFailed == [NotFound EXCEPT !.failed = TRUE]

\* The handler answers with res, or its query fails.
Respond(req, res) ==
    /\ request' = req
    /\ \/ response' = res
       \/ config.driver # "memory" /\ res.status # 400 /\ response' = QueryFailed
    /\ UNCHANGED config

-----------------------------------------------------------------------------
(* The handlers.                                                           *)

\* The help page asks no store.
ServeHelp ==
    /\ request' = [kind |-> "help"]
    /\ response' = Found("help", HelpMembers, HelpConformance)
    /\ UNCHANGED config

\* The memory store has the vCard of its registrar as a structure.
NoColumn == [readable |-> FALSE, properties |-> <<>>]
SeedVCard ==
    [f \in Fields |-> IF f \in {"FullName", "Kind", "Organization", "Address"} THEN "seed" ELSE Absent]

\* A domain that is found is shown with the vCard of its registrar.
LookupDomain(name) ==
    LET ldhName == NormalizeDomainName(name)
        memory  == config.driver = "memory"
        found   == Found(name.label, DomainMembers(name.label), DomainConformance)
    IN  \E column \in IF memory THEN {NoColumn} ELSE Cards :
            LET vcard == IF memory THEN SeedVCard ELSE ParseVCardJSON(column)
                card  == VCardToJCard(vcard, RegistrarHandle)
            IN  CASE ldhName = NoName ->
                         Respond([kind |-> "domain", name |-> name], BadRequest)
                  [] ldhName # NoName /\ StoredAs(ldhName, Domains) ->
                         Respond([kind |-> "domain", name |-> name, column |-> column],
                                 [found EXCEPT !.card = card])
                  [] OTHER -> Respond([kind |-> "domain", name |-> name], NotFound)

LookupEntity(handle) ==
    Respond([kind |-> "entity", handle |-> handle],
        IF handle \in Entities THEN Found(handle, {}, NewConformance) ELSE NotFound)

\* A nameserver's name is put in lower case and not otherwise normalised.
LookupNameserver(name) ==
    Respond([kind |-> "nameserver", name |-> name],
        IF StoredAs(ToLower(name), Hosts)
        THEN Found(name.label, NameserverMembers, NameserverConformance)
        ELSE NotFound)

\* The rows a store selects: the MySQL store by their range, the PostgreSQL store
\* by their prefixes, the memory store by the text of a prefix.
Selects(n, p) ==
    CASE config.driver = "mysql" /\ p.version = "v4" ->
             LET range == V4Range(p)
             IN  VersionOf(n) = "v4" /\ n.first <= range.start /\ n.last >= range.end
      [] config.driver = "mysql" /\ p.version = "v6" ->
             LET range == V6Range(p)
             IN  /\ VersionOf(n) = "v6"
                 /\ BytesLeq(Bytes(n.first), range.start)
                 /\ BytesLeq(range.end, Bytes(n.last))
      [] config.driver = "postgres" -> \E c \in CIDRs(n) : SubnetOrEqual(p, c)
      [] OTHER -> p = n.cidrs[1]

\* The query has no order: any row it selects may be the first.  A row with an
\* unset name, type or country cannot be scanned by the SQL stores.
AnswerIPNetwork(req, p) ==
    LET selected == {n \in req.networks : Selects(n, p)}
    IN  \/ selected = {} /\ Respond(req, NotFound)
        \/ \E n \in selected :
               Respond(req, IF config.driver = "memory" \/ n.named
                            THEN Found(n.handle, IPNetworkMembers, IPNetworkConformance)
                            ELSE NotFound)

LookupIPNetwork(p, networks) ==
    AnswerIPNetwork([kind |-> "ip", form |-> "prefix", prefix |-> p, networks |-> networks], p)

\* "/32" is appended to every address.
FullLength_V4Always(version, addr) == [version |-> version, addr |-> addr, bits |-> V4Bits]

\* "/32" is appended to an IPv4 address and "/128" to an IPv6 address.
FullLength(version, addr) == [version |-> version, addr |-> addr, bits |-> Width(version)]

LookupIPAddress(version, addr, networks) ==
    AnswerIPNetwork([kind |-> "ip", form |-> "address", version |-> version, addr |-> addr,
                     networks |-> networks], FullLength(version, addr))

\* The handler returns without writing an error.
LookupNoNetwork_Silent == Respond([kind |-> "not a network"], NoResponse)

\* A path that is neither a prefix nor an address.
LookupNoNetwork == Respond([kind |-> "not a network"], BadRequest)

\* The handler makes up the AS object: it asks no store, and every number of the
\* right width is found.
LookupAutnum(asn) ==
    /\ request' = [kind |-> "autnum", asn |-> asn]
    /\ response' = IF asn < 2^AsnBits THEN Found("autnum", {}, NewConformance) ELSE BadRequest
    /\ UNCHANGED config

\* A search is refused, fails, or answers.
SearchAnswer(members, conformance) ==
    /\ request' = [kind |-> "search"]
    /\ \/ response' = Found("results", members, conformance)
       \/ \E code \in {400, 500, 501} : response' = [NoResponse EXCEPT !.status = code]
    /\ UNCHANGED config

\* Each domain among the results has a conformance of its own.
DomainResults(found, members, conformance) ==
    SearchAnswer(members \cup UNION {DomainMembers(label) : label \in found},
                 conformance \cup UNION {DomainConformance : label \in found})

SearchDomains(found) == DomainResults(found, {}, NewConformance)

ReverseSearchDomains(found) ==
    /\ ExtensionsEnabled("reverse_search")
    /\ DomainResults(found, {"reverse_search"}, WithExtensions(NewConformance, {"reverse_search"}))

SearchEntities == SearchAnswer({}, NewConformance)

\* The results are made by nameserverToRDAP, which leaves it to the handler to
\* declare ttl0.
SearchNameservers(found) ==
    SearchAnswer(IF found = {} THEN {} ELSE NameserverMembers, NewConformance)

\* writeJSON or writeError has written the response.
ResponseSent ==
    /\ request # NoRequest
    /\ request' = NoRequest /\ response' = NoResponse
    /\ UNCHANGED config

NewRequest ==
    /\ request = NoRequest
    /\ \/ ServeHelp
       \/ \E name \in Names : LookupDomain(name)
       \/ \E handle \in Handles : LookupEntity(handle)
       \/ \E name \in Names : LookupNameserver(name)
       \/ \E p \in Prefixes, networks \in Registries : LookupIPNetwork(p, networks)
       \/ \E v \in {"v4", "v6"}, networks \in Registries : \E addr \in 0 .. 2^Width(v) - 1 :
              LookupIPAddress(v, addr, networks)
       \/ LookupNoNetwork
       \/ \E asn \in 0 .. 2^AsnBits : LookupAutnum(asn)
       \/ \E found \in SUBSET Domains : SearchDomains(found)
       \/ \E found \in SUBSET Domains : ReverseSearchDomains(found)
       \/ SearchEntities
       \/ \E found \in SUBSET Hosts : SearchNameservers(found)

Next == NewRequest \/ ResponseSent

Spec == Init /\ [][Next]_vars

-----------------------------------------------------------------------------
(* Properties.                                                             *)

RequestKinds == {"none", "help", "domain", "entity", "nameserver", "ip",
                 "not a network", "autnum", "search"}

\* An answer has members and declares conformance of extensions there are.
MembersKnown ==
    response.members \cup response.conformance \subseteq
        NewConformance2024 \cup Extensions \cup {"farv1"}

\* A request in hand has a response with a status, an object if it is 200 and
\* nothing else if it is not (writeJSON and writeError in handlers.go).
TypeOK ==
    /\ config \in Configs /\ request.kind \in RequestKinds
    /\ response.status \in {0, 200, 400, 404, 500, 501}
    /\ MembersKnown
    /\ (request = NoRequest) <=> (response.status = 0)
    /\ response.status # 200 => response.object = "none" /\ response.members = {}
    /\ response.failed => response.status = 404 /\ config.driver # "memory"

\* The addresses a request for a network is about, and its IP version.
Asked ==
    IF request.form = "address" THEN {request.addr} ELSE Addresses(request.prefix)
AskedVersion ==
    IF request.form = "address" THEN request.version ELSE request.prefix.version

Covers(n) == VersionOf(n) = AskedVersion /\ Asked \subseteq AddressesOf(n)

\* A network in an answer contains every address asked for, with each driver and
\* for prefixes that have bits set behind them, at both ends of the prefix
\* lengths and at the ends of the address space (ipRange in mysql.go).
IPAnswerCovers ==
    request.kind = "ip" /\ response.status = 200 =>
        \E n \in request.networks : n.handle = response.object /\ Covers(n)

\* With a database, a network one of whose prefixes contains the addresses asked
\* for is found, unless the query fails or meets a row it cannot scan
\* (LookupIPNetwork in mysql.go and postgres.go).  The memory store finds no
\* more than the prefixes it has.
IPNetworkFound ==
    request.kind = "ip" /\ config.driver # "memory" /\ ~response.failed =>
        \/ response.status = 200
        \/ \E n \in request.networks : ~n.named
        \/ \A n \in request.networks : \A c \in CIDRs(n) :
               ~(c.version = AskedVersion /\ Asked \subseteq Addresses(c))

\* Every spelling of a domain name (its Unicode or its LDH form, with capitals,
\* with blanks around it, with a trailing dot) leads to the domain, with each
\* driver (NormalizeDomainName in rdap.go).  So does every spelling of the name
\* of a nameserver without blanks, except that the databases have to be asked
\* without the trailing dot: that name is not normalised.
SpellingsFound ==
    request.kind \in {"domain", "nameserver"} /\ ~response.failed =>
        LET name     == request.name
            ofDomain == request.kind = "domain"
        IN  (/\ name.label \in IF ofDomain THEN Domains ELSE Hosts
             /\ ofDomain \/ ~name.blanks
             /\ name.dots <= IF ofDomain \/ config.driver = "memory" THEN 1 ELSE 0)
            => response.status = 200 /\ response.object = name.label

\* The properties of a card that are of a kind a field is kept for and whose place
\* no later one takes: a fax number and a voice number have a field each, of any
\* other name there is one.
Kept(card) ==
    {i \in DOMAIN card : /\ card[i].wellFormed /\ card[i].name # "other" /\ card[i].value # ""
                         /\ \A j \in (i + 1) .. Len(card) :
                                card[j].wellFormed /\ card[j].name = card[i].name =>
                                    /\ card[i].name = "tel"
                                    /\ (card[j].type = "fax") # (card[i].type = "fax")}

ShownAs(p) ==
    [name |-> p.name, value |-> p.value,
     type |-> IF p.name # "tel" THEN "none" ELSE IF p.type = "fax" THEN "fax" ELSE "voice"]

\* The card shown has one fn, and what is kept of the column with nothing else,
\* save for the handle where there is no name.
ShownRight(shown, column) ==
    LET card == column.properties
    IN  /\ \E p \in shown : p.name = "fn" /\ p.value # ""
        /\ \A p, q \in shown : p.name = "fn" /\ q.name = "fn" => p = q
        /\ column.readable /\ (\A i \in DOMAIN card : ~(card[i].type = "fax" /\ card[i].listed)) =>
               /\ \A i \in Kept(card) : ShownAs(card[i]) \in shown
               /\ \A p \in shown :
                      \/ p.name = "fn" /\ p.value = RegistrarHandle
                      \/ \E i \in DOMAIN card : ShownAs(card[i]) = p

\* The registrar of a domain is shown with the properties that are stored of it,
\* each with its own name and type, and with nothing else, save for the handle
\* where there is no name: fn is there exactly once (the comment of vcardToJCard:
\* "fn is synthesized from fallbackName").  Fax numbers whose type is written as
\* a list are left out: parseVCardJSON takes them for voice numbers.
RegistrarShown ==
    request.kind = "domain" /\ response.status = 200 => ShownRight(response.card, request.column)

\* "Each one appends its extension identifier to the `rdapConformance` array and
\* emits the extension's JSON members where applicable" (README.md:298-299): an
\* answer, of a lookup or a search, declares the extensions whose members it has.
ExtensionsDeclared == response.members \subseteq response.conformance

=============================================================================
