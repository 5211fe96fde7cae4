---------------------------- MODULE RegistryData ----------------------------
(***************************************************************************)
(* The data a domain answer is composed of, and how an answer is composed: *)
(* the rows of the tables domains, entities and nameservers (or the maps   *)
(* of the memory store), the record scanned from a domain row, and the     *)
(* RDAP object and the WHOIS record rendered from a domain aggregate.      *)
(*                                                                         *)
(* Rendering is kept up to what distinguishes one database state from      *)
(* another: a jCard is the pair <<handle, vCard>> it was built from, the   *)
(* placeholder jCard of the code ("Example Registrar Inc.") is the value   *)
(* Example.                                                                *)
(***************************************************************************)

CONSTANTS
    Names,        \* domain names that can be asked for
    Handles,      \* handles of entities (registrars, contacts)
    VCards,       \* contents of the vcard_json column, NULL included
    Nameservers,  \* handles of nameservers
    Glue,         \* addresses a nameserver may have
    DBStates,     \* the committed states the database can be in
    Mode,         \* rdap.mode: "registrar" or "registry"
    NoRow,        \* a key that has no row
    NoHandle,     \* a NULL reference to entities(handle)
    Example       \* the static example vCard and handle of the mapping code

\* The roles a domain row references an entity in (billing and tech are read
\* and rendered exactly like admin).
Roles == {"registrant", "admin"}

\* The settings of storage.driver.
AllDrivers == {"memory", "postgres", "mysql"}

\* The protocols that read a domain through the aggregate.
Protocols == {"rdap", "whois"}

\* A row of the table domains.  The SQL schema has no registrar column; the
\* field stands for the Registrar member of the memory store's records.
DomainRows ==
    [contacts    : [Roles -> Handles \union {NoHandle}],
     registrar   : Handles \union {NoHandle},
     nameservers : [Nameservers -> Glue \union {NoRow}],
     expires     : BOOLEAN]      \* FALSE: expires_at is NULL

Databases ==
    [domains     : [Names -> DomainRows \union {NoRow}],
     entities    : [Handles -> VCards \union {NoRow}],
     nameservers : [Nameservers -> Glue \union {NoRow}]]

ASSUME DataAssumption ==
    /\ DBStates \subseteq Databases
    /\ NoRow \notin DomainRows \union VCards \union Glue
    /\ NoHandle \notin Handles

-----------------------------------------------------------------------------
(* The domain record, read by driver d.  Scanning a row fails when          *)
(* expires_at is NULL: the column is nullable and is scanned into a        *)
(* time.Time.                                                              *)

Scannable(d, row) == row # NoRow /\ (d = "memory" \/ row.expires)

\* The SQL stores set Registrar from the registrant column.
Record(d, row) ==
    IF d = "memory" \/ row = NoRow THEN row
    ELSE [row EXCEPT !.registrar = row.contacts["registrant"]]

\* The entities resolved for a domain: its registrar and its role contacts.
HandlesOf(row) ==
    ({row.registrar} \union {row.contacts[role] : role \in Roles}) \ {NoHandle}

NameserversOf(row) == {ns \in Nameservers : row.nameservers[ns] # NoRow}

\* The contacts a complete aggregate holds, read from the entities given.
Resolve(row, entities) ==
    [h \in Handles |-> IF h \in HandlesOf(row) THEN entities[h] ELSE NoRow]

-----------------------------------------------------------------------------
(* The mapping of an aggregate: row is the domain, contacts the resolved   *)
(* contacts (NoRow: not in the aggregate).                                 *)

\* The contact under handle h, if the aggregate holds it.
Resolved(contacts, h) == h # NoHandle /\ contacts[h] # NoRow

\* vcardToJCard of the resolved contact, else the static example.
Card(contacts, h) == IF Resolved(contacts, h) THEN <<h, contacts[h]>> ELSE Example

\* The registrant's handle replaces the placeholder whenever the row has one.
RegistrantEntity(row, contacts) ==
    LET h == row.contacts["registrant"]
    IN  [handle |-> IF h = NoHandle THEN Example ELSE h, card |-> Card(contacts, h)]

\* domainToRDAP: the registrant is embedded by registrars only, and the
\* nameservers are the copies embedded in the domain row.
DomainToRDAP(row, contacts) ==
    [kind        |-> "rdap",
     registrar   |-> [handle |-> row.registrar, card |-> Card(contacts, row.registrar)],
     registrant  |-> IF Mode = "registrar" THEN {RegistrantEntity(row, contacts)} ELSE {},
     nameservers |-> row.nameservers]

\* domainToWhois: a registrar or contact that is not resolved is left out.
DomainToWhois(row, contacts) ==
    [kind        |-> "whois",
     registrar   |-> {<<h, contacts[h]>> : h \in {g \in {row.registrar} : Resolved(contacts, g)}},
     contacts    |-> {<<role, row.contacts[role], contacts[row.contacts[role]]>> :
                        role \in {q \in Roles : Resolved(contacts, row.contacts[q])}},
     nameservers |-> row.nameservers]

Answer(protocol, row, contacts) ==
    IF protocol = "rdap" THEN DomainToRDAP(row, contacts) ELSE DomainToWhois(row, contacts)

\* Any error of the store: HTTP 404, or "NOT FOUND" over WHOIS.
NotFound == [kind |-> "notfound"]

\* No answer has been written yet.
Pending == [kind |-> "pending"]

\* Before the first request, and before a request has read anything.
NoQuery == [name |-> NoRow, protocol |-> "none"]
NoView  == [domains |-> NoRow]

\* The handles whose data an answer shows, and what it shows of them.
CardsShown(a) ==
    CASE a.kind = "rdap"  -> {a.registrar.card} \union {e.card : e \in a.registrant}
      [] a.kind = "whois" -> a.registrar \union {<<c[2], c[3]>> : c \in a.contacts}
      [] OTHER -> {}

=============================================================================
