----------------------------- MODULE MCObjects ------------------------------
(***************************************************************************)
(* Configurations with no extension, with each one, and with all of them   *)
(* but without the values they show; IPv4 addresses of three bits and IPv6 *)
(* addresses of two bytes of two bits, so that ranges begin and end within *)
(* a byte and between bytes.                                               *)
(***************************************************************************)
EXTENDS Objects

Setting(exts, values, auth) ==
    {[driver |-> d, extensions |-> exts, ttl0Domain |-> "domain" \in values,
      ttl0NS |-> "nameserver" \in values, geofeedURL |-> "url" \in values, auth |-> auth] :
         d \in {"memory", "postgres", "mysql"}}

MCConfigs ==
    Setting({}, {"domain", "nameserver", "url"}, FALSE)
        \cup Setting({"ttl0"}, {"domain"}, TRUE)
        \cup Setting({"ttl0"}, {"nameserver"}, FALSE)
        \cup Setting({"geofeed1", "cidr0"}, {"url"}, FALSE)
        \cup Setting(Extensions, {}, TRUE)

Prefix(version, addr, bits) == [version |-> version, addr |-> addr, bits |-> bits]
Network(handle, cidrs, first, last, named) ==
    [handle |-> handle, cidrs |-> cidrs, first |-> first, last |-> last, named |-> named]

\* Networks that begin or end where the address space does or a byte does, that
\* lie in each other, one with two prefixes, one with unset columns.
All4   == Network("all4", <<Prefix("v4", 0, 0)>>, 0, 7, TRUE)
Low4   == Network("low4", <<Prefix("v4", 0, 1)>>, 0, 3, TRUE)
Pair4  == Network("pair4", <<Prefix("v4", 2, 2), Prefix("v4", 4, 2)>>, 2, 5, TRUE)
Last4  == Network("last4", <<Prefix("v4", 7, 3)>>, 7, 7, TRUE)
All6   == Network("all6", <<Prefix("v6", 0, 0)>>, 0, 15, TRUE)
High6  == Network("high6", <<Prefix("v6", 8, 1)>>, 8, 15, TRUE)
Byte6  == Network("byte6", <<Prefix("v6", 4, 2)>>, 4, 7, FALSE)
Part6  == Network("part6", <<Prefix("v6", 4, 3)>>, 4, 5, TRUE)
One6   == Network("one6", <<Prefix("v6", 0, 4)>>, 0, 0, TRUE)

MCRegistries ==
    {{}, {All4, Low4, Part6, One6}, {Low4, Pair4, Last4, High6, Part6}, {Last4, All6, High6},
     {Pair4, Byte6, Part6}}

Property(name, type, listed, wellFormed, value) ==
    [name |-> name, type |-> type, listed |-> listed, wellFormed |-> wellFormed, value |-> value]

StoredProperties ==
    {Property("fn", "none", FALSE, TRUE, "a"), Property("fn", "none", FALSE, TRUE, ""),
     Property("fn", "fax", FALSE, TRUE, "b"),
     Property("tel", "voice", TRUE, TRUE, "a"), Property("tel", "fax", TRUE, TRUE, "b"),
     Property("tel", "fax", FALSE, TRUE, "a"), Property("email", "none", FALSE, TRUE, "a"),
     Property("email", "none", FALSE, FALSE, "b"), Property("adr", "none", FALSE, TRUE, ""),
     Property("other", "none", FALSE, TRUE, "a")}

\* A column that cannot be read, and all cards of at most two of the properties.
MCCards ==
    {[readable |-> FALSE, properties |-> <<>>]}
        \cup [readable : {TRUE}, properties : UNION {[1..n -> StoredProperties] : n \in 0..2}]

=============================================================================
