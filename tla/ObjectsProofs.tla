---------------------------- MODULE ObjectsProofs ----------------------------
(***************************************************************************)
(* Proofs about the lookups of one object.  A handler is one step, so each *)
(* property is proved of the answers of each handler; what has to be       *)
(* proved is that what the handlers compute is right: the normalised name, *)
(* the vCard of the registrar, and the range of a prefix.                  *)
(***************************************************************************)
EXTENDS Objects, NumberProofs

HandlerKinds == {"help", "domain", "entity", "nameserver", "ip", "not a network", "autnum", "search"}

Known == NewConformance2024 \cup Extensions \cup {"farv1"}

\* A response a handler may give: only an answer of 200 has an object.
Answer(res) ==
    /\ res.status \in {200, 400, 404, 500, 501} /\ ~res.failed
    /\ res.members \cup res.conformance \subseteq Known
    /\ res.status # 200 => res.object = "none" /\ res.members = {}

LEMMA ErrorAnswers == Answer(BadRequest) /\ Answer(NotFound)
BY DEF Answer, BadRequest, NotFound, NoResponse

LEMMA FoundAnswers ==
    ASSUME NEW object, NEW members, NEW conformance, members \subseteq Known, conformance \subseteq Known
    PROVE  /\ Answer(Found(object, members, conformance))
           /\ Found(object, members, conformance).status = 200
           /\ Found(object, members, conformance).object = object
BY DEF Answer, Found, NoResponse

LEMMA ExtensionsKnown ==
    /\ \A label : DomainMembers(label) \subseteq Known
    /\ NameserverMembers \subseteq Known /\ IPNetworkMembers \subseteq Known /\ HelpMembers \subseteq Known
    /\ DomainConformance \subseteq Known /\ NameserverConformance \subseteq Known
    /\ IPNetworkConformance \subseteq Known /\ HelpConformance \subseteq Known
    /\ NewConformance \subseteq Known /\ {"reverse_search"} \subseteq Known
    /\ WithExtensions(NewConformance, {"reverse_search"}) \subseteq Known
BY DEF DomainMembers, DomainConformance, NameserverMembers, NameserverConformance,
       IPNetworkMembers, IPNetworkConformance, HelpMembers, HelpConformance, WithExtensions,
       NewConformance, NewConformance2024, Extensions, Known

LEMMA AnswerTyped ==
    ASSUME TypeOK, request'.kind \in HandlerKinds, config' = config, Answer(response')
    PROVE  TypeOK'
<1>1. request' # NoRequest
  <2>1. NoRequest.kind = "none" /\ "none" \notin HandlerKinds
    BY DEF HandlerKinds, NoRequest
  <2> QED
    BY <2>1
<1>2. TypeOK'
  <2>1. config' \in Configs /\ ~response'.failed /\ response'.status \in {200, 400, 404, 500, 501}
    BY DEF TypeOK, Answer
  <2>2. /\ MembersKnown'
        /\ response'.status # 200 => response'.object = "none" /\ response'.members = {}
    BY DEF Answer, MembersKnown, Known
  <2>3. (request = NoRequest)' <=> (response.status = 0)'
    BY <1>1, <2>1
  <2>4. (response.failed => response.status = 404 /\ config.driver # "memory")'
    BY <2>1
  <2>5. request'.kind \in RequestKinds
    BY DEF HandlerKinds, RequestKinds
  <2> QED
    BY <2>1, <2>2, <2>3, <2>4, <2>5 DEF TypeOK
<1> QED
  BY <1>2

\* A handler that answers res leaves the response res or that of a failed query.
LEMMA AnswerKeeps ==
    ASSUME TypeOK, NEW req, NEW res, req.kind \in HandlerKinds, Answer(res), Respond(req, res)
    PROVE  /\ TypeOK'
           /\ request' = req /\ config' = config
           /\ response'.failed \/ response' = res
           /\ response'.failed => response'.status = 404
<1>1. request' = req /\ config' = config
  BY DEF Respond
<1>2. req # NoRequest
  <2>1. NoRequest.kind = "none" /\ "none" \notin HandlerKinds
    BY DEF HandlerKinds, NoRequest
  <2> QED
    BY <2>1
<1>3. CASE response' = res
  <2>1. TypeOK'
    BY <1>1, <1>3, AnswerTyped
  <2> QED
    BY <1>1, <1>3, <2>1 DEF Answer
<1>4. CASE config.driver # "memory" /\ response' = QueryFailed
  <2>1. /\ response'.failed /\ response'.status = 404 /\ response'.object = "none"
        /\ response'.members = {} /\ response'.conformance = {}
    BY <1>4 DEF QueryFailed, NotFound, NoResponse
  <2>2. TypeOK'
    <3>1. config' \in Configs /\ config'.driver # "memory" /\ request'.kind \in HandlerKinds \cup {"none"}
      BY <1>1, <1>4 DEF TypeOK
    <3>2. request' # NoRequest
      BY <1>1, <1>2
    <3>3. (request = NoRequest)' <=> (response.status = 0)'
      BY <2>1, <3>2
    <3>4. (response.failed => response.status = 404 /\ config.driver # "memory")'
      BY <2>1, <3>1
    <3>5. request'.kind \in RequestKinds
      BY <3>1 DEF HandlerKinds, RequestKinds
    <3>6. MembersKnown'
      BY <2>1 DEF MembersKnown
    <3>7. response'.status \in {0, 200, 400, 404, 500, 501}
      BY <2>1
    <3> QED
      BY <2>1, <3>1, <3>3, <3>4, <3>5, <3>6, <3>7 DEF TypeOK
  <2> QED
    BY <1>1, <2>1, <2>2
<1> QED
  BY <1>1, <1>3, <1>4 DEF Respond, Answer

-----------------------------------------------------------------------------
(* Names.                                                                  *)

\* The normalised name of a spelling with at most one dot has nothing left that
\* the stores do not have.
LEMMA NormalizedName ==
    ASSUME NEW name \in Names, name.label \notin BadLabels, name.dots <= 1
    PROVE  LET ldhName == NormalizeDomainName(name)
           IN  /\ ldhName # NoName
               /\ ldhName \in Names /\ ldhName.label = name.label
               /\ ~ldhName.capitals /\ ~ldhName.blanks /\ ldhName.dots = 0
<1> DEFINE trimmed == TrimSpace(name)
           lower   == ToLower(trimmed)
           suffix  == TrimSuffix(lower)
           ascii   == ToASCII(suffix)
<1>1. trimmed \in Names /\ trimmed.label = name.label /\ ~trimmed.blanks /\ trimmed.dots = name.dots
  BY DEF Names, TrimSpace
<1>2. lower \in Names /\ lower.label = name.label /\ ~lower.blanks /\ ~lower.capitals /\ lower.dots = name.dots
  BY <1>1 DEF Names, ToLower
<1>3. suffix \in Names /\ suffix.label = name.label /\ ~suffix.blanks /\ ~suffix.capitals /\ suffix.dots = 0
  BY <1>2 DEF Names, TrimSuffix
<1>4. /\ ascii \in Names /\ ascii.label = name.label /\ ~ascii.blanks /\ ~ascii.capitals /\ ascii.dots = 0
      /\ ascii.form = "ldh"
  BY <1>3 DEF Names, ToASCII
<1>5. NormalizeDomainName(name) = IF ValidateLDHName(ascii) THEN ascii ELSE NoName
  BY DEF NormalizeDomainName
<1> HIDE DEF ascii
<1>6. ValidateLDHName(ascii)
  BY <1>4 DEF ValidateLDHName
<1>7. ascii # NoName
  <2>1. "form" \in DOMAIN ascii
    BY <1>4 DEF Names
  <2>2. "form" \notin DOMAIN NoName
    BY DEF NoName
  <2> QED
    BY <2>1, <2>2
<1> QED
  BY <1>4, <1>5, <1>6, <1>7

LEMMA NormalizedStored ==
    ASSUME NEW labels, NEW name \in Names, name.label \in labels,
           ~name.capitals, ~name.blanks, name.dots = 0
    PROVE  StoredAs(name, labels)
BY DEF Names, StoredAs, ToLower, TrimSuffix

LEMMA HostStored ==
    ASSUME NEW name \in Names, name.label \in Hosts, ~name.blanks,
           name.dots <= IF config.driver = "memory" THEN 1 ELSE 0
    PROVE  StoredAs(ToLower(name), Hosts)
BY DEF Names, StoredAs, ToLower, TrimSuffix

-----------------------------------------------------------------------------
(* The vCard of the registrar.                                             *)

\* A set of indices has a last one.
LEMMA GreatestIndex ==
    ASSUME NEW n \in Nat, NEW T, T \subseteq 1..n, T # {}
    PROVE  \E x \in T : \A y \in T : y <= x
<1> DEFINE back == {n - x : x \in T}
<1>1. back \subseteq Nat /\ back # {}
  <2>1. \A x \in T : n - x \in Nat
    OBVIOUS
  <2>2. PICK x \in T : TRUE
    OBVIOUS
  <2>3. n - x \in back
    OBVIOUS
  <2> QED
    BY <2>1, <2>3
<1>2. PICK m \in back : \A k \in back : m <= k
  BY <1>1, LeastNumber
<1>3. PICK x \in T : m = n - x
  OBVIOUS
<1>4. \A y \in T : y <= x
  <2> SUFFICES ASSUME NEW y \in T PROVE y <= x
    OBVIOUS
  <2>1. n - y \in back
    OBVIOUS
  <2>2. n - x <= n - y
    BY <1>2, <1>3, <2>1
  <2>3. x \in 1..n /\ y \in 1..n
    OBVIOUS
  <2> HIDE DEF back
  <2> QED
    BY <2>2, <2>3
<1> QED
  BY <1>4

LEMMA LastIndexIs ==
    ASSUME NEW card \in Seq(Properties), NEW f
    PROVE  LET indices == {i \in DOMAIN card : FieldOf(card[i]) = f /\ card[i].wellFormed}
           IN  IF indices = {} THEN LastIndex(card, f) = 0
               ELSE /\ LastIndex(card, f) \in indices
                    /\ \A j \in indices : j <= LastIndex(card, f)
<1> DEFINE indices == {i \in DOMAIN card : FieldOf(card[i]) = f /\ card[i].wellFormed}
           last(i) == i \in indices /\ \A j \in indices : j <= i
<1>1. LastIndex(card, f) = IF indices = {} THEN 0 ELSE CHOOSE i \in indices : \A j \in indices : j <= i
  BY DEF LastIndex
<1>2. Len(card) \in Nat /\ indices \subseteq 1..Len(card)
  OBVIOUS
<1> HIDE DEF indices
<1>3. CASE indices # {}
  <2>1. \E i \in indices : \A j \in indices : j <= i
    BY <1>2, <1>3, GreatestIndex
  <2> QED
    BY <1>1, <1>3, <2>1 DEF indices
<1> QED
  BY <1>1, <1>3 DEF indices

\* What is read into a field is the value of a property of its kind.
LEMMA FieldRead ==
    ASSUME NEW column \in Columns, column.readable, NEW f \in Fields,
           ParseVCardJSON(column)[f] # Absent
    PROVE  \E i \in DOMAIN column.properties :
             /\ FieldOf(column.properties[i]) = f
             /\ ParseVCardJSON(column)[f] = column.properties[i].value
<1> DEFINE card == column.properties
           k == LastIndex(card, f)
<1>1. card \in Seq(Properties)
  BY DEF Columns
<1>2. ParseVCardJSON(column)[f] = IF k = 0 THEN Absent ELSE card[k].value
  BY DEF ParseVCardJSON
<1>3. k # 0
  BY <1>2
<1>4. k \in DOMAIN card /\ FieldOf(card[k]) = f
  BY <1>1, <1>3, LastIndexIs
<1> QED
  BY <1>2, <1>3, <1>4

\* A property that no later one takes the place of is read into its field.
LEMMA KeptRead ==
    ASSUME NEW column \in Columns, column.readable, NEW i \in Kept(column.properties),
           \A j \in DOMAIN column.properties :
               ~(column.properties[j].type = "fax" /\ column.properties[j].listed)
    PROVE  /\ FieldOf(column.properties[i]) \in Fields
           /\ ParseVCardJSON(column)[FieldOf(column.properties[i])] = column.properties[i].value
<1> DEFINE card == column.properties
           f == FieldOf(card[i])
           k == LastIndex(card, f)
<1>1. card \in Seq(Properties) /\ DOMAIN card = 1..Len(card) /\ Len(card) \in Nat
  BY DEF Columns
<1>2. /\ i \in DOMAIN card /\ card[i].wellFormed /\ card[i].name # "other"
      /\ \A j \in (i + 1) .. Len(card) :
           card[j].wellFormed /\ card[j].name = card[i].name =>
               card[i].name = "tel" /\ (card[j].type = "fax") # (card[i].type = "fax")
  BY DEF Kept
<1>3. card[i] \in Properties
  BY <1>1, <1>2
<1>4. f \in Fields
  BY <1>2, <1>3 DEF FieldOf, Fields, Properties
<1>5. k \in DOMAIN card /\ FieldOf(card[k]) = f /\ card[k].wellFormed /\ i <= k
  BY <1>1, <1>2, LastIndexIs
<1>6. k = i
  <2> SUFFICES ASSUME k # i PROVE FALSE
    OBVIOUS
  <2> HIDE DEF k
  <2>1. k \in (i + 1) .. Len(card) /\ card[k] \in Properties
    BY <1>1, <1>2, <1>5
  <2>2. ~(card[k].type = "fax" /\ card[k].listed) /\ ~(card[i].type = "fax" /\ card[i].listed)
    BY <1>2, <1>5
  <2>3. card[k].name = card[i].name
    BY <1>2, <1>3, <1>5, <2>1 DEF FieldOf, Properties
  <2>4. card[i].name = "tel" /\ (card[k].type = "fax") # (card[i].type = "fax")
    BY <1>2, <1>5, <2>1, <2>3
  <2>5. FieldOf(card[k]) = IF card[k].type = "fax" THEN "FaxTel" ELSE "VoiceTel"
    BY <2>2, <2>3, <2>4 DEF FieldOf
  <2>6. FieldOf(card[i]) = IF card[i].type = "fax" THEN "FaxTel" ELSE "VoiceTel"
    BY <2>2, <2>4 DEF FieldOf
  <2> QED
    BY <1>5, <2>4, <2>5, <2>6
<1>7. ParseVCardJSON(column)[f] = IF k = 0 THEN Absent ELSE card[k].value
  BY <1>4 DEF ParseVCardJSON
<1>8. i # 0
  BY <1>1, <1>2
<1> HIDE DEF f, k
<1> QED
  BY <1>4, <1>6, <1>7, <1>8 DEF f

\* Names other than fn are not used for the name.
LEMMA OneFullName ==
    ASSUME NEW v, NEW handle, handle # ""
    PROVE  LET card == VCardToJCard(v, handle)
           IN  /\ \E p \in card : p.name = "fn" /\ p.value # ""
               /\ \A p, q \in card : p.name = "fn" /\ q.name = "fn" => p = q
<1> DEFINE fn == [name |-> "fn", type |-> "none", value |-> FullNameOr(v, handle)]
           card == VCardToJCard(v, handle)
<1>1. fn \in card /\ fn.name = "fn" /\ fn.value # ""
  BY DEF VCardToJCard, FullNameOr
<1>2. ASSUME NEW p \in card, p.name = "fn" PROVE p = fn
  <2>1. \A f, name, type : p \in Shown(v, f, name, type) => p.name = name
    <3> SUFFICES ASSUME NEW f, NEW name, NEW type, p \in Shown(v, f, name, type) PROVE p.name = name
      OBVIOUS
    <3>1. p = [name |-> name, type |-> type, value |-> v[f]]
      BY DEF Shown
    <3> QED
      BY <3>1
  <2>2. \/ p = fn
        \/ p \in Shown(v, "Kind", "kind", "none") \/ p \in Shown(v, "Organization", "org", "none")
        \/ p \in Shown(v, "Address", "adr", "none") \/ p \in Shown(v, "VoiceTel", "tel", "voice")
        \/ p \in Shown(v, "FaxTel", "tel", "fax") \/ p \in Shown(v, "Email", "email", "none")
        \/ p \in Shown(v, "ContactURI", "contact-uri", "none")
    BY DEF VCardToJCard
  <2> HIDE DEF fn
  <2> QED
    BY <1>2, <2>1, <2>2
<1> QED
  BY <1>1, <1>2

LEMMA PropertyAt == \A card \in Seq(Properties) : \A i \in DOMAIN card : card[i] \in Properties
OBVIOUS

\* The jCard has what is kept of the column, and nothing else but the handle.
LEMMA CardShown ==
    ASSUME NEW column \in Columns, column.readable,
           \A j \in DOMAIN column.properties :
               ~(column.properties[j].type = "fax" /\ column.properties[j].listed)
    PROVE  LET card  == column.properties
               shown == VCardToJCard(ParseVCardJSON(column), RegistrarHandle)
           IN  /\ \A i \in Kept(card) : ShownAs(card[i]) \in shown
               /\ \A p \in shown :
                      \/ p.name = "fn" /\ p.value = RegistrarHandle
                      \/ \E i \in DOMAIN card : ShownAs(card[i]) = p
<1> DEFINE card  == column.properties
           v     == ParseVCardJSON(column)
           shown == VCardToJCard(v, RegistrarHandle)
<1>0. card \in Seq(Properties) /\ DOMAIN card = 1..Len(card) /\ Len(card) \in Nat
  BY DEF Columns
<1>1. ASSUME NEW i \in Kept(card) PROVE ShownAs(card[i]) \in shown
  <2>1. FieldOf(card[i]) \in Fields /\ v[FieldOf(card[i])] = card[i].value
    BY KeptRead
  <2>2. /\ card[i] \in Properties /\ card[i].name # "other" /\ card[i].value # ""
        /\ ~(card[i].type = "fax" /\ card[i].listed)
    <3>1. i \in DOMAIN card /\ card[i].name # "other" /\ card[i].value # ""
      BY DEF Kept
    <3>2. card[i] \in Properties
      BY <1>0, <3>1, PropertyAt
    <3> QED
      BY <3>1, <3>2
  <2>3. card[i].value # Absent /\ card[i].value \in Texts
    BY <2>2, TextsAssumption DEF Properties
  <2> HIDE DEF v, card
  <2>4. CASE card[i].name = "fn"
    BY <2>1, <2>2, <2>3, <2>4 DEF FieldOf, ShownAs, VCardToJCard, FullNameOr, shown
  <2>5. CASE card[i].name = "kind"
    BY <2>1, <2>2, <2>3, <2>5 DEF FieldOf, ShownAs, VCardToJCard, Shown, shown
  <2>6. CASE card[i].name = "org"
    BY <2>1, <2>2, <2>3, <2>6 DEF FieldOf, ShownAs, VCardToJCard, Shown, shown
  <2>7. CASE card[i].name = "adr"
    BY <2>1, <2>2, <2>3, <2>7 DEF FieldOf, ShownAs, VCardToJCard, Shown, shown
  <2>8. CASE card[i].name = "tel"
    BY <2>1, <2>2, <2>3, <2>8 DEF FieldOf, ShownAs, VCardToJCard, Shown, shown
  <2>9. CASE card[i].name = "email"
    BY <2>1, <2>2, <2>3, <2>9 DEF FieldOf, ShownAs, VCardToJCard, Shown, shown
  <2>10. CASE card[i].name = "contact-uri"
    BY <2>1, <2>2, <2>3, <2>10 DEF FieldOf, ShownAs, VCardToJCard, Shown, shown
  <2> QED
    BY <2>2, <2>4, <2>5, <2>6, <2>7, <2>8, <2>9, <2>10 DEF Properties
<1>2. ASSUME NEW p \in shown
      PROVE  \/ p.name = "fn" /\ p.value = RegistrarHandle
             \/ \E i \in DOMAIN card : ShownAs(card[i]) = p
  <2>1. ASSUME NEW f \in Fields, v[f] # Absent
        PROVE  \E i \in DOMAIN card :
                 /\ FieldOf(card[i]) = f /\ v[f] = card[i].value
                 /\ card[i] \in Properties /\ ~(card[i].type = "fax" /\ card[i].listed)
    BY <1>0, <2>1, FieldRead
  <2> HIDE DEF v, card
  <2>2. CASE p = [name |-> "fn", type |-> "none", value |-> FullNameOr(v, RegistrarHandle)]
    <3>1. CASE v["FullName"] \in {"", Absent}
      BY <2>2, <3>1 DEF FullNameOr
    <3>2. CASE v["FullName"] \notin {"", Absent}
      <4>1. PICK i \in DOMAIN card : FieldOf(card[i]) = "FullName" /\ v["FullName"] = card[i].value
                                     /\ card[i] \in Properties
        BY <2>1, <3>2 DEF Fields
      <4>2. card[i].name = "fn"
        BY <4>1 DEF FieldOf, Properties
      <4> QED
        BY <2>2, <3>2, <4>1, <4>2 DEF FullNameOr, ShownAs
    <3> QED
      BY <3>1, <3>2
  <2>3. ASSUME NEW f \in Fields, NEW name, NEW type, p \in Shown(v, f, name, type),
               \A c \in Properties :
                   FieldOf(c) = f /\ ~(c.type = "fax" /\ c.listed) =>
                       ShownAs(c) = [name |-> name, type |-> type, value |-> c.value]
        PROVE  \E i \in DOMAIN card : ShownAs(card[i]) = p
    <3>1. v[f] # Absent /\ p = [name |-> name, type |-> type, value |-> v[f]]
      BY <2>3 DEF Shown
    <3> QED
      BY <2>1, <2>3, <3>1
  <2>4. ASSUME NEW c \in Properties, ~(c.type = "fax" /\ c.listed)
        PROVE  /\ FieldOf(c) = "Kind" => ShownAs(c) = [name |-> "kind", type |-> "none", value |-> c.value]
               /\ FieldOf(c) = "Organization" => ShownAs(c) = [name |-> "org", type |-> "none", value |-> c.value]
               /\ FieldOf(c) = "Address" => ShownAs(c) = [name |-> "adr", type |-> "none", value |-> c.value]
               /\ FieldOf(c) = "VoiceTel" => ShownAs(c) = [name |-> "tel", type |-> "voice", value |-> c.value]
               /\ FieldOf(c) = "FaxTel" => ShownAs(c) = [name |-> "tel", type |-> "fax", value |-> c.value]
               /\ FieldOf(c) = "Email" => ShownAs(c) = [name |-> "email", type |-> "none", value |-> c.value]
               /\ FieldOf(c) = "ContactURI" => ShownAs(c) = [name |-> "contact-uri", type |-> "none", value |-> c.value]
    BY <2>4 DEF FieldOf, ShownAs, Properties
  <2>5. \/ p = [name |-> "fn", type |-> "none", value |-> FullNameOr(v, RegistrarHandle)]
        \/ p \in Shown(v, "Kind", "kind", "none") \/ p \in Shown(v, "Organization", "org", "none")
        \/ p \in Shown(v, "Address", "adr", "none") \/ p \in Shown(v, "VoiceTel", "tel", "voice")
        \/ p \in Shown(v, "FaxTel", "tel", "fax") \/ p \in Shown(v, "Email", "email", "none")
        \/ p \in Shown(v, "ContactURI", "contact-uri", "none")
    BY DEF shown, VCardToJCard
  <2>6. {"Kind", "Organization", "Address", "VoiceTel", "FaxTel", "Email", "ContactURI"} \subseteq Fields
    BY DEF Fields
  <2>7. CASE p \in Shown(v, "Kind", "kind", "none")
    BY <2>3, <2>4, <2>6, <2>7
  <2>8. CASE p \in Shown(v, "Organization", "org", "none")
    BY <2>3, <2>4, <2>6, <2>8
  <2>9. CASE p \in Shown(v, "Address", "adr", "none")
    BY <2>3, <2>4, <2>6, <2>9
  <2>10. CASE p \in Shown(v, "VoiceTel", "tel", "voice")
    BY <2>3, <2>4, <2>6, <2>10
  <2>11. CASE p \in Shown(v, "FaxTel", "tel", "fax")
    BY <2>3, <2>4, <2>6, <2>11
  <2>12. CASE p \in Shown(v, "Email", "email", "none")
    BY <2>3, <2>4, <2>6, <2>12
  <2>13. CASE p \in Shown(v, "ContactURI", "contact-uri", "none")
    BY <2>3, <2>4, <2>6, <2>13
  <2> QED
    BY <2>2, <2>5, <2>7, <2>8, <2>9, <2>10, <2>11, <2>12, <2>13
<1> QED
  BY <1>1, <1>2

-----------------------------------------------------------------------------
(* The range of a prefix.                                                  *)

LEMMA PrefixIs ==
    ASSUME NEW p \in Prefixes
    PROVE  /\ p.version \in {"v4", "v6"} /\ Width(p.version) \in Nat
           /\ p.bits \in 0..Width(p.version) /\ p.addr \in 0..(2^Width(p.version) - 1)
           /\ BlockSize(p) \in Nat \ {0}
           /\ 2^Width(p.version) = BlockSize(p) * 2^p.bits
           /\ 2^p.bits \in Nat \ {0}
<1>1. p.version \in {"v4", "v6"} /\ p.bits \in 0..Width(p.version) /\ p.addr \in 0..(2^Width(p.version) - 1)
  BY DEF Prefixes
<1>2. Width(p.version) \in Nat
  BY WidthAssumption DEF Width
<1> DEFINE w == Width(p.version)
           host == w - p.bits
<1>3. host \in Nat /\ p.bits \in Nat /\ w = host + p.bits
  BY <1>1, <1>2
<1>4. BlockSize(p) = 2^host
  BY DEF BlockSize
<1> HIDE DEF host, w
<1>5. 2^w = 2^host * 2^p.bits
  BY <1>3, PowerSum
<1>6. 2^host \in Nat \ {0} /\ 2^p.bits \in Nat \ {0}
  BY <1>3, PowerPositive
<1> QED
  BY <1>1, <1>2, <1>4, <1>5, <1>6 DEF w

\* The addresses of a prefix are the range from the masked address on.
LEMMA BlockRange ==
    ASSUME NEW p \in Prefixes
    PROVE  LET start == Masked(p.addr, BlockSize(p))
           IN  /\ Addresses(p) = start .. (start + BlockSize(p) - 1)
               /\ start = BlockSize(p) * (p.addr \div BlockSize(p))
               /\ start \in Nat /\ start + BlockSize(p) <= 2^Width(p.version)
               /\ start <= p.addr /\ p.addr <= start + BlockSize(p) - 1
<1> DEFINE B == BlockSize(p)
           N == 2^Width(p.version)
           q == p.addr \div B
           start == Masked(p.addr, B)
           n == 2^p.bits
<1>1. B \in Nat \ {0} /\ n \in Nat \ {0} /\ N = B * n /\ p.addr \in 0..(N - 1) /\ N \in Nat
  BY PrefixIs
<1>2. Addresses(p) = {a \in 0..(N - 1) : a \div B = q}
  BY DEF Addresses
<1> HIDE DEF B, N, n
<1>3. q \in Nat /\ p.addr = B * q + (p.addr % B) /\ p.addr % B \in 0..(B - 1)
  <2>1. p.addr \in Nat
    BY <1>1
  <2> QED
    BY <1>1, <2>1, Division
<1>4. start = B * q
  BY <1>3, <1>1 DEF Masked
<1> HIDE DEF q, start
<1>5. B * q < B * n
  BY <1>1, <1>3
<1>6. q < n
  BY <1>1, <1>3, <1>5
<1>7. B * (q + 1) <= B * n
  BY <1>1, <1>3, <1>6
<1>8. start \in Nat /\ start + B <= N
  BY <1>1, <1>3, <1>4, <1>7
<1>9. ASSUME NEW a \in 0..(N - 1), a \div B = q PROVE a \in start .. (start + B - 1)
  <2>1. a \in Nat /\ a = B * (a \div B) + (a % B) /\ a % B \in 0..(B - 1)
    BY <1>1, Division
  <2>2. a = start + (a % B)
    BY <1>4, <1>9, <2>1
  <2> QED
    BY <1>1, <1>8, <2>1, <2>2
<1>10. ASSUME NEW a \in start .. (start + B - 1) PROVE a \in 0..(N - 1) /\ a \div B = q
  <2> DEFINE r == a - start
  <2>1. a \in Nat /\ a \in 0..(N - 1) /\ r \in 0..(B - 1) /\ a = B * q + r
    BY <1>1, <1>4, <1>8
  <2> HIDE DEF r
  <2>2. a \div B = q
    BY <1>1, <1>3, <2>1, Quotient
  <2> QED
    BY <2>1, <2>2
<1>11. Addresses(p) = start .. (start + B - 1)
  BY <1>2, <1>9, <1>10
<1>12. start <= p.addr /\ p.addr <= start + B - 1
  BY <1>1, <1>3, <1>4
<1> QED
  BY <1>4, <1>8, <1>11, <1>12 DEF B, N, q, start

\* PostgreSQL's operator is inclusion.
LEMMA SubnetIsInclusion ==
    ASSUME NEW p \in Prefixes, NEW c \in Prefixes, p.version = c.version
    PROVE  SubnetOrEqual(p, c) <=> Addresses(p) \subseteq Addresses(c)
<1> DEFINE B == BlockSize(p)
           C == BlockSize(c)
           w == Width(p.version)
           N == 2^w
<1>1. /\ B \in Nat \ {0} /\ C \in Nat \ {0} /\ w \in Nat /\ p.bits \in 0..w /\ c.bits \in 0..w
      /\ p.addr \in 0..(N - 1) /\ c.addr \in 0..(N - 1)
      /\ B = 2^(w - p.bits) /\ C = 2^(w - c.bits)
  BY PrefixIs DEF BlockSize
<1>2. /\ Addresses(p) = {a \in 0..(N - 1) : a \div B = p.addr \div B}
      /\ Addresses(c) = {a \in 0..(N - 1) : a \div C = c.addr \div C}
  BY DEF Addresses
<1>3. SubnetOrEqual(p, c) <=> p.bits >= c.bits /\ p.addr \div C = c.addr \div C
  BY DEF SubnetOrEqual
<1>4. ASSUME NEW x \in 0..w, NEW y \in 0..w, x >= y
      PROVE  \E z \in Nat \ {0} : 2^(w - y) = 2^(w - x) * z /\ (x > y => z >= 2)
  <2> DEFINE d == x - y
             e == w - x
  <2>1. d \in Nat /\ e \in Nat /\ w - y = e + d
    BY <1>1, <1>4
  <2>2. 2^(w - y) = 2^e * 2^d /\ 2^d \in Nat \ {0}
    BY <2>1, PowerSum, PowerPositive
  <2>3. x > y => 2^d >= 2
    <3> SUFFICES ASSUME x > y PROVE 2^d >= 2
      OBVIOUS
    <3>1. d - 1 \in Nat /\ d = (d - 1) + 1
      BY <1>1, <2>1
    <3>2. 2^d = 2 * 2^(d - 1) /\ 2^(d - 1) \in Nat \ {0}
      BY <3>1, PowerNext, PowerPositive
    <3> QED
      BY <3>2
  <2> QED
    BY <2>2, <2>3
<1> HIDE DEF B, C, w, N
<1>5. ASSUME SubnetOrEqual(p, c) PROVE Addresses(p) \subseteq Addresses(c)
  <2>1. PICK z \in Nat \ {0} : C = B * z
    BY <1>1, <1>3, <1>4, <1>5
  <2> SUFFICES ASSUME NEW a \in 0..(N - 1), a \div B = p.addr \div B
               PROVE  a \div C = p.addr \div C
    BY <1>2, <1>3, <1>5
  <2>2. a \in Nat /\ p.addr \in Nat
    BY <1>1
  <2>3. a \div (B * z) = (a \div B) \div z
    BY <1>1, <2>1, <2>2, DivideTwice, ZenonT(60)
  <2>4. p.addr \div (B * z) = (p.addr \div B) \div z
    BY <1>1, <2>1, <2>2, DivideTwice, ZenonT(60)
  <2> QED
    BY <2>1, <2>3, <2>4
<1>6. ASSUME Addresses(p) \subseteq Addresses(c) PROVE SubnetOrEqual(p, c)
  <2>1. p.addr \div C = c.addr \div C
    BY <1>1, <1>2, <1>6
  <2>2. p.bits >= c.bits
    <3> SUFFICES ASSUME c.bits > p.bits PROVE FALSE
      BY <1>1
    <3>1. PICK z \in Nat \ {0} : B = C * z /\ z >= 2
      <4>1. c.bits \in 0..w /\ p.bits \in 0..w /\ c.bits >= p.bits
        BY <1>1
      <4>2. \E z \in Nat \ {0} : 2^(w - p.bits) = 2^(w - c.bits) * z /\ (c.bits > p.bits => z >= 2)
        BY <1>4, <4>1
      <4> QED
        BY <1>1, <4>2
    <3>0. B \in Nat \ {0} /\ C \in Nat \ {0}
      BY <1>1
    <3> DEFINE s == Masked(p.addr, BlockSize(p))
               t == Masked(c.addr, BlockSize(c))
    <3>2. /\ Addresses(p) = s .. (s + B - 1) /\ s \in Nat
          /\ Addresses(c) = t .. (t + C - 1) /\ t \in Nat
      BY BlockRange DEF B, C
    <3> HIDE DEF s, t
    <3>3. s \in Addresses(p) /\ s + B - 1 \in Addresses(p)
      BY <3>0, <3>2
    <3>4. t <= s /\ s + B - 1 <= t + C - 1
      <4>1. s \in Addresses(c) /\ s + B - 1 \in Addresses(c)
        BY <1>6, <3>3
      <4>2. s \in t .. (t + C - 1) /\ s + B - 1 \in t .. (t + C - 1)
        BY <3>2, <4>1
      <4> QED
        BY <3>0, <3>2, <4>2
    <3>5. B <= C
      BY <3>0, <3>2, <3>4
    <3> QED
      BY <3>0, <3>1, <3>5
  <2> QED
    BY <1>3, <2>1, <2>2
<1> QED
  BY <1>5, <1>6

-----------------------------------------------------------------------------
(* IPv6 ranges: bytes and their order.                                     *)

\* The bits behind byte k, the number the first k bytes make up, and the number
\* of values of a byte.
Shift(k)   == ByteBits * (V6Bytes - k)
High(x, k) == x \div 2^Shift(k)
ByteSize   == 2^ByteBits

LEMMA ShiftIs ==
    ASSUME NEW k \in 0..V6Bytes
    PROVE  Shift(k) \in Nat /\ 2^Shift(k) \in Nat \ {0} /\ ByteSize \in Nat \ {0}
<1>1. Shift(k) \in Nat
  <2>1. V6Bytes - k \in Nat /\ ByteBits \in Nat
    BY WidthAssumption
  <2> QED
    BY <2>1 DEF Shift
<1> QED
  BY <1>1, PowerPositive, WidthAssumption DEF ByteSize

LEMMA ByteAt ==
    ASSUME NEW x \in Nat, NEW k \in 1..V6Bytes
    PROVE  /\ Bytes(x)[k] = High(x, k) % ByteSize
           /\ Bytes(x)[k] \in 0..(ByteSize - 1)
           /\ High(x, k) \in Nat /\ High(x, k - 1) \in Nat
           /\ High(x, k) = ByteSize * High(x, k - 1) + Bytes(x)[k]
<1>1. Bytes(x)[k] = High(x, k) % ByteSize
  BY DEF Bytes, High, Shift, ByteSize
<1>2. k \in 0..V6Bytes /\ k - 1 \in 0..V6Bytes
  BY WidthAssumption
<1>3. Shift(k - 1) = Shift(k) + ByteBits
  BY WidthAssumption DEF Shift
<1>4. 2^Shift(k - 1) = 2^Shift(k) * ByteSize
  BY <1>2, <1>3, ShiftIs, PowerSum, WidthAssumption DEF ByteSize
<1> DEFINE m == 2^Shift(k)
<1>5. m \in Nat \ {0} /\ ByteSize \in Nat \ {0}
  BY <1>2, ShiftIs
<1> HIDE DEF m
<1>6. High(x, k) = x \div m /\ High(x, k - 1) = x \div (m * ByteSize)
  BY <1>4 DEF High, m
<1>7. x \div m \in Nat
  BY <1>5, Division
<1>8. High(x, k - 1) = High(x, k) \div ByteSize
  BY <1>5, <1>6, DivideTwice
<1> DEFINE h == High(x, k)
<1>9. h \in Nat
  BY <1>6, <1>7
<1> HIDE DEF h
<1>10. h \div ByteSize \in Nat /\ h % ByteSize \in 0..(ByteSize - 1) /\ h = ByteSize * (h \div ByteSize) + (h % ByteSize)
  BY <1>5, <1>9, Division
<1> QED
  BY <1>1, <1>8, <1>9, <1>10 DEF h

\* Bytes that agree up to k make up the same number.
LEMMA SameHigh ==
    ASSUME NEW x \in 0..(2^Width("v6") - 1), NEW y \in 0..(2^Width("v6") - 1), NEW k \in 0..V6Bytes,
           \A j \in 1..k : Bytes(x)[j] = Bytes(y)[j]
    PROVE  High(x, k) = High(y, k)
<1> DEFINE S == {j \in 0..k : High(x, j) = High(y, j)}
<1>1. Width("v6") = Shift(0) /\ 2^Shift(0) \in Nat \ {0} /\ x \in Nat /\ y \in Nat
  BY WidthAssumption, ShiftIs DEF Width, Shift
<1>2. 0 \in S
  <2>1. High(x, 0) = 0 /\ High(y, 0) = 0
    BY <1>1, SmallQuotient DEF High
  <2>2. 0 \in 0..k
    BY WidthAssumption
  <2> QED
    BY <2>1, <2>2
<1>3. ASSUME NEW j \in 1..k, j - 1 \in S PROVE j \in S
  <2>1. j \in 1..V6Bytes
    BY WidthAssumption
  <2>2. /\ High(x, j) = ByteSize * High(x, j - 1) + Bytes(x)[j]
        /\ High(y, j) = ByteSize * High(y, j - 1) + Bytes(y)[j]
    BY <1>1, <2>1, ByteAt
  <2> QED
    BY <1>3, <2>2
<1>4. 0..k \subseteq S
  <2>1. k \in Nat
    BY WidthAssumption
  <2> HIDE DEF S
  <2> QED
    BY <1>2, <1>3, <2>1, UpTo
<1> QED
  BY <1>4, WidthAssumption

\* Comparing byte by byte is comparing the addresses.
LEMMA BytesOrder ==
    ASSUME NEW x \in 0..(2^Width("v6") - 1), NEW y \in 0..(2^Width("v6") - 1)
    PROVE  BytesLeq(Bytes(x), Bytes(y)) <=> x <= y
<1>1. x \in Nat /\ y \in Nat /\ V6Bytes \in Nat \ {0}
  <2>1. 2^Width("v6") \in Nat
    BY PowerPositive, WidthAssumption DEF Width
  <2> QED
    BY <2>1, WidthAssumption
<1>2. \A k \in 1..V6Bytes :
        /\ High(x, k) = ByteSize * High(x, k - 1) + Bytes(x)[k]
        /\ High(y, k) = ByteSize * High(y, k - 1) + Bytes(y)[k]
        /\ High(x, k) \in Nat /\ High(y, k) \in Nat
        /\ Bytes(x)[k] \in Nat /\ Bytes(y)[k] \in Nat
  <2> SUFFICES ASSUME NEW k \in 1..V6Bytes
               PROVE  /\ High(x, k) = ByteSize * High(x, k - 1) + Bytes(x)[k]
                      /\ High(y, k) = ByteSize * High(y, k - 1) + Bytes(y)[k]
                      /\ High(x, k) \in Nat /\ High(y, k) \in Nat
                      /\ Bytes(x)[k] \in Nat /\ Bytes(y)[k] \in Nat
    OBVIOUS
  <2>1. ByteSize \in Nat
    BY PowerPositive, WidthAssumption DEF ByteSize
  <2> QED
    BY <1>1, <2>1, ByteAt
<1>3. x <= y => \A k \in 1..V6Bytes : High(x, k) <= High(y, k)
  <2>1. \A k \in 1..V6Bytes : 2^Shift(k) \in Nat \ {0}
    BY ShiftIs
  <2> QED
    BY <1>1, <2>1, DivideMonotone DEF High
<1>4. y <= x => \A k \in 1..V6Bytes : High(y, k) <= High(x, k)
  <2>1. \A k \in 1..V6Bytes : 2^Shift(k) \in Nat \ {0}
    BY ShiftIs
  <2> QED
    BY <1>1, <2>1, DivideMonotone DEF High
<1>5. ASSUME BytesLeq(Bytes(x), Bytes(y)) PROVE x <= y
  <2>1. CASE Bytes(x) = Bytes(y)
    <3>1. High(x, V6Bytes) = High(y, V6Bytes)
      BY <1>1, <2>1, SameHigh
    <3>2. High(x, V6Bytes) = x /\ High(y, V6Bytes) = y
      <4>1. Shift(V6Bytes) = 0 /\ 2^0 = 1
        BY WidthAssumption DEF Shift
      <4> QED
        BY <1>1, <4>1 DEF High
    <3>3. x = y
      BY <3>1, <3>2
    <3> QED
      BY <1>1, <3>3
  <2>2. CASE \E k \in 1..V6Bytes : Bytes(x)[k] < Bytes(y)[k] /\ \A j \in 1..(k - 1) : Bytes(x)[j] = Bytes(y)[j]
    <3>1. PICK k \in 1..V6Bytes : Bytes(x)[k] < Bytes(y)[k] /\ \A j \in 1..(k - 1) : Bytes(x)[j] = Bytes(y)[j]
      BY <2>2
    <3>2. High(x, k - 1) = High(y, k - 1)
      <4>1. k - 1 \in 0..V6Bytes
        BY <1>1
      <4> QED
        BY <3>1, <4>1, SameHigh
    <3> DEFINE both == ByteSize * High(x, k - 1)
    <3>3. /\ High(x, k) = both + Bytes(x)[k] /\ High(y, k) = both + Bytes(y)[k]
          /\ Bytes(x)[k] \in Nat /\ Bytes(y)[k] \in Nat /\ both \in Int
      <4>1. High(x, k) = both + Bytes(x)[k] /\ High(y, k) = both + Bytes(y)[k]
        BY <1>2, <3>2
      <4>2. High(x, k - 1) \in Nat /\ ByteSize \in Nat
        BY <1>1, ByteAt, PowerPositive, WidthAssumption DEF ByteSize
      <4> QED
        BY <1>2, <4>1, <4>2
    <3> HIDE DEF both
    <3>4. High(x, k) < High(y, k)
      BY <3>1, <3>3
    <3>5. ~(y <= x)
      BY <1>2, <1>4, <3>4
    <3> QED
      BY <1>1, <3>5
  <2> QED
    BY <1>5, <2>1, <2>2 DEF BytesLeq
<1>6. ASSUME x <= y, Bytes(x) # Bytes(y)
      PROVE  \E k \in 1..V6Bytes : Bytes(x)[k] < Bytes(y)[k] /\ \A j \in 1..(k - 1) : Bytes(x)[j] = Bytes(y)[j]
  <2> DEFINE D == {k \in 1..V6Bytes : Bytes(x)[k] # Bytes(y)[k]}
  <2>1. D # {}
    <3>1. /\ Bytes(x) = [k \in 1..V6Bytes |-> Bytes(x)[k]]
          /\ Bytes(y) = [k \in 1..V6Bytes |-> Bytes(y)[k]]
      BY DEF Bytes
    <3> QED
      BY <1>6, <3>1
  <2>2. D \subseteq Nat
    BY <1>1
  <2>3. PICK k \in D : \A j \in D : k <= j
    BY <2>1, <2>2, LeastNumber
  <2>4. k \in 1..V6Bytes /\ Bytes(x)[k] # Bytes(y)[k]
    OBVIOUS
  <2>5. \A j \in 1..(k - 1) : Bytes(x)[j] = Bytes(y)[j]
    <3> SUFFICES ASSUME NEW j \in 1..(k - 1), Bytes(x)[j] # Bytes(y)[j] PROVE FALSE
      OBVIOUS
    <3>1. j \in 1..V6Bytes /\ j < k
      BY <1>1, <2>4
    <3> QED
      BY <2>3, <2>4, <3>1
  <2> HIDE DEF D
  <2>6. High(x, k - 1) = High(y, k - 1)
    <3>1. k - 1 \in 0..V6Bytes
      BY <1>1, <2>4
    <3> QED
      BY <2>5, <3>1, SameHigh
  <2> DEFINE both == ByteSize * High(x, k - 1)
  <2>7. /\ High(x, k) = both + Bytes(x)[k] /\ High(y, k) = both + Bytes(y)[k]
        /\ Bytes(x)[k] \in Nat /\ Bytes(y)[k] \in Nat /\ both \in Int
    <3>1. High(x, k) = both + Bytes(x)[k] /\ High(y, k) = both + Bytes(y)[k]
      BY <1>2, <2>4, <2>6
    <3>2. High(x, k - 1) \in Nat /\ ByteSize \in Nat
      BY <1>1, <2>4, ByteAt, PowerPositive, WidthAssumption DEF ByteSize
    <3> QED
      BY <1>2, <2>4, <3>1, <3>2
  <2> HIDE DEF both
  <2>8. High(x, k) <= High(y, k)
    BY <1>3, <1>6, <2>4
  <2>9. Bytes(x)[k] < Bytes(y)[k]
    BY <2>4, <2>7, <2>8
  <2> QED
    BY <2>4, <2>5, <2>9
<1> QED
  BY <1>5, <1>6 DEF BytesLeq

-----------------------------------------------------------------------------
(* IPv6 ranges: the loop that sets the host bits.                          *)

\* Setting a bit that is not set adds its value: the byte it is in changes, the
\* bytes before it and behind it do not.
LEMMA SetBitAdds ==
    ASSUME NEW x \in Nat, NEW i \in 0..(Width("v6") - 1), (x \div 2^i) % 2 = 0
    PROVE  [Bytes(x) EXCEPT ![V6Bytes - (i \div ByteBits)] = SetBit(@, i % ByteBits)] = Bytes(x + 2^i)
<1> DEFINE at == V6Bytes - (i \div ByteBits)
           r  == i % ByteBits
           d  == i \div ByteBits
           after == [Bytes(x) EXCEPT ![at] = SetBit(@, r)]
<1>0. i \in Nat /\ Width("v6") = V6Bytes * ByteBits /\ ByteBits \in Nat \ {0} /\ V6Bytes \in Nat \ {0}
  BY WidthAssumption DEF Width
<1>1. d \in Nat /\ r \in 0..(ByteBits - 1) /\ i = ByteBits * d + r
  BY <1>0, Division
<1>2. d < V6Bytes
  <2> HIDE DEF d, r
  <2>1. ByteBits * d < ByteBits * V6Bytes
    BY <1>0, <1>1
  <2> QED
    BY <1>0, <1>1, <2>1
<1>3. at = V6Bytes - d /\ at \in 1..V6Bytes /\ V6Bytes - at = d
  BY <1>0, <1>1, <1>2
<1>4. Shift(at) = ByteBits * d /\ i = Shift(at) + r
  BY <1>1, <1>3 DEF Shift
<1> HIDE DEF at, r, d
<1>5. /\ 2^i \in Nat \ {0} /\ x + 2^i \in Nat /\ 2^r \in Nat \ {0} /\ ByteSize \in Nat \ {0}
  BY <1>0, <1>1, PowerPositive DEF ByteSize
<1>6. ASSUME NEW k \in 1..V6Bytes, k = at
      PROVE  Bytes(x + 2^i)[k] = SetBit(Bytes(x)[k], r)
  <2> DEFINE m == 2^Shift(k)
             h == x \div m
             a == 2^r
             t == 2^(ByteBits - r - 1)
  <2>1. Shift(k) \in Nat /\ m \in Nat \ {0}
    BY ShiftIs
  <2>2. 2^i = m * a
    BY <1>0, <1>1, <1>4, <1>6, <2>1, PowerSum
  <2>3. h \in Nat
    BY <2>1, Division
  <2>4. (x + 2^i) \div m = h + a
    <3>0. a \in Nat
      BY <1>5
    <3> HIDE DEF m, a
    <3>1. (x + m * a) \div m = (x \div m) + a
      BY <2>1, <3>0, AddMultiple, ZenonT(60)
    <3> QED
      BY <2>2, <3>1
  <2>5. (h \div a) % 2 = 0
    <3> HIDE DEF m, a
    <3>1. x \div (m * a) = (x \div m) \div a
      BY <1>5, <2>1, DivideTwice DEF a
    <3> QED
      BY <2>2, <3>1
  <2>6. t \in Nat \ {0} /\ ByteSize = a * (2 * t)
    <3> DEFINE e == ByteBits - r - 1
    <3>1. e \in Nat /\ e + 1 \in Nat /\ r \in Nat /\ ByteBits = r + (e + 1)
      BY <1>0, <1>1
    <3> HIDE DEF e
    <3>2. 2^e \in Nat \ {0} /\ 2^(e + 1) = 2 * 2^e /\ 2^ByteBits = 2^r * 2^(e + 1)
      BY <3>1, PowerPositive, PowerNext, PowerSum
    <3> QED
      BY <3>2 DEF ByteSize, e
  <2>7. Bytes(x)[k] = h % ByteSize /\ Bytes(x + 2^i)[k] = (h + a) % ByteSize
    BY <1>5, <2>4, ByteAt DEF High
  <2> HIDE DEF m, h, a, t
  <2>8. ((h % ByteSize) \div a) % 2 = 0 /\ (h + a) % ByteSize = (h % ByteSize) + a
    BY <1>5, <2>3, <2>5, <2>6, NoCarryWithin DEF a
  <2> QED
    BY <2>7, <2>8 DEF SetBit, a
<1>7. ASSUME NEW k \in 1..V6Bytes, k > at
      PROVE  Bytes(x + 2^i)[k] = Bytes(x)[k]
  <2> DEFINE m == 2^Shift(k)
             e == i - Shift(k) - ByteBits
             h == x \div m
             z == 2^e
  <2>1. Shift(k) \in Nat /\ m \in Nat \ {0}
    BY ShiftIs
  <2>2. e \in Nat /\ i = Shift(k) + (ByteBits + e)
    <3>1. Shift(k) + ByteBits <= Shift(at)
      <4>1. ByteBits * (V6Bytes - k + 1) <= ByteBits * (V6Bytes - at)
        BY <1>0, <1>3, <1>7
      <4> QED
        BY <1>0, <1>3, <4>1 DEF Shift
    <3>2. Shift(at) \in Nat /\ r \in Nat
      BY <1>0, <1>1, <1>3, ShiftIs
    <3> QED
      BY <1>0, <1>4, <2>1, <3>1, <3>2
  <2>3. z \in Nat \ {0}
    BY <2>2, PowerPositive
  <2>4. 2^i = m * (ByteSize * z)
    <3> HIDE DEF e
    <3>1. ByteBits + e \in Nat
      BY <1>0, <2>2
    <3>2. 2^(ByteBits + e) = ByteSize * z
      BY <1>0, <2>2, PowerSum DEF ByteSize
    <3>3. 2^(Shift(k) + (ByteBits + e)) = m * 2^(ByteBits + e)
      BY <2>1, <3>1, PowerSum
    <3> QED
      BY <2>2, <3>2, <3>3
  <2>5. h \in Nat
    BY <2>1, Division
  <2>6. Bytes(x)[k] = h % ByteSize /\ Bytes(x + 2^i)[k] = ((x + 2^i) \div m) % ByteSize
    BY <1>5, ByteAt DEF High
  <2> DEFINE g == ByteSize * z
  <2>7. g \in Nat
    BY <1>5, <2>3
  <2> HIDE DEF m, z, g
  <2>8. (x + m * g) \div m = h + g
    BY <2>1, <2>7, AddMultiple, ZenonT(60)
  <2> HIDE DEF h
  <2>9. (h + ByteSize * z) % ByteSize = h % ByteSize
    BY <1>5, <2>3, <2>5, AddMultiple, ZenonT(60)
  <2> QED
    BY <2>4, <2>6, <2>8, <2>9 DEF g
<1>8. ASSUME NEW k \in 1..V6Bytes, k < at
      PROVE  Bytes(x + 2^i)[k] = Bytes(x)[k]
  <2> DEFINE m == 2^i
             e == Shift(k) - i - 1
             z == 2^e
  <2>1. e \in Nat /\ Shift(k) = (i + 1) + e
    <3>1. Shift(at) + ByteBits <= Shift(k)
      <4>1. ByteBits * (V6Bytes - at + 1) <= ByteBits * (V6Bytes - k)
        BY <1>0, <1>3, <1>8
      <4> QED
        BY <1>0, <1>3, <4>1 DEF Shift
    <3>2. Shift(at) \in Nat /\ Shift(k) \in Nat
      BY <1>3, ShiftIs
    <3> QED
      BY <1>0, <1>1, <1>4, <3>1, <3>2
  <2>2. z \in Nat \ {0}
    BY <2>1, PowerPositive
  <2>3. 2^Shift(k) = (m * 2) * z
    <3> HIDE DEF e
    <3>1. i + 1 \in Nat /\ 2^(i + 1) = 2 * 2^i
      BY <1>0, PowerNext
    <3>2. 2^((i + 1) + e) = 2^(i + 1) * 2^e
      BY <2>1, <3>1, PowerSum
    <3>3. 2 * 2^i = 2^i * 2
      BY <1>5
    <3> QED
      BY <2>1, <3>1, <3>2, <3>3
  <2> HIDE DEF z
  <2>4. m \in Nat \ {0} /\ m * 2 \in Nat \ {0} /\ x + m \in Nat
    BY <1>5
  <2>5. (x + m) \div (m * 2) = x \div (m * 2)
    BY <2>4, NoCarry
  <2> HIDE DEF m
  <2>6. /\ (x + m) \div ((m * 2) * z) = ((x + m) \div (m * 2)) \div z
        /\ x \div ((m * 2) * z) = (x \div (m * 2)) \div z
    BY <2>2, <2>4, DivideTwice, ZenonT(60)
  <2>7. High(x + m, k) = High(x, k)
    BY <2>3, <2>5, <2>6 DEF High
  <2> QED
    BY <1>5, <2>7, ByteAt, ZenonT(60) DEF m
<1>9. /\ Bytes(x + 2^i) = [k \in 1..V6Bytes |-> Bytes(x + 2^i)[k]]
      /\ after = [k \in 1..V6Bytes |-> IF k = at THEN SetBit(Bytes(x)[k], r) ELSE Bytes(x)[k]]
  BY DEF Bytes
<1>10. \A k \in 1..V6Bytes : Bytes(x + 2^i)[k] = IF k = at THEN SetBit(Bytes(x)[k], r) ELSE Bytes(x)[k]
  BY <1>3, <1>6, <1>7, <1>8
<1>11. after = Bytes(x + 2^i)
  BY <1>9, <1>10
<1> QED
  BY <1>11 DEF at, r

\* The loop turns the first address of a block into its last.
LEMMA HostBitsSet ==
    ASSUME NEW start \in Nat, NEW hostBits \in 0..Width("v6"), NEW w \in Nat, start = 2^hostBits * w
    PROVE  SetHostBits(Bytes(start), hostBits) = Bytes(start + 2^hostBits - 1)
<1> DEFINE Solves(f) ==
             f = [i \in 0..hostBits |->
                    IF i = 0 THEN Bytes(start)
                    ELSE [f[i - 1] EXCEPT ![V6Bytes - ((i - 1) \div ByteBits)] =
                                              SetBit(@, (i - 1) % ByteBits)]]
           ends == [i \in 0..hostBits |-> Bytes(start + 2^i - 1)]
           Longer(bytes, j) == [bytes EXCEPT ![V6Bytes - (j \div ByteBits)] = SetBit(@, j % ByteBits)]
<1>0. hostBits \in Nat /\ Width("v6") \in Nat /\ hostBits <= Width("v6")
  BY WidthAssumption DEF Width
<1>1. ASSUME NEW i \in 1..hostBits
      PROVE  Bytes(start + 2^i - 1) = Longer(Bytes(start + 2^(i - 1) - 1), i - 1)
  <2> DEFINE j == i - 1
             m == 2^j
             x == start + m - 1
             e == hostBits - i
             z == 2^e * w
  <2>1. j \in Nat /\ i = j + 1 /\ e \in Nat /\ hostBits = i + e /\ j \in 0..(Width("v6") - 1)
    BY <1>0
  <2>2. m \in Nat \ {0} /\ 2^e \in Nat \ {0}
    BY <2>1, PowerPositive
  <2>3. 2^i = 2 * m
    BY <2>1, PowerNext
  <2>4. 2^hostBits = 2^i * 2^e
    BY <2>1, PowerSum
  <2> HIDE DEF j, e
  <2>5. z \in Nat
    BY <2>2
  <2>6. start = m * (2 * z)
    <3> DEFINE g == 2^e
    <3>1. start = ((2 * m) * g) * w /\ g \in Nat /\ z = g * w
      BY <2>2, <2>3, <2>4
    <3> HIDE DEF g, m, z
    <3> QED
      BY <2>2, <3>1
  <2> HIDE DEF m, z
  <2>7. x \in Nat /\ x = m * (2 * z) + (m - 1) /\ m - 1 \in 0..(m - 1) /\ 2 * z \in Nat
    BY <2>2, <2>5, <2>6
  <2>8. (x \div m) % 2 = 0
    <3> HIDE DEF x
    <3>1. x \div m = 2 * z
      BY <2>2, <2>7, Quotient
    <3> QED
      BY <2>5, <3>1
  <2>9. x + m = start + 2^i - 1
    BY <2>2, <2>3
  <2> HIDE DEF x
  <2>10. Longer(Bytes(x), j) = Bytes(x + m)
    BY <2>1, <2>7, <2>8, SetBitAdds DEF m
  <2> QED
    BY <2>9, <2>10 DEF x, m, j
<1> HIDE DEF Longer
<1>2. Bytes(start + 2^0 - 1) = Bytes(start)
  <2>1. 2^0 = 1 /\ start + 1 - 1 = start
    OBVIOUS
  <2> QED
    BY <2>1
<1>3. Solves(ends)
  <2>1. ASSUME NEW i \in 0..hostBits
        PROVE  ends[i] = IF i = 0 THEN Bytes(start) ELSE Longer(ends[i - 1], i - 1)
    <3>1. CASE i = 0
      BY <1>2, <3>1
    <3>2. CASE i # 0
      <4>1. i \in 1..hostBits /\ i - 1 \in 0..hostBits
        BY <1>0, <3>2
      <4>2. ends[i] = Bytes(start + 2^i - 1) /\ ends[i - 1] = Bytes(start + 2^(i - 1) - 1)
        BY <4>1
      <4> QED
        BY <1>1, <3>2, <4>1, <4>2
    <3> QED
      BY <3>1, <3>2
  <2>2. ends = [i \in 0..hostBits |-> IF i = 0 THEN Bytes(start) ELSE Longer(ends[i - 1], i - 1)]
    BY <2>1
  <2> HIDE DEF ends
  <2> QED
    BY <2>2 DEF Longer
<1> DEFINE end == CHOOSE f : Solves(f)
<1>4. SetHostBits(Bytes(start), hostBits) = end[hostBits]
  BY DEF SetHostBits
<1> HIDE DEF Solves, ends
<1>5. Solves(end)
  BY <1>3
<1> HIDE DEF end
<1>6. \A i \in 0..hostBits : end[i] = IF i = 0 THEN Bytes(start) ELSE Longer(end[i - 1], i - 1)
  BY <1>5 DEF Solves, Longer
<1> DEFINE S == {i \in 0..hostBits : end[i] = Bytes(start + 2^i - 1)}
<1>7. 0 \in S
  BY <1>0, <1>2, <1>6
<1>8. ASSUME NEW i \in 1..hostBits, i - 1 \in S PROVE i \in S
  <2>1. end[i] = Longer(end[i - 1], i - 1) /\ end[i - 1] = Bytes(start + 2^(i - 1) - 1)
    BY <1>0, <1>6, <1>8
  <2> QED
    BY <1>0, <1>1, <2>1
<1>9. 0..hostBits \subseteq S
  <2> HIDE DEF S
  <2> QED
    BY <1>0, <1>7, <1>8, UpTo
<1>10. end[hostBits] = Bytes(start + 2^hostBits - 1)
  BY <1>0, <1>9
<1> QED
  BY <1>4, <1>10

\* The MySQL store's range of an IPv6 prefix is that of its addresses.
LEMMA V6RangeIs ==
    ASSUME NEW p \in Prefixes, p.version = "v6"
    PROVE  LET start == Masked(p.addr, BlockSize(p))
           IN  /\ V6Range(p).start = Bytes(start)
               /\ V6Range(p).end = Bytes(start + BlockSize(p) - 1)
<1> DEFINE start == Masked(p.addr, BlockSize(p))
           hostBits == Width("v6") - p.bits
           w == p.addr \div BlockSize(p)
<1>1. hostBits \in 0..Width("v6") /\ BlockSize(p) = 2^hostBits
  BY PrefixIs DEF BlockSize
<1>2. start \in Nat /\ start = BlockSize(p) * w
  BY BlockRange
<1>3. w \in Nat
  <2>1. p.addr \in Nat /\ BlockSize(p) \in Nat \ {0}
    BY PrefixIs
  <2> QED
    BY <2>1, Division
<1>4. V6Range(p).start = Bytes(start) /\ V6Range(p).end = SetHostBits(Bytes(start), hostBits)
  BY DEF V6Range
<1> HIDE DEF start, hostBits, w
<1>5. SetHostBits(Bytes(start), hostBits) = Bytes(start + 2^hostBits - 1)
  BY <1>1, <1>2, <1>3, HostBitsSet
<1> QED
  BY <1>1, <1>4, <1>5 DEF start

-----------------------------------------------------------------------------
(* What the stores select.                                                 *)

LEMMA NetworkIs ==
    ASSUME NEW n \in UNION Registries
    PROVE  /\ CIDRs(n) \subseteq Prefixes /\ n.cidrs[1] \in CIDRs(n)
           /\ \A c \in CIDRs(n) : c.version = VersionOf(n) /\ Addresses(c) \subseteq AddressesOf(n)
           /\ VersionOf(n) \in {"v4", "v6"} /\ n.named \in BOOLEAN
           /\ AddressesOf(n) = n.first .. n.last
           /\ n.first \in 0..(2^Width(VersionOf(n)) - 1) /\ n.last \in 0..(2^Width(VersionOf(n)) - 1)
<1>1. /\ n \in NetworkType /\ n.cidrs # <<>>
      /\ \A c \in CIDRs(n) : c.version = VersionOf(n)
      /\ AddressesOf(n) = n.first .. n.last
  BY DataAssumption
<1>2. n.cidrs \in Seq(Prefixes) /\ n.first \in Nat /\ n.last \in Nat /\ n.named \in BOOLEAN
  BY <1>1 DEF NetworkType
<1>3. CIDRs(n) \subseteq Prefixes /\ n.cidrs[1] \in CIDRs(n)
  <2> DEFINE cidrs == n.cidrs
  <2>1. cidrs \in Seq(Prefixes) /\ cidrs # <<>>
    BY <1>1, <1>2
  <2>2. CIDRs(n) = {cidrs[i] : i \in DOMAIN cidrs}
    BY DEF CIDRs
  <2> HIDE DEF cidrs
  <2>3. 1 \in DOMAIN cidrs /\ \A i \in DOMAIN cidrs : cidrs[i] \in Prefixes
    BY <2>1
  <2> QED
    BY <2>2, <2>3 DEF cidrs
<1>4. \A c \in CIDRs(n) : Addresses(c) \subseteq AddressesOf(n)
  BY DEF AddressesOf
<1> DEFINE c1 == n.cidrs[1]
           N == 2^Width(VersionOf(n))
<1>5. c1 \in Prefixes /\ c1.version = VersionOf(n)
  BY <1>1, <1>3
<1>6. VersionOf(n) \in {"v4", "v6"} /\ c1.addr \in Addresses(c1)
  <2>1. c1.version \in {"v4", "v6"} /\ c1.addr \in 0..(2^Width(c1.version) - 1)
    BY <1>5, PrefixIs
  <2> QED
    BY <1>5, <2>1 DEF Addresses
<1>7. n.first \in AddressesOf(n) /\ n.last \in AddressesOf(n)
  <2>1. c1.addr \in n.first .. n.last
    BY <1>1, <1>3, <1>4, <1>6
  <2> HIDE DEF c1
  <2> QED
    BY <1>1, <1>2, <2>1
<1>8. AddressesOf(n) \subseteq 0..(N - 1)
  BY <1>1 DEF AddressesOf, Addresses
<1> QED
  BY <1>1, <1>2, <1>3, <1>4, <1>6, <1>7, <1>8

LEMMA DriverIs == ASSUME TypeOK PROVE config.driver \in {"memory", "postgres", "mysql"}
<1>1. config \in Configs
  BY DEF TypeOK
<1>2. Configs \subseteq ConfigType
  BY DataAssumption
<1> QED
  BY <1>1, <1>2 DEF ConfigType

\* The MySQL store, which compares the ends of ranges (for IPv6 byte by byte, the
\* end computed by a loop over the host bits), selects exactly the networks that
\* contain the addresses of the prefix (ipRange and LookupIPNetwork in mysql.go).
THEOREM MySQLSelects ==
    ASSUME config.driver = "mysql", NEW n \in UNION Registries, NEW p \in Prefixes
    PROVE  Selects(n, p) <=> VersionOf(n) = p.version /\ Addresses(p) \subseteq AddressesOf(n)
<1> DEFINE start == Masked(p.addr, BlockSize(p))
           end == start + BlockSize(p) - 1
           N == 2^Width(p.version)
<1>1. /\ Addresses(p) = start .. end /\ start \in Nat /\ end \in Nat /\ start <= end
      /\ start \in 0..(N - 1) /\ end \in 0..(N - 1) /\ N \in Nat
  <2>1. BlockSize(p) \in Nat \ {0} /\ Width(p.version) \in Nat
    BY PrefixIs
  <2>2. N \in Nat
    BY <2>1, PowerPositive
  <2>3. Addresses(p) = start .. end /\ start \in Nat /\ start + BlockSize(p) <= N
    BY BlockRange
  <2> HIDE DEF start, N
  <2> QED
    BY <2>1, <2>2, <2>3
<1>2. AddressesOf(n) = n.first .. n.last /\ n.first \in Nat /\ n.last \in Nat
  <2>1. VersionOf(n) \in {"v4", "v6"} /\ AddressesOf(n) = n.first .. n.last
        /\ n.first \in 0..(2^Width(VersionOf(n)) - 1) /\ n.last \in 0..(2^Width(VersionOf(n)) - 1)
    BY NetworkIs
  <2> QED
    BY <2>1, DataAssumption DEF NetworkType
<1>3. p.version \in {"v4", "v6"}
  BY PrefixIs
<1> HIDE DEF start, end
<1>4. Addresses(p) \subseteq AddressesOf(n) <=> n.first <= start /\ end <= n.last
  <2>1. ASSUME Addresses(p) \subseteq AddressesOf(n) PROVE n.first <= start /\ end <= n.last
    <3>1. start \in start .. end /\ end \in start .. end
      BY <1>1
    <3>2. start \in n.first .. n.last /\ end \in n.first .. n.last
      BY <1>1, <1>2, <2>1, <3>1
    <3> QED
      BY <1>1, <1>2, <3>2
  <2>2. ASSUME n.first <= start, end <= n.last PROVE Addresses(p) \subseteq AddressesOf(n)
    BY <1>1, <1>2, <2>2
  <2> QED
    BY <2>1, <2>2
<1>5. CASE p.version = "v4"
  <2>1. V4Range(p).start = start /\ V4Range(p).end = end
    BY DEF V4Range, start, end
  <2>2. Selects(n, p) <=> VersionOf(n) = "v4" /\ n.first <= V4Range(p).start /\ n.last >= V4Range(p).end
    BY <1>5 DEF Selects
  <2> QED
    BY <1>1, <1>2, <1>4, <1>5, <2>1, <2>2
<1>6. CASE p.version = "v6"
  <2>1. V6Range(p).start = Bytes(start) /\ V6Range(p).end = Bytes(end)
    BY <1>6, V6RangeIs DEF start, end
  <2>2. Selects(n, p) <=> /\ VersionOf(n) = "v6" /\ BytesLeq(Bytes(n.first), V6Range(p).start)
                          /\ BytesLeq(V6Range(p).end, Bytes(n.last))
    BY <1>6 DEF Selects
  <2>3. VersionOf(n) = "v6" => n.first \in 0..(2^Width("v6") - 1) /\ n.last \in 0..(2^Width("v6") - 1)
    BY NetworkIs
  <2>4. start \in 0..(2^Width("v6") - 1) /\ end \in 0..(2^Width("v6") - 1)
    BY <1>1, <1>6
  <2>5. VersionOf(n) = "v6" =>
          /\ BytesLeq(Bytes(n.first), Bytes(start)) <=> n.first <= start
          /\ BytesLeq(Bytes(end), Bytes(n.last)) <=> end <= n.last
    BY <2>3, <2>4, BytesOrder
  <2> QED
    BY <1>4, <1>6, <2>1, <2>2, <2>5
<1> QED
  BY <1>3, <1>5, <1>6

\* What is selected contains the addresses of the prefix, with every driver.
LEMMA SelectedCovers ==
    ASSUME TypeOK, NEW n \in UNION Registries, NEW p \in Prefixes, Selects(n, p)
    PROVE  VersionOf(n) = p.version /\ Addresses(p) \subseteq AddressesOf(n)
<1>1. CASE config.driver = "mysql"
  BY <1>1, MySQLSelects
<1>2. CASE config.driver = "postgres"
  <2>1. PICK c \in CIDRs(n) : SubnetOrEqual(p, c)
    BY <1>2 DEF Selects
  <2>2. p.version = c.version /\ c \in Prefixes /\ c.version = VersionOf(n) /\ Addresses(c) \subseteq AddressesOf(n)
    BY <2>1, NetworkIs DEF SubnetOrEqual
  <2>3. Addresses(p) \subseteq Addresses(c)
    BY <2>1, <2>2, SubnetIsInclusion
  <2> QED
    BY <2>2, <2>3
<1>3. CASE config.driver = "memory"
  <2>1. p = n.cidrs[1]
    BY <1>3 DEF Selects
  <2> QED
    BY <2>1, NetworkIs DEF VersionOf
<1> QED
  BY <1>1, <1>2, <1>3, DriverIs

\* With a database, a network one of whose prefixes contains them is selected.
LEMMA ContainedSelected ==
    ASSUME TypeOK, config.driver # "memory", NEW n \in UNION Registries, NEW p \in Prefixes,
           NEW c \in CIDRs(n), c.version = p.version, Addresses(p) \subseteq Addresses(c)
    PROVE  Selects(n, p)
<1>1. c \in Prefixes /\ c.version = VersionOf(n) /\ Addresses(c) \subseteq AddressesOf(n)
  BY NetworkIs
<1>2. CASE config.driver = "mysql"
  BY <1>1, <1>2, MySQLSelects
<1>3. CASE config.driver = "postgres"
  <2>1. SubnetOrEqual(p, c)
    BY <1>1, SubnetIsInclusion
  <2> QED
    BY <1>3, <2>1 DEF Selects
<1> QED
  BY <1>2, <1>3, DriverIs

\* An address is a prefix of full length, which has no other address.
LEMMA FullLengthIs ==
    ASSUME NEW v \in {"v4", "v6"}, NEW addr \in 0..(2^Width(v) - 1)
    PROVE  FullLength(v, addr) \in Prefixes /\ Addresses(FullLength(v, addr)) = {addr}
<1>1. Width(v) \in Nat /\ 2^Width(v) \in Nat
  BY WidthAssumption, PowerPositive DEF Width
<1>2. FullLength(v, addr) \in Prefixes
  BY <1>1 DEF FullLength, Prefixes
<1>3. BlockSize(FullLength(v, addr)) = 1
  <2>1. Width(v) - Width(v) = 0 /\ 2^0 = 1
    BY <1>1
  <2> QED
    BY <2>1 DEF BlockSize, FullLength
<1>4. Addresses(FullLength(v, addr)) = {a \in 0..(2^Width(v) - 1) : a \div 1 = addr \div 1}
  BY <1>3 DEF Addresses, FullLength
<1>5. \A a \in 0..(2^Width(v) - 1) : a \div 1 = a
  BY <1>1
<1> QED
  BY <1>2, <1>4, <1>5

-----------------------------------------------------------------------------
(* The handlers.                                                           *)

ObjectsInv ==
    /\ TypeOK /\ IPAnswerCovers /\ IPNetworkFound /\ SpellingsFound
    /\ RegistrarShown

LEMMA HelpKeeps == ASSUME TypeOK, ServeHelp PROVE ObjectsInv'
<1>1. /\ request' = [kind |-> "help"] /\ config' = config
      /\ response' = Found("help", HelpMembers, HelpConformance)
  BY DEF ServeHelp
<1>2. Answer(response')
  BY <1>1, ExtensionsKnown, FoundAnswers
<1>3. TypeOK'
  BY <1>1, <1>2, AnswerTyped DEF HandlerKinds
<1> QED
  BY <1>1, <1>3 DEF ObjectsInv, IPAnswerCovers, IPNetworkFound, SpellingsFound, RegistrarShown

LEMMA AutnumKeeps == ASSUME TypeOK, NEW asn, LookupAutnum(asn) PROVE ObjectsInv'
<1>1. /\ request' = [kind |-> "autnum", asn |-> asn] /\ config' = config
      /\ response' \in {Found("autnum", {}, NewConformance), BadRequest}
  BY DEF LookupAutnum
<1>2. Answer(response')
  BY <1>1, ExtensionsKnown, FoundAnswers, ErrorAnswers
<1>3. TypeOK'
  BY <1>1, <1>2, AnswerTyped DEF HandlerKinds
<1> QED
  BY <1>1, <1>3 DEF ObjectsInv, IPAnswerCovers, IPNetworkFound, SpellingsFound, RegistrarShown

LEMMA SearchKeeps ==
    ASSUME TypeOK, NEW members, NEW conformance, members \subseteq Known, conformance \subseteq Known,
           SearchAnswer(members, conformance)
    PROVE  ObjectsInv'
<1>1. request' = [kind |-> "search"] /\ config' = config
  BY DEF SearchAnswer
<1>2. Answer(response')
  <2>1. CASE response' = Found("results", members, conformance)
    BY <2>1, FoundAnswers
  <2>2. ASSUME NEW code \in {400, 500, 501}, response' = [NoResponse EXCEPT !.status = code]
        PROVE  Answer(response')
    BY <2>2 DEF Answer, NoResponse
  <2> QED
    BY <2>1, <2>2 DEF SearchAnswer
<1>3. TypeOK'
  BY <1>1, <1>2, AnswerTyped DEF HandlerKinds
<1> QED
  BY <1>1, <1>3 DEF ObjectsInv, IPAnswerCovers, IPNetworkFound, SpellingsFound, RegistrarShown

\* The searches of domains.
LEMMA DomainResultsKeep ==
    ASSUME TypeOK, NEW found, NEW members, NEW conformance, members \subseteq Known, conformance \subseteq Known,
           DomainResults(found, members, conformance)
    PROVE  ObjectsInv'
<1> DEFINE all == members \cup UNION {DomainMembers(label) : label \in found}
           declared == conformance \cup UNION {DomainConformance : label \in found}
<1>1. all \subseteq Known /\ declared \subseteq Known
  BY ExtensionsKnown
<1>2. SearchAnswer(all, declared)
  BY DEF DomainResults
<1> HIDE DEF all, declared
<1> QED
  BY <1>1, <1>2, SearchKeeps

LEMMA EntityKeeps == ASSUME TypeOK, NEW handle, LookupEntity(handle) PROVE ObjectsInv'
<1> DEFINE req == [kind |-> "entity", handle |-> handle]
           res == IF handle \in Entities THEN Found(handle, {}, NewConformance) ELSE NotFound
<1>1. Answer(res)
  BY ExtensionsKnown, FoundAnswers, ErrorAnswers
<1>2. Respond(req, res) /\ req.kind = "entity" /\ "entity" \in HandlerKinds
  BY DEF LookupEntity, HandlerKinds
<1>3. TypeOK' /\ request' = req
  BY <1>1, <1>2, AnswerKeeps
<1> QED
  BY <1>2, <1>3 DEF ObjectsInv, IPAnswerCovers, IPNetworkFound, SpellingsFound, RegistrarShown

LEMMA NoNetworkKeeps == ASSUME TypeOK, LookupNoNetwork PROVE ObjectsInv'
<1> DEFINE req == [kind |-> "not a network"]
<1>1. Respond(req, BadRequest) /\ req.kind = "not a network" /\ "not a network" \in HandlerKinds
  BY DEF LookupNoNetwork, HandlerKinds
<1> HIDE DEF req
<1>2. TypeOK' /\ request' = req
  BY <1>1, ErrorAnswers, AnswerKeeps
<1> QED
  BY <1>1, <1>2 DEF ObjectsInv, IPAnswerCovers, IPNetworkFound, SpellingsFound, RegistrarShown

LEMMA NameserverKeeps == ASSUME TypeOK, NEW name \in Names, LookupNameserver(name) PROVE ObjectsInv'
<1> DEFINE req == [kind |-> "nameserver", name |-> name]
           found == Found(name.label, NameserverMembers, NameserverConformance)
           res == IF StoredAs(ToLower(name), Hosts) THEN found ELSE NotFound
<1>1. Answer(found) /\ found.status = 200 /\ found.object = name.label
  BY ExtensionsKnown, FoundAnswers
<1>2. Respond(req, res) /\ req.kind = "nameserver" /\ "nameserver" \in HandlerKinds /\ req.name = name
  BY DEF LookupNameserver, HandlerKinds
<1> HIDE DEF found, req
<1>3. /\ TypeOK' /\ request' = req /\ config' = config
      /\ response'.failed \/ response' = res
  BY <1>1, <1>2, ErrorAnswers, AnswerKeeps
<1>4. ASSUME ~response'.failed, name.label \in Hosts, ~name.blanks,
             name.dots <= IF config.driver = "memory" THEN 1 ELSE 0
      PROVE  response'.status = 200 /\ response'.object = name.label
  BY <1>1, <1>3, <1>4, HostStored
<1>5. SpellingsFound'
  BY <1>2, <1>3, <1>4 DEF SpellingsFound
<1> QED
  BY <1>2, <1>3, <1>5 DEF ObjectsInv, IPAnswerCovers, IPNetworkFound, RegistrarShown

LEMMA DomainKeeps == ASSUME TypeOK, NEW name \in Names, LookupDomain(name) PROVE ObjectsInv'
<1> DEFINE ldhName == NormalizeDomainName(name)
           memory  == config.driver = "memory"
           found   == Found(name.label, DomainMembers(name.label), DomainConformance)
           vcard(column) == IF memory THEN SeedVCard ELSE ParseVCardJSON(column)
           card(column) == VCardToJCard(vcard(column), RegistrarHandle)
           full(column) == [found EXCEPT !.card = card(column)]
           req == [kind |-> "domain", name |-> name]
           reqOf(column) == [kind |-> "domain", name |-> name, column |-> column]
<1>1. PICK column \in IF memory THEN {NoColumn} ELSE Cards :
        CASE ldhName = NoName -> Respond(req, BadRequest)
          [] ldhName # NoName /\ StoredAs(ldhName, Domains) -> Respond(reqOf(column), full(column))
          [] OTHER -> Respond(req, NotFound)
  BY DEF LookupDomain
<1>2. /\ Answer(full(column)) /\ full(column).status = 200 /\ full(column).object = name.label
      /\ full(column).card = card(column)
  <2>1. Answer(found) /\ found.status = 200 /\ found.object = name.label
    BY ExtensionsKnown, FoundAnswers
  <2>2. /\ full(column).status = found.status /\ full(column).object = found.object
        /\ full(column).members = found.members /\ full(column).conformance = found.conformance
        /\ full(column).failed = found.failed /\ full(column).card = card(column)
    BY DEF Found, NoResponse
  <2> HIDE DEF full, found
  <2> QED
    BY <2>1, <2>2 DEF Answer
<1>3. /\ req.kind = "domain" /\ req.name = name
      /\ reqOf(column).kind = "domain" /\ reqOf(column).name = name /\ reqOf(column).column = column
      /\ "domain" \in HandlerKinds
  BY DEF HandlerKinds
<1>4. /\ name.label \in Domains /\ name.dots <= 1 =>
           ldhName # NoName /\ StoredAs(ldhName, Domains)
  <2> SUFFICES ASSUME name.label \in Domains, name.dots <= 1
               PROVE  ldhName # NoName /\ StoredAs(ldhName, Domains)
    OBVIOUS
  <2>1. name.label \notin BadLabels
    BY DataAssumption
  <2>2. /\ ldhName # NoName /\ ldhName \in Names /\ ldhName.label = name.label
        /\ ~ldhName.capitals /\ ~ldhName.blanks /\ ldhName.dots = 0
    BY <2>1, NormalizedName
  <2> HIDE DEF ldhName
  <2> QED
    BY <2>2, NormalizedStored
<1>5. /\ \E p \in card(column) : p.name = "fn" /\ p.value # ""
      /\ \A p, q \in card(column) : p.name = "fn" /\ q.name = "fn" => p = q
  <2>1. RegistrarHandle # ""
    BY DataAssumption, TextsAssumption
  <2> QED
    BY <2>1, OneFullName
<1>6. ASSUME column.readable,
             \A i \in DOMAIN column.properties :
                 ~(column.properties[i].type = "fax" /\ column.properties[i].listed)
      PROVE  /\ \A i \in Kept(column.properties) : ShownAs(column.properties[i]) \in card(column)
             /\ \A p \in card(column) :
                    \/ p.name = "fn" /\ p.value = RegistrarHandle
                    \/ \E i \in DOMAIN column.properties : ShownAs(column.properties[i]) = p
  <2>1. ~memory
    BY <1>6 DEF NoColumn
  <2>2. column \in Columns
    BY <2>1, DataAssumption
  <2>3. card(column) = VCardToJCard(ParseVCardJSON(column), RegistrarHandle)
    BY <2>1
  <2> HIDE DEF card
  <2> QED
    BY <1>6, <2>2, <2>3, CardShown
<1> HIDE DEF ldhName, full, card, req, reqOf
<1>7. CASE ldhName # NoName /\ StoredAs(ldhName, Domains)
  <2>1. Respond(reqOf(column), full(column))
    BY <1>1, <1>7
  <2>2. /\ TypeOK' /\ request' = reqOf(column) /\ config' = config
        /\ response'.failed \/ response' = full(column)
        /\ response'.failed => response'.status = 404
    BY <1>2, <1>3, <2>1, AnswerKeeps
  <2>3. SpellingsFound'
    <3>1. ~response'.failed => response'.status = 200 /\ response'.object = name.label
      BY <1>2, <2>2
    <3> QED
      BY <1>3, <2>2, <3>1 DEF SpellingsFound
  <2>4. RegistrarShown'
    <3> SUFFICES ASSUME response'.status = 200 PROVE RegistrarShown'
      BY DEF RegistrarShown
    <3>1. response'.card = card(column) /\ request'.column = column
      BY <1>2, <1>3, <2>2
    <3>2. column.readable /\ (\A i \in DOMAIN column.properties :
                                  ~(column.properties[i].type = "fax" /\ column.properties[i].listed)) =>
            /\ \A i \in Kept(column.properties) : ShownAs(column.properties[i]) \in card(column)
            /\ \A p \in card(column) :
                   \/ p.name = "fn" /\ p.value = RegistrarHandle
                   \/ \E i \in DOMAIN column.properties : ShownAs(column.properties[i]) = p
      BY <1>6
    <3>3. ShownRight(card(column), column)
      BY <1>5, <3>2, Zenon DEF ShownRight
    <3> QED
      BY <3>1, <3>3 DEF RegistrarShown
  <2> QED
    BY <1>3, <2>2, <2>3, <2>4 DEF ObjectsInv, IPAnswerCovers, IPNetworkFound
<1>8. CASE ~(ldhName # NoName /\ StoredAs(ldhName, Domains))
  <2>1. PICK res \in {BadRequest, NotFound} : Respond(req, res)
    BY <1>1, <1>8
  <2>2. Answer(res) /\ res.status # 200
    BY ErrorAnswers DEF BadRequest, NotFound, NoResponse
  <2>3. /\ TypeOK' /\ request' = req
        /\ response'.failed \/ response' = res
        /\ response'.failed => response'.status = 404
    BY <1>3, <2>1, <2>2, AnswerKeeps
  <2>4. response'.status # 200
    BY <2>2, <2>3
  <2>5. SpellingsFound'
    BY <1>3, <1>4, <1>8, <2>3 DEF SpellingsFound
  <2> QED
    BY <1>3, <2>3, <2>4, <2>5 DEF ObjectsInv, IPAnswerCovers, IPNetworkFound, RegistrarShown
<1> QED
  BY <1>7, <1>8

\* A lookup of a network, for an address or a prefix.
LEMMA AnswerIPKeeps ==
    ASSUME TypeOK, NEW req, NEW p \in Prefixes, req.kind = "ip", req.networks \in Registries,
           AnswerIPNetwork(req, p),
           request' = req => Asked' = Addresses(p) /\ AskedVersion' = p.version
    PROVE  ObjectsInv'
<1> DEFINE selected == {n \in req.networks : Selects(n, p)}
           found(n) == Found(n.handle, IPNetworkMembers, IPNetworkConformance)
           shows(n) == config.driver = "memory" \/ n.named
           res(n) == IF shows(n) THEN found(n) ELSE NotFound
<1>0. "ip" \in HandlerKinds /\ \A n \in req.networks : n \in UNION Registries
  BY DEF HandlerKinds
<1>1. /\ \A n : Answer(found(n)) /\ found(n).status = 200 /\ found(n).object = n.handle
      /\ Answer(NotFound) /\ NotFound.status # 200
  <2>1. Answer(NotFound) /\ NotFound.status # 200
    BY ErrorAnswers DEF NotFound, NoResponse
  <2> QED
    BY <2>1, ExtensionsKnown, FoundAnswers
<1>2. \/ selected = {} /\ Respond(req, NotFound)
      \/ \E n \in selected : Respond(req, res(n))
  BY DEF AnswerIPNetwork
<1> HIDE DEF found, shows
<1>3. CASE selected = {} /\ Respond(req, NotFound)
  <2>1. /\ TypeOK' /\ request' = req /\ config' = config
        /\ response'.failed \/ response' = NotFound
        /\ response'.failed => response'.status = 404
    BY <1>0, <1>1, <1>3, AnswerKeeps
  <2>2. response'.status # 200
    BY <1>1, <2>1
  <2>3. ASSUME config.driver # "memory", NEW n \in req.networks, NEW c \in CIDRs(n)
        PROVE  ~(c.version = p.version /\ Addresses(p) \subseteq Addresses(c))
    BY <1>0, <1>3, <2>3, ContainedSelected
  <2>4. IPNetworkFound'
    BY <2>1, <2>3 DEF IPNetworkFound
  <2> QED
    BY <2>1, <2>2, <2>4 DEF ObjectsInv, IPAnswerCovers, SpellingsFound, RegistrarShown
<1>4. ASSUME NEW n \in selected, Respond(req, res(n)) PROVE ObjectsInv'
  <2>1. Answer(res(n))
    BY <1>1
  <2> HIDE DEF res
  <2>2. /\ TypeOK' /\ request' = req /\ config' = config
        /\ response'.failed \/ response' = res(n)
        /\ response'.failed => response'.status = 404
    BY <1>0, <1>4, <2>1, AnswerKeeps
  <2>3. n \in req.networks /\ VersionOf(n) = p.version /\ Addresses(p) \subseteq AddressesOf(n)
    BY <1>0, SelectedCovers
  <2>4. IPAnswerCovers'
    <3> SUFFICES ASSUME response'.status = 200
                 PROVE  \E m \in req.networks : m.handle = response'.object /\ Covers(m)'
      BY <2>2 DEF IPAnswerCovers
    <3>1. response' = found(n)
      BY <1>1, <2>2 DEF res
    <3>2. n.handle = response'.object
      BY <1>1, <3>1
    <3>3. Covers(n)'
      BY <2>2, <2>3 DEF Covers
    <3> QED
      BY <2>3, <3>2, <3>3
  <2>5. IPNetworkFound'
    <3> SUFFICES ASSUME config.driver # "memory", ~response'.failed
                 PROVE  response'.status = 200 \/ \E m \in req.networks : ~m.named
      BY <2>2 DEF IPNetworkFound
    <3>1. CASE n.named
      BY <1>1, <2>2, <3>1 DEF res, shows
    <3>2. CASE ~n.named
      BY <2>3, <3>2
    <3> QED
      BY <3>1, <3>2
  <2> QED
    BY <2>2, <2>4, <2>5 DEF ObjectsInv, SpellingsFound, RegistrarShown
<1> QED
  BY <1>2, <1>3, <1>4

LEMMA IPNetworkKeeps ==
    ASSUME TypeOK, NEW p \in Prefixes, NEW networks \in Registries, LookupIPNetwork(p, networks)
    PROVE  ObjectsInv'
<1> DEFINE req == [kind |-> "ip", form |-> "prefix", prefix |-> p, networks |-> networks]
<1>1. req.kind = "ip" /\ req.networks = networks /\ req.form = "prefix" /\ req.prefix = p
  OBVIOUS
<1>2. AnswerIPNetwork(req, p)
  BY DEF LookupIPNetwork
<1> HIDE DEF req
<1>3. request' = req => Asked' = Addresses(p) /\ AskedVersion' = p.version
  BY <1>1 DEF Asked, AskedVersion
<1> QED
  BY <1>1, <1>2, <1>3, AnswerIPKeeps

LEMMA IPAddressKeeps ==
    ASSUME TypeOK, NEW v \in {"v4", "v6"}, NEW addr \in 0..(2^Width(v) - 1), NEW networks \in Registries,
           LookupIPAddress(v, addr, networks)
    PROVE  ObjectsInv'
<1> DEFINE req == [kind |-> "ip", form |-> "address", version |-> v, addr |-> addr, networks |-> networks]
           p == FullLength(v, addr)
<1>1. req.kind = "ip" /\ req.networks = networks /\ req.form = "address" /\ req.version = v /\ req.addr = addr
  OBVIOUS
<1>2. AnswerIPNetwork(req, p)
  BY DEF LookupIPAddress
<1>3. p \in Prefixes /\ Addresses(p) = {addr} /\ p.version = v
  BY FullLengthIs DEF FullLength
<1> HIDE DEF req, p
<1>4. request' = req => Asked' = Addresses(p) /\ AskedVersion' = p.version
  BY <1>1, <1>3 DEF Asked, AskedVersion
<1> QED
  BY <1>1, <1>2, <1>3, <1>4, AnswerIPKeeps

-----------------------------------------------------------------------------
(* The theorems.                                                           *)

LEMMA ObjectsInvInit == Init => ObjectsInv
BY DEF Init, ObjectsInv, TypeOK, IPAnswerCovers, IPNetworkFound, SpellingsFound, RegistrarShown,
       NoRequest, NoResponse, RequestKinds, MembersKnown

LEMMA ObjectsInvStep == ObjectsInv /\ [Next]_vars => ObjectsInv'
<1> SUFFICES ASSUME ObjectsInv, [Next]_vars PROVE ObjectsInv'
  OBVIOUS
<1>0. TypeOK
  BY DEF ObjectsInv
<1>1. CASE NewRequest
  <2>1. CASE ServeHelp
    BY <1>0, <2>1, HelpKeeps
  <2>2. ASSUME NEW name \in Names, LookupDomain(name) PROVE ObjectsInv'
    BY <1>0, <2>2, DomainKeeps
  <2>3. ASSUME NEW handle \in Handles, LookupEntity(handle) PROVE ObjectsInv'
    BY <1>0, <2>3, EntityKeeps
  <2>4. ASSUME NEW name \in Names, LookupNameserver(name) PROVE ObjectsInv'
    BY <1>0, <2>4, NameserverKeeps
  <2>5. ASSUME NEW p \in Prefixes, NEW networks \in Registries, LookupIPNetwork(p, networks) PROVE ObjectsInv'
    BY <1>0, <2>5, IPNetworkKeeps
  <2>6. ASSUME NEW v \in {"v4", "v6"}, NEW networks \in Registries, NEW addr \in 0 .. 2^Width(v) - 1,
               LookupIPAddress(v, addr, networks)
        PROVE  ObjectsInv'
    BY <1>0, <2>6, IPAddressKeeps
  <2>7. CASE LookupNoNetwork
    BY <1>0, <2>7, NoNetworkKeeps
  <2>8. ASSUME NEW asn \in 0 .. 2^AsnBits, LookupAutnum(asn) PROVE ObjectsInv'
    BY <1>0, <2>8, AutnumKeeps
  <2>9. ASSUME NEW found \in SUBSET Domains, SearchDomains(found) PROVE ObjectsInv'
    BY <1>0, <2>9, DomainResultsKeep, ExtensionsKnown DEF SearchDomains
  <2>10. ASSUME NEW found \in SUBSET Domains, ReverseSearchDomains(found) PROVE ObjectsInv'
    BY <1>0, <2>10, DomainResultsKeep, ExtensionsKnown DEF ReverseSearchDomains
  <2>11. CASE SearchEntities
    BY <1>0, <2>11, SearchKeeps, ExtensionsKnown DEF SearchEntities
  <2>12. ASSUME NEW found \in SUBSET Hosts, SearchNameservers(found) PROVE ObjectsInv'
    BY <1>0, <2>12, SearchKeeps, ExtensionsKnown DEF SearchNameservers
  <2> QED
    BY <1>1, <2>1, <2>2, <2>3, <2>4, <2>5, <2>6, <2>7, <2>8, <2>9, <2>10, <2>11, <2>12 DEF NewRequest
<1>2. CASE ResponseSent
  <2>1. request' = NoRequest /\ response' = NoResponse /\ config' = config
    BY <1>2 DEF ResponseSent
  <2>2. TypeOK'
    <3>1. /\ response'.status = 0 /\ response'.object = "none" /\ response'.members = {}
          /\ response'.conformance = {} /\ ~response'.failed
      BY <2>1 DEF NoResponse
    <3>2. request'.kind \in RequestKinds
      BY <2>1 DEF NoRequest, RequestKinds
    <3>4. config' \in Configs
      BY <1>0, <2>1 DEF TypeOK
    <3>3. MembersKnown'
      BY <3>1 DEF MembersKnown
    <3> QED
      BY <2>1, <3>1, <3>2, <3>3, <3>4 DEF TypeOK
  <2>3. request'.kind = "none"
    BY <2>1 DEF NoRequest
  <2> QED
    BY <2>2, <2>3 DEF ObjectsInv, IPAnswerCovers, IPNetworkFound, SpellingsFound, RegistrarShown
<1>3. CASE UNCHANGED vars
  <2>1. request' = request /\ response' = response /\ config' = config
    BY <1>3 DEF vars
  <2>2. Asked' = Asked /\ AskedVersion' = AskedVersion
    BY <2>1 DEF Asked, AskedVersion
  <2>3. TypeOK'
    <3>1. MembersKnown' <=> MembersKnown
      BY <2>1 DEF MembersKnown
    <3> QED
      BY <1>0, <2>1, <3>1 DEF TypeOK
  <2>4. IPAnswerCovers'
    BY <2>1, <2>2 DEF ObjectsInv, IPAnswerCovers, Covers
  <2>5. IPNetworkFound'
    BY <2>1, <2>2 DEF ObjectsInv, IPNetworkFound
  <2>6. SpellingsFound'
    BY <2>1 DEF ObjectsInv, SpellingsFound
  <2>7. RegistrarShown'
    BY <2>1 DEF ObjectsInv, RegistrarShown
  <2> QED
    BY <2>3, <2>4, <2>5, <2>6, <2>7 DEF ObjectsInv
<1> QED
  BY <1>1, <1>2, <1>3 DEF Next

LEMMA ObjectsInvHolds == Spec => []ObjectsInv
BY ObjectsInvInit, ObjectsInvStep, PTL DEF Spec

\* A request in hand has a response, and an error nothing else.
THEOREM ObjectsTypeCorrect == Spec => []TypeOK
<1>1. ObjectsInv => TypeOK
  BY DEF ObjectsInv
<1> QED
  BY <1>1, ObjectsInvHolds, PTL

\* A network in an answer contains every address asked for, with each driver, for
\* addresses of every width.
THEOREM IPAnswerCoversHolds == Spec => []IPAnswerCovers
<1>1. ObjectsInv => IPAnswerCovers
  BY DEF ObjectsInv
<1> QED
  BY <1>1, ObjectsInvHolds, PTL

\* The SQL stores find a network with a prefix that contains what is asked for.
THEOREM IPNetworkFoundHolds == Spec => []IPNetworkFound
<1>1. ObjectsInv => IPNetworkFound
  BY DEF ObjectsInv
<1> QED
  BY <1>1, ObjectsInvHolds, PTL

\* Every spelling of a stored name that the code means to accept leads to it.
THEOREM SpellingsFoundHolds == Spec => []SpellingsFound
<1>1. ObjectsInv => SpellingsFound
  BY DEF ObjectsInv
<1> QED
  BY <1>1, ObjectsInvHolds, PTL

\* The registrar is shown with what the column vcard_json has of it, whatever it
\* has, and with one fn (parseVCardJSON and vcardToJCard).
THEOREM RegistrarShownHolds == Spec => []RegistrarShown
<1>1. ObjectsInv => RegistrarShown
  BY DEF ObjectsInv
<1> QED
  BY <1>1, ObjectsInvHolds, PTL

=============================================================================
