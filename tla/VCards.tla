------------------------------- MODULE VCards -------------------------------
(***************************************************************************)
(* The vCard of a contact: how the column vcard_json is read               *)
(* (parseVCardJSON in store/mapping.go) and how the jCard of an answer is  *)
(* made from it (vcardToJCard in service.go).                              *)
(*                                                                         *)
(* A jCard is a sequence of properties.  A property has a name, for a      *)
(* telephone number a type, which is written as a text or as a list, and a *)
(* value; it is malformed if it has less than four elements or a value     *)
(* that is no text.  An address whose value is no list of seven texts is   *)
(* read as an address of empty texts.                                      *)
(***************************************************************************)
EXTENDS Integers, Sequences

CONSTANT Texts   \* the texts a value can be; "" is the empty text

Absent == "absent"

ASSUME TextsAssumption == "" \in Texts /\ Absent \notin Texts

Properties ==
    [name : {"fn", "kind", "org", "tel", "email", "contact-uri", "adr", "other"},
     type : {"none", "voice", "fax"}, listed : BOOLEAN, wellFormed : BOOLEAN, value : Texts]

\* A column: whether it is an array of two elements, the second of which is an
\* array, and the properties in that.
Columns == [readable : BOOLEAN, properties : Seq(Properties)]

Fields == {"FullName", "Kind", "Organization", "Address", "VoiceTel", "FaxTel", "Email", "ContactURI"}

\* A contact without a vCard is shown like one whose vCard has nothing in it.
NoVCard == [f \in Fields |-> Absent]

\* The field a property is read into.
FieldOf(p) ==
    CASE p.name = "fn" -> "FullName"
      [] p.name = "kind" -> "Kind"
      [] p.name = "org" -> "Organization"
      [] p.name = "adr" -> "Address"
      [] p.name = "tel" -> IF p.type = "fax" /\ ~p.listed THEN "FaxTel" ELSE "VoiceTel"
      [] p.name = "email" -> "Email"
      [] p.name = "contact-uri" -> "ContactURI"
      [] OTHER -> "ignored"

\* The index of the last property a field is read from, 0 if there is none.
LastIndex(card, f) ==
    LET indices == {i \in DOMAIN card : FieldOf(card[i]) = f /\ card[i].wellFormed}
    IN  IF indices = {} THEN 0 ELSE CHOOSE i \in indices : \A j \in indices : j <= i

\* A later property overwrites an earlier one.
ParseVCardJSON(column) ==
    IF ~column.readable THEN NoVCard
    ELSE [f \in Fields |->
             LET i == LastIndex(column.properties, f)
             IN  IF i = 0 THEN Absent ELSE column.properties[i].value]

-----------------------------------------------------------------------------
\* What is shown of a field: nothing of an empty one, unless it is the address.
Shown(v, f, name, type) ==
    IF v[f] = Absent \/ (f # "Address" /\ v[f] = "") THEN {}
    ELSE {[name |-> name, type |-> type, value |-> v[f]]}

FullNameOr(v, handle) ==
    IF v["FullName"] \in {"", Absent} THEN handle ELSE v["FullName"]

\* The jCard without the handle in place of a missing name.
VCardToJCard_NoFallback(v, handle) ==
    UNION {Shown(v, "FullName", "fn", "none"), Shown(v, "Kind", "kind", "none"),
           Shown(v, "Organization", "org", "none"), Shown(v, "Address", "adr", "none"),
           Shown(v, "VoiceTel", "tel", "voice"), Shown(v, "FaxTel", "tel", "fax"),
           Shown(v, "Email", "email", "none"), Shown(v, "ContactURI", "contact-uri", "none")}

\* The properties of the jCard, in a set; the required fn is the handle if the
\* contact has no name.
VCardToJCard(v, handle) ==
    UNION {{[name |-> "fn", type |-> "none", value |-> FullNameOr(v, handle)]},
           Shown(v, "Kind", "kind", "none"),
           Shown(v, "Organization", "org", "none"), Shown(v, "Address", "adr", "none"),
           Shown(v, "VoiceTel", "tel", "voice"), Shown(v, "FaxTel", "tel", "fax"),
           Shown(v, "Email", "email", "none"), Shown(v, "ContactURI", "contact-uri", "none")}

=============================================================================
