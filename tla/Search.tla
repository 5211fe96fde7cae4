------------------------------- MODULE Search -------------------------------
(***************************************************************************)
(* The search endpoints (handlers.go, service.go and the Search methods of *)
(* the three stores): /domains, /entities, /nameservers and                *)
(* /domains/reverse_search/entity.  A search is one query; its rows, or    *)
(* the records of the memory store's maps, are taken one at a time and in  *)
(* any order until the limit is reached, and the query can fail between    *)
(* two of them.                                                            *)
(*                                                                         *)
(* Domain and host names are stored in lower case, and a record's Unicode  *)
(* name is its LDH name; patterns and the texts of contacts are in any     *)
(* case.                                                                   *)
(***************************************************************************)
EXTENDS Wildcards

CONSTANTS
    Drivers,         \* the settings of storage.driver: "memory", "postgres", "mysql"
    MaxSearchLimit,  \* rdap.max_search_limit
    Kinds,           \* the searches clients make
    Patterns,        \* the patterns they search for
    Limits,          \* the limits they give; 0 stands for none or no number
    Domains,         \* the stored records
    Contacts,
    Hosts

ASSUME LimitAssumption == MaxSearchLimit \in Nat \ {0} /\ Limits \subseteq Int

\* What is matched against a pattern is a text, and names are in lower case.
ASSUME TextAssumption ==
    /\ Patterns \subseteq Seq(Characters)
    /\ \A x \in Domains \union Hosts : x.name \in Seq(Characters) /\ ToLower(x.name) = x.name
    /\ \A c \in Contacts : {c.handle, c.role, c.fn, c.email} \subseteq Seq(Characters)

VARIABLES
    config,   \* storage.driver, and whether rdap.search_enabled and the extension
              \* reverse_search are on
    pc,       \* "idle", "rows" (the records are being gone through) or "done"
    search,   \* the kind and the pattern of the search, and which records match a
              \* pattern whose meaning is left to package regexp
    limit,    \* how many results it may have
    left,     \* the records not yet looked at
    results,  \* the results so far
    status    \* the status of the response, 0 while there is none

vars == <<config, pc, search, limit, left, results, status>>

\* The memory store, or one of the SQL stores.
Memory == config.driver = "memory"

NoSearch == [kind |-> "none"]

Init ==
    /\ config \in [driver : Drivers, search_enabled : BOOLEAN, reverse_search : BOOLEAN]
    /\ pc = "idle" /\ search = NoSearch /\ limit = MaxSearchLimit
    /\ left = {} /\ results = <<>> /\ status = 0

-----------------------------------------------------------------------------
(* What the stores select.                                                 *)

\* LIKE, with upper and lower case or without.  PostgreSQL fails the query (see
\* QueryFails) when it gets to an escape at the end of the pattern.
SQLMatches(q, s, folded) ==
    /\ ~(config.driver = "postgres" /\ EndsInEscape(q))
    /\ IF folded THEN MatchString(Like(ToLower(q)), ToLower(s)) ELSE MatchString(Like(q), s)

\* MySQL's collation has no case, and LIKE in PostgreSQL minds it.
Folds == config.driver # "postgres"

NameMatches(rec, p) ==
    IF Memory THEN MatchString(CompileGlob(ToLower(p)), rec.name)
    ELSE SQLMatches(PatternToSQL(p), rec.name, Folds)

DomainNameMatches(rec, p) ==
    IF Memory THEN MatchString(CompileGlob(RewriteDomainPattern(ToLower(p))), rec.name)
    ELSE SQLMatches(PatternToSQL(p), rec.name, Folds)

\* ILIKE in PostgreSQL.
HandleMatches(rec, p) ==
    IF Memory THEN MatchString(CompileGlob(ToLower(p)), ToLower(rec.handle))
    ELSE SQLMatches(PatternToSQL(p), rec.handle, TRUE)

\* The SQL stores look for the pattern anywhere in the vCard or the handle, the
\* memory store looks at the handle only.
FullNameMatches(rec, p) ==
    LET anywhere == <<"%">> \o PatternToSQL(p) \o <<"%">>
    IN  IF Memory THEN HandleMatches(rec, p)
        ELSE \/ SQLMatches(anywhere, rec.fn \o (<<"-">> \o rec.email), TRUE)
             \/ SQLMatches(anywhere, rec.handle, TRUE)

\* domainMatchesEntity: some entity of the domain that exists has the property.
DomainMatchesEntity(rec, property, p) ==
    \E c \in Contacts :
        /\ c.handle \in rec.entities
        /\ MatchString(CompileGlob(ToLower(p)), ToLower(c[property]))

Selected(kind, rec, p) ==
    CASE kind = "domains by name"     -> DomainNameMatches(rec, p)
      [] kind = "domains by ns"       -> (IF Folds THEN ToLower(p) ELSE p) \in rec.ns
      [] kind = "entities by handle"  -> HandleMatches(rec, p)
      [] kind = "entities by fn"      -> FullNameMatches(rec, p)
      [] kind = "nameservers by name" -> NameMatches(rec, p)
      [] kind = "nameservers by ip"   -> p \in rec.v4 \union rec.v6
      [] kind = "reverse handle"      -> DomainMatchesEntity(rec, "handle", p)
      [] kind = "reverse role"        -> DomainMatchesEntity(rec, "role", p)
      [] kind = "reverse fn"          -> DomainMatchesEntity(rec, "fn", p)
      [] kind = "reverse email"       -> DomainMatchesEntity(rec, "email", p)

ReverseKinds == {"reverse handle", "reverse role", "reverse fn", "reverse email"}

AllKinds == {"domains by name", "domains by ns", "entities by handle", "entities by fn",
             "nameservers by name", "nameservers by ip"} \union ReverseKinds

RecordsOf(kind) ==
    CASE kind \in {"domains by name", "domains by ns"} \union ReverseKinds -> Domains
      [] kind \in {"entities by handle", "entities by fn"}            -> Contacts
      [] kind \in {"nameservers by name", "nameservers by ip"}        -> Hosts

\* The kinds that have a pattern, which the memory store hands to compileGlob.
Globs == {"domains by name", "entities by handle", "entities by fn", "nameservers by name"}
             \union ReverseKinds

\* What the memory store matches for such a kind is for package regexp to say.
LeftToRegexp(kind, p) == Memory /\ kind \in Globs /\ ToSet(p) \intersect Operators # {}

-----------------------------------------------------------------------------
(* The handlers.                                                           *)

\* Mutant: a limit above the maximum is taken.
LimitOf_NoCap(l) == IF l > 0 THEN l ELSE MaxSearchLimit

\* A limit that is no number, not positive or above the maximum is ignored.
LimitOf(l) == IF l > 0 /\ l <= MaxSearchLimit THEN l ELSE MaxSearchLimit

Refuse(code) ==
    /\ pc = "idle"
    /\ pc' = "done" /\ status' = code
    /\ UNCHANGED <<config, search, limit, left, results>>

\* compileGlob can fail, and can succeed.  In a domain search the "?" is gone.
CompileFails(kind, p) ==
    LeftToRegexp(kind, p) \/ (Memory /\ kind \in Globs \ {"domains by name"} /\ ~Compiles(p))

CompileSucceeds(kind, p) == LeftToRegexp(kind, p) \/ ~CompileFails(kind, p)

\* The store is asked; a pattern that does not compile is an error.
Start(kind, p, l) ==
    /\ pc = "idle" /\ kind \in Kinds
    /\ limit' = LimitOf(l)
    /\ \E matched \in IF LeftToRegexp(kind, p) THEN SUBSET RecordsOf(kind) ELSE {{}} :
           search' = [kind |-> kind, pattern |-> p, matched |-> matched]
    /\ \/ CompileFails(kind, p) /\ pc' = "done" /\ status' = 500 /\ UNCHANGED left
       \/ CompileSucceeds(kind, p) /\ pc' = "rows" /\ left' = RecordsOf(kind) /\ UNCHANGED status
    /\ UNCHANGED <<config, results>>

\* A search with one of two parameters; both, or neither, is a bad request.
OneOf(kind1, kind2) ==
    \/ Refuse(400)
    \/ \E kind \in {kind1, kind2}, p \in Patterns, l \in Limits : Start(kind, p, l)

SearchDomains == config.search_enabled /\ OneOf("domains by name", "domains by ns")

SearchEntities == config.search_enabled /\ OneOf("entities by fn", "entities by handle")

SearchNameservers == config.search_enabled /\ OneOf("nameservers by name", "nameservers by ip")

SearchNotImplemented == ~config.search_enabled /\ Refuse(501)

\* No property, or more than one, is a bad request; the SQL stores do not
\* support the search at all.
ReverseSearchDomains ==
    \/ ~config.reverse_search /\ Refuse(501)
    \/ config.reverse_search /\ Refuse(400)
    \/ config.reverse_search /\ ~Memory /\ Refuse(501)
    \/ /\ config.reverse_search /\ Memory
       /\ \E kind \in ReverseKinds, p \in Patterns, l \in Limits : Start(kind, p, l)

-----------------------------------------------------------------------------
(* The records.                                                            *)

Matches(x) ==
    IF LeftToRegexp(search.kind, search.pattern) THEN x \in search.matched
    ELSE Selected(search.kind, x, search.pattern)

Matching == {x \in left : Matches(x)}

Finish(code) ==
    /\ pc' = "done" /\ status' = code /\ left' = {}
    /\ UNCHANGED <<config, search, limit>>

\* A host that has the address in both of its lists is a result for each.
InBothLists(x) == search.kind = "nameservers by ip" /\ search.pattern \in x.v4 \intersect x.v6

\* The memory store goes through its map, under the read lock.
MemoryScan ==
    /\ pc = "rows" /\ Memory /\ Len(results) < limit
    /\ \E x \in left :
         /\ left' = left \ {x}
         /\ results' = CASE x \notin Matching -> results
                         [] x \in Matching /\ InBothLists(x) /\ Len(results) + 1 < limit
                              -> Append(Append(results, x), x)
                         [] OTHER -> Append(results, x)
    /\ UNCHANGED <<config, pc, search, limit, status>>

\* Domain rows with a NULL expires_at cannot be scanned.
CanScan(x) == RecordsOf(search.kind) = Domains => x.expires

\* rows.Next and Scan: the database returns at most limit matching rows; one
\* that cannot be scanned fails the whole search.
NextRow ==
    /\ pc = "rows" /\ ~Memory /\ Len(results) < limit
    /\ \E x \in Matching :
         IF CanScan(x)
         THEN /\ left' = left \ {x} /\ results' = Append(results, x)
              /\ UNCHANGED <<config, pc, search, limit, status>>
         ELSE results' = <<>> /\ Finish(500)

\* Mutant: rows.Err is not looked at.
QueryFails_Ignored ==
    /\ pc = "rows" /\ ~Memory
    /\ Finish(200) /\ UNCHANGED results

\* Query returns an error, or the rows end early: rows.Err().
QueryFails ==
    /\ pc = "rows" /\ ~Memory
    /\ results' = <<>>
    /\ Finish(500)

\* All records have been seen, or the limit is reached.
Respond ==
    /\ pc = "rows"
    /\ \/ Len(results) >= limit
       \/ IF Memory THEN left = {} ELSE Matching = {}
    /\ Finish(200) /\ UNCHANGED results

\* The next request, which knows nothing of this one.
NextRequest ==
    /\ pc = "done"
    /\ pc' = "idle" /\ search' = NoSearch /\ limit' = MaxSearchLimit
    /\ left' = {} /\ results' = <<>> /\ status' = 0
    /\ UNCHANGED config

Next ==
    \/ SearchDomains \/ SearchEntities \/ SearchNameservers \/ ReverseSearchDomains
    \/ SearchNotImplemented
    \/ MemoryScan \/ NextRow \/ QueryFails \/ Respond \/ NextRequest

Spec == Init /\ [][Next]_vars

-----------------------------------------------------------------------------
(* Properties.                                                             *)

\* Every variable holds a value of its type; the limit is one the
\* configuration allows.
TypeOK ==
    /\ config \in [driver : Drivers, search_enabled : BOOLEAN, reverse_search : BOOLEAN]
    /\ pc \in {"idle", "rows", "done"}
    /\ search = NoSearch \/ (search.kind \in Kinds /\ search.pattern \in Patterns)
    /\ limit \in 1..MaxSearchLimit
    /\ left \subseteq Domains \union Contacts \union Hosts
    /\ ToSet(results) \subseteq Domains \union Contacts \union Hosts
    /\ status \in {0, 200, 400, 500, 501}

\* Case does not count.
Asks(p, s) == Means(ToLower(p), ToLower(s))

\* The records a search asks for, by the meaning of its pattern.
Wanted(kind, p) ==
    {x \in RecordsOf(kind) :
        CASE kind \in {"domains by name", "nameservers by name"} -> Asks(p, x.name)
          [] kind = "domains by ns"      -> ToLower(p) \in x.ns
          [] kind = "nameservers by ip"  -> p \in x.v4 \union x.v6
          [] kind = "entities by handle" -> Asks(p, x.handle)
          [] kind = "entities by fn"     -> Asks(p, x.fn)
          [] OTHER -> \E c \in Contacts :
               /\ c.handle \in x.entities
               /\ Asks(p, CASE kind = "reverse handle" -> c.handle
                            [] kind = "reverse role"   -> c.role
                            [] kind = "reverse fn"     -> c.fn
                            [] kind = "reverse email"  -> c.email)}

Succeeded == pc = "done" /\ status = 200

\* The searches whose pattern the stores translate into what it means.  For the
\* memory store: not those with an operator of regexp or a "?", which is one more
\* (memory.go:476 takes it for one character), nor those for domains by a name
\* with a "*", which is translated twice (README.md:266 allows it), nor those by
\* full name, which look at the handle.  For the SQL stores: not those with a
\* character of LIKE and, for names in PostgreSQL, those that are not in lower
\* case.
FaithfulGlob ==
    search.kind \in Globs =>
        /\ ToSet(search.pattern) \intersect ({"?"} \union Operators) = {}
        /\ search.kind = "domains by name" => "*" \notin ToSet(search.pattern)
        /\ search.kind # "entities by fn"

FaithfulLike ==
    /\ search.kind \in Globs => ToSet(search.pattern) \intersect LikeCharacters = {}
    /\ search.kind \in {"domains by name", "domains by ns", "nameservers by name"} =>
           Folds \/ ToLower(search.pattern) = search.pattern

Faithful == IF Memory THEN FaithfulGlob ELSE FaithfulLike

\* "Add ?limit=n to cap results (hard cap = rdap.max_search_limit)"
\* (README.md:273-274), and nothing that was not asked for: the results are
\* within both limits, each record once (but for a host with the address in both
\* of its lists), and records the pattern means, where the pattern is one that
\* is translated faithfully.  (A full-name search of the SQL stores looks through
\* the whole vCard.)
SearchSound ==
    Succeeded =>
        /\ Len(results) <= MaxSearchLimit /\ Len(results) <= limit
        /\ \A i, j \in DOMAIN results :
             results[i] = results[j] => i = j \/ (Memory /\ InBothLists(results[i]))
        /\ Faithful /\ search.kind # "entities by fn" =>
             ToSet(results) \subseteq Wanted(search.kind, search.pattern)

\* A search that succeeds overlooks nothing: fewer results than the limit are
\* all there are, also when rows could not be read or the connection was lost
\* (postgres.go:328-356, memory.go:347-369; README.md:266-271), where the pattern
\* is one that is translated faithfully.
SearchComplete ==
    (Succeeded /\ Len(results) < limit /\ Faithful) =>
        Wanted(search.kind, search.pattern) \subseteq ToSet(results)

\* The invariant of a search, from which the two follow.
Chosen == {x \in RecordsOf(search.kind) : Matches(x)}

\* The results so far: records the store selects, each once, within the limit;
\* only the memory store has got this far with a reverse search.
ResultsInv ==
    /\ search.kind \in Kinds \intersect AllKinds /\ search.pattern \in Patterns
    /\ search.kind \in ReverseKinds => Memory
    /\ results \in Seq(Chosen) /\ Len(results) <= limit
    /\ \A i, j \in DOMAIN results :
         results[i] = results[j] => i = j \/ (Memory /\ InBothLists(results[i]))

\* A selected record is a result or is still to come, never both.
RowsInv ==
    pc = "rows" =>
        /\ ResultsInv
        /\ left \subseteq RecordsOf(search.kind)
        /\ \A i \in DOMAIN results : results[i] \notin left
        /\ Chosen \subseteq left \union ToSet(results)

DoneInv ==
    Succeeded => /\ ResultsInv
                 /\ Len(results) < limit => Chosen \subseteq ToSet(results)

SearchInv ==
    /\ TypeOK /\ RowsInv /\ DoneInv
    /\ pc = "idle" => left = {} /\ results = <<>>

=============================================================================
