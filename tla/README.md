# A TLA+ verification of go-rdap-server

go-rdap-server answers RDAP (HTTP/JSON) and WHOIS (port 43) queries about
domains, entities, nameservers, IP networks and autonomous systems from a
registry database it only reads. This directory models the parts of the server
in which concurrency, failure or translation can go wrong, model-checks them
with TLC on small instances, and proves with TLAPS, for every value of the
constants, the safety properties that hold.

## 1. Inventory

| Part | Source | State | Operations | Made correct by | Module |
|---|---|---|---|---|---|
| Domain aggregate of the stores | `internal/store/{postgres,mysql,memory,store}.go` | connection pool, one transaction per request, the database (external) | `GetDomainAggregate` | an answer is one moment of the database; it is complete; no connection leaks; every request is answered | `DomainLookup`, `AtomicLookup` |
| Composition of domain answers | `internal/service/service.go`, `internal/whois/store.go` | none | `DomainAggregateToRDAP`, `domainToWhois` | what is shown comes from the aggregate; the example vCard is no substitute for a resolved entity | `RegistryData` |
| WHOIS gateway | `internal/whois/whois.go` | listener, accept loop, closer goroutine, a handler per connection | `Listen`, `Serve`, `Shutdown`, `handle`, `answer` | passing errors do not end the service, cancelling does | `WhoisServer` |
| Start and shutdown | `cmd/rdapd/main.go` | what has been started, requests in flight | `run` | requests under way are answered, no transaction is cut off (PostgreSQL), the process ends | `Lifecycle` |
| Bearer tokens | `internal/auth/auth.go`, `internal/middleware/auth.go` | cached key set | `ValidateToken`, `keyfunc`, `refreshKeys`, the middleware | only vouched-for tokens get through, the cache is one published key set and never lost, every request is decided | `JwksAuth` |
| Searches | `internal/handlers/handlers.go`, the `Search*` methods of the stores | none between requests | four endpoints, pattern translation | results are what the pattern means, within the limits, and nothing is overlooked | `Wildcards`, `Search` |
| Other lookups | handlers, service, stores | none between requests | domain (name, extensions, vCard), entity, nameserver, IP network, autnum, help | every spelling of a name leads to the object; the network found contains the addresses asked for; what is shown is what is stored; extensions in use are declared | `Objects`, `IPRanges`, `VCards` |
| WHOIS query parsing | `internal/whois/whois.go` (`parseQuery`) | none | classification of a line | a line that names a domain is answered with it | `WhoisServer` |
| HTTP server, configuration | `internal/server`, `internal/middleware`, `internal/config` | the counters of the library httprate, the requests in hand | `Load`, the chain of middleware | a budget per sender whatever headers it sends; handlers run for accepted tokens only; the log has what was written | `HttpServer` |
| Other columns, RDAP object types, notices, metrics, schemas, web page | several | none | decoding and formatting | | not modelled |

How they interact. `run` opens a store, gives it to the HTTP server (through
`service` and `handlers`) and to the WHOIS gateway (through `StoreLookup`), and
takes everything down in the order HTTP server, metrics, gateway, store. An HTTP
request is a goroutine that passes the middlewares, asks the service, which asks
the store; a WHOIS connection is a goroutine that reads one line and asks the
same store. Requests share the pool, the key cache and the counters of the limiter and
nothing else. The
database is written by the registry, concurrently, and never by this server.

What is hard about it:

* the registry commits between two statements of one request;
* one of several statements of a request fails, and what becomes of the error
  depends on the back end (PostgreSQL aborts the transaction, MySQL goes on);
* the pool is exhausted, and Begin waits without a time limit;
* two refreshes of the key set overlap with a key rotation;
* a shutdown races with requests and connections in flight, and with a timeout;
* Accept fails in passing or for good;
* a search pattern is translated twice, or into a language (LIKE, regular
  expressions) in which other characters have a meaning too;
* ranges of addresses are computed in integers and byte by byte, at the ends of
  the prefix lengths and of the address space as well;
* a name has many spellings, and each endpoint undoes some of them;
* anyone writes forwarding headers, some proxies keep what they find there, and
  the limiter's counters are shared, by an IPv6 /64 too;
* a response is written while timeouts and panics write others, or is lost to the
  write timeout.

`PROJECT.json` lists these as hazards, each at its line.

## 2. The modules

Names in the models are those of the code where TLA+ allows. `PROJECT.json`
("map") gives the lines each definition translates. Operators named `X_Y` and
commented "Mutant" are `X` with a plausible bug; the specifications do not use
them.

### RegistryData, DomainLookup, AtomicLookup

`RegistryData` defines a state of the database (tables domains, entities,
nameservers), what scanning a row gives (`Scannable`: expires_at is nullable but
scanned into a `time.Time`; `Record`: the SQL stores take the registrar from the
registrant column) and what an RDAP or WHOIS answer shows of an aggregate
(`DomainToRDAP`, `DomainToWhois`). A jCard is the pair of the handle and the
vCard it was built from; the placeholder of the code is the value `Example`.

`DomainLookup` is a set of request goroutines (`Readers`) against one store, whose
driver is chosen in `Init`.
`Begin` takes a connection (waiting when there is none), `SetIsolation` is
PostgreSQL's `SET TRANSACTION` (MySQL sets the level with `BeginTx`), then come
`ReadDomain`, one `ReadContact` per handle and one `ReadNameserver` per
nameserver, `CommitTx`, and `Respond`, which renders. The order of the contact
statements is left open: they come from a set and do not depend on one another.
`BeginFails`, `StatementFails`, `ContactFails`, `NameserverFails` and
`ConnectionLost` are the failures, each with the branch the code takes;
`MemoryAggregate` is the memory store, under one read lock. `RegistryCommits` is
the rest of the world. The database (isolation levels, aborted transactions) is
external and modelled by what the code relies on.

`AtomicLookup` is the abstract specification, what `store.Interface` promises:
one look at the database between the request and the answer, from which all of
the answer is rendered. With MySQL, entities may be missing from
it. `DomainLookup` implements it (`LooksAtomic`), with `view <- snapshot` and the
query hidden while a request is idle.

### WhoisServer, Lifecycle

`WhoisServer` has the listener (`ln` is the field, `socket` the socket), the
accept loop, the goroutine that closes the listener when the context is done, and
the connections. A line is a sequence of tokens, each with the marks `parseQuery`
looks for (a dot, a slash, the prefix "ns", an AS number); `ParseQuery` is the
function, and `ReadFails` the read deadline. The lookup is a parameter of
the server in the code, and four actions here: it begins and is done, the store
fails (at any time: the gateway tells its client "NOT FOUND" then, as it does for a
domain without a row), or has been closed and refuses.

`Lifecycle` EXTENDS it with `run`: start of each service with its failures, the
signal, `srv.Shutdown` with its 30 s, the shutdown of metrics and gateway, and
the deferred `Close` of the store, while RDAP requests and WHOIS connections are
at any point of their handlers. An error of `srv.Shutdown` makes `run` return at
once, skipping the next two shutdowns but not the deferred `Close`. When `run`
returns, all goroutines are gone. The configuration (driver, metrics, gateway) is
chosen in `Init`. Close differs between the stores (`StoreClosed`, `Refuses`):
pgxpool's refuses new transactions and waits for those under way, sql.DB's refuses
and does not wait, and that of the memory store does nothing. These and net/http's
Shutdown (wait for active requests) are external.

### JwksAuth

One step each for the lookup in the cache, the fetch, the replacement of the
cache, the second lookup, and the verification: no lock is held from one to the
next. `Supported` stands for the keys `parseJWK` can parse. `published` and
`history` belong to the authorization server; `fresh` records whether the
response of a request's own refresh named its key, and whether the response of
another request took its place in the cache before the request looked again
(`Overtaken`); the code keeps nothing of this, the properties need it.

### Wildcards, Search

`Wildcards` has the translations of a pattern over any set `Characters`:
`PatternToSQL` replaces two characters and escapes none, and `Like` gives `%`, `_`
and the backslash the meaning LIKE gives them, the error of a pattern that ends in a
backslash included; `CompileGlob` escapes the dot and nothing else. Matching
is a recursive function (`Reach`, one element at a time), and the reference is
`Means`, which follows the words of the code's comment and knows nothing of the
translations. The meaning of the other operators of package regexp (`Operators`) is
not modelled: an expression with one of them may fail to compile or match anything
(`LeftToRegexp`), in all searches of the memory store. Letters have a lower case:
the handlers change the case of some parameters and the stores compare with or
without it (`Folds`: MySQL's collation).
`Search` is a request to one of the four endpoints: the checks of the handler,
the limit, and the records taken one at a time until the limit is reached; a row
that cannot be scanned, or the end of the rows by an error, fails the search. The
memory store finds a host twice whose address is in both of its lists.
The driver and the two switches of the configuration are chosen once, in `Init`.

### IPRanges, VCards, Objects

`Objects` has one action for each lookup handler and for the help page: check and
normalisation of the path, what the store of the configured driver selects, the
members and the conformance of the answer. A lookup is one query, so a handler is
one step; it meets the table ip_networks with any of the contents in `Registries`,
and its query may fail. The answers of the searches are there with the extension
members of their results, which are made by the same functions, and their
conformance, which is not. A name is a label and a spelling (LDH or Unicode form,
capitals, blanks, trailing dots); the functions of `rdap.go` change the spelling.
`IPRanges` has `ipRange` of the MySQL store, integers for IPv4 and strings of bytes
for IPv6, the comparison of PostgreSQL, and the reference `Addresses`, the addresses
that agree with a prefix on its leading bits. `VCards` reads a vCard column and
makes the jCard of an answer. `Objects` shows with it the registrar of a domain.

### HttpServer

`Load` makes the configuration from a file: defaults, checks. A request goes
through `Arrive` (its address is resolved; a CORS preflight is answered),
`LimitByIP`, `Authenticate` and `Handle`; `Finish` is the way back through
`Timeout`, `Recoverer` and `Logger`, composed in the order of `server.go`, and the
write deadline. A status that is written goes to the connection if it is the first
and is remembered by the logger's writer if it is the last. `count` are the
limiter's counters; `used` counts by the
sender a request really came from, and is there for the properties, as are `lost`
and `received`, what the write deadline left of a response. Numbers that are negative
pass the defaults and the checks of `Load`.

The environment (`Sends`, `Received`): anyone may put anything into the forwarding
headers, where X-Forwarded-For is a list. A proxy that is trusted is one of two
kinds (`Style`): it replaces them by the address of its peer, as the nginx snippet
of the repository's README does, or it appends that address to the list it was sent.
`ForwardedFor` takes the first of the list. The limiter is httprate's sliding
window: this window's requests and a share of the last window's, counted for a
`Block`: an IPv4 address, or the /64 of an IPv6 address.

### Abstractions

Left out because no property tells them apart: the text of answers, notices,
links, statuses and events; the billing and tech contacts, which are read and shown like the admin contact;
in `DomainLookup` the spelling of names (a subject of `Objects`), in `Search` all of
it but the case;
percent-encoding of paths; the time, except as a timeout
that may or may not come first. MaxSearchLimit is positive (the default is 100).

## 3. The runs

| Run | Result | What it shows |
|---|---|---|
| `lookup` | holds | Two requests on each of the three stores compete for one connection, the registry commits, anything fails: answers never mix two states (`NeverTorn`) and are complete, with MySQL unless a statement of the request failed (`CompleteAnswers`), a "not found" is true unless something failed (`NotFoundIsTrue`), no connection leaks (`PoolAccounting`), the lookup is atomic (`LooksAtomic`), every step brings a request closer to its answer (`RequestsAdvance`), everyone is answered (`EveryRequestAnswered`) |
| `lookup_mysql_drops` | violated | `NothingMissing` with MySQL: a failed contact statement is dropped, and the built-in example is shown for an entity that exists |
| `whois_server` | holds | Whatever passing errors Accept meets, a client that waits is accepted while the gateway runs (`BacklogIsServed`); a cancelled context ends the loop (`CancelStopsServe`); a line that names a registered domain, behind a keyword or alone, is answered with it unless the store fails (`DomainsAreServed`); every connection is closed, that of a silent client too (`EveryConnectionEnds`) |
| `whois_close` | violated | `CloseStopsServe`: after `Shutdown` alone, without a cancelled context, `Serve` does not return (`run` never does this) |
| `lifecycle` | holds | With each driver: unless the 30 s run out, no accepted RDAP request finds the store closed, and all are answered before it is (`HTTPGraceful`); with PostgreSQL no transaction is cut off, forced or not (`NoLookupCutOff`); a shutdown ends (`ShutdownEnds`) |
| `lifecycle_whois` | violated | The gateway's handlers are not waited for: a registered domain is "NOT FOUND" during a shutdown |
| `jwks` | holds | Overlapping refreshes, rotations and failing fetches: the cache is one published key set, never emptied, only vouched-for tokens get through, a refresh that no other one overtakes gets its token the key (`RefreshHelpsAlone`), every request is decided |
| `jwks_overlap` | violated | An older response replaces a newer one, and a token is rejected although its own refresh has just delivered its key |
| `search` | holds | All searches of the three stores: within the limits and each record once (but for a host with its address in both lists); where the translation keeps the meaning of the pattern (`Faithful`), nothing unasked for (`SearchSound`) and nothing overlooked (`SearchComplete`) |
| `objects` | holds | For each driver and configuration: a network in an answer contains the addresses asked for (`IPAnswerCovers`) and is found if there is one (`IPNetworkFound`), every spelling of a name leads to its object (`SpellingsFound`), the registrar's jCard has what is stored (`RegistrarShown`) |
| `objects_extensions` | violated | `ExtensionsDeclared`: the answer of a nameserver search has ttl0 data of its results and does not declare ttl0 |
| `http` | holds | Forged headers, directly and through proxies, tokens, panics, timeouts and write deadlines: behind trusted proxies that replace the headers nobody exceeds the budget (`WithinBudget`), and nobody is refused whose block has not used it up (`ThrottledForOwnUse`); handlers run for accepted tokens only and their status goes out (`OnlyAuthorizedHandled`); the log has what was written unless the 30 s had passed, and the client got it unless the write timeout had (`LogAgrees`) |

A violated run states what a comment or a document of the repository says; the
findings in `PROJECT.json` quote it.

The models show more disagreements, which have no run of their own; the property a
point names leaves that case out, or says what holds in it:

* a domain whose `expires_at` is NULL cannot be scanned, and is answered 404 with
  nothing failing, where README.md:510 has 404 for objects that are not found
  (`Scannable`; exempted in `NotFoundIsTrue`);
* in the memory store a `*` in a search for domain names stands for a dot and what
  follows, so that `name=*` finds nothing: the dot inserted by the first translation
  is escaped by the second. README.md:266 has "wildcards `*` allowed" (exempted by
  `FaithfulGlob` in `SearchSound` and `SearchComplete`);
* in a reverse search `?` makes the character before it optional; memory.go:476 has
  "'?' (single char)" (exempted by `FaithfulGlob`);
* behind a trusted proxy that appends to X-Forwarded-For the first address of the list
  is the client's own text, and the client has a budget for every name it writes there.
  README.md:914 has "This prevents an Internet client from spoofing its IP via headers"
  (exempted by `Replacing` in `WithinBudget`);
* an IPv6 client is refused for the requests of another address of its /64; README.md:237
  has "limited by their real socket IP" (`ThrottledForOwnUse` is about the block);
* a fax number whose type is written as a list, which is how the server itself
  writes it (service.go:616; vcard.go:20), is read as a voice number and takes the
  place of one (exempted in `RegistrarShown`);
* a token without `iat` makes `ValidateToken` panic; the recovery answers 500
  (`Authenticate` in `HttpServer`), while README.md:947 says 401;
* `/autnum` asks no store and answers 200 for every number, while README.md:510
  has 404 for objects that are not found;
* with MySQL and the memory store the process may end inside a lookup, since their
  Close does not wait (main.go:38 has "gracefully"; of the RDAP requests this is true
  only of those the 30 s were too short for);
* `%`, `_` and the backslash of a pattern reach LIKE, and `+ ( [ | ^ $` and others the
  regular expression, with the meaning they have there; a pattern with a capital
  letter finds no name with PostgreSQL, whose LIKE minds the case. No document says
  that they are literals, or that case does not matter in patterns: `Faithful`
  leaves these patterns out of `SearchSound` and `SearchComplete`;
* `rate_limiting.requests` and the timeouts may be negative, which nothing refuses: a
  negative limit refuses every request, a negative timeout is none;
* the 504 of `chimw.Timeout` comes after the handler's response and so only into the
  log, and with the default write timeout of 10 s the client gets neither;
* `rate_limiting.burst` is shown on the help page and used nowhere;
* a nameserver is found under its name with a trailing dot in the memory store
  only: `LookupNameserver` puts the name in lower case and does no more;
* the most specific of nested networks is not preferred: the queries have no order;
  and a row with a NULL name, type or country that is read first is a 404.

The nameservers of a domain answer are the copies in the domain row; the nameserver
rows read into the aggregate are not used.

### Bounds, and why they are enough

* Lookups: one domain, two entities, one nameserver, five committed states (before
  and after a transfer that changes all rows, a dangling reference, a NULL expiry,
  no domain), two requests, one connection. Requests interact through the
  pool only, for which two requests and one connection show waiting and the
  handing over; one commit between any two statements is what an
  isolation level can get wrong. Runs go on for ever: a request is followed by
  the next.
* Gateway and lifecycle: two connections on the gateway alone, with one line of
  each form `parseQuery` tells apart; two RDAP requests
  and one WHOIS connection with `run`, which does not count them and asks only
  whether some are left; each driver, and the gateway and metrics on or off.
* Keys: three, one of them not supported; three key sets; two workers; six tokens,
  one for each way a validation ends. Overlap of refreshes needs two workers and
  two rotations.
* Searches: all patterns of one to three characters over `a . * ?`, and of one or two
  over `A b * _ % \ +`: the wildcards, a capital, each character of LIKE and one
  operator of package regexp (the others are treated alike). Three
  records of each kind, with these characters in them, chosen so that every kind of
  search has patterns with no, some and all of them as results, a maximum of two,
  and limits 0 (none), 1 and 3 (above the maximum), so that both the limit and the
  end of the records are reached.
* Objects: IPv4 addresses of three bits and IPv6 addresses of two bytes of two bits,
  with all prefixes, host bits set or not: ranges begin and end within a byte,
  between bytes and at the ends of the address space, which are the cases the
  arithmetic tells apart. Five contents of the table of networks, with nested ones,
  one of two prefixes and one with unset columns. All spellings with up to three
  dots. All vCards of at most two of ten properties: a property interacts with at
  most one other, which overwrites it. AS numbers of two bits and one beyond.
* HTTP: two requests at a time, each followed by the next without end; a client, a
  proxy that replaces the headers and one that appends to them, which shares a /64
  with the client and, where it is not trusted, is a sender like it; limits of one,
  two and a negative one, configurations that are refused for each reason, write
  timeouts below and above the timeout of a request and none.

### Fairness

* `DomainLookup`: weak fairness of a request's steps (goroutines are scheduled and
  the database answers or fails); strong fairness of `Begin`, since a connection
  that is given back goes to a request that waits. None for commits, failures or
  new requests.
* `WhoisServer`: the goroutines are scheduled, Accept on a closed socket fails, the
  10 s of the read deadline pass, and the store answers or fails. Accept is strongly
  fair for a client in the backlog: the kernel hands out connections in order, and
  an error that is not for good (no file descriptors) is over at some time.
* `Lifecycle`: `run` goes on, the 30 s timer fires, the database answers. None for
  signals, clients, or the taking of answers, which may be slow or never happen.
* `JwksAuth`: weak fairness of a validation; a fetch ends by its 10 s timeout at
  the latest.
* `Search`, `Objects` and `HttpServer` have no liveness property.

Deadlock is checked everywhere; the end of the process is a step of its own.

## 4. The proofs

Every invariant and every action property of a passing run is a theorem, as is the
refinement. One proof module belongs to each component; `NumberProofs` has the
arithmetic that two of them share.

`DomainLookupProofs` (for any names, entities, vCards, database states, number
of requests, pool size and back end):

* `TypeCorrect`;
* `PoolAccountingHolds`: every way out of `GetDomainAggregate` gives back the one
  connection `Begin` took. The argument is a count of the requests inside a
  transaction, by the lemmas `HolderArrives`, `HolderLeaves`, `HoldersStay`;
* `NeverTornHolds`, on every back end and under all failures;
* `CompleteAnswersHolds`: nothing is missing, with MySQL unless a statement of that
  request failed;
* `NotFoundIsTrueHolds`: a 404 is true of the snapshot unless a statement of that
  request failed;
* `AtomicLookupRefined`: `DomainLookup` implements `AtomicLookup`;
* `RequestsAdvanceHolds`: a step of a request takes it to a later place of
  `GetDomainAggregate`, or leaves fewer related rows to read, or is the loss of its
  connection. This is the variant behind `EveryRequestAnswered`; that a step is
  taken at all is fairness, which is left to TLC.

`NeverTorn`, `CompleteAnswers`, `NotFoundIsTrue` and the refinement are not inductive: that an answer is right says nothing of a
request half way. `Inv` adds `ReaderInv(r)` for each request: until the first
statement nothing has been read; after it the row is that of the snapshot, the
level is REPEATABLE READ, and each contact looked up so far is the snapshot's, or
is missing because its statement failed, in which case a PostgreSQL transaction
is no longer open and so cannot get to rendering. The last clause is what keeps an
incomplete aggregate from being answered with PostgreSQL, and what fails with
MySQL. `MissesInv` follows an error of the store back to its cause, a failure of
this request or a row that cannot be read: a transaction that is no longer open,
which makes Commit an error, is one a failure was met in. `WholesInv` is what is
left for MySQL: a request without a failure has of every entity looked up what
the snapshot has, since its transaction is still open (`MissesInv`) and reads the
snapshot (`Inv`). For the refinement, the
first statement is the abstract `Look`, `Respond` is `Reply` or `GiveUp`, and all
other steps of a request are stutters.

Assumptions: `ReadersAssumption` (finitely many requests, for the count),
`MaxOpenAssumption`, `DriversAssumption`, `DataAssumption` (the shape of database
states, and that NULL is no handle). TLC evaluates these and the other assumptions
in the runs.

`JwksAuthProofs` (for any keys, key sets, tokens and number of requests):
`JwksTypeCorrect`, `CacheIsOneKeySetHolds`, `AcceptedIsVouchedForHolds`,
`CacheNeverLostHolds`. The invariant adds `Published(w)`: a response on its way to
the cache was published, and a validation that has got as far as the signature
has found its key among published ones. `RefreshHelpsAloneHolds` is the condition
under which the promise holds that the run `jwks_overlap` refutes; `DeliveredInv`
follows the key from the response to the cache, where only another refresh, which
`fresh` records, can take it away. Assumptions: `TokensAssumption`,
`KeysAssumption`.

`HttpServerProofs` (for any addresses and blocks of them, proxies, configuration
files, limits, timeouts and number of requests): `TypeOKHolds`, `WithinBudgetHolds`,
`OnlyAuthorizedHandledHolds`, `LogAgreesHolds`, `ThrottledForOwnUseHolds`. The
limiter keeps the counter of a block within the limit whatever the proxies do. It
says something about senders because, behind proxies that replace the headers, what is
counted for a block is what was sent from it: `used[b] = count[b]` is part of the
invariant `HInv` (`LimitsOK`), and holds because a request is counted for its sender
(`ClientIsSource`), which is what a spoofed header would break; an address has sent
no more than its block. For the others `HInv` says where a status can
have been written: nothing before a request turns back, then either a status that
the logger's writer has too or a panic; `ChainOK` follows both through the
timeout, the recovery and the logger. Assumption: `HttpAssumption`.

`WhoisServerProofs` (for any clients, names and query lines): `WhoisTypeCorrect`,
`DomainsAreServedHolds`.
`HandlersInv` says of each connection that nothing is written before it is closed,
that a handler that has to do with the store has read a query for a domain, and
that what was written is the reply to the line that was read (`ReplyTo`); what
`parseQuery` makes of a line that names a domain is the lemma `DomainQueryParsed`.
Assumption: `LinesAssumption`.

`LifecycleProofs` (for any clients, requests and configurations): `LifecycleTypeCorrect`, `LifecycleInvHolds`, `HTTPGracefulHolds`,
`NoLookupCutOffHolds`, `GatewayInProcess`. Each of the two promises of a
shutdown is about two parties that do not look at each other: the store is closed
by `run`, which asks the server and not the requests. `LifecycleInv` orders them:
the store is open exactly while `run` is between opening and closing it
(`StoreFollowsRun`); unless the 30 s ran out, `run` is not past the shutdown of the
server while a request is active (`ServerFollowsRun`); with PostgreSQL, what
is in the store keeps it from being closed and the process from ending
(`StoreWaits`; the gateway's lookups begin only while the store does not refuse,
`GatewayLookups`); and no request finds the store closed (`NoneRefused`). Every step
of the process is one of the gateway or leaves the gateway alone (`GatewayStep`),
so the theorem about the gateway's answers holds in the process too. Assumption:
`ConfigsAssumption`.

`NumberProofs` has what the next two need of numbers. Induction is on sets:
`LeastNumber` gives the least member of a set of naturals, from the theorem of the
library that < is well founded, and `UpTo` says that a set with 0 and with each
number after one it has includes 0..n. The library's induction theorems have an
operator as a parameter and cannot be used with these provers. That 2^(n+1) is
2 * 2^n is counted: 2^n is the number of subsets of a set of n members
(`PowerNext`). `DivideTwice`, `AddMultiple`, `NoCarry` and the like are about
division by powers of two.

`SearchProofs` (for any characters, patterns, records, limits, drivers and
settings):

* `LikeMeansPattern`, `GlobMeansPattern`: for patterns and texts of every length,
  the LIKE pattern matches what the wildcards mean if the pattern has no `%`, `_` and
  backslash, and the regular expression if it has no `?` and no operator;
* `SearchTypeCorrect`, `SearchSoundHolds`, `SearchCompleteHolds`.

`Reach` and `Means` are related by `ReachIsEnds`: the ends the recursive function
computes are those at which a sequence of cuts can end, by induction on the number
of elements, after which the function is known in a closed form. `SearchInv`
follows a search record by record: results are distinct records the store
selects, within the limit, and a selected record is a result or still to come.
That selected records are wanted ones, for each kind of search and each store, is
`SelectedIsWanted`, and `WantedFullName` where names are found in the middle of a
text. Assumptions: `CharactersAssumption` (the characters the code singles out are
characters), `TextAssumption` (patterns, names, handles and addresses of records
are texts), `LimitAssumption`.

`ObjectsProofs` (for any width of addresses, contents of the tables, names and
vCards):

* `MySQLSelects`: a network is selected by the ranges of the MySQL store exactly
  if it contains all the addresses asked for;
* `ObjectsTypeCorrect`, `IPAnswerCoversHolds`, `IPNetworkFoundHolds`,
  `SpellingsFoundHolds`, `RegistrarShownHolds`.

A lookup is one step, so each property holds after it by what the operators do and
not by an invariant. For IPv4 the range is that of the addresses of the prefix
(`BlockRange`); for IPv6, strings of bytes are in the order of the addresses they
stand for (`ByteAt`, `SameHigh`, `BytesOrder`), setting one host bit adds its power
of two and disturbs no other byte (`SetBitAdds`), and so the loop ends at the last
address (`HostBitsSet`, by induction on the bits that are set, and `V6RangeIs`).
PostgreSQL's `<<=` is inclusion of address sets (`SubnetIsInclusion`).
`NormalizedName` is the chain of conversions of a name. For vCards, the field of a
name holds the last property of that name (`LastIndexIs`, `KeptRead`), and the
jCard shows the fields (`CardShown`). The proof corrected the property
`RegistrarShown`: of two properties of a name other than `tel`, the second takes
the place of the first whatever their types, which the first version denied for a
card with an `fn` of type fax; the run has such a card since. Assumptions:
`WidthAssumption`, `DataAssumption` (the tables' shape; the prefixes of a network
make up the range in its row), `TextsAssumption`.

Only model-checked: the liveness properties `EveryRequestAnswered`,
`CancelStopsServe`, `BacklogIsServed`, `EveryConnectionEnds`, `ShutdownEnds` and
`EveryTokenDecided`.
The prover has no reasoning about fairness and ENABLED.

## 5. Plan

Done: the inventory, the aggregate and its refinement on all three stores in one
specification, the gateway with its query lines, the life of the process, token
validation, the searches, the lookups of single objects, the HTTP server with its
configuration; proofs of all safety properties of these.

Two of the promises that violated runs refute are proved under the exact conditions
that save them: `CompleteAnswers` (MySQL) and `RefreshHelpsAlone`.

Worth doing next: variants like `RequestsAdvance` for the other liveness
properties; the relation of `HttpServer` and `JwksAuth`, whose tokens are valid or
not by a choice in the former, as a refinement.

### Not modelled

* The JSON of statuses, nameserver copies and DNSSEC data, the RDAP object types, links,
  events and notices, the text of WHOIS records: single values are copied or
  formatted, one by one, and no property relates them to anything.
* Security and content-type headers: constants.
* The `LookupAutnum` methods, the audit and the history tables: used by no code.
* The counters of the metrics: Prometheus's, and incremented by no code of the server.
* Decoding of percent-encoded paths (net/url, chi) and of YAML files: libraries.

## 6. Checking

    tlc -config Search.cfg MCSearch
    tlapm DomainLookupProofs.tla

and likewise for the module and the configuration of each run in `PROJECT.json`.
