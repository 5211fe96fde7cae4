SPECIFICATION Spec
CONSTANTS
    Characters <- MCCharacters
    Lower <- MCLower
    Drivers = {"memory", "postgres", "mysql"}
    Kinds = {"domains by name", "domains by ns", "entities by fn", "entities by handle",
             "nameservers by name", "nameservers by ip",
             "reverse handle", "reverse role", "reverse fn", "reverse email"}
    Patterns <- AllPatterns
    Limits = {0, 1, 3}
    MaxSearchLimit = 2
    Domains <- MCDomains
    Contacts <- MCContacts
    Hosts <- MCHosts
INVARIANTS TypeOK SearchSound SearchComplete
