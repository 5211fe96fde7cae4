SPECIFICATION Spec
CONSTANTS
    r1 = r1  r2 = r2
    n1 = n1  h1 = h1  h2 = h2  v1 = v1  v2 = v2  ns1 = ns1  g1 = g1  g2 = g2
    Names = {n1}
    Handles = {h1, h2}
    VCards = {v1, v2}
    Nameservers = {ns1}
    Glue = {g1, g2}
    DBStates <- MCStates
    NoRow = NoRow  NoHandle = NoHandle  Example = Example
    Drivers = {"memory", "postgres", "mysql"}
    Mode = "registrar"
    Readers = {r1, r2}
    MaxOpen = 1
INVARIANTS TypeOK PoolAccounting NeverTorn CompleteAnswers NotFoundIsTrue
PROPERTIES LooksAtomic RequestsAdvance EveryRequestAnswered
