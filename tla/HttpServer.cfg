SPECIFICATION Spec
SYMMETRY Symmetric
CONSTANTS
    Requests = {r1, r2}
    Clients = {"c1"}
    Proxies = {"p1", "p2"}
    Style <- MCStyle
    Block <- MCBlock
    ConfigFiles <- MCConfigFiles
    DefaultRequests = 2
    DefaultWriteTimeout = 1
    TimeoutAfter = 2
    MaxElapsed = 2
    Statuses = {404}
INVARIANTS TypeOK WithinBudget OnlyAuthorizedHandled LogAgrees
PROPERTIES ThrottledForOwnUse
