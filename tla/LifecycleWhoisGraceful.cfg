SPECIFICATION Spec
CONSTANTS
    Clients = {c1}
    Words <- MCWords
    Names <- MCWords
    Lines <- MCLines
    Registered = {"example.com"}
    Requests = {q1, q2}
    Configs <- MCConfigs
INVARIANTS WhoisGraceful
