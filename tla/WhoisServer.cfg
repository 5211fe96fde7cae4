SPECIFICATION WhoisSpec
CONSTANTS
    Clients = {c1, c2}
    Words <- MCWords
    Names <- MCNames
    Lines <- MCLines
    Registered = {"example.com"}
INVARIANTS WhoisTypeOK DomainsAreServed
PROPERTIES CancelStopsServe BacklogIsServed EveryConnectionEnds
