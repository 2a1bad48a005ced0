\* Two users of one namespace, no time passing.
CONSTANTS
    u1 = u1
    u2 = u2
    n1 = n1
    n2 = n2
    Calls = {c1, c2}
    Users = {u1, u2}
    Namespaces = {n1, n2}
    Requests <- SharedNamespace
    Authorized <- SharedNamespace
    NoCall = NoCall
    KeyTTL = 2
    RefreshBuffer = 1
    MaxCacheEntries = 2
    MaxFlight = 1
    MaxTime = 0
    MaxKeys = 2
SPECIFICATION Spec
PROPERTIES DeletesOnlyOrphans
