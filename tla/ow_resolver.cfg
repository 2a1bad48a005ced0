\* Two users who share a namespace; three cache keys and room for two entries.
CONSTANTS
    u1 = u1
    u2 = u2
    n1 = n1
    n2 = n2
    Calls = {c1, c2}
    Users = {u1, u2}
    Namespaces = {n1, n2}
    Requests <- MCRequests
    Authorized <- MCRequests
    NoCall = NoCall
    KeyTTL = 2
    RefreshBuffer = 1
    MaxCacheEntries = 2
    MaxFlight = 1
    MaxTime = 2
    MaxKeys = 3
SPECIFICATION Spec
SYMMETRY CallSymmetry
INVARIANTS TypeOK OrderIsRecency NoLostWaiter OwnKeysOnly
PROPERTIES FreshWhenHandedOut OnlyColdEvicted
