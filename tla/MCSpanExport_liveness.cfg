\* As the safety run, with two keys, statements of one row, a pool that fills up, and fairness.
CONSTANTS
    k1 = k1
    k2 = k2
    k3 = k3
    Keys = {k1, k2}
    Malformed = Malformed
    Exporters = {e1, e2}
    NoRow = NoRow
    NoRequest = NoRequest
    Requests <- LivenessRequests
    ChunkRows = 1
    PoolSize = 2
    MaxAttempts = 2
SPECIFICATION FairSpec
PROPERTIES
    Settles
