\* Two exporters, each may retry once; statements of up to two rows.
CONSTANTS
    k1 = k1
    k2 = k2
    k3 = k3
    Keys = {k1, k2, k3}
    Malformed = Malformed
    Exporters = {e1, e2}
    NoRow = NoRow
    NoRequest = NoRequest
    Requests <- SafetyRequests
    ChunkRows = 2
    PoolSize = 3
    MaxAttempts = 2
SPECIFICATION Spec
SYMMETRY ExporterSymmetry
INVARIANTS
    TypeOK
    NoRowTwiceInStatement
    BatchIsRowAtATime
    RetriesNeverDeadlock
PROPERTIES
    ImplementsStore
