\* Three traces of one or two spans, sweeps of one or two rows, depths of one and
\* two, a default above the ceiling.
CONSTANTS
    t1 = t1
    t2 = t2
    t3 = t3
    root = root
    child = child
    api = api
    db = db
    server = server
    client = client
    Traces = {t1, t2, t3}
    SpanIds = {root, child}
    Services = {api, db}
    Operations = {0, 1, 2}
    Kinds = {server, client}
    AnyKind = AnyKind
    NoParent = NoParent
    AnyService = AnyService
    Batches <- MCBatches
    Queries <- MCQueries
    DefaultDepth = 3
    MaxSearchDepth = 2
    BatchRows = 2
    MaxTime = 2
    MaxExports = 4
SPECIFICATION Spec
INVARIANTS
    TypeOK
    LostOnlyToSweep
    CallsCountOnce
    OperationsAreListed
PROPERTIES
    NewestAreFound
    SummariesAreCurrent
