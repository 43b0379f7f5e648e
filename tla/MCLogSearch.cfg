\* Two exporters that may send their request twice; statements of up to two rows; six queries.
CONSTANTS
    Exporters = {e1, e2}
    Requests <- MCRequests
    NoRequest = NoRequest
    Records <- MCRecords
    ChunkRows = 2
    MaxAttempts = 2
    Queries <- MCQueries
    AnyService = AnyService
    NoTime = NoTime
    TraceIdBytes = 1
    DefaultDepth = 3
    MaxSearchDepth = 2
    Needles <- MCNeedles
    Texts <- MCTexts
    api = api
    db = db
SPECIFICATION Spec
SYMMETRY ExporterSymmetry
INVARIANTS
    TypeOK
    CopiesForCause
    FindsWhatIsMeant
    AckedIsFound
PROPERTIES
    ImplementsStore
