\* Seven payloads in chunks of two (the last one short), room for two chunks,
\* any set of them broken.
CONSTANTS
    N = 7
    ChunkSize = 2
    Capacity = 2
    Broken = Broken
SPECIFICATION FairSpec
INVARIANTS
    TypeOK
    ReceivedIsPrefix
    EndIsTruthful
PROPERTIES
    Ends
