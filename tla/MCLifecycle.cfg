\* Two instances, schemas of every age, one crash, lost session or stop.
CONSTANTS
    Instances = {i1, i2}
    Orphans = {o1}
    Idle = Idle
    Unset = Unset
    Settings <- MCSettings
    Word <- MCWord
    WriteTables = {"spans", "logs"}
    MaxFaults = 1
SPECIFICATION FairSpec
INVARIANTS
    TypeOK
    ServesWholeSchema
    SchemaIsPrefix
    RetentionAsConfigured
PROPERTIES
    EventuallyServes
    WritesEnd
