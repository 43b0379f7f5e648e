\* Two spans and a log record against batches of two; fairness.
CONSTANTS
    s1 = s1
    s2 = s2
    s3 = s3
    l1 = l1
    m1 = m1
    Slots = {s1, s2, l1}
    TableOf <- MCTableOf
    Absent = Absent
    None = None
    BatchRows = 2
    Period = 1
    MaxTime = 2
    Stamps = {0, 2}
    MaxWrites = 1
    MaxFailures = 1
SPECIFICATION FairSpec
PROPERTIES
    ExpiredRowsGo
