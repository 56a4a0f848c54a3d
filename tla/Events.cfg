SPECIFICATION FairSpec
CONSTANTS
    Requests = {r1, r2}
    Streams = {s1}
    Nodes = {n1, n2}
    Values = {v1, v2}
    Capacity = 2
    ResultRoom = 2
    MaxResults = 2
    Serial = TRUE
    Absent = Absent
INVARIANTS NoSendOnClosed ViewConverges
PROPERTIES RequestsFinish
CHECK_DEADLOCK FALSE
