SPECIFICATION Spec
CONSTANTS
    Requests = {r1, r2, r3}
    Streams = {s1}
    Nodes = {n1}
    Values = {v1}
    Capacity = 2
    ResultRoom = 2
    MaxResults = 0
    Serial = TRUE
    Absent = Absent
INVARIANTS OnlyUpdates
CHECK_DEADLOCK FALSE
