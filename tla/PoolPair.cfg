SPECIFICATION Spec
CONSTANTS
    Clients = {k1, k2}
    Conns = {c1, c2, c3, c4}
    MaxConns = 2
    MaxIdle = 1
    DisconnectFails = TRUE
    NoConn = NoConn
INVARIANTS ExclusiveUse PoolCounts NoLeak
SYMMETRY Symmetry
CHECK_DEADLOCK FALSE
