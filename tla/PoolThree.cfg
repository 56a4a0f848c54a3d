SPECIFICATION Spec
CONSTANTS
    Clients = {k1, k2, k3}
    Conns = {c1, c2, c3}
    MaxConns = 3
    MaxIdle = 2
    DisconnectFails = FALSE
    NoConn = NoConn
INVARIANTS NoLeak
SYMMETRY Symmetry
CHECK_DEADLOCK FALSE
