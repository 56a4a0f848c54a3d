CONSTANTS
    Creations = {w1, w2}
    Callers = {k1, k2}
    Starters = {s1}
    Ids = {a, b}
    SSHPorts = {1, 2}
    ServicePorts = {11}
    Services = {web}
    Overlapping = FALSE
    DestroyIdempotent = FALSE
    Nothing = Nothing
SPECIFICATION Spec
SYMMETRY Symmetry
INVARIANTS TypeOK PortsUnique ContainersListed RunningHasContainer
CHECK_DEADLOCK FALSE
