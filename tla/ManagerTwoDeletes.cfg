CONSTANTS
    Creations = {w1, w2}
    Callers = {k1, k2}
    Starters = {}
    Ids = {a, b}
    SSHPorts = {1, 2}
    ServicePorts = {11}
    Services = {web}
    Overlapping = TRUE
    DestroyIdempotent = FALSE
    Nothing = Nothing
SPECIFICATION Spec
SYMMETRY Symmetry
INVARIANT PortsUnique
