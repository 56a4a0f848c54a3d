CONSTANTS
    Creations = {c1, c2}
    Callers = {k1, k2}
    MaxId = 2
    NoWorkspace = NoWorkspace
    MinAdvance = 1
SPECIFICATION Spec
INVARIANT StoppedHasNoContainer
