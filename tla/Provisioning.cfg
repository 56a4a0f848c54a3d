CONSTANTS
    Creations = {c1, c2}
    Callers = {k1}
    MaxId = 2
    NoWorkspace = NoWorkspace
    MinAdvance = 1
SPECIFICATION FairSpec
INVARIANTS TypeOK RunningWasStarted ServicesBelong
PROPERTIES NoResurrection OutcomeIsFinal RefinesApi RefinesFairApi
