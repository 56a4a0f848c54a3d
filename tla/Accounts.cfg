CONSTANTS
    Names = {a, b}
    TestUser = a
    Requests = {p, q}
    MaxRequests = 3
    MaxStates = 2
    MaxTokens = 2
    MaxRestarts = 1
SYMMETRY RequestsAreAlike
SPECIFICATION Spec
INVARIANTS
    StatesSingleUse
    CopiesAgree
    GrantedIsAccepted
PROPERTY
    RegisteredOnce
CHECK_DEADLOCK FALSE
