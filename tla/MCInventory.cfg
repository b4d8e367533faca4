SPECIFICATION Spec
CONSTANTS
    s1 = s1
    s2 = s2
    t1 = t1
    t2 = t2
    k1 = k1
    k2 = k2
    k3 = k3
    MAX_ACTIVE_BINDINGS = 2
    MAX_RECENT_REVOCATIONS = 1
    MAX_GENERATION = 3
    ValidKeys = {"x", "y", "z"}
    Keys = {k1, k2, k3}
    Requests <- MCRequests
    Servers = {s1, s2}
    Tasks = {t1, t2}
    ServerOf <- MCServerOf
    NoTask = NoTask
    NoKey = NoKey
SYMMETRY Symmetry
INVARIANTS OneStatementPerGeneration SignsNothingOld RevocationsHold
PROPERTIES ImplementsLifecycle RetryIsAnswered
CHECK_DEADLOCK FALSE
