SPECIFICATION Spec
CONSTANTS
    A = A
    B = B
    C = C
    Me = A
    Rosters <- MCRosters
    Audiences <- MCAudiences
    Payloads = {p1, p2}
    MAX_LIVE_LOGICAL_SENDS = 1
    MAX_TERMINAL_LOGICAL_SENDS = 1
    MAX_ATTEMPTS = 2
    MaxSequence <- MCSequences
    MaxPosition <- MCPositions
SYMMETRY Symmetry
INVARIANTS RecoveredEqualsRunning OneMessagePerId OneMessagePerPosition
PROPERTIES HandoffsAreDue
CHECK_DEADLOCK FALSE
