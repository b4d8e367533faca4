SPECIFICATION AllSpec
CONSTANTS
    Handles = {h1}
    MAX_GENERATION = 4
    MAX_RECEIVE_ITEMS = 2
    MaxSent = 2
    MaxMail = 2
    MaxWork = 3
    MaxCounter = 3
    MaxChains = 3
    MaxAdvance = 2
    MaxFiles = 2
CONSTRAINTS Bounded Watched
INVARIANT RollbackNeverReuses
CHECK_DEADLOCK FALSE
