SPECIFICATION Spec
CONSTANTS
    Handles = {h1, h2}
    MAX_GENERATION = 3
    MAX_RECEIVE_ITEMS = 2
    MaxSent = 2
    MaxMail = 2
    MaxWork = 2
CONSTRAINT Bounded
SYMMETRY Symmetry
INVARIANTS RatchetNeverReused AcknowledgedIsDurable OneSnapshotPerGeneration DirectOnce
PROPERTIES NoLostUpdate
CHECK_DEADLOCK FALSE
