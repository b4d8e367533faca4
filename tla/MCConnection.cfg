SPECIFICATION Spec
CONSTANTS
    Slots = {s1, s2}
    NoSlot = none
    MAX_QUEUED_RESPONSES = 2
    FrameCap = 2
    MaxMail = 2
    MaxFaults = 1
    MaxCancels = 2
    SenderFails = TRUE
    EagerReconnects = TRUE
    PromptRegistration = FALSE
INVARIANTS AnswersArePaired NothingAfterHalfAFrame AcknowledgedWasDecrypted
CHECK_DEADLOCK FALSE
SYMMETRY Symmetry
