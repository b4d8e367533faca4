SPECIFICATION FairSpec
CONSTANTS
    Slots = {s1, s2}
    NoSlot = none
    MAX_QUEUED_RESPONSES = 2
    FrameCap = 2
    MaxMail = 2
    MaxFaults = 1
    MaxCancels = 1
    SenderFails = FALSE
    EagerReconnects = FALSE
    PromptRegistration = TRUE
PROPERTIES AllFetched
CHECK_DEADLOCK FALSE
