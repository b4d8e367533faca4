SPECIFICATION Spec
CONSTANTS
    DEDUP_WINDOW = 1
    MAX_SEQUENCE = 3
    FUTURE_REVISIONS = 2
    MAX_DEFERRED = 2
    MAX_DEFERRED_UNLISTED = 1
    MAX_INBOX_RECORDS = 2
    MAX_GROUP_MEMBERS = 3
    MAX_DEFERRED_ROSTERS = 2
    HOLD_AHEAD = 1
    Local <- B
    Authority <- A
    Group <- G
    Source <- R0
    Items <- MCItems
    MaxMail = 4
    MAX_RECEIVE_ITEMS = 2
    ReceivesUnattached = FALSE
INVARIANTS OneEventPerMessage NothingPassedSilently LossIsExact NothingApplicableWaits
CHECK_DEADLOCK FALSE
