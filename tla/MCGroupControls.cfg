SPECIFICATION Spec
CONSTANTS
    MAX_LIVE_HANDOFFS = 2
    MAX_TERMINAL_HANDOFFS = 1
    MAX_CONTROL_ATTEMPTS = 2
    MAX_GROUP_MEMBERS = 3
    MAX_DEFERRED_ROSTERS = 1
    HOLD_AHEAD = 1
    MAX_INVITATION_RECORDS = 2
    MAX_GROUP_CONTROL_RECORDS = 6
    Group <- G
    Authority <- A
    Sites <- MCSites
    Targets <- MCTargets
    MemberSets <- MCMemberSets
    InvitationIds = {"i"}
    EXPIRES_AT = 1
    MaxNow = 1
    MaxRevision = 2
    MaxEncryptions <- MCEncryptions
    MaxMail = 1
VIEW ControlsView
ACTION_CONSTRAINT OneOperationAtATime
INVARIANTS StoredStateRecovers OneHistory AdmittedWasAccepted NoStaleControl
CHECK_DEADLOCK FALSE
