SPECIFICATION Spec
CONSTANTS
    BYTE = 32
    U16 = 2
    U32 = 3
    U64 = 4
    NotText = 31
    GROUP_ID_LEN = 1
    INVITATION_ID_LEN = 2
    DIGEST_LEN = 2
    MAX_MEMBERS = 2
    MAX_IDENTITY_LEN = 2
    MAX_DEVICE_LEN = 1
    MAX_PAYLOAD_LEN = 2
    MAX_ROSTER_LEN = 48
    MAX_APPLICATION_CONTEXT_LEN = 41
    MAX_GROUP_PAYLOAD_LEN = 79
    MAX_INVITATION_RECORDS = 2
    MAX_ACCEPTED = 2
    FUTURE_REVISIONS = 1
    MAX_DEFERRED = 2
    MAX_DEFERRED_UNLISTED = 1
    MAX_RECEIVER_STATE_LEN = 200
    MAX_LIVE_HANDOFFS = 2
    MAX_TERMINAL_HANDOFFS = 1
    MAX_ATTEMPTS = 2
    MAX_DEFERRED_ROSTERS = 2
    TAG_LEN = 3
    WrapKey = 11
    LocalGroup <- MCGroup
    PinnedAuthority <- Alice
    Predecessor <- MCPredecessor
    Me <- MCMe
    Highest = 2
    Samples <- MCSamples
    Cursors = {1, 4}
INVARIANT
    ReadsExactly
