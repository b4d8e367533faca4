SPECIFICATION Spec
CONSTANTS
    alice = alice
    bob = bob
    small = small
    big = big
    huge = huge
    Users <- MCUsers
    Devices <- MCDevices
    Senders <- MCSenders
    Bodies <- MCBodies
    PayloadLen <- MCPayloadLen
    HandleLen <- MCHandleLen
    Ceilings <- MCCeilings
    BootFiles <- MCBootFiles
    MAX_PENDING = 2
    MAX_ENVELOPE_BYTES = 4
    MAX_QUEUE_BYTES = 6
    MAX_USER_BYTES = 8
    MaxAccepted = 3
CONSTRAINT Bounded
INVARIANT PendingIsTheRest
PROPERTIES AcceptsWithinBudgets ImplementsDeliveryLog
CHECK_DEADLOCK FALSE
