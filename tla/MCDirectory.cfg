SPECIFICATION Spec
CONSTANTS
    None = None
    c1 = c1
    c2 = c2
    RecoveryKey = recovery
    DeviceAddr <- TwoAddrs
    Clients = {c1, c2}
    Scenarios <- Deployments
    Reserved <- AccountAddr
    ONE_TIME_PREKEYS = 1
    REPLENISH_BELOW = 1
    ServerCrashes = FALSE
INVARIANT RetiredKeyStaysRetired
INVARIANT DispensedOnce
INVARIANT PoolBelongsToBinding
INVARIANT ConnectedIsBound
INVARIANT AnchorRemembers
INVARIANT RestoreRebuilds
