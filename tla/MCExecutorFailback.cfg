SPECIFICATION Spec
CONSTANTS
    None = None
    Versions = {"v1"}
    MacLimit = 1
    VpsLimit = 2
    CheckpointLimit = 3
    EmergencyAge = 3
    LeaseTtl = 2
    Skew = 1
    Observations <- RunningOrQuiet
    Offset <- MacAhead
    Latency = 0
    MaxClock = 1
    MaxGeneration = 3
    MaxNet = 2
    MaxKey = 2
    MaxHead = 0
INVARIANTS TypeOK PendingUngranted ActiveHolderTookLease SingleWriter
PROPERTIES ImplementsLease GrantsFollowHandoffs
CHECK_DEADLOCK FALSE
