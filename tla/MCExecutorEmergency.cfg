SPECIFICATION Spec
CONSTANTS
    None = None
    Versions = {"v1"}
    MacLimit = 1
    VpsLimit = 2
    CheckpointLimit = 2
    EmergencyAge = 3
    LeaseTtl = 1
    Skew = 1
    Observations <- RunningOrQuiet
    Offset <- NoOffset
    Latency = 1
    MaxClock = 3
    MaxGeneration = 2
    MaxNet = 1
    MaxKey = 1
    MaxHead = 1
PROPERTIES EmergencyGap ExpiredLeaseStaysClosed 
CHECK_DEADLOCK FALSE
