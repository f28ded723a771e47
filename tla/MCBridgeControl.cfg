SPECIFICATION FairSpec
CONSTANTS
    Deploys = {d1}
    Helpers = {h1}
    MaxTries = 2
    MaxFaults = 2
INVARIANTS TypeOK OneLaunch ClaimHasReason
PROPERTY FollowUpEnds
CHECK_DEADLOCK FALSE
