SPECIFICATION Spec
CONSTANTS
    Deploys = {d1}
    Helpers = {}
    MaxTries = 1
    MaxFaults = 1
PROPERTY FailedLaunchReleases
CHECK_DEADLOCK FALSE
