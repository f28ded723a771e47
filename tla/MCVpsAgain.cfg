SPECIFICATION Spec
CONSTANTS
    vps = vps
    standby = standby
    Runners <- MCRunners
    NumExecs = 1
    PageSize = 1
    MaxPicks = 2
    MaxFaults = 0
INVARIANT MaintenanceOnce
CHECK_DEADLOCK FALSE
