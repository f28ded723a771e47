SPECIFICATION FairSpec
CONSTANTS
    vps = vps
    standby = standby
    Runners <- MCRunners
    NumExecs = 1
    PageSize = 100
    MaxPicks = 2
    MaxFaults = 2
INVARIANTS TypeOK CancelStops OneWorker 
 
CHECK_DEADLOCK FALSE
