SPECIFICATION Spec
CONSTANTS
    Ids = {1}
    Handlers = {h1}
    Runners = {r1}
    MaxSends = 2
    MaxCrashes = 0
    MaxDenials = 0
    MaxThrows = 0
INVARIANTS NoDoubleExecution
CHECK_DEADLOCK FALSE
