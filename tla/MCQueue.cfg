SPECIFICATION LiveSpec
CONSTANTS
    Ids = {1, 2}
    Handlers = {h1, h2}
    Runners = {r1, r2}
    MaxSends = 2
    MaxCrashes = 1
    MaxDenials = 1
    MaxThrows = 1
INVARIANTS TypeOK SuccessIsTrue OneExecutionPerFile
PROPERTIES NeverVanishes EventuallyFinished ImplementsPromise
CHECK_DEADLOCK FALSE
