SPECIFICATION Spec
CONSTANTS
    Messages = {m1, m2, m3}
    Maintenance = {m3}
    Calls = {h1, h2}
    Connections = {c1, c2}
    None = None
    MaxPending = 1
    MaxSends = 3
    MaxResets = 2
    MaxRestarts = 1
INVARIANTS TypeOK SavedFirst RetriedOnce
PROPERTIES LeavesWithReason DrainKeeps
CHECK_DEADLOCK FALSE
