SPECIFICATION Spec
CONSTANTS
    Messages = {m1, m2}
    Maintenance = {}
    Calls = {h1, h2}
    Connections = {c1, c2}
    None = None
    MaxPending = 2
    MaxSends = 2
    MaxResets = 0
    MaxRestarts = 0
PROPERTIES PendingNotLost
CHECK_DEADLOCK FALSE
