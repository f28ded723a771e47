SPECIFICATION Spec
CONSTANTS
    Messages = {m1}
    Maintenance = {}
    Calls = {h1, h2}
    Connections = {c1}
    None = None
    MaxPending = 2
    MaxSends = 2
    MaxResets = 0
    MaxRestarts = 0
INVARIANTS OneTurn
CHECK_DEADLOCK FALSE
