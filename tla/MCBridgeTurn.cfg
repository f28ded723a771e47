SPECIFICATION FairSpec
CONSTANTS
    NumTurns = 2
    MaxFaults = 1
    Pinned <- MCPinned
    None = None
INVARIANTS TypeOK EndsReported ReplyIsOwn  ApprovalsFollowTheTurn
 
CHECK_DEADLOCK FALSE
