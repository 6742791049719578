SPECIFICATION OneSpec
CONSTANTS
    Sock = {s1, s2, s3, s4, s5}
    MaxConns = 3
    Grow = 2
    Chunk = {c1, c2, c3, c4}
    NULL = NULL
    Sizes = {1, 4, 5}
    Block = 4
    MaxUnused = 2
    None = None
    Users = {u, v}
    Paths <- MCPaths
    Names = {f, g}
    SessionTimeout = 1
    MaxRequests <- MCMaxRequests
    MaxOps <- MCMaxOps
    MaxSessions = 2
INVARIANTS PoolConsistent QueueSound OneAnswer WorkContained UploadUndone RightUser
PROPERTIES SurvivorsUntouched ResetEmpties ImplementsFifo
CHECK_DEADLOCK FALSE
