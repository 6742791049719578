SPECIFICATION TimerSpec
CONSTANTS
    Wrapper = {w1, w2}
    Res = 2
    MaxReq = 4
    MaxOver = 2
    MaxBusy = 1
    MaxCalls = 4
INVARIANT UnlinksDefined
CHECK_DEADLOCK FALSE
