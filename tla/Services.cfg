SPECIFICATION OneSpec
CONSTANTS
    MaxClients = 3
    MaxConns = 1
    Grow = 1
    MaxRequests = 2
    MaxBytes = 2
    MaxOutput = 1
    Workers = 2
    MaxDeaths = 3
    MaxStops = 1
    MaxTerms = 2
    MaxRogues = 1
    MaxFails = 2
    HangPossible = TRUE
    Wrapper = {w1, w2}
    Res = 2
    MaxReq = 4
    MaxOver = 2
    MaxBusy = 1
    MaxCalls = 3
INVARIANTS ReadsIsolated WorkersAccounted NeverDiesOut NeverEarly OnePlace
PROPERTIES Released Revives ShutdownReaches Fires
CHECK_DEADLOCK FALSE
