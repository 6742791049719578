SPECIFICATION FairSpec
CONSTANTS
    Conn = {1, 2, 3}
    Listen = listen
    NULL = NULL
    MaxClients = 2
    HidLimit = 1
    BufLen = 3
    RecvMax = 2
    Lens = {1}
    Partial = {2}
    MaxPackets = 2
INVARIANTS TablesAgree EventsInOrder PacketsWhole
PROPERTY HangupNoticed
CHECK_DEADLOCK FALSE
