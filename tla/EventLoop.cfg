SPECIFICATION FairSpec
CONSTANTS
    Fd = {a}
    Listen = listen
    Pair = pair
    Sig = sig
    MaxSignals = 2
INVARIANTS TablesSound SignalsSound
PROPERTIES EventServed SignalServed
CHECK_DEADLOCK FALSE
