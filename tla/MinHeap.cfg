SPECIFICATION HeapSpec
CONSTANTS
    Timer = {t1, t2, t3, t4, t5, t6}
    Nil = Nil
    FirstCap = 2
    MaxTime = 2
SYMMETRY Symmetry
INVARIANT HeapSound
PROPERTIES ImplementsQueue
