------------------------------ MODULE Allocator -------------------------------
(* What a pool of cells promises: it hands out a cell that nobody has, until   *)
(* the one who has it gives it back.  It may also have nothing to give.        *)
CONSTANT Cell
VARIABLES live, ret  \* the cells given away, the one given last

Init == live = {} /\ ret = <<>>
Alloc(c) == c \notin live /\ live' = live \union {c} /\ ret' = c
Free(c) == c \in live /\ live' = live \ {c} /\ ret' = <<>>
Next == (\E c \in Cell : Alloc(c)) \/ (\E c \in Cell : Free(c))
Spec == Init /\ [][Next]_<<live, ret>>
===============================================================================
