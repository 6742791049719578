------------------------------ MODULE TimerQueue ------------------------------
(***************************************************************************)
(* What the timer loop of mytimer relies on: a queue that maps each waiting *)
(* timer to the time it has left.  Timers are added, removed and aged      *)
(* together, and the queue shows one with the least time left.  The binary *)
(* heap of min_heap.c implements it (module MinHeap); which of several     *)
(* timers with the same time is on top is its own affair.                  *)
(***************************************************************************)
EXTENDS Integers

CONSTANTS Timer,
          Time     \* the times timers are added and aged with

VARIABLE left      \* waiting timer -> time left

waiting == DOMAIN left

IsTop(t) ==
    /\ t \in waiting
    /\ \A u \in waiting : left[t] <= left[u]

Init == left = [t \in {} |-> 0]

Add(t, tv) ==
    /\ t \notin waiting
    /\ left' = [u \in waiting \cup {t} |-> IF u = t THEN tv ELSE left[u]]

Remove(t) ==
    /\ t \in waiting
    /\ left' = [u \in waiting \ {t} |-> left[u]]

Age(d) == left' = [u \in waiting |-> left[u] - d]

Next ==
    \/ \E t \in Timer : (\E tv \in Time : Add(t, tv)) \/ Remove(t)
    \/ \E d \in Time : Age(d)

Spec == Init /\ [][Next]_left
==============================================================================
