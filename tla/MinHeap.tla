-------------------------------- MODULE MinHeap --------------------------------
(***************************************************************************)
(* The binary heap of mytimer (mytimer/min_heap.c), one step per iteration *)
(* of its loops: a push or an erase leaves a hole in the array p and an    *)
(* element e in hand, min_heap_shift_down_ and min_heap_shift_up_ move the *)
(* hole, and e goes into the hole at the end.  Slots are numbered from 0   *)
(* as in the code; each timer knows its slot (min_heap_idx, -1 outside).   *)
(* Module TimerQueue is what the heap implements.                          *)
(***************************************************************************)
EXTENDS Integers, FiniteSets

CONSTANTS Timer,
          Nil,      \* a slot that has not been written
          FirstCap, \* slots of the first allocation (8 in the code)
          MaxTime   \* bounds the times a timer is added or aged with

ASSUME MinHeapAssumption ==
    /\ Nil \notin Timer
    /\ FirstCap \in Nat \ {0}
    /\ MaxTime \in Nat

VARIABLES p, n, a,   \* struct min_heap
          idx,       \* timer -> min_heap_idx
          timeout,   \* timer -> time left
          pc,        \* "idle", or the loop that runs: "up" or "down"
          hole, e,   \* hole_index and e of that loop
          victim     \* the timer that is being erased, or Nil

heapVars == <<p, n, a>>
loopVars == <<pc, hole, e, victim>>
minHeapVars == <<heapVars, idx, timeout, loopVars>>

HeapInit ==
    /\ p = [i \in {} |-> Nil] /\ n = 0 /\ a = 0
    /\ idx = [t \in Timer |-> -1]
    /\ timeout = [t \in Timer |-> 0]
    /\ pc = "idle" /\ hole = 0 /\ e = Nil /\ victim = Nil

Parent(i) == (i - 1) \div 2

min_heap_elem_greater(t, u) == timeout[t] > timeout[u]

------------------------------------------------------------------------------
\* Mutant: the array is grown one push too late.
reserved_Late == IF a >= n THEN a
                 ELSE IF a = 0 THEN FirstCap ELSE 2 * a

\* The size min_heap_reserve asks for: doubled, and never less than needed.
reserved == IF a >= n + 1 THEN a
            ELSE LET b == IF a = 0 THEN FirstCap ELSE 2 * a
                 IN IF b < n + 1 THEN n + 1 ELSE b

\* timer_add: set the timeout, then min_heap_push.
min_heap_push(t, tv) ==
    /\ pc = "idle" /\ idx[t] = -1
    /\ timeout' = [timeout EXCEPT ![t] = tv]
    /\ a' = reserved
    /\ p' = [i \in 0 .. reserved - 1 |-> IF i < a THEN p[i] ELSE Nil]
    /\ pc' = "up" /\ hole' = n /\ e' = t
    /\ n' = n + 1
    /\ UNCHANGED <<idx, victim>>

\* The same when realloc fails.
PushFails(t, tv) ==
    /\ pc = "idle" /\ idx[t] = -1
    /\ a < n + 1
    /\ timeout' = [timeout EXCEPT ![t] = tv]
    /\ UNCHANGED <<heapVars, idx, loopVars>>

\* Mutant: the hole is always the root, as in min_heap_pop.
min_heap_erase_Root(t) ==
    /\ pc = "idle" /\ idx[t] # -1
    /\ n' = n - 1
    /\ pc' = "down" /\ hole' = 0 /\ e' = p[n - 1] /\ victim' = t
    /\ UNCHANGED <<p, a, idx, timeout>>

\* min_heap_erase up to its loop; min_heap_pop is the same for p[0].
min_heap_erase(t) ==
    /\ pc = "idle" /\ idx[t] # -1
    /\ n' = n - 1
    /\ pc' = "down" /\ hole' = idx[t] /\ e' = p[n - 1] /\ victim' = t
    /\ UNCHANGED <<p, a, idx, timeout>>

------------------------------------------------------------------------------
\* Mutant: the element is not told its new slot.
Fill_Silent(i) ==
    /\ p' = [p EXCEPT ![hole] = p[i]]
    /\ hole' = i
    /\ UNCHANGED idx

\* The element of slot i moves into the hole.
Fill(i) ==
    /\ p' = [p EXCEPT ![hole] = p[i]]
    /\ idx' = [idx EXCEPT ![p[i]] = hole]
    /\ hole' = i

\* The smaller child of the hole, or the only one.
MinChild ==
    LET r == 2 * (hole + 1)
    IN IF r = n \/ min_heap_elem_greater(p[r], p[r - 1]) THEN r - 1 ELSE r

HasChild == 2 * (hole + 1) <= n

DownMoves == HasChild /\ min_heap_elem_greater(e, p[MinChild])

\* Mutant: an erase does not move its last element up.
UpMoves_PushOnly ==
    /\ victim = Nil /\ hole > 0
    /\ min_heap_elem_greater(p[Parent(hole)], e)

UpMoves == hole > 0 /\ min_heap_elem_greater(p[Parent(hole)], e)

\* One iteration of min_heap_shift_down_.
shift_down ==
    /\ pc = "down" /\ DownMoves
    /\ Fill(MinChild)
    /\ UNCHANGED <<n, a, timeout, pc, e, victim>>

\* It ends in min_heap_shift_up_.
DownDone ==
    /\ pc = "down" /\ ~DownMoves
    /\ pc' = "up"
    /\ UNCHANGED <<heapVars, idx, timeout, hole, e, victim>>

\* One iteration of min_heap_shift_up_.
shift_up ==
    /\ pc = "up" /\ UpMoves
    /\ Fill(Parent(hole))
    /\ UNCHANGED <<n, a, timeout, pc, e, victim>>

\* Its end, and the last assignment of min_heap_erase.  The timeout of a timer
\* outside the heap is not read before timer_add sets it, and is forgotten.
UpDone ==
    /\ pc = "up" /\ ~UpMoves
    /\ p' = [p EXCEPT ![hole] = e]
    /\ idx' = [t \in Timer |-> IF t = victim THEN -1
                               ELSE IF t = e THEN hole ELSE idx[t]]
    /\ timeout' = [t \in Timer |-> IF t = victim THEN 0 ELSE timeout[t]]
    /\ pc' = "idle" /\ hole' = 0 /\ e' = Nil /\ victim' = Nil
    /\ UNCHANGED <<n, a>>

Heap == {p[i] : i \in 0 .. n - 1}

\* timer_update ages every timer in the heap, in the order of the array.
timer_update(d) ==
    /\ pc = "idle"
    /\ \A t \in Heap : timeout[t] - d >= -MaxTime
    /\ timeout' = [t \in Timer |-> IF t \in Heap THEN timeout[t] - d
                                                 ELSE timeout[t]]
    /\ UNCHANGED <<heapVars, idx, loopVars>>

HeapNext ==
    \/ \E t \in Timer :
          \/ \E tv \in 0 .. MaxTime : min_heap_push(t, tv) \/ PushFails(t, tv)
          \/ min_heap_erase(t)
    \/ shift_down \/ DownDone \/ shift_up \/ UpDone
    \/ \E d \in 1 .. MaxTime : timer_update(d)

HeapSpec == HeapInit /\ [][HeapNext]_minHeapVars

------------------------------------------------------------------------------
\* The timers in the heap, those in hand while a loop runs included.
Waiting ==
    {p[i] : i \in {j \in 0 .. n - 1 : pc = "idle" \/ j # hole}}
        \cup IF pc = "idle" \/ e = victim THEN {} ELSE {e}

HeapTypeOK ==
    /\ n \in Nat /\ a \in Nat /\ n <= a
    /\ p \in [0 .. a - 1 -> Timer \cup {Nil}]
    /\ idx \in [Timer -> Int]
    /\ timeout \in [Timer -> Int]
    /\ pc \in {"idle", "up", "down"}
    /\ hole \in 0 .. n
    /\ e \in Timer \cup {Nil} /\ victim \in Timer \cup {Nil}

(* Between the calls every parent is at most its children, also after an   *)
(* erase inside the heap, where the last element may have to go up.        *)
HeapOrder ==
    pc = "idle" =>
        \A i \in 1 .. n - 1 : ~min_heap_elem_greater(p[Parent(i)], p[i])

(* Between the calls the timers in the heap, and no others, know the slot  *)
(* they are in, so min_heap_erase finds its timer without a search and     *)
(* refuses one that is not in the heap.                                    *)
BackPointers ==
    pc = "idle" =>
        /\ \A i \in 0 .. n - 1 : p[i] \in Timer /\ idx[p[i]] = i
        /\ \A t \in Timer : idx[t] # -1 =>
               idx[t] \in 0 .. n - 1 /\ p[idx[t]] = t

(* The heap is one, and the timers know where in it they are.              *)
HeapSound == HeapTypeOK /\ HeapOrder /\ BackPointers

Queue == INSTANCE TimerQueue WITH
            Time <- 0 .. MaxTime,
            left <- [t \in Waiting |-> timeout[t]]

(* min_heap_top is a timer with the least time left.                       *)
TopIsMin == pc = "idle" /\ n > 0 => Queue!IsTop(p[0])

(* Whatever the loops do, a push adds its timer, an erase removes its      *)
(* timer, no timer is lost, doubled or changed on the way, and the top is  *)
(* a timer with the least time left.                                       *)
ImplementsQueue == Queue!Spec /\ []TopIsMin
==============================================================================
