---------------------------- MODULE MinHeap_proofs ----------------------------
(***************************************************************************)
(* The proofs about mytimer: first the heap, then, from the section "The   *)
(* timer loop" on, the loop of Timer, which has the heap behind the        *)
(* operators of TimerQueue.                                                *)
(*                                                                         *)
(* HeapOrder and BackPointers of MinHeap for any timers and any times.     *)
(* Between the calls they are inductive, inside a loop they hold around    *)
(* the hole: OrderAround keeps the order of all pairs that do not touch    *)
(* the hole and of the hole's parent with the hole's children, which is    *)
(* what a move of the hole turns into pairs again.                         *)
(***************************************************************************)
EXTENDS MinHeap, Timer, Sequences, TLAPS, WellFoundedInduction, FiniteSetTheorems

Busy == pc # "idle"
Full(i) == i \in 0 .. n - 1 /\ (Busy => i # hole)

\* The loop's variables: erasing the last element leaves the hole at n.
Hand ==
    /\ ~Busy => victim = Nil
    /\ Busy => /\ e \in Timer
               /\ hole < a
               /\ victim = Nil => pc = "up"
               /\ hole = n <=> victim = e

\* Slots and timers know each other, except for the timers in hand.
SlotsKnown == \A i \in Nat : Full(i) => p[i] \in Timer /\ idx[p[i]] = i
HandOut == Busy => \A i \in Nat : Full(i) => p[i] # e /\ p[i] # victim
TimersKnown ==
    \A t \in Timer : idx[t] # -1 =>
        \/ Full(idx[t]) /\ p[idx[t]] = t
        \/ Busy /\ (t = e \/ t = victim)

\* The order of the pairs that do not touch the hole.
OrderAround ==
    \A i \in Nat : i > 0 /\ Full(i) /\ Full(Parent(i)) =>
        timeout[p[Parent(i)]] <= timeout[p[i]]

\* The order across the hole.
OrderAcross ==
    Busy /\ hole > 0 => \A c \in Nat : c > 0 /\ Full(c) /\ Parent(c) = hole =>
        timeout[p[Parent(hole)]] <= timeout[p[c]]

\* Going up, the element in hand fits above the hole's children.
FitsAbove ==
    pc = "up" => \A c \in Nat : c > 0 /\ Full(c) /\ Parent(c) = hole =>
        timeout[e] <= timeout[p[c]]

\* A hole behind the last slot stays there.
LastStays ==
    Busy /\ hole = n /\ hole > 0 => timeout[p[Parent(hole)]] <= timeout[e]

Known == SlotsKnown /\ HandOut /\ TimersKnown
Order == OrderAround /\ OrderAcross /\ FitsAbove /\ LastStays
IInv == HeapTypeOK /\ Hand /\ Known /\ Order

--------------------------------------------------------------------------------
\* The children of q are 2q + 1 and 2q + 2.
LEMMA ParentFacts ==
    \A i \in Nat : i > 0 =>
        /\ Parent(i) \in Nat /\ Parent(i) < i
        /\ i = 2 * Parent(i) + 1 \/ i = 2 * Parent(i) + 2
BY DEF Parent

LEMMA InitInv == HeapInit => IInv
<1> SUFFICES ASSUME HeapInit PROVE IInv
  OBVIOUS
<1> USE MinHeapAssumption DEF HeapInit
<1>1. HeapTypeOK
  BY DEF HeapTypeOK
<1>2. Hand /\ HandOut /\ OrderAcross /\ FitsAbove /\ LastStays
  BY DEF Hand, HandOut, OrderAcross, FitsAbove, LastStays, Busy
<1>3. SlotsKnown /\ TimersKnown /\ OrderAround
  BY DEF SlotsKnown, TimersKnown, OrderAround, Full
<1>4. QED
  BY <1>1, <1>2, <1>3 DEF IInv, Known, Order

\* A push opens a hole behind the last slot; nothing else moves.
LEMMA PushStep ==
    ASSUME IInv, NEW t \in Timer, NEW tv \in 0 .. MaxTime, min_heap_push(t, tv)
    PROVE  IInv'
<1> USE MinHeapAssumption DEF min_heap_push
<1>1. HeapTypeOK /\ Hand /\ SlotsKnown /\ HandOut /\ TimersKnown /\ OrderAround
  BY DEF IInv, Known, Order
<1>2. reserved \in Nat /\ reserved >= n + 1 /\ reserved >= a
  BY <1>1 DEF reserved, HeapTypeOK
<1>3. HeapTypeOK'
  BY <1>1, <1>2 DEF HeapTypeOK
<1>4. ~Busy /\ Busy' /\ hole' = n /\ n' = n + 1 /\ e' = t /\ victim' = victim
  BY DEF Busy
<1>5. ASSUME NEW i \in Nat, Full(i)'
      PROVE  Full(i) /\ p'[i] = p[i] /\ p[i] \in Timer /\ p[i] # t
             /\ timeout'[p[i]] = timeout[p[i]]
  <2>1. i \in 0 .. n - 1
    BY <1>4, <1>5, <1>1 DEF Full, HeapTypeOK
  <2>2. Full(i)
    BY <1>4, <2>1 DEF Full
  <2>3. p'[i] = p[i]
    BY <1>1, <1>2, <2>1 DEF HeapTypeOK
  <2>4. p[i] \in Timer /\ idx[p[i]] = i
    BY <2>2, <1>1 DEF SlotsKnown
  <2>5. p[i] # t
    BY <2>4
  <2>6. QED
    BY <1>1, <2>2, <2>3, <2>4, <2>5 DEF HeapTypeOK
<1>6. Hand'
  BY <1>1, <1>2, <1>4 DEF Hand, HeapTypeOK, Busy
<1>7. SlotsKnown' /\ HandOut'
  <2>1. victim' = Nil /\ idx' = idx
    BY <1>1, <1>4 DEF Hand
  <2>2. \A i \in Nat : Full(i) => idx[p[i]] = i
    BY <1>1 DEF SlotsKnown
  <2>3. SlotsKnown'
    BY <2>1, <2>2, <1>5 DEF SlotsKnown
  <2>4. HandOut'
    <3> SUFFICES ASSUME NEW i \in Nat, Full(i)'
                 PROVE  p'[i] # e' /\ p'[i] # victim'
      BY DEF HandOut
    <3>1. p'[i] \in Timer /\ p'[i] # t
      BY <1>5
    <3>2. QED
      BY <3>1, <2>1, <1>4
  <2>5. QED
    BY <2>3, <2>4
<1>8. TimersKnown'
  <2> SUFFICES ASSUME NEW u \in Timer, idx[u] # -1
               PROVE  (Full(idx[u]) /\ p[idx[u]] = u)'
    BY <1>4 DEF TimersKnown
  <2>1. Full(idx[u]) /\ p[idx[u]] = u
    BY <1>1, <1>4 DEF TimersKnown
  <2>2. PICK i \in Nat : i = idx[u]
    BY <2>1 DEF Full
  <2>3. Full(i)'
    BY <2>1, <2>2, <1>1, <1>4 DEF Full, HeapTypeOK
  <2>4. p'[i] = u
    BY <2>1, <2>2, <2>3, <1>5
  <2>5. idx'[u] = i
    BY <2>2
  <2>6. QED
    BY <2>3, <2>4, <2>5 DEF Full
<1>9. OrderAround'
  <2> SUFFICES ASSUME NEW i \in Nat, i > 0, Full(i)', Full(Parent(i))'
               PROVE  timeout'[p'[Parent(i)]] <= timeout'[p'[i]]
    BY DEF OrderAround, Parent
  <2>1. PICK j \in Nat : j = Parent(i)
    BY ParentFacts
  <2>2. timeout[p[j]] <= timeout[p[i]]
    BY <1>1, <1>5, <2>1 DEF OrderAround
  <2>3. QED
    BY <1>5, <2>1, <2>2
<1>10. OrderAcross' /\ FitsAbove' /\ LastStays'
  BY <1>1, <1>3, <1>4, ParentFacts
     DEF OrderAcross, FitsAbove, LastStays, Full, HeapTypeOK
<1>11. QED
  BY <1>3, <1>6, <1>7, <1>8, <1>9, <1>10 DEF IInv, Known, Order

\* A push that fails changes a timer outside the heap.
LEMMA FailStep ==
    ASSUME IInv, NEW t \in Timer, NEW tv \in 0 .. MaxTime, PushFails(t, tv)
    PROVE  IInv'
<1> USE MinHeapAssumption DEF PushFails, heapVars, loopVars
<1>1. HeapTypeOK /\ Hand /\ SlotsKnown /\ TimersKnown /\ OrderAround /\ ~Busy
  BY DEF IInv, Known, Order, Busy
<1>2. HeapTypeOK' /\ Hand' /\ ~Busy'
  BY <1>1 DEF HeapTypeOK, Hand, Busy
<1>3. \A i \in Nat : Full(i)' <=> Full(i)
  BY <1>1, <1>2 DEF Full
<1>4. SlotsKnown' /\ TimersKnown' /\ HandOut'
  BY <1>1, <1>2, <1>3 DEF SlotsKnown, TimersKnown, HandOut, Full
<1>5. \A i \in Nat : Full(i) => timeout'[p[i]] = timeout[p[i]]
  BY <1>1 DEF SlotsKnown, HeapTypeOK
<1>6. OrderAround'
  BY <1>1, <1>3, <1>5, ParentFacts DEF OrderAround
<1>7. OrderAcross' /\ FitsAbove' /\ LastStays'
  BY <1>2 DEF OrderAcross, FitsAbove, LastStays, Busy
<1>8. QED
  BY <1>2, <1>4, <1>6, <1>7 DEF IInv, Known, Order

\* All timers of the heap age alike, so their order stays.
LEMMA UpdateStep ==
    ASSUME IInv, NEW d \in 1 .. MaxTime, timer_update(d)
    PROVE  IInv'
<1> USE MinHeapAssumption DEF timer_update, heapVars, loopVars
<1>1. HeapTypeOK /\ Hand /\ SlotsKnown /\ TimersKnown /\ OrderAround /\ ~Busy
  BY DEF IInv, Known, Order, Busy
<1>2. HeapTypeOK' /\ Hand' /\ ~Busy'
  BY <1>1 DEF HeapTypeOK, Hand, Busy
<1>3. \A i \in Nat : Full(i)' <=> Full(i)
  BY <1>1, <1>2 DEF Full
<1>4. SlotsKnown' /\ TimersKnown' /\ HandOut'
  BY <1>1, <1>2, <1>3 DEF SlotsKnown, TimersKnown, HandOut, Full
<1>5. \A i \in Nat : Full(i) => /\ p[i] \in Timer
                               /\ timeout'[p[i]] = timeout[p[i]] - d
  BY <1>1 DEF SlotsKnown, HeapTypeOK, Heap, Full
<1>6. OrderAround'
  BY <1>1, <1>3, <1>5, ParentFacts DEF OrderAround, HeapTypeOK
<1>7. OrderAcross' /\ FitsAbove' /\ LastStays'
  BY <1>2 DEF OrderAcross, FitsAbove, LastStays, Busy
<1>8. QED
  BY <1>2, <1>4, <1>6, <1>7 DEF IInv, Known, Order

\* An erase opens a hole in the slot of its timer and takes the last element.
LEMMA EraseStep ==
    ASSUME IInv, NEW t \in Timer, min_heap_erase(t)
    PROVE  IInv'
<1> USE MinHeapAssumption DEF min_heap_erase
<1>1. HeapTypeOK /\ Hand /\ SlotsKnown /\ TimersKnown /\ OrderAround /\ ~Busy
  BY DEF IInv, Known, Order, Busy
<1>2. Full(idx[t]) /\ p[idx[t]] = t /\ idx[t] \in 0 .. n - 1
  BY <1>1 DEF TimersKnown, Full
<1>3. n > 0 /\ p[n - 1] \in Timer /\ idx[p[n - 1]] = n - 1
  <2>1. n > 0 /\ Full(n - 1)
    BY <1>1, <1>2 DEF Full, HeapTypeOK
  <2>2. QED
    BY <2>1, <1>1 DEF SlotsKnown, HeapTypeOK
<1>4. HeapTypeOK'
  BY <1>1, <1>2, <1>3 DEF HeapTypeOK
<1>5. Busy' /\ hole' = idx[t] /\ n' = n - 1 /\ e' = p[n - 1] /\ victim' = t
  BY DEF Busy
<1>6. Hand'
  BY <1>1, <1>2, <1>3, <1>4, <1>5 DEF Hand, HeapTypeOK
<1>7. ASSUME NEW i \in Nat, Full(i)'
      PROVE  Full(i) /\ p[i] \in Timer /\ idx[p[i]] = i /\ i # n - 1 /\ i # idx[t]
  BY <1>1, <1>3, <1>5, <1>7 DEF Full, SlotsKnown, HeapTypeOK
<1>8. SlotsKnown' /\ HandOut'
  BY <1>2, <1>3, <1>5, <1>7 DEF SlotsKnown, HandOut
<1>9. TimersKnown'
  <2> SUFFICES ASSUME NEW u \in Timer, idx[u] # -1, u # t, u # p[n - 1]
               PROVE  Full(idx[u])' /\ p[idx[u]] = u
    BY <1>5 DEF TimersKnown
  <2>1. Full(idx[u]) /\ p[idx[u]] = u
    BY <1>1 DEF TimersKnown
  <2>2. idx[u] # n - 1 /\ idx[u] # idx[t]
    BY <2>1, <1>2
  <2>3. QED
    BY <2>1, <2>2, <1>1, <1>5 DEF Full, HeapTypeOK
<1>10. OrderAround'
  BY <1>1, <1>7, ParentFacts DEF OrderAround
<1>11. OrderAcross'
  <2> SUFFICES ASSUME hole' > 0, NEW c \in Nat, c > 0, Full(c)', Parent(c) = hole'
               PROVE  timeout[p[Parent(hole')]] <= timeout[p[c]]
    BY DEF OrderAcross
  <2>1. Full(hole') /\ Full(c) /\ hole' \in Nat
    BY <1>2, <1>5, <1>7
  <2>2. Full(Parent(hole')) /\ Parent(hole') \in Nat
    BY <2>1, <1>1, ParentFacts DEF Full, HeapTypeOK
  <2>3. timeout[p[hole']] <= timeout[p[c]]
    BY <2>1, <1>1 DEF OrderAround
  <2>4. timeout[p[Parent(hole')]] <= timeout[p[hole']]
    BY <2>1, <2>2, <1>1 DEF OrderAround
  <2>5. p[c] \in Timer /\ p[hole'] \in Timer /\ p[Parent(hole')] \in Timer
    BY <2>1, <2>2, <1>1 DEF SlotsKnown
  <2>6. QED
    BY <2>3, <2>4, <2>5, <1>1 DEF HeapTypeOK
<1>12. FitsAbove'
  BY DEF FitsAbove
<1>13. LastStays'
  <2> SUFFICES ASSUME hole' = n - 1, hole' > 0
               PROVE  timeout[p[Parent(hole')]] <= timeout[p[n - 1]]
    BY <1>5 DEF LastStays
  <2>1. Full(n - 1) /\ n - 1 \in Nat /\ n - 1 > 0
    BY <1>1, <1>2, <1>5 DEF Full, HeapTypeOK
  <2>2. Full(Parent(n - 1))
    BY <2>1, <1>1, ParentFacts DEF Full, HeapTypeOK
  <2>3. QED
    BY <2>1, <2>2, <1>1 DEF OrderAround
<1>14. QED
  BY <1>4, <1>6, <1>8, <1>9, <1>10, <1>11, <1>12, <1>13 DEF IInv, Known, Order

\* At the end of a loop the hole is filled and the hands are empty.
LEMMA UpDoneStep ==
    ASSUME IInv, UpDone
    PROVE  IInv'
<1> USE MinHeapAssumption DEF UpDone
<1>1. HeapTypeOK /\ Hand /\ SlotsKnown /\ HandOut /\ TimersKnown /\ OrderAround
      /\ OrderAcross /\ FitsAbove /\ LastStays /\ Busy
  BY DEF IInv, Known, Order, Busy
<1>2. /\ e \in Timer /\ hole \in 0 .. a - 1 /\ hole \in 0 .. n
      /\ hole = n <=> victim = e
  BY <1>1 DEF Hand, HeapTypeOK
<1>3. p' = [p EXCEPT ![hole] = e] /\ p'[hole] = e
  BY <1>1, <1>2 DEF HeapTypeOK
<1>4. ~Busy' /\ n' = n /\ victim' = Nil
  BY DEF Busy
<1>5. HeapTypeOK' /\ Hand'
  BY <1>1, <1>2, <1>3, <1>4 DEF HeapTypeOK, Hand
<1>6. ASSUME NEW i \in Nat, Full(i)'
      PROVE  \/ i # hole /\ Full(i) /\ p'[i] = p[i]
             \/ i = hole /\ hole < n /\ p'[i] = e /\ victim # e
  BY <1>1, <1>2, <1>3, <1>4, <1>6 DEF Full, HeapTypeOK
<1>7. ASSUME NEW i \in Nat, Full(i)'
      PROVE  p'[i] \in Timer /\ idx'[p'[i]] = i /\ timeout'[p'[i]] = timeout[p'[i]]
  <2>1. CASE i # hole /\ Full(i) /\ p'[i] = p[i]
    <3>1. p[i] \in Timer /\ idx[p[i]] = i /\ p[i] # e /\ p[i] # victim
      BY <2>1, <1>1 DEF SlotsKnown, HandOut
    <3>2. QED
      BY <3>1, <2>1
  <2>2. CASE i = hole /\ hole < n /\ p'[i] = e /\ victim # e
    BY <2>2, <1>2
  <2>3. QED
    BY <2>1, <2>2, <1>6, <1>7
<1>8. SlotsKnown'
  BY <1>7 DEF SlotsKnown
<1>9. HandOut' /\ OrderAcross' /\ FitsAbove' /\ LastStays'
  BY <1>4 DEF HandOut, OrderAcross, FitsAbove, LastStays, Busy
<1>10. TimersKnown'
  <2> SUFFICES ASSUME NEW u \in Timer, idx'[u] # -1
               PROVE  (Full(idx[u]) /\ p[idx[u]] = u)'
    BY DEF TimersKnown
  <2>1. u # victim
    OBVIOUS
  <2>2. CASE u = e
    <3>1. idx'[u] = hole /\ hole # n /\ hole < n
      BY <2>1, <2>2, <1>1, <1>2 DEF HeapTypeOK
    <3>2. PICK i \in Nat : i = hole
      BY <1>2
    <3>3. Full(i)' /\ p'[i] = u /\ idx'[u] = i
      BY <3>1, <3>2, <2>2, <1>1, <1>3, <1>4 DEF Full, HeapTypeOK
    <3>4. QED
      BY <3>3 DEF Full
  <2>3. CASE u # e
    <3>1. idx'[u] = idx[u] /\ idx[u] # -1
      BY <2>1, <2>3
    <3>2. Full(idx[u]) /\ p[idx[u]] = u
      BY <3>1, <2>1, <2>3, <1>1 DEF TimersKnown
    <3>3. PICK i \in Nat : i = idx[u]
      BY <3>2 DEF Full
    <3>4. i # hole /\ Full(i)' /\ p'[i] = u
      BY <3>2, <3>3, <1>1, <1>3, <1>4 DEF Full, HeapTypeOK
    <3>5. QED
      BY <3>1, <3>3, <3>4 DEF Full
  <2>4. QED
    BY <2>2, <2>3
<1>11. OrderAround'
  <2> SUFFICES ASSUME NEW i \in Nat, i > 0, Full(i)', Full(Parent(i))'
               PROVE  timeout[p'[Parent(i)]] <= timeout[p'[i]]
    BY <1>7, ParentFacts DEF OrderAround
  <2>1. Parent(i) \in Nat /\ Parent(i) < i
    BY ParentFacts
  <2>2. CASE i # hole /\ Parent(i) # hole
    <3>1. Full(i) /\ Full(Parent(i)) /\ p'[i] = p[i] /\ p'[Parent(i)] = p[Parent(i)]
      BY <1>6, <2>1, <2>2
    <3>2. QED
      BY <3>1, <1>1 DEF OrderAround
  <2>3. CASE i = hole
    <3>1. Full(Parent(i)) /\ p'[Parent(i)] = p[Parent(i)] /\ p'[i] = e
      BY <1>6, <2>1, <2>3
    <3>2. p[Parent(i)] \in Timer
      BY <3>1, <2>1, <1>1 DEF SlotsKnown
    <3>3. ~(timeout[p[Parent(i)]] > timeout[e])
      BY <2>3 DEF UpMoves, min_heap_elem_greater
    <3>4. QED
      BY <3>1, <3>2, <3>3, <1>1, <1>2 DEF HeapTypeOK
  <2>4. CASE Parent(i) = hole
    <3>1. Full(i) /\ p'[i] = p[i] /\ p'[Parent(i)] = e
      BY <1>6, <2>1, <2>4
    <3>2. QED
      BY <3>1, <2>4, <1>1 DEF FitsAbove
  <2>5. QED
    BY <2>2, <2>3, <2>4
<1>12. QED
  BY <1>5, <1>8, <1>9, <1>10, <1>11 DEF IInv, Known, Order

\* When shift_down_ stops, the element in hand fits above the hole's children.
LEMMA DownDoneStep ==
    ASSUME IInv, DownDone
    PROVE  IInv'
<1> USE MinHeapAssumption DEF DownDone, heapVars
<1>1. HeapTypeOK /\ Hand /\ Known /\ OrderAround /\ OrderAcross /\ LastStays
      /\ Busy /\ Busy'
  BY DEF IInv, Order, Busy
<1>2. HeapTypeOK' /\ Hand'
  BY <1>1 DEF HeapTypeOK, Hand
<1>3. \A i \in Nat : Full(i)' <=> Full(i)
  BY <1>1 DEF Full
<1>4. SlotsKnown' /\ HandOut'
  BY <1>1, <1>3 DEF Known, SlotsKnown, HandOut
<1>5. TimersKnown'
  BY <1>1, <1>3 DEF Known, TimersKnown, Full
<1>6. OrderAround'
  BY <1>1, <1>3, ParentFacts DEF OrderAround
<1>7. OrderAcross' /\ LastStays'
  BY <1>1, <1>3 DEF OrderAcross, LastStays
<1>8. FitsAbove'
  <2> SUFFICES ASSUME NEW c \in Nat, c > 0, Full(c), Parent(c) = hole
               PROVE  timeout[e] <= timeout[p[c]]
    BY <1>3 DEF FitsAbove
  <2>0. c = 2 * hole + 1 \/ c = 2 * hole + 2
    BY ParentFacts
  <2>1. hole \in Nat /\ n \in Nat /\ c < n /\ (c = 2 * hole + 1 \/ c = 2 * hole + 2)
    BY <2>0, <1>1 DEF HeapTypeOK, Full
  <2>2. HasChild
    BY <2>1 DEF HasChild
  <2>3. ~(timeout[e] > timeout[p[MinChild]])
    BY <2>2 DEF DownMoves, min_heap_elem_greater
  <2>4. p[c] \in Timer /\ e \in Timer
    BY <1>1 DEF Known, SlotsKnown, Hand
  <2>5. timeout[p[MinChild]] <= timeout[p[c]] /\ p[MinChild] \in Timer
    <3>1. CASE 2 * (hole + 1) = n
      <4>1. MinChild = c
        BY <3>1, <2>1 DEF MinChild
      <4>2. QED
        BY <4>1, <2>4, <1>1 DEF HeapTypeOK
    <3>2. CASE 2 * (hole + 1) # n
      <4>1. PICK r \in Nat : r = 2 * (hole + 1) /\ r < n /\ r - 1 \in Nat
        BY <3>2, <2>1
      <4>2. Full(r) /\ Full(r - 1)
        BY <4>1, <2>1 DEF Full
      <4>3. p[r] \in Timer /\ p[r - 1] \in Timer
        BY <4>1, <4>2, <1>1 DEF Known, SlotsKnown
      <4>4. c = r \/ c = r - 1
        BY <4>1, <2>1
      <4>5. timeout[p[r]] \in Int /\ timeout[p[r - 1]] \in Int
        BY <4>3, <1>1 DEF HeapTypeOK
      <4>6. MinChild = IF timeout[p[r]] > timeout[p[r - 1]] THEN r - 1 ELSE r
        BY <4>1, <3>2 DEF MinChild, min_heap_elem_greater
      <4>7. QED
        BY <4>3, <4>4, <4>5, <4>6
    <3>3. QED
      BY <3>1, <3>2
  <2>6. QED
    BY <2>3, <2>4, <2>5, <1>1 DEF HeapTypeOK
<1>9. QED
  BY <1>2, <1>4, <1>5, <1>6, <1>7, <1>8 DEF IInv, Known, Order

--------------------------------------------------------------------------------
\* What a move of the hole to a slot m does, in either loop.
Move(m) ==
    /\ Full(m) /\ Busy /\ hole < n
    /\ Fill(m)
    /\ UNCHANGED <<n, a, timeout, pc, e, victim>>

LEMMA MoveSlots ==
    ASSUME HeapTypeOK, Hand, SlotsKnown, NEW m \in Nat, Move(m)
    PROVE  /\ Busy' /\ hole' = m /\ m # hole /\ hole \in Nat
           /\ p[m] \in Timer /\ idx[p[m]] = m
           /\ \A i \in Nat : Full(i)' <=> i = hole \/ (Full(i) /\ i # m)
           /\ p'[hole] = p[m] /\ \A i \in Nat : Full(i) => p'[i] = p[i]
<1> USE DEF Move, Fill
<1>1. Busy' /\ hole' = m /\ m # hole /\ hole \in 0 .. n - 1 /\ hole \in 0 .. a - 1
  BY DEF Busy, Full, HeapTypeOK, Hand
<1>2. p[m] \in Timer /\ idx[p[m]] = m
  BY DEF SlotsKnown
<1>3. \A i \in Nat : Full(i)' <=> i = hole \/ (Full(i) /\ i # m)
  BY <1>1 DEF Full
<1>4. p'[hole] = p[m]
  BY <1>1 DEF HeapTypeOK
<1>5. ASSUME NEW i \in Nat, Full(i)
      PROVE  p'[i] = p[i]
  BY <1>1, <1>5 DEF HeapTypeOK, Full
<1>6. QED
  BY <1>1, <1>2, <1>3, <1>4, <1>5

LEMMA MoveKnown ==
    ASSUME HeapTypeOK, Hand, Known, NEW m \in Nat, Move(m)
    PROVE  HeapTypeOK' /\ Hand' /\ Known'
<1>1. SlotsKnown /\ HandOut /\ TimersKnown
  BY DEF Known
<1>2. /\ Busy /\ Busy' /\ hole' = m /\ m # hole /\ hole \in Nat
      /\ p[m] \in Timer /\ idx[p[m]] = m
  BY <1>1, MoveSlots DEF Move
<1>3. \A i \in Nat : Full(i)' <=> i = hole \/ (Full(i) /\ i # m)
  BY <1>1, MoveSlots
<1>4. p'[hole] = p[m] /\ \A i \in Nat : Full(i) => p'[i] = p[i]
  BY <1>1, MoveSlots
<1>5. /\ idx' = [idx EXCEPT ![p[m]] = hole]
      /\ idx'[p[m]] = hole
      /\ \A t \in Timer : t # p[m] => idx'[t] = idx[t]
  BY <1>2 DEF Move, Fill, HeapTypeOK
<1>6. HeapTypeOK'
  BY <1>2, <1>5, MinHeapAssumption DEF HeapTypeOK, Move, Fill, Full, Busy
<1>7. Hand'
  <2>1. m < n /\ m < a /\ victim # e
    BY <1>2 DEF Hand, Move, Full, HeapTypeOK
  <2>2. /\ e' = e /\ victim' = victim /\ n' = n /\ a' = a /\ pc' = pc
        /\ e \in Timer /\ (victim = Nil => pc = "up") /\ m # n
    BY <2>1, <1>2 DEF Hand, Move, HeapTypeOK
  <2>3. QED
    BY <2>1, <2>2, <1>2 DEF Hand
<1>8. SlotsKnown'
  <2> SUFFICES ASSUME NEW i \in Nat, Full(i)'
               PROVE  p'[i] \in Timer /\ idx'[p'[i]] = i
    BY DEF SlotsKnown
  <2>1. CASE i = hole
    BY <2>1, <1>2, <1>4, <1>5
  <2>2. CASE i # hole
    <3>1. Full(i) /\ i # m /\ p'[i] = p[i]
      BY <2>2, <1>3, <1>4
    <3>2. p[i] \in Timer /\ idx[p[i]] = i
      BY <3>1, <1>1 DEF SlotsKnown
    <3>3. QED
      BY <3>1, <3>2, <1>2, <1>5
  <2>3. QED
    BY <2>1, <2>2
<1>9. HandOut'
  <2> SUFFICES ASSUME NEW i \in Nat, Full(i)'
               PROVE  p'[i] # e' /\ p'[i] # victim'
    BY DEF HandOut
  <2>1. e' = e /\ victim' = victim /\ Full(m)
    BY DEF Move
  <2>2. \A j \in Nat : Full(j) => p[j] # e /\ p[j] # victim
    BY <1>1, <1>2 DEF HandOut
  <2>3. QED
    BY <2>1, <2>2, <1>3, <1>4
<1>10. TimersKnown'
  <2> SUFFICES ASSUME NEW u \in Timer, idx'[u] # -1, u # e, u # victim
               PROVE  (Full(idx[u]) /\ p[idx[u]] = u)'
    BY <1>2 DEF TimersKnown, Move
  <2>1. PICK i \in Nat : i = idx'[u] /\ Full(i)' /\ p'[i] = u
    <3>1. CASE u = p[m]
      BY <3>1, <1>2, <1>3, <1>4, <1>5
    <3>2. CASE u # p[m]
      <4>1. idx'[u] = idx[u] /\ Full(idx[u]) /\ p[idx[u]] = u
        BY <3>2, <1>1, <1>5 DEF TimersKnown
      <4>2. idx[u] \in Nat /\ idx[u] # m
        BY <4>1, <3>2 DEF Full
      <4>3. QED
        BY <4>1, <4>2, <1>3, <1>4
    <3>3. QED
      BY <3>1, <3>2
  <2>2. QED
    BY <2>1 DEF Full
<1>11. QED
  BY <1>6, <1>7, <1>8, <1>9, <1>10 DEF Known

\* The hole moves up: everything below its old place is at least what moved.
LEMMA ShiftUpStep ==
    ASSUME IInv, shift_up
    PROVE  IInv'
<1>1. HeapTypeOK /\ Hand /\ Known /\ SlotsKnown /\ OrderAround /\ OrderAcross
      /\ LastStays /\ Busy
  BY DEF IInv, Known, Order, Busy, shift_up
<1>2. /\ hole \in Nat /\ hole > 0 /\ n \in Nat /\ hole <= n /\ e \in Timer
      /\ Parent(hole) \in Nat /\ Parent(hole) < hole
  BY <1>1, ParentFacts DEF shift_up, UpMoves, HeapTypeOK, Hand
<1>3. timeout[p[Parent(hole)]] > timeout[e]
  BY DEF shift_up, UpMoves, min_heap_elem_greater
<1>4. PICK m \in Nat : m = Parent(hole)
  BY <1>2
<1>5. Full(m) /\ p[m] \in Timer
  BY <1>1, <1>2, <1>4 DEF Full, SlotsKnown
<1>6. \A t \in Timer : timeout[t] \in Int
  BY <1>1 DEF HeapTypeOK
<1>7. hole < n
  BY <1>1, <1>2, <1>3, <1>4, <1>5, <1>6 DEF LastStays
<1>8. Move(m)
  BY <1>1, <1>4, <1>5, <1>7 DEF Move, shift_up
<1>9. HeapTypeOK' /\ Hand' /\ Known'
  BY <1>1, <1>8, MoveKnown
<1>10. /\ hole' = m /\ m # hole /\ p'[hole] = p[m]
       /\ \A i \in Nat : Full(i)' <=> i = hole \/ (Full(i) /\ i # m)
       /\ \A i \in Nat : Full(i) => p'[i] = p[i] /\ p[i] \in Timer
  BY <1>1, <1>8, MoveSlots DEF SlotsKnown
<1>11. n' = n /\ timeout' = timeout /\ e' = e /\ ~Full(hole)
  BY <1>1 DEF shift_up, Full
<1>12. OrderAround'
  <2> SUFFICES ASSUME NEW i \in Nat, i > 0, Full(i)', Full(Parent(i))'
               PROVE  timeout[p'[Parent(i)]] <= timeout[p'[i]]
    BY <1>11 DEF OrderAround
  <2>1. Parent(i) \in Nat
    BY ParentFacts
  <2>2. CASE Parent(i) = hole
    BY <2>1, <2>2, <1>1, <1>2, <1>4, <1>10, ParentFacts DEF OrderAcross
  <2>3. CASE Parent(i) # hole
    <3>1. i # hole
      BY <2>1, <1>4, <1>10
    <3>2. QED
      BY <2>1, <2>3, <3>1, <1>1, <1>10 DEF OrderAround
  <2>4. QED
    BY <2>2, <2>3
<1>13. ASSUME NEW c \in Nat, c > 0, Full(c)', Parent(c) = m
       PROVE  p'[c] \in Timer /\ timeout[p[m]] <= timeout[p'[c]]
  <2>1. CASE c = hole
    BY <2>1, <1>5, <1>6, <1>10
  <2>2. CASE c # hole
    BY <2>2, <1>1, <1>5, <1>10, <1>13 DEF OrderAround
  <2>3. QED
    BY <2>1, <2>2
<1>14. FitsAbove'
  <2> SUFFICES ASSUME NEW c \in Nat, c > 0, Full(c)', Parent(c) = m
               PROVE  timeout[e] <= timeout[p'[c]]
    BY <1>10, <1>11 DEF FitsAbove
  <2>1. QED
    BY <1>2, <1>3, <1>4, <1>5, <1>6, <1>13
<1>15. OrderAcross'
  <2> SUFFICES ASSUME m > 0, NEW c \in Nat, c > 0, Full(c)', Parent(c) = m
               PROVE  timeout[p'[Parent(m)]] <= timeout[p'[c]]
    BY <1>10, <1>11 DEF OrderAcross
  <2>1. PICK g \in Nat : g = Parent(m) /\ g < m
    BY ParentFacts
  <2>2. Full(g)
    BY <2>1, <1>2, <1>4, <1>5 DEF Full
  <2>3. timeout[p[g]] <= timeout[p[m]] /\ p[g] \in Timer /\ p'[g] = p[g]
    BY <2>1, <2>2, <1>1, <1>5, <1>10 DEF OrderAround
  <2>4. QED
    BY <2>1, <2>3, <1>5, <1>6, <1>13
<1>16. LastStays'
  BY <1>2, <1>4, <1>10, <1>11 DEF LastStays
<1>17. QED
  BY <1>9, <1>12, <1>14, <1>15, <1>16 DEF IInv, Order

\* The hole moves down to its smaller child.
LEMMA ShiftDownStep ==
    ASSUME IInv, shift_down
    PROVE  IInv'
<1>1. HeapTypeOK /\ Hand /\ Known /\ SlotsKnown /\ OrderAround /\ OrderAcross /\ Busy
  BY DEF IInv, Known, Order, Busy, shift_down
<1>2. \A t \in Timer : timeout[t] \in Int
  BY <1>1 DEF HeapTypeOK
<1>3. hole \in Nat /\ n \in Nat /\ 2 * (hole + 1) <= n /\ hole < n
  BY <1>1 DEF shift_down, DownMoves, HasChild, HeapTypeOK
<1>4. PICK r \in Nat : r = 2 * (hole + 1)
  BY <1>3
<1>5. PICK m \in Nat : m = MinChild
  BY <1>3, <1>4 DEF MinChild
<1>6. m = r \/ m = r - 1
  BY <1>4, <1>5 DEF MinChild
<1>7. r = n => m = r - 1
  BY <1>4, <1>5 DEF MinChild
<1>8. /\ Full(m) /\ p[m] \in Timer /\ m > 0 /\ Parent(m) = hole /\ r - 1 \in Nat
      /\ Full(r - 1) /\ p[r - 1] \in Timer
  <2>1. Full(r - 1) /\ r - 1 \in Nat /\ m > 0
    BY <1>3, <1>4, <1>6 DEF Full
  <2>2. Full(m)
    BY <1>3, <1>4, <1>6, <1>7 DEF Full
  <2>3. Parent(m) = hole
    BY <1>3, <1>4, <1>6 DEF Parent
  <2>4. QED
    BY <2>1, <2>2, <2>3, <1>1 DEF SlotsKnown
<1>9. ASSUME NEW c \in Nat, c > 0, Full(c), Parent(c) = hole
      PROVE  timeout[p[m]] <= timeout[p[c]]
  <2>1. c = r \/ c = r - 1
    BY <1>4, <1>9, <1>3, ParentFacts
  <2>2. p[c] \in Timer /\ c < n
    BY <1>1, <1>3, <1>9 DEF SlotsKnown, Full
  <2>3. CASE r = n
    BY <2>1, <2>2, <2>3, <1>2, <1>7, <1>8
  <2>4. CASE r # n
    <3>1. Full(r) /\ p[r] \in Timer
      BY <2>4, <1>1, <1>3, <1>4 DEF Full, SlotsKnown
    <3>2. m = IF timeout[p[r]] > timeout[p[r - 1]] THEN r - 1 ELSE r
      BY <2>4, <1>4, <1>5 DEF MinChild, min_heap_elem_greater
    <3>3. timeout[p[r]] \in Int /\ timeout[p[r - 1]] \in Int
      BY <3>1, <1>2, <1>8
    <3>4. QED
      BY <3>2, <3>3, <2>1
  <2>5. QED
    BY <2>3, <2>4
<1>10. Move(m)
  BY <1>1, <1>3, <1>5, <1>8 DEF Move, shift_down
<1>11. HeapTypeOK' /\ Hand' /\ Known'
  BY <1>1, <1>10, MoveKnown
<1>12. /\ hole' = m /\ m # hole /\ p'[hole] = p[m]
       /\ \A i \in Nat : Full(i)' <=> i = hole \/ (Full(i) /\ i # m)
       /\ \A i \in Nat : Full(i) => p'[i] = p[i] /\ p[i] \in Timer
  BY <1>1, <1>10, MoveSlots DEF SlotsKnown
<1>13. n' = n /\ timeout' = timeout /\ pc' = "down" /\ ~Full(hole)
  BY <1>1 DEF shift_down, Full
<1>14. OrderAround'
  <2> SUFFICES ASSUME NEW i \in Nat, i > 0, Full(i)', Full(Parent(i))'
               PROVE  timeout[p'[Parent(i)]] <= timeout[p'[i]]
    BY <1>13 DEF OrderAround
  <2>1. Parent(i) \in Nat /\ Parent(i) # i
    BY ParentFacts
  <2>2. CASE Parent(i) = hole
    BY <2>1, <2>2, <1>9, <1>12
  <2>3. CASE i = hole
    <3>1. Full(Parent(hole)) /\ p'[Parent(hole)] = p[Parent(hole)]
      BY <2>1, <2>3, <1>12
    <3>2. timeout[p[Parent(hole)]] <= timeout[p[m]]
      BY <2>3, <1>1, <1>8 DEF OrderAcross
    <3>3. QED
      BY <3>1, <3>2, <2>3, <1>12
  <2>4. CASE Parent(i) # hole /\ i # hole
    BY <2>1, <2>4, <1>1, <1>12 DEF OrderAround
  <2>5. QED
    BY <2>2, <2>3, <2>4
<1>15. OrderAcross'
  <2> SUFFICES ASSUME NEW c \in Nat, c > 0, Full(c)', Parent(c) = m
               PROVE  timeout[p'[Parent(m)]] <= timeout[p'[c]]
    BY <1>12, <1>13 DEF OrderAcross
  <2>1. c # hole
    BY <1>3, <1>8, ParentFacts
  <2>2. Full(c) /\ p'[c] = p[c]
    BY <2>1, <1>12
  <2>3. timeout[p[m]] <= timeout[p[c]]
    BY <2>2, <1>1, <1>8 DEF OrderAround
  <2>4. QED
    BY <2>2, <2>3, <1>8, <1>12
<1>16. FitsAbove' /\ LastStays'
  <2>1. m < n
    BY <1>3, <1>8 DEF Full
  <2>2. QED
    BY <2>1, <1>3, <1>12, <1>13 DEF FitsAbove, LastStays
<1>17. QED
  BY <1>11, <1>14, <1>15, <1>16 DEF IInv, Order

--------------------------------------------------------------------------------
LEMMA InvStep == IInv /\ [HeapNext]_minHeapVars => IInv'
<1> SUFFICES ASSUME IInv, [HeapNext]_minHeapVars PROVE IInv'
  OBVIOUS
<1>1. CASE UNCHANGED minHeapVars
  BY <1>1 DEF minHeapVars, heapVars, loopVars, IInv, HeapTypeOK, Hand, Known, Order, SlotsKnown,
              HandOut, TimersKnown, OrderAround, OrderAcross, FitsAbove, LastStays,
              Full, Busy
<1>2. QED
  BY <1>1, PushStep, FailStep, EraseStep, ShiftDownStep, DownDoneStep, ShiftUpStep,
     UpDoneStep, UpdateStep DEF HeapNext

LEMMA InvAlways == HeapSpec => []IInv
BY InitInv, InvStep, PTL DEF HeapSpec

(* The array bounds, the slots and the loop variables of min_heap.c stay   *)
(* in their types: no write outside the allocated array.                   *)
THEOREM TypeCorrect == HeapSpec => []HeapTypeOK
<1>1. IInv => HeapTypeOK
  BY DEF IInv
<1>2. QED
  BY <1>1, InvAlways, PTL

(* After every push and erase of any timer, parents are at most their      *)
(* children, for heaps of any size.                                        *)
THEOREM HeapOrderCorrect == HeapSpec => []HeapOrder
<1>1. IInv => HeapOrder
  <2> SUFFICES ASSUME IInv, ~Busy, NEW i \in 1 .. n - 1
               PROVE  ~(timeout[p[Parent(i)]] > timeout[p[i]])
    BY DEF HeapOrder, min_heap_elem_greater, Busy
  <2>1. HeapTypeOK /\ SlotsKnown /\ OrderAround
    BY DEF IInv, Known, Order
  <2>2. i \in Nat /\ i > 0 /\ Parent(i) \in Nat /\ Parent(i) < i /\ i < n
    BY <2>1, ParentFacts DEF HeapTypeOK
  <2>3. Full(i) /\ Full(Parent(i))
    BY <2>1, <2>2 DEF Full, HeapTypeOK
  <2>4. timeout[p[Parent(i)]] <= timeout[p[i]]
    BY <2>1, <2>2, <2>3 DEF OrderAround
  <2>5. p[i] \in Timer /\ p[Parent(i)] \in Timer
    BY <2>1, <2>2, <2>3 DEF SlotsKnown
  <2>6. QED
    BY <2>1, <2>4, <2>5 DEF HeapTypeOK
<1>2. QED
  BY <1>1, InvAlways, PTL

(* The slot each timer of the heap remembers is the slot it is in, and a   *)
(* timer outside remembers none.                                           *)
THEOREM BackPointersCorrect == HeapSpec => []BackPointers
<1>1. IInv => BackPointers
  <2> SUFFICES ASSUME IInv, ~Busy
               PROVE  BackPointers
    BY DEF BackPointers, Busy
  <2>1. n \in Nat /\ SlotsKnown /\ TimersKnown
    BY DEF IInv, Known, HeapTypeOK
  <2>2. \A i \in 0 .. n - 1 : Full(i) /\ i \in Nat
    BY <2>1 DEF Full
  <2>3. \A i \in 0 .. n - 1 : p[i] \in Timer /\ idx[p[i]] = i
    BY <2>2, <2>1 DEF SlotsKnown
  <2>4. \A t \in Timer : idx[t] # -1 => idx[t] \in 0 .. n - 1 /\ p[idx[t]] = t
    BY <2>1 DEF TimersKnown, Full
  <2>5. QED
    BY <2>3, <2>4 DEF BackPointers
<1>2. QED
  BY <1>1, InvAlways, PTL

(* The heap is ordered and its timers know their slots, for any number of  *)
(* timers and any times.                                                   *)
THEOREM HeapCorrect == HeapSpec => []HeapSound
BY TypeCorrect, HeapOrderCorrect, BackPointersCorrect, PTL DEF HeapSound

--------------------------------------------------------------------------------
\* The timers that wait are those that know a slot, and the one in hand, but
\* for the one that is being erased.
WaitingKnown ==
    /\ ~Busy => Waiting = {t \in Timer : idx[t] # -1}
    /\ Busy => Waiting = ({t \in Timer : idx[t] # -1} \cup {e}) \ {victim}
    /\ Waiting \subseteq Timer

LEMMA WaitingIs == IInv => WaitingKnown
<1> SUFFICES ASSUME IInv PROVE WaitingKnown
  OBVIOUS
<1>1. HeapTypeOK /\ Hand /\ SlotsKnown /\ HandOut /\ TimersKnown
  BY DEF IInv, Known
<1>2. {p[i] : i \in {j \in 0 .. n - 1 : pc = "idle" \/ j # hole}} = {p[i] : i \in {j \in Nat : Full(j)}}
  BY <1>1 DEF Full, Busy, HeapTypeOK
<1>3. \A i \in Nat : Full(i) => p[i] \in Timer /\ idx[p[i]] # -1 /\ (Busy => p[i] # e /\ p[i] # victim)
  BY <1>1 DEF SlotsKnown, HandOut
<1>4. \A t \in Timer : idx[t] # -1 =>
          (\E i \in Nat : Full(i) /\ t = p[i]) \/ (Busy /\ (t = e \/ t = victim))
  <2> SUFFICES ASSUME NEW t \in Timer, Full(idx[t]), p[idx[t]] = t
               PROVE  \E i \in Nat : Full(i) /\ t = p[i]
    BY <1>1 DEF TimersKnown
  <2>1. idx[t] \in Nat
    BY DEF Full
  <2>2. QED
    BY <2>1
<1>5. CASE ~Busy
  <2>1. Waiting = {p[i] : i \in {j \in Nat : Full(j)}}
    BY <1>2, <1>5 DEF Waiting, Busy
  <2>2. QED
    BY <2>1, <1>3, <1>4, <1>5 DEF WaitingKnown
<1>6. CASE Busy
  <2>1. Waiting = {p[i] : i \in {j \in Nat : Full(j)}} \cup IF e = victim THEN {} ELSE {e}
    BY <1>2, <1>6 DEF Waiting, Busy
  <2>2. e \in Timer
    BY <1>1, <1>6 DEF Hand
  <2>3. QED
    BY <2>1, <2>2, <1>3, <1>4, <1>6 DEF WaitingKnown
<1>7. QED
  BY <1>5, <1>6

LEMMA WaitingWas == IInv' => WaitingKnown'
  BY WaitingIs, PTL

\* What the queue is for the heap.
Left == [t \in Waiting |-> timeout[t]]

LEMMA SameQueue ==
    ASSUME Waiting' = Waiting, \A t \in Waiting : timeout'[t] = timeout[t]
    PROVE  Left' = Left
BY DEF Left

LEMMA PushAdds ==
    ASSUME IInv, IInv', NEW t \in Timer, NEW tv \in 0 .. MaxTime, min_heap_push(t, tv)
    PROVE  Queue!Add(t, tv)
<1>1. ~Busy /\ Busy' /\ idx[t] = -1 /\ idx' = idx /\ e' = t /\ victim' = Nil
  BY DEF min_heap_push, Busy, IInv, Hand
<1>2. Waiting' = Waiting \cup {t} /\ t \notin Waiting /\ Waiting \subseteq Timer
  BY <1>1, WaitingIs, WaitingWas, MinHeapAssumption DEF WaitingKnown
<1>3. timeout' = [timeout EXCEPT ![t] = tv] /\ timeout \in [Timer -> Int]
  BY DEF min_heap_push, IInv, HeapTypeOK
<1>4. Left' = [u \in Waiting \cup {t} |-> IF u = t THEN tv ELSE Left[u]]
  BY <1>2, <1>3 DEF Left
<1>5. QED
  BY <1>2, <1>4 DEF Queue!Add, Queue!waiting, Left

LEMMA EraseRemoves ==
    ASSUME IInv, IInv', NEW t \in Timer, min_heap_erase(t)
    PROVE  Queue!Remove(t)
<1>1. HeapTypeOK /\ SlotsKnown /\ TimersKnown
  BY DEF IInv, Known
<1>2. ~Busy /\ Busy' /\ idx[t] # -1 /\ idx' = idx /\ e' = p[n - 1] /\ victim' = t /\ timeout' = timeout
  BY DEF min_heap_erase, Busy
<1>3. n > 0 /\ n \in Nat
  BY <1>1, <1>2 DEF TimersKnown, Full, HeapTypeOK
<1>4. p[n - 1] \in Timer /\ idx[p[n - 1]] # -1
  BY <1>1, <1>2, <1>3 DEF SlotsKnown, Full
<1>5. Waiting' = Waiting \ {t} /\ t \in Waiting
  BY <1>2, <1>4, WaitingIs, WaitingWas DEF WaitingKnown
<1>6. Left' = [u \in Waiting \ {t} |-> Left[u]]
  BY <1>2, <1>5 DEF Left
<1>7. QED
  BY <1>5, <1>6 DEF Queue!Remove, Queue!waiting, Left

LEMMA UpdateAges ==
    ASSUME IInv, IInv', NEW d \in 1 .. MaxTime, timer_update(d)
    PROVE  Queue!Age(d)
<1>1. ~Busy /\ ~Busy' /\ idx' = idx
  BY DEF timer_update, Busy, heapVars, loopVars
<1>2. Waiting' = Waiting /\ Waiting \subseteq Timer
  BY <1>1, WaitingIs, WaitingWas DEF WaitingKnown
<1>3. Waiting = Heap
  BY <1>1 DEF Waiting, Heap, Busy
<1>4. Left' = [u \in Waiting |-> Left[u] - d]
  BY <1>2, <1>3 DEF Left, timer_update
<1>5. QED
  BY <1>4 DEF Queue!Age, Queue!waiting, Left

\* The loops move the hole, and the queue does not see it.
LEMMA LoopsStutter ==
    ASSUME IInv, IInv', shift_down \/ DownDone \/ shift_up \/ UpDone
    PROVE  Left' = Left
<1>1. HeapTypeOK /\ Hand /\ Known /\ Busy
  BY DEF IInv, shift_down, DownDone, shift_up, UpDone, Busy
<1>2. e \in Timer /\ hole \in Nat
  BY <1>1 DEF Hand, HeapTypeOK
<1>3. CASE shift_down \/ shift_up
  <2>1. PICK m \in Int : Fill(m) /\ Full(m)
    <3>1. CASE shift_down
      <4>1. MinChild \in Int /\ Full(MinChild) /\ Fill(MinChild)
        <5>1. n \in Nat /\ 2 * (hole + 1) <= n /\ hole \in Nat
          BY <1>1, <1>2, <3>1 DEF shift_down, DownMoves, HasChild, HeapTypeOK
        <5>2. MinChild \in {2 * (hole + 1), 2 * (hole + 1) - 1} /\ (MinChild = 2 * (hole + 1) => MinChild # n)
          BY <5>1 DEF MinChild
        <5>3. QED
          BY <3>1, <5>1, <5>2 DEF shift_down, Full
      <4>2. QED
        BY <4>1
    <3>2. CASE shift_up
      <4>1. Parent(hole) \in Nat /\ Parent(hole) < hole /\ Fill(Parent(hole))
        BY <1>2, <3>2, ParentFacts DEF shift_up, UpMoves
      <4>2. hole <= n /\ n \in Nat
        BY <1>1 DEF HeapTypeOK
      <4>3. QED
        BY <4>1, <4>2, <1>2 DEF Full
    <3>3. QED
      BY <1>3, <3>1, <3>2
  <2>2. p[m] \in Timer /\ idx[p[m]] = m /\ m \in Nat
    BY <1>1, <2>1 DEF Known, SlotsKnown, Full
  <2>3. idx' = [idx EXCEPT ![p[m]] = hole] /\ idx \in [Timer -> Int]
    BY <1>1, <2>1 DEF Fill, HeapTypeOK
  <2>4. {t \in Timer : idx'[t] # -1} = {t \in Timer : idx[t] # -1}
    BY <1>2, <2>2, <2>3
  <2>5. Busy' /\ e' = e /\ victim' = victim /\ timeout' = timeout
    BY <1>1, <1>3 DEF shift_down, shift_up, Busy
  <2>6. QED
    BY <1>1, <2>4, <2>5, WaitingIs, WaitingWas, SameQueue DEF WaitingKnown
<1>4. CASE DownDone
  <2>1. Busy' /\ UNCHANGED <<idx, timeout, e, victim>>
    BY <1>4 DEF DownDone, Busy
  <2>2. QED
    BY <1>1, <2>1, WaitingIs, WaitingWas, SameQueue DEF WaitingKnown
<1>5. CASE UpDone
  <2>1. ~Busy' /\ idx' = [t \in Timer |-> IF t = victim THEN -1 ELSE IF t = e THEN hole ELSE idx[t]]
        /\ timeout' = [t \in Timer |-> IF t = victim THEN 0 ELSE timeout[t]]
    BY <1>5 DEF UpDone, Busy
  <2>2. {t \in Timer : idx'[t] # -1} = ({t \in Timer : idx[t] # -1} \cup {e}) \ {victim}
    BY <1>2, <2>1
  <2>3. Waiting' = Waiting /\ victim \notin Waiting /\ Waiting \subseteq Timer
    BY <1>1, <2>1, <2>2, WaitingIs, WaitingWas DEF WaitingKnown
  <2>4. QED
    BY <2>1, <2>3, SameQueue
<1>6. QED
  BY <1>3, <1>4, <1>5

LEMMA QueueStep ==
    ASSUME IInv, IInv', [HeapNext]_minHeapVars
    PROVE  [Queue!Next]_Left
<1>1. CASE UNCHANGED minHeapVars
  BY <1>1, SameQueue DEF minHeapVars, heapVars, loopVars, Waiting
<1>2. ASSUME NEW t \in Timer, NEW tv \in 0 .. MaxTime, min_heap_push(t, tv)
      PROVE  Queue!Next
  BY <1>2, PushAdds DEF Queue!Next
<1>3. ASSUME NEW t \in Timer, NEW tv \in 0 .. MaxTime, PushFails(t, tv)
      PROVE  Left' = Left
  <2>1. /\ UNCHANGED <<p, n, idx, pc, hole, e, victim>> /\ ~Busy /\ idx[t] = -1
        /\ timeout' = [timeout EXCEPT ![t] = tv] /\ timeout \in [Timer -> Int]
    BY <1>3 DEF PushFails, heapVars, loopVars, Busy, IInv, HeapTypeOK
  <2>2. Waiting' = Waiting /\ t \notin Waiting /\ Waiting \subseteq Timer
    BY <2>1, WaitingIs DEF Waiting, WaitingKnown
  <2>3. QED
    BY <2>1, <2>2, SameQueue
<1>4. ASSUME NEW t \in Timer, min_heap_erase(t)
      PROVE  Queue!Next
  BY <1>4, EraseRemoves DEF Queue!Next
<1>5. ASSUME NEW d \in 1 .. MaxTime, timer_update(d)
      PROVE  Queue!Next
  BY <1>5, UpdateAges, MinHeapAssumption DEF Queue!Next
<1>6. CASE shift_down \/ DownDone \/ shift_up \/ UpDone
  BY <1>6, LoopsStutter
<1>7. QED
  BY <1>1, <1>2, <1>3, <1>4, <1>5, <1>6 DEF HeapNext

--------------------------------------------------------------------------------
\* Induction, as the least element of a set of counterexamples.
LEMMA LeastElement ==
    ASSUME NEW T, T \subseteq Nat, T # {}
    PROVE  \E x \in T : \A y \in T : x <= y
<1>1. IsWellFoundedOn(OpToRel(<, Nat), Nat)
  BY NatLessThanWellFounded
<1>2. PICK x \in T : \A y \in T : ~(<<y, x>> \in OpToRel(<, Nat))
  BY <1>1, WFMin
<1>3. \A y \in T : ~(y < x)
  BY <1>2 DEF OpToRel
<1>4. QED
  BY <1>3

\* In an ordered heap the root is the least: a first slot that held less would
\* hold less than its parent.
LEMMA RootLeast ==
    ASSUME IInv, ~Busy
    PROVE  \A i \in 0 .. n - 1 : timeout[p[0]] <= timeout[p[i]]
<1> DEFINE Less == {i \in 0 .. n - 1 : timeout[p[i]] < timeout[p[0]]}
<1>1. n \in Nat /\ timeout \in [Timer -> Int] /\ SlotsKnown /\ OrderAround
  BY DEF IInv, HeapTypeOK, Known, Order
<1>2. \A i \in 0 .. n - 1 : Full(i) /\ i \in Nat /\ p[i] \in Timer
  BY <1>1 DEF Full, SlotsKnown
<1>3. \A i \in 0 .. n - 1 : timeout[p[i]] \in Int
  BY <1>1, <1>2
<1>4. Less = {}
  <2> SUFFICES ASSUME Less # {} PROVE FALSE
    OBVIOUS
  <2>1. Less \subseteq Nat
    BY <1>1
  <2>2. PICK m \in Less : \A k \in Less : m <= k
    <3> HIDE DEF Less
    <3>1. QED
      BY <2>1, LeastElement
  <2>3. m \in Nat /\ m \in 0 .. n - 1 /\ 0 \in 0 .. n - 1 /\ m > 0
    BY <1>1, <1>3, <2>2
  <2>4. Parent(m) \in Nat /\ Parent(m) < m /\ Parent(m) \in 0 .. n - 1
    BY <1>1, <2>3, ParentFacts
  <2>5. Parent(m) \notin Less
    BY <2>2, <2>3, <2>4
  <2>6. timeout[p[Parent(m)]] <= timeout[p[m]]
    BY <1>1, <1>2, <2>3, <2>4 DEF OrderAround
  <2>7. QED
    BY <1>3, <2>2, <2>3, <2>4, <2>5, <2>6
<1>5. QED
  BY <1>1, <1>3, <1>4

\* So min_heap_top is a timer with the least time left.
LEMMA TopFacts ==
    ASSUME IInv
    PROVE  TopIsMin
<1> SUFFICES ASSUME ~Busy, n > 0 PROVE Queue!IsTop(p[0])
  BY DEF TopIsMin, Busy
<1>1. n \in Nat /\ SlotsKnown
  BY DEF IInv, HeapTypeOK, Known
<1>2. Waiting = {p[i] : i \in 0 .. n - 1}
  BY <1>1 DEF Waiting, Busy
<1>3. p[0] \in Waiting /\ \A u \in Waiting : timeout[p[0]] <= timeout[u]
  BY <1>1, <1>2, RootLeast
<1>4. QED
  BY <1>3 DEF Queue!IsTop, Queue!waiting

(* The heap implements the queue that the timer loop relies on: a push adds *)
(* its timer, an erase removes its timer, aging is seen at once, the        *)
(* iterations of the loops are not seen, and min_heap_top is a timer with   *)
(* the least time left, for heaps of any size.                              *)
THEOREM HeapImplementsQueue == HeapSpec => ImplementsQueue
<1>1. HeapInit => Queue!Init
  BY DEF HeapInit, Queue!Init, Waiting
<1>2. IInv /\ IInv' /\ [HeapNext]_minHeapVars => [Queue!Next]_Left
  BY QueueStep
<1>3. IInv => TopIsMin
  BY TopFacts
<1>4. QED
  BY <1>1, <1>2, <1>3, InvAlways, PTL DEF HeapSpec, ImplementsQueue, Queue!Spec, Left

------------------------------------------------------------------------------
\* The timer loop.

Distinct(s) == \A i, j \in DOMAIN s : s[i] = s[j] => i = j

\* OnePlace, with lists without repetition.
Places ==
    /\ waiting \cup Range(tl) \cup lost = Range(ml)
    /\ waiting \cap Range(tl) = {}
    /\ lost \cap (waiting \cup Range(tl)) = {}
    /\ Distinct(tl) /\ Distinct(ml)

\* The time a timer has left makes up for the time it was not served yet, but
\* for the rounding of its request.
MakesUp(l, s, r) == s = MaxReq \/ l * Res + s + (Res - 1) >= r

LoopInv ==
    /\ TimerTypeOK
    /\ Places
    /\ at \in {"main", "poll"} => tl = <<>>
    /\ \A w \in waiting : MakesUp(left[w], served[w], req[w])
    /\ NeverEarly

LEMMA RangeFacts ==
    ASSUME NEW l \in Seq(Wrapper)
    PROVE  Range(l) \subseteq Wrapper
  <1>1. \A i \in DOMAIN l : l[i] \in Wrapper
    OBVIOUS
  <1>2. QED
    BY <1>1 DEF Range

\* Lists without repetition: an insertion at the head, and a removal of it.
LEMMA InsertFacts ==
    ASSUME NEW l \in Seq(Wrapper), Distinct(l), NEW w \in Wrapper, w \notin Range(l)
    PROVE  /\ <<w>> \o l \in Seq(Wrapper) /\ Distinct(<<w>> \o l)
           /\ Range(<<w>> \o l) = Range(l) \cup {w}
  <1> DEFINE s == <<w>> \o l
  <1>1. /\ s \in Seq(Wrapper) /\ DOMAIN s = 1 .. Len(l) + 1 /\ DOMAIN l = 1 .. Len(l)
        /\ s[1] = w /\ Len(l) \in Nat
        /\ \A i \in 1 .. Len(l) : s[i + 1] = l[i]
    OBVIOUS
  <1>2. \A i \in 1 .. Len(l) + 1 : i = 1 \/ (i - 1 \in 1 .. Len(l) /\ s[i] = l[i - 1])
    BY <1>1
  <1>3. \A i \in 1 .. Len(l) : l[i] # w
    BY <1>1 DEF Range
  <1> HIDE DEF s
  <1>4. Distinct(s)
    <2>1. ASSUME NEW i \in 1 .. Len(l) + 1, NEW j \in 1 .. Len(l) + 1, s[i] = s[j] PROVE i = j
      <3>1. CASE i = 1 /\ j # 1
        BY <1>1, <1>2, <1>3, <2>1, <3>1
      <3>2. CASE i # 1 /\ j = 1
        BY <1>1, <1>2, <1>3, <2>1, <3>2
      <3>3. CASE i # 1 /\ j # 1
        <4>1. i - 1 \in DOMAIN l /\ j - 1 \in DOMAIN l /\ l[i - 1] = l[j - 1]
          BY <1>1, <1>2, <2>1, <3>3
        <4>2. i - 1 = j - 1
          BY <4>1 DEF Distinct
        <4>3. QED
          BY <4>2
      <3>4. QED
        BY <3>1, <3>2, <3>3
    <2>2. QED
      BY <1>1, <2>1 DEF Distinct
  <1>5. Range(s) \subseteq Range(l) \cup {w}
    BY <1>1, <1>2 DEF Range
  <1>6. w \in Range(s)
    BY <1>1 DEF Range
  <1>7. Range(l) \subseteq Range(s)
    <2>1. \A i \in 1 .. Len(l) : i + 1 \in 1 .. Len(l) + 1
      BY <1>1
    <2>2. QED
      BY <1>1, <2>1 DEF Range
  <1>8. QED
    BY <1>1, <1>4, <1>5, <1>6, <1>7 DEF s

LEMMA RemoveHeadFacts ==
    ASSUME NEW l \in Seq(Wrapper), Distinct(l), l # <<>>
    PROVE  /\ Tail(l) \in Seq(Wrapper) /\ Distinct(Tail(l))
           /\ Head(l) \in Range(l) /\ Head(l) \in Wrapper
           /\ Range(Tail(l)) = Range(l) \ {Head(l)}
  <1>1. /\ Tail(l) \in Seq(Wrapper) /\ Len(l) \in Nat
        /\ DOMAIN Tail(l) = 1 .. Len(l) - 1 /\ DOMAIN l = 1 .. Len(l)
        /\ \A i \in 1 .. Len(l) - 1 : Tail(l)[i] = l[i + 1]
        /\ Head(l) = l[1] /\ 1 \in 1 .. Len(l) /\ l[1] \in Wrapper
    OBVIOUS
  <1>2. \A i \in 1 .. Len(l) - 1 : i + 1 \in 1 .. Len(l) /\ i + 1 # 1
    BY <1>1
  <1>3. Distinct(Tail(l))
    BY <1>1, <1>2 DEF Distinct
  <1>4. Range(Tail(l)) \subseteq Range(l) \ {Head(l)}
    BY <1>1, <1>2 DEF Range, Distinct
  <1>5. \A i \in 1 .. Len(l) : i = 1 \/ (i - 1 \in 1 .. Len(l) - 1 /\ Tail(l)[i - 1] = l[i])
    BY <1>1
  <1>6. ASSUME NEW w \in Range(l) \ {Head(l)} PROVE w \in Range(Tail(l))
    <2>1. PICK i \in 1 .. Len(l) : w = l[i]
      BY <1>1, <1>6 DEF Range
    <2>2. i - 1 \in DOMAIN Tail(l) /\ Tail(l)[i - 1] = w
      BY <1>1, <1>5, <1>6, <2>1
    <2>3. QED
      BY <2>2 DEF Range
  <1>7. QED
    BY <1>1, <1>3, <1>4, <1>6 DEF Range

\* A list without repetition is as long as its range is large.
LEMMA LengthFacts ==
    ASSUME NEW l \in Seq(Wrapper), Distinct(l)
    PROVE  Len(l) = Cardinality(Range(l))
  <1>1. Len(l) \in Nat /\ DOMAIN l = 1 .. Len(l)
    OBVIOUS
  <1>2. 1 \in Int /\ Len(l) \in Int
    BY <1>1
  <1>3. IsFiniteSet(1 .. Len(l)) /\ Cardinality(1 .. Len(l)) = Len(l)
    BY <1>1, <1>2, FS_Interval
  <1>4. l \in Surjection(1 .. Len(l), Range(l))
    BY <1>1 DEF Range, Surjection
  <1>5. l \in Injection(1 .. Len(l), Range(l))
    BY <1>1, <1>4 DEF Distinct, Injection, Surjection, IsInjective
  <1>6. Cardinality(Range(l)) = Cardinality(Range(l))
    BY DEF Cardinality, Cardinality
  <1>7. QED
    BY <1>3, <1>4, <1>5, <1>6, FS_Surjection

LEMMA RoundFacts ==
    ASSUME NEW r \in Nat
    PROVE  /\ r \div Res \in Nat /\ (r \div Res) * Res \in Nat
           /\ (r \div Res) * Res <= r /\ r < (r \div Res) * Res + Res
           /\ r % Res \in 0 .. Res - 1
  BY TimerAssumption

\* Serving d nanoseconds, with r for rounding.
LEMMA ServeFacts ==
    ASSUME TimerTypeOK, NEW d \in Nat, NEW r \in Nat, NEW Z,
           Serve(d, r, Z)
    PROVE  /\ served' \in [Wrapper -> 0 .. MaxReq]
           /\ \A w \in Wrapper :
                 /\ w \in Z => served'[w] = 0
                 /\ w \notin Z /\ w \notin waiting => served'[w] = served[w]
                 /\ w \notin Z /\ w \in waiting =>
                        served'[w] = MaxReq \/ served'[w] = served[w] + d + r
  <1>1. /\ served \in [Wrapper -> 0 .. MaxReq] /\ MaxReq \in Nat
        /\ \A w \in Wrapper : served[w] \in Nat
    BY TimerAssumption DEF TimerTypeOK
  <1>2. /\ served' = [w \in Wrapper |-> served'[w]]
        /\ \A w \in Wrapper : served'[w] =
              IF w \in Z THEN 0
              ELSE IF w \notin waiting THEN served[w]
              ELSE IF served[w] + d + r > MaxReq THEN MaxReq
              ELSE served[w] + d + r
    BY DEF Serve
  <1>3. \A w \in Wrapper : served'[w] \in 0 .. MaxReq
    BY <1>1, <1>2
  <1>4. QED
    BY <1>1, <1>2, <1>3

LEMMA ServeOneFacts ==
    ASSUME TimerTypeOK, NEW d \in Nat, NEW w \in Wrapper,
           Serve(d, 0, {w})
    PROVE  /\ served' \in [Wrapper -> 0 .. MaxReq] /\ served'[w] = 0
           /\ \A u \in Wrapper : u # w =>
                 /\ u \notin waiting => served'[u] = served[u]
                 /\ u \in waiting => served'[u] = MaxReq \/ served'[u] = served[u] + d
  <1>1. \A u \in Wrapper : served[u] + d + 0 = served[u] + d
    <2>1. served \in [Wrapper -> 0 .. MaxReq]
      BY DEF TimerTypeOK
    <2>2. \A u \in Wrapper : served[u] \in Int
      BY <2>1
    <2>3. QED
      BY <2>2
  <1>2. 0 \in Nat
    OBVIOUS
  <1>3. /\ served' \in [Wrapper -> 0 .. MaxReq]
        /\ \A u \in Wrapper :
              /\ u \in {w} => served'[u] = 0
              /\ u \notin {w} /\ u \notin waiting => served'[u] = served[u]
              /\ u \notin {w} /\ u \in waiting =>
                     served'[u] = MaxReq \/ served'[u] = served[u] + d + 0
    BY <1>2, ServeFacts
  <1>4. QED
    BY <1>1, <1>3

\* A timer that has k left instead of l, and was served longer by more.
LEMMA MakesUpFacts ==
    ASSUME NEW l \in Int, NEW k \in Int, NEW s \in 0 .. MaxReq,
           NEW t \in 0 .. MaxReq, NEW more \in Nat, NEW r \in Nat,
           MakesUp(l, s, r), l * Res <= k * Res + more, t = MaxReq \/ t = s + more
    PROVE  MakesUp(k, t, r)
  <1>1. PICK m \in Int, ns \in Int : m = l * Res /\ ns = k * Res
    BY TimerAssumption
  <1>2. m <= ns + more
    BY <1>1
  <1>3. Res \in Nat /\ MaxReq \in Nat
    BY TimerAssumption
  <1>4. s = MaxReq \/ m + s + (Res - 1) >= r
    BY <1>1 DEF MakesUp
  <1>5. t = MaxReq \/ ns + t + (Res - 1) >= r
    BY <1>2, <1>3, <1>4
  <1>6. QED
    BY <1>1, <1>5 DEF MakesUp

LEMMA LoopInvSound == LoopInv => OnePlace /\ NeverEarly
  <1> SUFFICES ASSUME LoopInv PROVE OnePlace /\ NeverEarly
    OBVIOUS
  <1>1. /\ TimerTypeOK /\ NeverEarly /\ tl \in Seq(Wrapper) /\ ml \in Seq(Wrapper)
        /\ Places
        /\ at = "main" => tl = <<>>
    BY DEF LoopInv, TimerTypeOK
  <1>2. Places => /\ Len(tl) = Cardinality(Range(tl))
                  /\ Len(ml) = Cardinality(Range(ml))
    BY <1>1, LengthFacts DEF Places
  <1>3. OnePlace
    BY <1>1, <1>2 DEF OnePlace, Places
  <1>4. QED
    BY <1>1, <1>3

LEMMA LoopInit == TimerInit => LoopInv
  <1> SUFFICES ASSUME TimerInit PROVE LoopInv
    OBVIOUS
  <1>1. /\ at = "main" /\ waiting = {} /\ left \in [{} -> Int]
        /\ tl = <<>> /\ ml = <<>> /\ lost = {}
        /\ array = "none" /\ phase = 0 /\ calls = 0 /\ orderly \in BOOLEAN
        /\ kind = [w \in Wrapper |-> "once"] /\ req = [w \in Wrapper |-> 0]
        /\ served = [w \in Wrapper |-> 0]
    BY DEF TimerInit, TimerHeap!Init, waiting, list_new, m_list_new
  <1>2. TimerTypeOK
    BY <1>1, TimerAssumption DEF TimerTypeOK, Kind
  <1>3. Range(<<>>) = {} /\ Distinct(<<>>)
    BY DEF Range, Distinct
  <1>4. Places
    BY <1>1, <1>3 DEF Places
  <1>5. QED
    BY <1>1, <1>2, <1>3, <1>4 DEF LoopInv, NeverEarly

\* The steps that only move on in the loop.
LEMMA MoveOn ==
    ASSUME LoopInv,
           \/ timer_loop \/ Interrupted \/ ExpireDone
           \/ Call \/ RunDone
    PROVE  LoopInv'
  <1>1. /\ left' = left /\ tl' = tl /\ ml' = ml /\ kind' = kind /\ req' = req
        /\ lost' = lost /\ array' = array /\ phase' = phase /\ served' = served
        /\ calls' = calls /\ orderly' = orderly
    BY DEF timer_loop, Interrupted, ExpireDone, Call, RunDone,
           wrapVars
  <1>2. /\ at' \in {"main", "poll", "run", "call"}
        /\ at' \in {"main", "poll"} => tl = <<>>
        /\ at' = "call" => tl # <<>>
    BY DEF timer_loop, Interrupted, ExpireDone, Call, RunDone,
           LoopInv
  <1>3. waiting' = waiting
    BY <1>1 DEF waiting
  <1>4. TimerTypeOK'
    BY <1>1, <1>2, <1>3 DEF LoopInv, TimerTypeOK
  <1>5. Places'
    BY <1>1, <1>2, <1>3 DEF LoopInv, Places
  <1>6. QED
    BY <1>1, <1>2, <1>3, <1>4, <1>5 DEF LoopInv, NeverEarly

\* A timer goes into the heap, or is lost.
LEMMA AddFacts ==
    ASSUME TimerTypeOK, NEW w \in Wrapper, NEW r \in 0 .. MaxReq,
           timer_add(w, r)
    PROVE  /\ lost' \subseteq Wrapper /\ array' \in {"none", "live", "freed"}
           /\ left' \in [waiting' -> Int] /\ waiting' \subseteq Wrapper
           /\ \/ /\ waiting' = waiting \cup {w} /\ lost' = lost
                 /\ left'[w] = r \div Res
              \/ waiting' = waiting /\ lost' = lost \cup {w}
           /\ \A u \in waiting : u # w => left'[u] = left[u]
  <1>1. /\ waiting \subseteq Wrapper /\ left \in [waiting -> Int]
        /\ lost \subseteq Wrapper /\ array \in {"none", "live", "freed"}
        /\ r \in Nat
    BY TimerAssumption DEF TimerTypeOK
  <1>2. r \div Res \in Int
    BY <1>1, RoundFacts
  <1>3. CASE TimerHeap!Add(w, Micros(r)) /\ array' = "live" /\ UNCHANGED lost
    <2>1. left' = [u \in waiting \cup {w} |-> IF u = w THEN r \div Res ELSE left[u]]
      BY <1>3 DEF TimerHeap!Add, TimerHeap!waiting, waiting, Micros
    <2>2. waiting' = waiting \cup {w}
      BY <2>1 DEF waiting
    <2>3. left' \in [waiting' -> Int]
      BY <1>1, <1>2, <2>1, <2>2
    <2>4. QED
      BY <1>1, <1>3, <2>1, <2>2, <2>3
  <1>4. CASE lost' = lost \cup {w} /\ UNCHANGED <<left, array>>
    BY <1>1, <1>4 DEF waiting
  <1>5. QED
    BY <1>3, <1>4 DEF timer_add

\* A timer that is in the heap no longer, or not yet, joins it, while d
\* nanoseconds pass.
LEMMA JoinFacts ==
    ASSUME LoopInv, NEW w \in Wrapper,
           w \notin waiting, w \notin lost, NEW r \in 0 .. MaxReq, NEW d \in Nat,
           timer_add(w, r), Serve(d, 0, {w}),
           req'[w] = r, \A u \in Wrapper : u # w => req'[u] = req[u],
           Range(tl') = Range(tl) \ {w}, Distinct(tl'),
           Range(ml') = Range(ml) \cup {w}, Distinct(ml')
    PROVE  /\ Places'
           /\ \A u \in waiting' : MakesUp(left'[u], served'[u], req'[u])
           /\ NeverEarly'
           /\ served' \in [Wrapper -> 0 .. MaxReq]
  <1>1. TimerTypeOK /\ Places
    BY DEF LoopInv
  <1>2. /\ served' \in [Wrapper -> 0 .. MaxReq] /\ served'[w] = 0
        /\ \A u \in Wrapper : u # w =>
              /\ u \notin waiting => served'[u] = served[u]
              /\ u \in waiting => served'[u] = MaxReq \/ served'[u] = served[u] + d
    BY <1>1, ServeOneFacts
  <1>3. /\ \/ /\ waiting' = waiting \cup {w} /\ lost' = lost
              /\ left'[w] = r \div Res
           \/ waiting' = waiting /\ lost' = lost \cup {w}
        /\ \A u \in waiting : u # w => left'[u] = left[u]
    BY <1>1, AddFacts
  <1>4. Places'
    BY <1>1, <1>3 DEF Places
  <1>5. ASSUME NEW u \in waiting' PROVE MakesUp(left'[u], served'[u], req'[u])
    <2>1. CASE u = w
      <3>1. left'[w] = r \div Res /\ served'[w] = 0 /\ req'[w] = r
        BY <1>2, <1>3, <2>1
      <3>2. PICK q \in Nat, k \in Nat : k = r \div Res /\ q = k * Res /\ q <= r /\ r < q + Res
        <4>1. r \in Nat
          BY TimerAssumption
        <4>2. QED
          BY <4>1, RoundFacts
      <3>3. q + 0 + (Res - 1) >= r
        BY <3>2, TimerAssumption
      <3>4. QED
        BY <2>1, <3>1, <3>2, <3>3 DEF MakesUp
    <2>2. CASE u # w
      <3>1. /\ u \in waiting /\ u \in Wrapper /\ left'[u] = left[u]
            /\ left[u] \in Int /\ served[u] \in Nat /\ req[u] \in Nat
            /\ req'[u] = req[u]
        <4>1. u \in waiting
          BY <1>3, <2>2
        <4>2. /\ left \in [waiting -> Int] /\ waiting \subseteq Wrapper
              /\ served \in [Wrapper -> 0 .. MaxReq] /\ req \in [Wrapper -> 0 .. MaxReq]
          BY <1>1 DEF TimerTypeOK
        <4>3. QED
          BY <1>3, <2>2, <4>1, <4>2
      <3>2. MakesUp(left[u], served[u], req[u])
        BY <3>1 DEF LoopInv
      <3>3. left[u] * Res <= left[u] * Res + d
        BY <3>1, TimerAssumption
      <3>4. /\ served[u] \in 0 .. MaxReq /\ served'[u] \in 0 .. MaxReq
            /\ served'[u] = MaxReq \/ served'[u] = served[u] + d
        BY <1>1, <1>2, <2>2, <3>1 DEF TimerTypeOK
      <3>5. MakesUp(left[u], served'[u], req[u])
        BY <3>1, <3>2, <3>3, <3>4, MakesUpFacts
      <3>6. QED
        BY <3>1, <3>5
    <2>3. QED
      BY <2>1, <2>2
  <1>6. ASSUME NEW u \in Range(tl') PROVE served'[u] + Res - 1 >= req'[u]
    <2>0. Range(tl) \subseteq Wrapper
      BY <1>1, RangeFacts DEF TimerTypeOK
    <2>1. u \in Range(tl) /\ u # w /\ u \notin waiting /\ u \in Wrapper
      BY <1>1, <1>6, <2>0 DEF Places
    <2>2. QED
      BY <1>2, <2>1 DEF LoopInv, NeverEarly
  <1>7. NeverEarly'
    BY <1>6 DEF NeverEarly
  <1>8. QED
    BY <1>2, <1>4, <1>5, <1>7

LEMMA RegisterStep ==
    ASSUME LoopInv, NEW w \in Wrapper, NEW k \in Kind,
           NEW r \in 0 .. MaxReq, Register(w, k, r)
    PROVE  LoopInv'
  <1>1. /\ at \in {"main", "call"} /\ at' = at /\ tl' = tl /\ phase' = phase
        /\ calls \in 0 .. MaxCalls /\ calls < MaxCalls /\ calls' = calls + 1 /\ orderly' = orderly
        /\ kind' = [kind EXCEPT ![w] = k] /\ req' = [req EXCEPT ![w] = r]
        /\ w \notin Range(ml) /\ ml' = <<w>> \o ml
        /\ timer_add(w, r) /\ Serve(0, 0, {w})
    BY DEF Register, timer_set, timer_wrapper_new, m_list_insert,
           LoopInv, TimerTypeOK
  <1>2. TimerTypeOK /\ Places
    BY <1>1 DEF LoopInv
  <1>3. /\ tl \in Seq(Wrapper) /\ ml \in Seq(Wrapper)
        /\ kind \in [Wrapper -> Kind] /\ req \in [Wrapper -> 0 .. MaxReq]
    BY <1>2 DEF TimerTypeOK
  <1>4. /\ ml' \in Seq(Wrapper) /\ Distinct(ml')
        /\ Range(ml') = Range(ml) \cup {w}
    BY <1>1, <1>2, <1>3, InsertFacts DEF Places
  <1>5. /\ w \notin waiting /\ w \notin lost /\ w \notin Range(tl)
    BY <1>1, <1>2 DEF Places
  <1>6. /\ kind' \in [Wrapper -> Kind] /\ req' \in [Wrapper -> 0 .. MaxReq]
        /\ req'[w] = r /\ \A u \in Wrapper : u # w => req'[u] = req[u]
    BY <1>1, <1>3
  <1>7. Range(tl') = Range(tl) \ {w} /\ Distinct(tl')
    BY <1>1, <1>2, <1>5 DEF Places
  <1>8. /\ Places'
        /\ \A u \in waiting' : MakesUp(left'[u], served'[u], req'[u])
        /\ NeverEarly'
        /\ served' \in [Wrapper -> 0 .. MaxReq]
    BY <1>1, <1>2, <1>4, <1>5, <1>6, <1>7, JoinFacts
  <1>9. TimerTypeOK'
    <2>1. calls' \in 0 .. MaxCalls
      BY <1>1, TimerAssumption
    <2>2. QED
      BY <1>1, <1>2, <1>4, <1>6, <1>8, <2>1, AddFacts DEF TimerTypeOK
  <1>10. QED
    BY <1>1, <1>2, <1>8, <1>9 DEF LoopInv

LEMMA MultiStep ==
    ASSUME LoopInv, NEW d \in 0 .. MaxBusy, MultiReturns(d)
    PROVE  LoopInv'
  <1> DEFINE w == Head(tl)
  <1>1. /\ at = "call" /\ at' = "run" /\ tl' = Tail(tl) /\ ml' = ml
        /\ kind' = kind /\ req' = req /\ calls' = calls /\ orderly' = orderly
        /\ timer_add(w, req[w]) /\ Serve(d, 0, {w})
        /\ phase' = (phase + d) % Res
    BY DEF MultiReturns, list_remove, Pass, wrapVars
  <1>2. TimerTypeOK /\ Places /\ tl # <<>>
    BY <1>1 DEF LoopInv, TimerTypeOK
  <1>3. /\ tl \in Seq(Wrapper) /\ req \in [Wrapper -> 0 .. MaxReq] /\ d \in Nat
    BY <1>2, TimerAssumption DEF TimerTypeOK
  <1>4. /\ tl' \in Seq(Wrapper) /\ Distinct(tl') /\ w \in Range(tl) /\ w \in Wrapper
        /\ Range(tl') = Range(tl) \ {w}
    BY <1>1, <1>2, <1>3, RemoveHeadFacts DEF Places
  <1>5. /\ w \notin waiting /\ w \notin lost
        /\ Range(ml') = Range(ml) \cup {w} /\ Distinct(ml')
    BY <1>1, <1>2, <1>4 DEF Places
  <1>6. PICK r \in 0 .. MaxReq : r = req[w]
    BY <1>3, <1>4
  <1> HIDE DEF w
  <1>7. /\ Places'
        /\ \A u \in waiting' : MakesUp(left'[u], served'[u], req'[u])
        /\ NeverEarly'
        /\ served' \in [Wrapper -> 0 .. MaxReq]
    BY <1>1, <1>2, <1>3, <1>4, <1>5, <1>6, JoinFacts
  <1>8. TimerTypeOK'
    <2>1. phase' \in 0 .. Res - 1
      <3>1. phase + d \in Nat
        BY <1>2, <1>3, TimerAssumption DEF TimerTypeOK
      <3>2. QED
        BY <1>1, <3>1, RoundFacts
    <2>2. QED
      BY <1>1, <1>2, <1>4, <1>6, <1>7, <2>1, AddFacts DEF TimerTypeOK
  <1>9. QED
    BY <1>1, <1>7, <1>8 DEF LoopInv

LEMMA OnceStep ==
    ASSUME LoopInv, NEW d \in 0 .. MaxBusy, OnceReturns(d)
    PROVE  LoopInv'
  <1> DEFINE w == Head(tl)
  <1>1. /\ at = "call" /\ left' = left /\ lost' = lost /\ array' = array
        /\ calls' = calls /\ orderly' = orderly /\ phase' = (phase + d) % Res
    BY DEF OnceReturns, Pass
  <1>2. TimerTypeOK /\ Places /\ tl # <<>>
    BY <1>1 DEF LoopInv, TimerTypeOK
  <1>3. /\ tl \in Seq(Wrapper) /\ ml \in Seq(Wrapper) /\ d \in Nat
        /\ kind \in [Wrapper -> Kind] /\ req \in [Wrapper -> 0 .. MaxReq]
        /\ waiting \subseteq Wrapper
    BY <1>2, TimerAssumption DEF TimerTypeOK
  <1>4. /\ Tail(tl) \in Seq(Wrapper) /\ Distinct(Tail(tl)) /\ w \in Range(tl)
        /\ w \in Wrapper /\ Range(Tail(tl)) = Range(tl) \ {w}
    BY <1>2, <1>3, RemoveHeadFacts DEF Places
  <1>5. phase' \in 0 .. Res - 1
    <2>1. phase + d \in Nat
      BY <1>2, <1>3, TimerAssumption DEF TimerTypeOK
    <2>2. QED
      BY <1>1, <2>1, RoundFacts
  <1>6. waiting' = waiting
    BY <1>1 DEF waiting
  <1>7. CASE Removable(ml, w)
    <2>1. /\ ml' = Tail(ml) /\ tl' = Tail(tl) /\ at' = "run"
          /\ timer_wrapper_free({w}) /\ Serve(d, 0, {w})
      BY <1>7 DEF OnceReturns, m_list_remove, list_remove
    <2>2. /\ Head(ml) = w /\ ml # <<>>
      <3>1. Range(ml) # {}
        BY <1>2, <1>4 DEF Places
      <3>2. QED
        BY <1>7, <3>1 DEF Range, Removable
    <2>3. /\ ml' \in Seq(Wrapper) /\ Distinct(ml')
          /\ Range(ml') = Range(ml) \ {w}
      BY <1>2, <1>3, <2>1, <2>2, RemoveHeadFacts DEF Places
    <2>4. /\ kind' \in [Wrapper -> Kind] /\ req' \in [Wrapper -> 0 .. MaxReq]
          /\ \A u \in Wrapper : u # w => req'[u] = req[u]
      BY <1>3, <2>1, TimerAssumption DEF timer_wrapper_free, Kind
    <2>5. /\ served' \in [Wrapper -> 0 .. MaxReq]
          /\ \A u \in Wrapper : u # w =>
                /\ u \notin waiting => served'[u] = served[u]
                /\ u \in waiting => served'[u] = MaxReq \/ served'[u] = served[u] + d
      <3> HIDE DEF w
      <3>1. QED
        BY <1>2, <1>3, <1>4, <2>1, ServeOneFacts
    <2> HIDE DEF w
    <2>6. Places'
      BY <1>1, <1>2, <1>4, <1>6, <2>1, <2>3 DEF Places
    <2>7. ASSUME NEW u \in waiting' PROVE MakesUp(left'[u], served'[u], req'[u])
      <3>0. u \in waiting /\ u \in Wrapper /\ u # w
        BY <1>2, <1>3, <1>4, <1>6 DEF Places
      <3>1. /\ u \in waiting /\ u \in Wrapper /\ u # w /\ left'[u] = left[u]
            /\ left[u] \in Int /\ served[u] \in Nat /\ req[u] \in Nat
            /\ req'[u] = req[u]
        <4>1. left'[u] = left[u] /\ req'[u] = req[u]
          BY <1>1, <2>4, <3>0
        <4>2. left[u] \in Int /\ served[u] \in 0 .. MaxReq
          BY <1>2, <3>0 DEF TimerTypeOK
        <4>3. req[u] \in 0 .. MaxReq
          BY <1>3, <3>0
        <4>4. QED
          BY <3>0, <4>1, <4>2, <4>3
      <3>2. MakesUp(left[u], served[u], req[u])
        BY <3>1 DEF LoopInv
      <3>3. left[u] * Res <= left[u] * Res + d
        BY <1>3, <3>1, TimerAssumption
      <3>4. /\ served[u] \in 0 .. MaxReq /\ served'[u] \in 0 .. MaxReq
            /\ served'[u] = MaxReq \/ served'[u] = served[u] + d
        BY <1>2, <2>5, <3>1 DEF TimerTypeOK
      <3>5. MakesUp(left[u], served'[u], req[u])
        BY <1>3, <3>1, <3>2, <3>3, <3>4, MakesUpFacts
      <3>6. QED
        BY <3>1, <3>5
    <2>8. NeverEarly'
      <3>1. ASSUME NEW u \in Range(tl') PROVE served'[u] + Res - 1 >= req'[u]
        <4>1. /\ u \in Range(tl) /\ u # w /\ u \notin waiting /\ u \in Wrapper
          BY <1>2, <1>3, <1>4, <2>1, <3>1, RangeFacts DEF Places
        <4>2. QED
          BY <2>4, <2>5, <4>1 DEF LoopInv, NeverEarly
      <3>2. QED
        BY <3>1 DEF NeverEarly
    <2>9. TimerTypeOK'
      BY <1>1, <1>2, <1>4, <1>5, <1>6, <2>1, <2>3, <2>4, <2>5 DEF TimerTypeOK
    <2>10. QED
      BY <2>1, <2>6, <2>7, <2>8, <2>9 DEF LoopInv
  <1>8. CASE ~Removable(ml, w)
    <2>1. /\ ml' = ml /\ tl' = tl /\ kind' = kind /\ req' = req /\ served' = served
          /\ at' = "wild"
      BY <1>8 DEF OnceReturns, wrapVars
    <2>2. TimerTypeOK'
      BY <1>1, <1>2, <1>5, <1>6, <2>1 DEF TimerTypeOK
    <2>3. NeverEarly'
      BY <2>1 DEF LoopInv, NeverEarly
    <2>4. Places'
      BY <1>1, <1>2, <1>6, <2>1 DEF Places
    <2>5. QED
      BY <1>1, <1>6, <2>1, <2>2, <2>3, <2>4 DEF LoopInv
  <1>9. QED
    BY <1>7, <1>8

\* A due timer goes from the heap to the list.
LEMMA ExpireStep ==
    ASSUME LoopInv, Expire
    PROVE  LoopInv'
  <1>1. PICK t \in waiting :
          left[t] <= 0 /\ TimerHeap!Remove(t) /\ tl' = <<t>> \o tl
    BY DEF Expire, list_insert
  <1>2. /\ at = "expire" /\ at' = at /\ ml' = ml /\ kind' = kind /\ req' = req
        /\ lost' = lost /\ array' = array /\ phase' = phase /\ served' = served
        /\ calls' = calls /\ orderly' = orderly
    BY DEF Expire, wrapVars
  <1>3. TimerTypeOK /\ Places
    BY <1>2 DEF LoopInv
  <1>4. /\ tl \in Seq(Wrapper) /\ waiting \subseteq Wrapper
        /\ left \in [waiting -> Int] /\ t \in Wrapper
        /\ served[t] \in 0 .. MaxReq /\ req[t] \in 0 .. MaxReq
    BY <1>3 DEF TimerTypeOK
  <1>5. left' = [u \in waiting \ {t} |-> left[u]]
    BY <1>1 DEF TimerHeap!Remove, TimerHeap!waiting, waiting
  <1>6. /\ waiting' = waiting \ {t}
        /\ left' \in [waiting' -> Int]
        /\ \A u \in waiting' : left'[u] = left[u]
    BY <1>4, <1>5 DEF waiting
  <1>7. t \notin Range(tl)
    BY <1>3 DEF Places
  <1>8. /\ tl' \in Seq(Wrapper) /\ Distinct(tl')
        /\ Range(tl') = Range(tl) \cup {t}
    BY <1>1, <1>3, <1>4, <1>7, InsertFacts DEF Places
  <1>9. Places'
    BY <1>1, <1>2, <1>3, <1>6, <1>8 DEF Places
  <1>10. served[t] + Res - 1 >= req[t]
    <2>1. MakesUp(left[t], served[t], req[t])
      BY <1>1 DEF LoopInv
    <2>2. left[t] \in Int /\ left[t] <= 0
      BY <1>1, <1>4
    <2>3. left[t] * Res <= 0 /\ left[t] * Res \in Int
      BY <2>2, TimerAssumption
    <2>4. QED
      BY <1>4, <2>1, <2>3, TimerAssumption DEF MakesUp
  <1>11. NeverEarly'
    BY <1>2, <1>8, <1>10 DEF NeverEarly, LoopInv
  <1>12. TimerTypeOK'
    BY <1>2, <1>3, <1>4, <1>6, <1>8 DEF TimerTypeOK
  <1>13. \A u \in waiting' : MakesUp(left'[u], served'[u], req'[u])
    BY <1>2, <1>6 DEF LoopInv
  <1>14. QED
    BY <1>2, <1>3, <1>9, <1>11, <1>12, <1>13 DEF LoopInv

\* Sleeping: what a timer has left shrinks by no more than it is served.
LEMMA SleepStep ==
    ASSUME LoopInv, NEW d \in 0 .. MaxReq + MaxOver, Sleep(d)
    PROVE  LoopInv'
  <1>1. /\ at = "poll" /\ at' = "expire" /\ tl' = tl /\ ml' = ml /\ kind' = kind
        /\ req' = req /\ lost' = lost /\ array' = array /\ calls' = calls /\ orderly' = orderly
        /\ phase' = (phase + d) % Res
        /\ TimerHeap!Age((phase + d) \div Res) /\ Serve(d, Res - 1, {})
    BY DEF Sleep, Pass, timer_update_all, measured, wrapVars
  <1>2. TimerTypeOK /\ Places /\ tl = <<>>
    BY <1>1 DEF LoopInv
  <1>3. /\ d \in Nat /\ Res - 1 \in Nat /\ Res \in Nat \ {0}
        /\ phase \in 0 .. Res - 1 /\ phase + d \in Nat
        /\ waiting \subseteq Wrapper /\ left \in [waiting -> Int]
    BY <1>2, TimerAssumption DEF TimerTypeOK
  <1>4. PICK m \in Nat, ns \in Nat :
          m = (phase + d) \div Res /\ ns = m * Res /\ ns <= phase + d
    BY <1>3, RoundFacts
  <1>5. phase' \in 0 .. Res - 1
    BY <1>1, <1>3, RoundFacts
  <1>6. /\ left' = [u \in waiting |-> left[u] - m]
        /\ waiting' = waiting
    BY <1>1, <1>4 DEF TimerHeap!Age, TimerHeap!waiting, waiting
  <1>7. left' \in [waiting' -> Int]
    BY <1>3, <1>6
  <1>8. PICK more \in Nat : more = d + (Res - 1)
    BY <1>3
  <1>9. /\ served' \in [Wrapper -> 0 .. MaxReq]
        /\ \A u \in Wrapper :
              /\ u \notin waiting => served'[u] = served[u]
              /\ u \in waiting => served'[u] = MaxReq \/ served'[u] = served[u] + more
    <2>1. \A u \in Wrapper : served[u] \in Nat /\ served[u] + d + (Res - 1) = served[u] + more
      BY <1>2, <1>3, <1>8 DEF TimerTypeOK
    <2>2. QED
      BY <1>1, <1>2, <1>3, <2>1, ServeFacts
  <1>10. ASSUME NEW u \in waiting' PROVE MakesUp(left'[u], served'[u], req'[u])
    <2>1. /\ u \in waiting /\ u \in Wrapper /\ left[u] \in Int
          /\ left'[u] = left[u] - m /\ left[u] - m \in Int
          /\ served[u] \in 0 .. MaxReq /\ served'[u] \in 0 .. MaxReq
          /\ req[u] \in Nat /\ req'[u] = req[u]
      BY <1>1, <1>2, <1>3, <1>6, <1>9 DEF TimerTypeOK
    <2>2. MakesUp(left[u], served[u], req[u])
      BY <2>1 DEF LoopInv
    <2>3. left[u] * Res <= (left[u] - m) * Res + more
      <3>1. PICK past \in Int : past = left[u] * Res
        BY <1>3, <2>1
      <3>2. (left[u] - m) * Res = past - ns
        BY <1>3, <1>4, <2>1, <3>1
      <3>3. past <= past - ns + more
        BY <1>3, <1>4, <1>8, <3>1
      <3>4. QED
        BY <3>1, <3>2, <3>3
    <2>4. MakesUp(left[u] - m, served'[u], req[u])
      BY <1>9, <2>1, <2>2, <2>3, MakesUpFacts
    <2>5. QED
      BY <2>1, <2>4
  <1>11. TimerTypeOK'
    BY <1>1, <1>2, <1>3, <1>5, <1>6, <1>7, <1>9 DEF TimerTypeOK
  <1>12. Places'
    BY <1>1, <1>2, <1>6 DEF Places
  <1>13. NeverEarly'
    BY <1>1, <1>2 DEF NeverEarly, Range
  <1>14. QED
    BY <1>1, <1>10, <1>11, <1>12, <1>13 DEF LoopInv

\* Freeing everything.
LEMMA FreeStep ==
    ASSUME LoopInv, timer_destory \/ timer_init
    PROVE  LoopInv'
  <1>1. PICK next \in {"none", "live", "freed"} : at = "main" /\ FreeAll(next)
    BY DEF timer_destory, timer_init, LoopInv, TimerTypeOK
  <1>2. /\ at' \in {"main", "doublefree"} /\ array' = next
        /\ left' = [w \in {} |-> 0] /\ tl' = <<>> /\ ml' = <<>> /\ lost' = {}
        /\ phase' = phase /\ calls' = calls /\ orderly' = orderly
        /\ timer_wrapper_free(Wrapper) /\ Serve(0, 0, Wrapper)
    BY <1>1 DEF FreeAll, list_new, m_list_new
  <1>3. TimerTypeOK
    BY DEF LoopInv
  <1>4. waiting' = {} /\ left' \in [{} -> Int]
    BY <1>2 DEF waiting
  <1>5. kind' \in [Wrapper -> Kind] /\ req' \in [Wrapper -> 0 .. MaxReq]
    BY <1>2, <1>3, TimerAssumption DEF timer_wrapper_free, TimerTypeOK, Kind
  <1>6. served' \in [Wrapper -> 0 .. MaxReq]
    BY <1>2, <1>3, ServeFacts
  <1>7. TimerTypeOK'
    BY <1>1, <1>2, <1>3, <1>4, <1>5, <1>6 DEF TimerTypeOK
  <1>8. Range(<<>>) = {} /\ Distinct(<<>>)
    BY DEF Range, Distinct
  <1>9. Places'
    BY <1>2, <1>4, <1>8 DEF Places
  <1>10. QED
    BY <1>2, <1>4, <1>7, <1>8, <1>9 DEF LoopInv, NeverEarly

LEMMA LoopStepLemma ==
    ASSUME LoopInv, [TimerNext]_timerVars
    PROVE  LoopInv'
  <1>1. CASE \E w \in Wrapper, k \in Kind, r \in 0 .. MaxReq : Register(w, k, r)
    BY <1>1, RegisterStep
  <1>2. CASE \/ timer_loop \/ Interrupted \/ ExpireDone
             \/ Call \/ RunDone
    BY <1>2, MoveOn
  <1>3. CASE \E d \in 0 .. MaxReq + MaxOver : Sleep(d)
    BY <1>3, SleepStep
  <1>4. CASE Expire
    BY <1>4, ExpireStep
  <1>5. CASE \E d \in 0 .. MaxBusy : MultiReturns(d) \/ OnceReturns(d)
    BY <1>5, MultiStep, OnceStep
  <1>6. CASE timer_destory \/ timer_init
    BY <1>6, FreeStep
  <1>7. CASE UNCHANGED timerVars
    <2>1. waiting' = waiting
      BY <1>7 DEF timerVars, waiting
    <2>2. /\ TimerTypeOK' /\ Places' = Places /\ NeverEarly' = NeverEarly
      BY <1>7, <2>1 DEF timerVars, wrapVars, LoopInv, TimerTypeOK, Places,
             NeverEarly
    <2>3. QED
      BY <1>7, <2>1, <2>2 DEF timerVars, wrapVars, LoopInv
  <1>8. QED
    BY <1>1, <1>2, <1>3, <1>4, <1>5, <1>6, <1>7 DEF TimerNext, LoopStep

\* Every wrapper in ml waits in the heap, is activated or was lost, exactly
\* one of these, and no freed wrapper is left in either, for every number of
\* wrappers and whatever the callbacks register.
THEOREM TimersHaveOnePlace == TimerSpec => []OnePlace
  <1>1. TimerInit => LoopInv
    BY LoopInit
  <1>2. LoopInv /\ [TimerNext]_timerVars => LoopInv'
    BY LoopStepLemma
  <1>3. LoopInv => OnePlace
    BY LoopInvSound
  <1>4. QED
    BY <1>1, <1>2, <1>3, PTL DEF TimerSpec

\* No timer is activated early, but for the rounding of the request and of
\* each clock reading, whatever the clock's resolution is.
THEOREM TimersNeverEarly == TimerSpec => []NeverEarly
  <1>1. TimerInit => LoopInv
    BY LoopInit
  <1>2. LoopInv /\ [TimerNext]_timerVars => LoopInv'
    BY LoopStepLemma
  <1>3. LoopInv => NeverEarly
    BY LoopInvSound
  <1>4. QED
    BY <1>1, <1>2, <1>3, PTL DEF TimerSpec
=============================================================================
