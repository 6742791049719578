--------------------------- MODULE EventLoop_proofs ---------------------------
(***************************************************************************)
(* Proofs about cs/my_event: that the event loop keeps its queues, its     *)
(* counts and epoll's table consistent, and that it loses no signal beyond *)
(* those of one known window, for every set of descriptors and any number  *)
(* of signals.                                                             *)
(***************************************************************************)
EXTENDS EventLoop, FiniteSetTheorems, SequenceTheorems, WellFoundedInduction, TLAPS

------------------------------------------------------------------------------
\* The inductive invariant.

\* No event is on the active queue twice, and the counts are what
\* event_queue_insert and event_queue_remove make of them.
Queues ==
    /\ IsInjective(activeQ)
    /\ IsFiniteSet(inserted)
    /\ event_count_active = Len(activeQ)
    /\ event_count = Cardinality(inserted) + Len(activeQ)
    /\ Active \subseteq inserted

\* The loop activates only after the result of epoll_wait is there, and calls
\* only after all of it is handled.
Phases ==
    /\ result \in [DOMAIN result -> SUBSET Dir]
    /\ pc \in {"main", "wait", "check", "sigread"} => activeQ = <<>>
    /\ pc \in {"main", "wait", "active", "call"} => result = NoResult

\* The event of the socket pair comes with the signal event, and only a signal
\* that has its event is caught.
PairAdded ==
    /\ Sig \in inserted <=> PairEv \in inserted
    /\ evsigcaught > 0 => Sig \in inserted

\* A signal event on the active queue has calls to make; an event whose
\* callback runs is off the queue.
Calls ==
    /\ Sig \in Active => ncalls > 0
    /\ left > 0 => pc = "call" /\ cur = Sig
    /\ pc = "call" => cur \notin Active

\* There is a byte to read whenever the socket pair was reported or its event
\* activated.
PairBytes ==
    /\ Pair \in DOMAIN result => bytes > 0
    /\ PairEv \in Active => bytes > 0

------------------------------------------------------------------------------
\* Queues as sequences without repetition: what taking out one element (TAILQ_-
\* REMOVE), taking the first and appending do to them.
LEMMA RemoveFacts ==
    ASSUME NEW S, NEW q \in Seq(S), IsInjective(q), NEW e
    PROVE  LET r == RemoveFirst(q, e)
           IN  /\ r \in Seq(S) /\ IsInjective(r)
               /\ ToSet(r) = ToSet(q) \ {e}
               /\ Len(r) = Len(q) - (IF e \in ToSet(q) THEN 1 ELSE 0)
  <1>1. CASE e \notin ToSet(q)
    <2>1. RemoveFirst(q, e) = q
      BY <1>1 DEF RemoveFirst, ToSet
    <2>2. QED
      BY <1>1, <2>1
  <1>2. CASE e \in ToSet(q)
    <2>1. PICK p \in 1 .. Len(q) : q[p] = e
      BY <1>2 DEF ToSet
    <2> DEFINE r == RemoveAt(q, p)
    <2>2. {i \in 1 .. Len(q) : q[i] = e} = {p}
      BY <2>1 DEF IsInjective
    <2>3. SelectInSeq(q, LAMBDA v : v = e) = p
      BY <2>2 DEF SelectInSeq, Min
    <2>4. RemoveFirst(q, e) = RemoveAt(q, p)
      BY <2>1, <2>3 DEF RemoveFirst
    <2>5. /\ r \in Seq(S) /\ Len(r) = Len(q) - 1
          /\ \A i \in 1 .. Len(q) - 1 : r[i] = IF i < p THEN q[i] ELSE q[i + 1]
      <3> DEFINE lo == SubSeq(q, 1, p - 1)
                 hi == SubSeq(q, p + 1, Len(q))
      <3>1. /\ lo \in Seq(S) /\ Len(lo) = p - 1
            /\ \A i \in 1 .. p - 1 : lo[i] = q[i]
        BY <2>1
      <3>2. /\ hi \in Seq(S) /\ Len(hi) = Len(q) - p
            /\ \A i \in 1 .. Len(q) - p : hi[i] = q[p + i]
        BY <2>1
      <3>3. r = lo \o hi
        BY DEF RemoveAt
      <3> HIDE DEF lo, hi, r
      <3>4. r \in Seq(S) /\ Len(r) = Len(q) - 1
        BY <3>1, <3>2, <3>3, <2>1
      <3>5. ASSUME NEW i \in 1 .. Len(q) - 1
            PROVE  r[i] = IF i < p THEN q[i] ELSE q[i + 1]
        <4>1. CASE i < p
          BY <4>1, <3>1, <3>2, <3>3, <2>1
        <4>2. CASE i >= p
          <5>1. i - Len(lo) \in 1 .. Len(hi)
            BY <4>2, <3>1, <3>2, <2>1
          <5>2. \A j \in 1 .. Len(lo) + Len(hi) :
                    (lo \o hi)[j] = IF j <= Len(lo) THEN lo[j] ELSE hi[j - Len(lo)]
            BY <3>1, <3>2, ConcatProperties
          <5>3. ~ i <= Len(lo) /\ i \in 1 .. Len(lo) + Len(hi)
            BY <4>2, <3>1, <3>2, <2>1
          <5>4. r[i] = hi[i - Len(lo)]
            BY <5>2, <5>3, <3>3
          <5>5. hi[i - Len(lo)] = q[p + (i - Len(lo))]
            BY <5>1, <3>2
          <5>6. p + (i - Len(lo)) = i + 1
            BY <3>1, <2>1
          <5>7. QED
            BY <4>2, <2>1, <5>4, <5>5, <5>6
        <4>3. QED
          BY <4>1, <4>2, <2>1
      <3>6. QED
        BY <3>4, <3>5
    <2> HIDE DEF r
    <2>6. DOMAIN r = 1 .. Len(q) - 1 /\ DOMAIN q = 1 .. Len(q)
      BY <2>5
    <2>7. IsInjective(r)
      BY <2>1, <2>5, <2>6 DEF IsInjective
    <2>8. ToSet(r) = ToSet(q) \ {e}
      <3>1. ASSUME NEW x \in ToSet(r) PROVE x \in ToSet(q) \ {e}
        <4>1. PICK i \in 1 .. Len(q) - 1 : x = r[i]
          BY <2>6, <3>1 DEF ToSet
        <4>2. PICK j \in 1 .. Len(q) : x = q[j] /\ j # p
          BY <2>1, <2>5, <4>1
        <4>3. QED
          BY <2>1, <2>6, <4>2 DEF ToSet, IsInjective
      <3>2. ASSUME NEW x \in ToSet(q) \ {e} PROVE x \in ToSet(r)
        <4>1. PICK i \in 1 .. Len(q) : q[i] = x
          BY <3>2 DEF ToSet
        <4>2. i < p \/ i > p
          BY <4>1, <2>1, <3>2
        <4>3. CASE i < p
          <5>1. i \in 1 .. Len(q) - 1 /\ r[i] = x
            BY <4>1, <4>3, <2>1, <2>5
          <5>2. QED
            BY <5>1, <2>6 DEF ToSet
        <4>4. CASE i > p
          <5>1. i - 1 \in 1 .. Len(q) - 1 /\ r[i - 1] = x
            BY <4>1, <4>4, <2>1, <2>5
          <5>2. QED
            BY <5>1, <2>6 DEF ToSet
        <4>5. QED
          BY <4>2, <4>3, <4>4
      <3>3. QED
        BY <3>1, <3>2
    <2>9. QED
      BY <1>2, <2>4, <2>5, <2>7, <2>8 DEF r
  <1>3. QED
    BY <1>1, <1>2

LEMMA TailFacts ==
    ASSUME NEW S, NEW q \in Seq(S), IsInjective(q), q # <<>>
    PROVE  /\ Tail(q) \in Seq(S) /\ IsInjective(Tail(q))
           /\ Head(q) \in ToSet(q)
           /\ ToSet(Tail(q)) = ToSet(q) \ {Head(q)}
           /\ Len(Tail(q)) = Len(q) - 1
  <1>1. /\ Tail(q) \in Seq(S) /\ Len(Tail(q)) = Len(q) - 1
        /\ \A i \in 1 .. Len(q) - 1 : Tail(q)[i] = q[i + 1]
        /\ Head(q) = q[1] /\ 1 \in 1 .. Len(q)
        /\ DOMAIN Tail(q) = 1 .. Len(q) - 1 /\ DOMAIN q = 1 .. Len(q)
    OBVIOUS
  <1>2. IsInjective(Tail(q))
    BY <1>1 DEF IsInjective
  <1>3. ASSUME NEW x \in ToSet(Tail(q)) PROVE x \in ToSet(q) \ {Head(q)}
    <2>1. PICK i \in 1 .. Len(q) - 1 : x = q[i + 1]
      BY <1>1, <1>3 DEF ToSet
    <2>2. i + 1 \in 1 .. Len(q) /\ i + 1 # 1
      BY <2>1
    <2>3. QED
      BY <1>1, <2>1, <2>2 DEF ToSet, IsInjective
  <1>4. ASSUME NEW x \in ToSet(q) \ {Head(q)} PROVE x \in ToSet(Tail(q))
    <2>1. PICK i \in 1 .. Len(q) : x = q[i]
      BY <1>4 DEF ToSet
    <2>2. i - 1 \in 1 .. Len(q) - 1 /\ Tail(q)[i - 1] = x
      BY <1>1, <1>4, <2>1
    <2>3. QED
      BY <1>1, <2>2 DEF ToSet
  <1>5. Head(q) \in ToSet(q)
    BY <1>1 DEF ToSet
  <1>6. QED
    BY <1>1, <1>2, <1>3, <1>4, <1>5

LEMMA ConcatFacts ==
    ASSUME NEW S, NEW q \in Seq(S), NEW n \in Seq(S), IsInjective(q),
           IsInjective(n), ToSet(q) \cap ToSet(n) = {}
    PROVE  /\ q \o n \in Seq(S) /\ IsInjective(q \o n)
           /\ ToSet(q \o n) = ToSet(q) \cup ToSet(n)
           /\ Len(q \o n) = Len(q) + Len(n)
  <1>1. /\ q \o n \in Seq(S) /\ Len(q \o n) = Len(q) + Len(n)
        /\ \A i \in 1 .. Len(q) : (q \o n)[i] = q[i]
        /\ \A i \in 1 .. Len(n) : (q \o n)[Len(q) + i] = n[i]
        /\ DOMAIN (q \o n) = 1 .. Len(q \o n)
        /\ DOMAIN q = 1 .. Len(q) /\ DOMAIN n = 1 .. Len(n)
    OBVIOUS
  <1>2. \A i \in 1 .. Len(q \o n) :
            \/ i \in 1 .. Len(q) /\ (q \o n)[i] = q[i]
            \/ /\ i - Len(q) \in 1 .. Len(n) /\ i > Len(q)
               /\ (q \o n)[i] = n[i - Len(q)]
    BY <1>1
  <1>3. \A i \in 1 .. Len(q), j \in 1 .. Len(n) : q[i] # n[j]
    <2>1. \A i \in 1 .. Len(q) : q[i] \in ToSet(q)
      BY DEF ToSet
    <2>2. \A j \in 1 .. Len(n) : n[j] \in ToSet(n)
      BY DEF ToSet
    <2>3. QED
      BY <2>1, <2>2
  <1>4. IsInjective(q \o n)
    BY <1>1, <1>2, <1>3 DEF IsInjective
  <1>5. ToSet(q \o n) \subseteq ToSet(q) \cup ToSet(n)
    BY <1>1, <1>2 DEF ToSet
  <1>6. ToSet(q) \subseteq ToSet(q \o n)
    <2>1. \A i \in 1 .. Len(q) : i \in 1 .. Len(q \o n)
      BY <1>1
    <2>2. QED
      BY <1>1, <2>1 DEF ToSet
  <1>7. ToSet(n) \subseteq ToSet(q \o n)
    <2>1. \A i \in 1 .. Len(n) : Len(q) + i \in 1 .. Len(q \o n)
      BY <1>1
    <2>2. QED
      BY <1>1, <2>1 DEF ToSet
  <1>8. QED
    BY <1>1, <1>4, <1>5, <1>6, <1>7

------------------------------------------------------------------------------
\* epoll's table and the kernel's.

\* The kernel watches the descriptors of exactly the recorded events, for at
\* least the directions of those.
EpollSound ==
    /\ slot \subseteq IoEv
    /\ watched = {ev[1] : ev \in slot}
    /\ mask \in [AllFd -> SUBSET Dir]
    /\ \A ev \in slot : ev[2] \in mask[ev[1]]

\* Events are told apart, and an I/O event is a descriptor and a direction.
LEMMA EventFacts ==
    /\ Sig \notin IoEv /\ PairEv \in IoEv /\ PairEv \notin UserEv
    /\ UserEv \subseteq IoEv
    /\ \A ev \in IoEv : ev[1] \in AllFd /\ ev[2] \in Dir /\ ev = <<ev[1], ev[2]>>
    /\ \A ev \in UserEv : ev \in Persistent <=> ev = ListenEv
  BY EventLoopAssumption
     DEF IoEv, UserEv, PairEv, ListenEv, Dir, AllFd, Persistent

\* epoll_add asks for an ADD exactly when the kernel does not have the
\* descriptor, so its calls never fail.
LEMMA EpollAddFacts ==
    ASSUME EpollSound, NEW ev \in IoEv, epoll_add(ev)
    PROVE  slot' = slot \cup {ev} /\ EpollSound'
  <1> DEFINE f == ev[1]
  <1>1. f \in AllFd /\ ev[2] \in Dir /\ ev = <<f, ev[2]>>
    BY EventFacts
  <1>2. SlotDirs(f) = {} <=> f \notin watched
    <2>1. ASSUME NEW d \in SlotDirs(f) PROVE f \in watched
      BY <2>1 DEF SlotDirs, EpollSound
    <2>2. ASSUME f \in watched PROVE SlotDirs(f) # {}
      <3>1. PICK x \in slot : x[1] = f
        BY <2>2 DEF EpollSound
      <3>2. x[2] \in Dir /\ <<f, x[2]>> \in slot
        BY <3>1, EventFacts DEF EpollSound
      <3>3. QED
        BY <3>2 DEF SlotDirs
    <2>3. QED
      BY <2>1, <2>2
  <1>3. /\ slot' = slot \cup {ev}
        /\ watched' = watched \cup {f}
        /\ mask' = [mask EXCEPT ![f] = SlotDirs(f) \cup {ev[2]}]
    BY <1>2 DEF epoll_add
  <1>4. watched' = {x[1] : x \in slot'}
    BY <1>3 DEF EpollSound
  <1>5. mask' \in [AllFd -> SUBSET Dir]
    <2>1. SlotDirs(f) \cup {ev[2]} \in SUBSET Dir
      BY <1>1 DEF SlotDirs
    <2>2. QED
      BY <2>1, <1>3 DEF EpollSound
  <1>6. ASSUME NEW x \in slot' PROVE x[2] \in mask'[x[1]]
    <2>0. x \in IoEv /\ x[1] \in AllFd /\ x[2] \in Dir /\ x = <<x[1], x[2]>>
      BY <1>3, EventFacts DEF EpollSound
    <2>1. CASE x[1] # f
      <3>1. x \in slot
        BY <2>1, <1>3
      <3>2. QED
        BY <3>1, <2>0, <2>1, <1>1, <1>3 DEF EpollSound
    <2>2. CASE x[1] = f
      <3>1. mask'[f] = SlotDirs(f) \cup {ev[2]}
        BY <1>1, <1>3 DEF EpollSound
      <3>2. x = ev \/ x[2] \in SlotDirs(f)
        BY <2>0, <2>2, <1>3 DEF SlotDirs
      <3>3. QED
        BY <3>1, <3>2, <2>2
    <2>3. QED
      BY <2>1, <2>2
  <1>7. slot' \subseteq IoEv
    BY <1>3 DEF EpollSound
  <1>8. QED
    BY <1>3, <1>4, <1>5, <1>6, <1>7 DEF EpollSound

\* epoll_del forgets the event alone; when it asks for the MOD that the kernel
\* refuses, the other event of the descriptor keeps it watched.
LEMMA EpollDelFacts ==
    ASSUME EpollSound, NEW ev \in slot, epoll_del(ev)
    PROVE  slot' = slot \ {ev} /\ EpollSound'
  <1> DEFINE f == ev[1]
  <1>0. /\ ev \in IoEv /\ f \in AllFd /\ ev[2] \in Dir /\ ev = <<f, ev[2]>>
        /\ \A x \in slot : x[1] \in AllFd /\ x[2] \in Dir /\ x = <<x[1], x[2]>>
    BY EventFacts DEF EpollSound
  <1>1. CASE SlotDirs(f) \ {ev[2]} # {}
    <2>1. slot' = slot \ {ev} /\ watched' = watched /\ mask' = mask
      BY <1>1 DEF epoll_del
    <2>2. PICK d \in SlotDirs(f) : d # ev[2]
      BY <1>1
    <2>3. <<f, d>> \in slot /\ <<f, d>> # ev
      BY <2>2, <1>0 DEF SlotDirs
    <2>4. <<f, d>>[1] = f /\ <<f, d>> \in slot'
      BY <2>1, <2>3
    <2>5. {x[1] : x \in slot} = {x[1] : x \in slot'}
      <3>1. ASSUME NEW x \in slot PROVE \E y \in slot' : y[1] = x[1]
        BY <2>1, <2>4
      <3>2. QED
        BY <3>1, <2>1
    <2>6. QED
      BY <2>1, <2>5 DEF EpollSound
  <1>2. CASE SlotDirs(f) \ {ev[2]} = {}
    <2>1. /\ slot' = {x \in slot : x[1] # f}
          /\ watched' = watched \ {f}
          /\ mask' = [mask EXCEPT ![f] = {}]
      BY <1>2 DEF epoll_del
    <2>2. ASSUME NEW x \in slot, x[1] = f PROVE x = ev
      <3>1. x[2] \in SlotDirs(f)
        BY <2>2, <1>0 DEF SlotDirs
      <3>2. x[2] = ev[2]
        BY <3>1, <1>2
      <3>3. QED
        BY <3>2, <2>2, <1>0
    <2>3. slot' = slot \ {ev}
      BY <2>1, <2>2
    <2>4. watched' = {x[1] : x \in slot'}
      BY <2>1 DEF EpollSound
    <2>5. mask' \in [AllFd -> SUBSET Dir]
      BY <2>1 DEF EpollSound
    <2>6. \A x \in slot' : x[2] \in mask'[x[1]]
      BY <2>1, <1>0 DEF EpollSound
    <2>7. QED
      BY <2>3, <2>4, <2>5, <2>6 DEF EpollSound
  <1>3. QED
    BY <1>1, <1>2

------------------------------------------------------------------------------
\* The queues and the table together, which the operations on events change.
Tables ==
    /\ inserted \subseteq Ev /\ activeQ \in Seq(Ev)
    /\ Queues /\ EpollSound
    /\ slot = inserted \ {Sig}

LEMMA ActiveSet == Active = ToSet(activeQ) /\ Active' = ToSet(activeQ)'
  BY DEF Active, ToSet

LEMMA EventAddFacts ==
    ASSUME Tables, NEW ev \in UserEv, event_add(ev)
    PROVE  /\ Tables' /\ inserted' = inserted \cup {ev}
           /\ activeQ' = activeQ /\ Active' = Active
  <1>1. /\ inserted' = inserted \cup {ev} /\ event_count' = event_count + 1
        /\ activeQ' = activeQ /\ event_count_active' = event_count_active
        /\ ev \notin inserted
    BY DEF event_add
  <1>2. ev \in IoEv /\ ev \in Ev /\ ev # Sig
    BY EventFacts DEF Ev
  <1>3. slot' = slot \cup {ev} /\ EpollSound'
    BY <1>2, EpollAddFacts DEF Tables, event_add
  <1>4. Active' = Active
    BY <1>1 DEF Active
  <1>5. /\ IsFiniteSet(inserted') /\ Cardinality(inserted) \in Nat
        /\ Cardinality(inserted') = Cardinality(inserted) + 1
    BY <1>1, FS_AddElement, FS_CardinalityType DEF Tables, Queues
  <1>6. Queues'
    BY <1>1, <1>4, <1>5 DEF Tables, Queues
  <1>7. QED
    BY <1>1, <1>2, <1>3, <1>4, <1>6 DEF Tables

LEMMA EventDelFacts ==
    ASSUME Tables, NEW ev \in IoEv, ev \in inserted, event_del(ev)
    PROVE  /\ Tables' /\ inserted' = inserted \ {ev}
           /\ Active' = Active \ {ev}
           /\ activeQ = <<>> => activeQ' = <<>>
  <1>0. ev # Sig /\ ev \in slot
    BY EventFacts DEF Tables
  <1>1. /\ inserted' = inserted \ {ev}
        /\ activeQ' = RemoveFirst(activeQ, ev)
        /\ event_count_active' = event_count_active - (IF ev \in Active THEN 1 ELSE 0)
        /\ event_count' = event_count - (IF ev \in Active THEN 1 ELSE 0) - 1
        /\ epoll_del(ev)
    BY DEF event_del, event_queue_remove
  <1>2. slot' = slot \ {ev} /\ EpollSound'
    BY <1>0, <1>1, EpollDelFacts DEF Tables
  <1>3. activeQ \in Seq(Ev) /\ IsInjective(activeQ)
    BY DEF Tables, Queues
  <1>4. /\ activeQ' \in Seq(Ev) /\ IsInjective(activeQ')
        /\ Active' = Active \ {ev}
        /\ Len(activeQ') = Len(activeQ) - (IF ev \in Active THEN 1 ELSE 0)
    BY <1>1, <1>3, RemoveFacts, ActiveSet
  <1>5. /\ IsFiniteSet(inserted') /\ Cardinality(inserted) \in Nat
        /\ Cardinality(inserted') = Cardinality(inserted) - 1
    BY <1>1, FS_RemoveElement, FS_CardinalityType DEF Tables, Queues
  <1>6. Queues'
    <2>1. Len(activeQ) \in Nat
      BY <1>3
    <2>2. /\ event_count_active' = Len(activeQ')
          /\ event_count' = Cardinality(inserted') + Len(activeQ')
      <3>1. PICK n \in {0, 1} : n = IF ev \in Active THEN 1 ELSE 0
        OBVIOUS
      <3>2. /\ event_count_active' = event_count_active - n
            /\ event_count' = event_count - n - 1
            /\ Len(activeQ') = Len(activeQ) - n
        BY <1>1, <1>4, <3>1
      <3>3. QED
        BY <1>5, <2>1, <3>2 DEF Tables, Queues
    <2>3. Active' \subseteq inserted'
      BY <1>1, <1>4 DEF Tables, Queues
    <2>4. QED
      BY <1>4, <1>5, <2>2, <2>3 DEF Queues
  <1>7. activeQ = <<>> => activeQ' = <<>>
    BY <1>1 DEF RemoveFirst
  <1>8. QED
    BY <1>1, <1>2, <1>4, <1>6, <1>7, <1>0 DEF Tables

LEMMA ActivateFacts ==
    ASSUME Tables, NEW new \in Seq(Ev), IsInjective(new),
           ToSet(new) \subseteq inserted \ Active,
           Activate(new), UNCHANGED <<inserted, epollVars>>
    PROVE  Tables' /\ Active' = Active \cup ToSet(new)
  <1>1. activeQ \in Seq(Ev) /\ IsInjective(activeQ)
    BY DEF Tables, Queues
  <1>2. /\ activeQ' \in Seq(Ev) /\ IsInjective(activeQ')
        /\ Active' = Active \cup ToSet(new)
        /\ Len(activeQ') = Len(activeQ) + Len(new)
    BY <1>1, ConcatFacts, ActiveSet DEF Activate
  <1>3. Queues'
    <2>1. Cardinality(inserted) \in Nat /\ Len(activeQ) \in Nat /\ Len(new) \in Nat
      BY <1>1, FS_CardinalityType DEF Tables, Queues
    <2>2. QED
      BY <1>2, <2>1 DEF Tables, Queues, Activate
  <1>4. QED
    BY <1>2, <1>3 DEF Tables, EpollSound, epollVars

LEMMA TakeOffFacts ==
    ASSUME Tables, activeQ # <<>>, TakeOff(Head(activeQ))
    PROVE  LET ev == Head(activeQ)
           IN  /\ Tables'
               /\ ev \in Active /\ ev \in inserted /\ ev \in Ev
               /\ Active' = Active \ {ev}
               /\ inserted' = IF ev \in Persistent THEN inserted
                              ELSE inserted \ {ev}
  <1> DEFINE ev == Head(activeQ)
  <1>1. activeQ \in Seq(Ev) /\ IsInjective(activeQ)
    BY DEF Tables, Queues
  <1>2. /\ Tail(activeQ) \in Seq(Ev) /\ IsInjective(Tail(activeQ))
        /\ ev \in Active /\ ToSet(Tail(activeQ)) = Active \ {ev}
        /\ Len(Tail(activeQ)) = Len(activeQ) - 1
    BY <1>1, TailFacts, ActiveSet
  <1>3. ev \in inserted /\ ev \in Ev
    BY <1>2 DEF Tables, Queues
  <1>4. CASE ev \in Persistent
    <2>1. /\ activeQ' = Tail(activeQ) /\ event_count' = event_count - 1
          /\ event_count_active' = event_count_active - 1
          /\ UNCHANGED <<inserted, epollVars>>
      BY <1>4 DEF TakeOff
    <2>2. Cardinality(inserted) \in Nat /\ Len(activeQ) \in Nat
      BY <1>1, FS_CardinalityType DEF Tables, Queues
    <2>3. Active' = Active \ {ev}
      BY <1>2, <2>1, ActiveSet
    <2>4. Queues'
      BY <1>2, <2>1, <2>2, <2>3 DEF Tables, Queues
    <2>5. QED
      BY <1>2, <1>3, <1>4, <2>1, <2>3, <2>4 DEF Tables, EpollSound, epollVars
  <1>5. CASE ev \notin Persistent
    <2>1. event_del(ev) /\ ev \in IoEv
      BY <1>3, <1>5 DEF TakeOff, Persistent, Ev
    <2>2. QED
      BY <1>2, <1>3, <1>5, <2>1, EventDelFacts
  <1>6. QED
    BY <1>4, <1>5

LEMMA SignalAddFacts ==
    ASSUME Tables, PairAdded, signal_add
    PROVE  /\ Tables' /\ inserted' = inserted \cup {PairEv, Sig}
           /\ activeQ' = activeQ /\ Active' = Active
  <1>1. /\ inserted' = (inserted \cup {PairEv}) \cup {Sig}
        /\ event_count' = event_count + 2
        /\ activeQ' = activeQ /\ event_count_active' = event_count_active
        /\ Sig \notin inserted /\ PairEv \notin inserted
        /\ epoll_add(PairEv)
    BY DEF signal_add, PairAdded
  <1>2. PairEv \in IoEv /\ PairEv # Sig /\ {PairEv, Sig} \subseteq Ev
    BY EventFacts DEF Ev
  <1>3. slot' = slot \cup {PairEv} /\ EpollSound'
    BY <1>1, <1>2, EpollAddFacts DEF Tables
  <1>4. Active' = Active
    BY <1>1 DEF Active
  <1>5. /\ IsFiniteSet(inserted) /\ Cardinality(inserted) \in Nat
        /\ IsFiniteSet(inserted \cup {PairEv})
        /\ Cardinality(inserted \cup {PairEv}) = Cardinality(inserted) + 1
    BY <1>1, FS_AddElement, FS_CardinalityType DEF Tables, Queues
  <1>6. /\ IsFiniteSet(inserted')
        /\ Cardinality(inserted') = Cardinality(inserted) + 2
    <2>1. Sig \notin inserted \cup {PairEv}
      BY <1>1, <1>2
    <2>2. /\ IsFiniteSet(inserted')
          /\ Cardinality(inserted') = Cardinality(inserted \cup {PairEv}) + 1
      BY <1>1, <1>5, <2>1, FS_AddElement
    <2>3. QED
      BY <1>5, <2>2
  <1>7. Queues'
    BY <1>1, <1>4, <1>5, <1>6 DEF Tables, Queues
  <1>8. QED
    BY <1>1, <1>2, <1>3, <1>4, <1>7 DEF Tables

LEMMA StillFacts ==
    ASSUME Tables, UNCHANGED <<queueVars, epollVars>>
    PROVE  Tables' /\ Active' = Active
  BY DEF Tables, Queues, EpollSound, queueVars, epollVars, Active

------------------------------------------------------------------------------
\* TypeOK for the variables that are not the queues or the table.
OwnType ==
    /\ pc \in {"main", "wait", "check", "sigread", "sigclear", "collect", "active",
               "call"}
    /\ ready \subseteq UserEv /\ hup \subseteq Fd
    /\ DOMAIN result \subseteq AllFd
    /\ cur \in Ev /\ left \in Nat /\ ncalls \in Nat
    /\ evsigcaught \in Nat /\ evsignal_caught \in BOOLEAN
    /\ bytes \in Nat /\ raised \in 0 .. MaxSignals
    /\ late \in Nat /\ called \in Nat

IInv ==
    /\ Tables /\ OwnType /\ Phases /\ PairAdded /\ Calls /\ PairBytes
    /\ SignalsAccounted /\ PairNotEmpty

\* The invariant says everything the two properties say.
LEMMA IInvSound ==
    ASSUME IInv
    PROVE  TablesSound /\ SignalsSound
  <1>1. activeQ \in Seq(Ev) /\ IsInjective(activeQ) /\ DOMAIN activeQ = 1 .. Len(activeQ)
    BY DEF IInv, Tables, Queues
  <1>2. Len(activeQ) = Cardinality(Active)
    <2>1. activeQ \in Bijection(1 .. Len(activeQ), Active)
      BY <1>1 DEF Bijection, Injection, Surjection, IsInjective, Active
    <2>2. IsFiniteSet(1 .. Len(activeQ)) /\ Cardinality(1 .. Len(activeQ)) = Len(activeQ)
      BY <1>1, FS_Interval
    <2>3. QED
      BY <2>1, <2>2, FS_Bijection DEF ExistsBijection
  <1>3. event_count \in Nat /\ event_count_active \in Nat
    BY <1>1, FS_CardinalityType DEF IInv, Tables, Queues
  <1>4. TypeOK
    <2>1. \A f \in DOMAIN result : result[f] \subseteq Dir
      BY DEF IInv, Phases
    <2>2. slot \subseteq IoEv /\ mask \in [AllFd -> SUBSET Dir]
      BY DEF IInv, Tables, EpollSound
    <2>3. watched \subseteq AllFd
      BY EventFacts DEF IInv, Tables, EpollSound
    <2>4. QED
      BY <1>1, <1>3, <2>1, <2>2, <2>3 DEF IInv, Tables, OwnType, TypeOK
  <1>5. QueuesAgree
    BY <1>2 DEF IInv, Tables, Queues, Phases, QueuesAgree
  <1>6. TableAgrees
    BY DEF IInv, Tables, EpollSound, TableAgrees
  <1>7. QED
    BY <1>4, <1>5, <1>6 DEF IInv, TablesSound, SignalsSound

LEMMA InitIInv == Init => IInv
  <1> SUFFICES ASSUME Init PROVE IInv
    OBVIOUS
  <1>1. Active = {}
    BY DEF Init, Active
  <1>2. Queues
    BY <1>1, FS_EmptySet DEF Init, Queues, IsInjective
  <1>3. EpollSound
    BY DEF Init, epoll_init, EpollSound
  <1>4. Tables
    BY <1>2, <1>3 DEF Tables, Init, epoll_init
  <1>5. OwnType
    <2>1. 0 \in 0 .. MaxSignals /\ Sig \in Ev /\ DOMAIN NoResult = {}
      BY EventLoopAssumption DEF Ev, NoResult
    <2>2. QED
      BY <2>1 DEF Init, OwnType
  <1>6. Phases /\ PairAdded /\ Calls /\ PairBytes
    BY <1>1 DEF Init, Phases, PairAdded, Calls, PairBytes, NoResult
  <1>7. SignalsAccounted /\ PairNotEmpty
    BY <1>1 DEF Init, SignalsAccounted, PairNotEmpty, Owed
  <1>8. QED
    BY <1>4, <1>5, <1>6, <1>7 DEF IInv

------------------------------------------------------------------------------
\* Each step keeps the invariant.  First the program's calls, which change the
\* queues and the table and nothing else.
LEMMA UserIInv ==
    ASSUME IInv,
           \/ \E ev \in UserEv : UserAdds(ev) \/ UserDeletes(ev)
           \/ signal_add
    PROVE  IInv'
  <1> USE DEF IInv
  <1>0. /\ Sig \notin UserEv /\ PairEv \notin UserEv /\ PairEv # Sig
        /\ Active \subseteq inserted /\ UserEv \subseteq IoEv
    BY EventFacts DEF Tables, Queues
  <1>1. /\ UNCHANGED <<pc, worldVars, result, callVars, sigVars>>
        /\ pc \in {"main", "call"}
    BY DEF UserAdds, UserDeletes, signal_add
  <1> DEFINE Changed ==
               /\ Tables' /\ Active' \subseteq Active
               /\ Sig \in Active' <=> Sig \in Active
               /\ Sig \in inserted' <=> PairEv \in inserted'
               /\ Sig \in inserted => Sig \in inserted'
               /\ activeQ = <<>> => activeQ' = <<>>
  <1>2. Changed
    <2>1. ASSUME NEW ev \in UserEv, UserAdds(ev) PROVE Changed
      BY <2>1, <1>0, EventAddFacts DEF UserAdds, PairAdded
    <2>2. ASSUME NEW ev \in UserEv, UserDeletes(ev) PROVE Changed
      BY <2>2, <1>0, EventDelFacts DEF UserDeletes, PairAdded
    <2>3. CASE signal_add
      BY <2>3, SignalAddFacts DEF PairAdded
    <2>4. QED
      BY <2>1, <2>2, <2>3
  <1>3. OwnType'
    BY <1>1 DEF OwnType, worldVars, callVars, sigVars
  <1>4. Phases' /\ PairAdded' /\ Calls' /\ PairBytes'
    BY <1>1, <1>2
       DEF Phases, PairAdded, Calls, PairBytes, worldVars, callVars, sigVars
  <1>5. SignalsAccounted' /\ PairNotEmpty'
    BY <1>1, <1>2 DEF SignalsAccounted, PairNotEmpty, Owed, callVars, sigVars
  <1>6. QED
    BY <1>2, <1>3, <1>4, <1>5

\* The steps that leave the queues and the table alone: signals, the waiting
\* and the world.
LEMMA QuietIInv ==
    ASSUME IInv,
           \/ evsignal_handler \/ event_base_loop \/ WaitReturns \/ CheckSignals
           \/ WaitInterrupted \/ evsignal_clear \/ evsignal_none \/ CollectDone
           \/ AllCalled \/ CallReturns \/ CallAgain
           \/ \E ev \in UserEv : BecomesReady(ev)
           \/ \E f \in Fd : HangsUp(f)
           \/ UNCHANGED vars
    PROVE  IInv'
  <1> USE DEF IInv
  <1>1. UNCHANGED <<queueVars, epollVars>>
    BY DEF evsignal_handler, event_base_loop, WaitReturns, CheckSignals,
           WaitInterrupted, evsignal_clear, evsignal_none, CollectDone, AllCalled,
           CallReturns, CallAgain, BecomesReady, HangsUp, vars
  <1>2. Tables' /\ Active' = Active
    BY <1>1, StillFacts
  <1>3. UNCHANGED <<inserted, activeQ, event_count_active>>
    BY <1>1 DEF queueVars
  <1>4. CASE evsignal_handler
    <2>1. OwnType'
      BY <1>4, EventLoopAssumption DEF evsignal_handler, OwnType, worldVars, callVars
    <2>2. Phases' /\ PairAdded' /\ Calls' /\ PairBytes'
      BY <1>2, <1>3, <1>4
         DEF evsignal_handler, OwnType, Phases, PairAdded, Calls, PairBytes, callVars
    <2>3. SignalsAccounted' /\ PairNotEmpty'
      BY <1>2, <1>4
         DEF evsignal_handler, OwnType, SignalsAccounted, PairNotEmpty, Owed, callVars
    <2>4. QED
      BY <1>2, <2>1, <2>2, <2>3
  <1>5. CASE WaitReturns
    <2>1. /\ pc = "wait" /\ pc' = "check" /\ activeQ = <<>>
          /\ UNCHANGED <<worldVars, callVars, sigVars>>
          /\ result' = [f \in Reportable |-> Reported(f)]
      BY <1>5 DEF WaitReturns, Phases
    <2>2. \A f \in Reportable : f \in AllFd /\ Reported(f) \in SUBSET Dir
      BY EventFacts DEF Reportable, Reported, Tables, EpollSound
    <2>3. Pair \in Reportable => bytes > 0
      BY EventLoopAssumption
         DEF Reportable, Reported, OwnType, UserEv, ListenEv
    <2>4. OwnType'
      BY <2>1, <2>2 DEF OwnType, worldVars, callVars, sigVars
    <2>5. Phases' /\ PairAdded' /\ Calls' /\ PairBytes'
      BY <1>2, <1>3, <2>1, <2>2, <2>3
         DEF Phases, PairAdded, Calls, PairBytes, callVars, sigVars
    <2>6. SignalsAccounted' /\ PairNotEmpty'
      BY <1>2, <2>1 DEF SignalsAccounted, PairNotEmpty, Owed, callVars, sigVars
    <2>7. QED
      BY <1>2, <2>4, <2>5, <2>6
  <1>6. CASE WaitInterrupted
    <2>1. OwnType'
      <3>1. /\ raised' = raised + 1 /\ raised < MaxSignals
            /\ evsigcaught' = evsigcaught + 1 /\ bytes' = bytes + 1
            /\ pc' = "sigread"
            /\ UNCHANGED <<ready, hup, result, cur, left, ncalls, late, called>>
        BY <1>6 DEF WaitInterrupted, worldVars, callVars
      <3>2. raised' \in 0 .. MaxSignals
        BY <3>1, EventLoopAssumption DEF OwnType
      <3>3. evsignal_caught' \in BOOLEAN
        BY <1>6 DEF WaitInterrupted
      <3>4. QED
        BY <3>1, <3>2, <3>3 DEF OwnType
    <2>2. Phases' /\ PairAdded' /\ Calls' /\ PairBytes'
      BY <1>2, <1>3, <1>6
         DEF WaitInterrupted, OwnType, Phases, PairAdded, Calls, PairBytes, callVars
    <2>3. SignalsAccounted' /\ PairNotEmpty'
      BY <1>2, <1>6
         DEF WaitInterrupted, OwnType, SignalsAccounted, PairNotEmpty, Owed, callVars
    <2>4. QED
      BY <1>2, <2>1, <2>2, <2>3
  <1>7. CASE event_base_loop \/ CheckSignals \/ evsignal_clear \/ evsignal_none
    <2>1. OwnType'
      <3>1. /\ UNCHANGED <<ready, hup, result, cur, left, ncalls, bytes, raised,
                            late, called>>
            /\ pc' \in {"wait", "sigread", "collect"}
            /\ evsigcaught' \in {0, evsigcaught}
        BY <1>7 DEF event_base_loop, CheckSignals, evsignal_clear, evsignal_none,
                    worldVars, callVars, sigVars
      <3>2. evsignal_caught' \in BOOLEAN
        BY <1>7 DEF event_base_loop, CheckSignals, evsignal_clear, evsignal_none,
                    OwnType, sigVars
      <3>3. QED
        BY <3>1, <3>2 DEF OwnType
    <2>2. Phases' /\ PairAdded' /\ Calls' /\ PairBytes'
      BY <1>2, <1>3, <1>7
         DEF event_base_loop, CheckSignals, evsignal_clear, evsignal_none,
             OwnType, Phases, PairAdded, Calls, PairBytes, callVars, sigVars
    <2>3. SignalsAccounted' /\ PairNotEmpty'
      BY <1>2, <1>7
         DEF event_base_loop, CheckSignals, evsignal_clear, evsignal_none,
             OwnType, SignalsAccounted, PairNotEmpty, Owed, callVars, sigVars
    <2>4. QED
      BY <1>2, <2>1, <2>2, <2>3
  <1>8. CASE CollectDone \/ AllCalled
    <2>1. OwnType'
      BY <1>8 DEF CollectDone, AllCalled, OwnType, worldVars, callVars, sigVars
    <2>2. event_count_active > 0 \/ activeQ = <<>>
      BY DEF Tables, Queues
    <2>3. DOMAIN result = {} => result = NoResult
      BY DEF Phases, NoResult
    <2>4. Phases' /\ PairAdded' /\ Calls' /\ PairBytes'
      BY <1>2, <1>3, <1>8, <2>2, <2>3
         DEF CollectDone, AllCalled, OwnType, Phases, PairAdded, Calls, PairBytes,
             callVars, sigVars
    <2>5. SignalsAccounted' /\ PairNotEmpty'
      BY <1>2, <1>8
         DEF CollectDone, AllCalled, OwnType, SignalsAccounted, PairNotEmpty,
             Owed, callVars, sigVars
    <2>6. QED
      BY <1>2, <2>1, <2>4, <2>5
  <1>9. CASE CallReturns
    <2>1. OwnType'
      BY <1>9 DEF CallReturns, OwnType, Ev
    <2>2. Pair \notin DOMAIN result
      BY <1>9 DEF CallReturns, Phases, NoResult
    <2>3. Phases' /\ PairAdded' /\ Calls' /\ PairBytes'
      BY <1>2, <1>3, <1>9, <2>2
         DEF CallReturns, OwnType, Phases, PairAdded, Calls, PairBytes
    <2>4. SignalsAccounted' /\ PairNotEmpty'
      BY <1>2, <1>9
         DEF CallReturns, OwnType, SignalsAccounted, PairNotEmpty, Owed
    <2>5. QED
      BY <1>2, <2>1, <2>3, <2>4
  <1>10. CASE CallAgain
    <2>1. OwnType'
      BY <1>10 DEF CallAgain, OwnType, worldVars
    <2>2. Phases' /\ PairAdded' /\ Calls' /\ PairBytes'
      BY <1>2, <1>3, <1>10
         DEF CallAgain, OwnType, Phases, PairAdded, Calls, PairBytes
    <2>3. SignalsAccounted' /\ PairNotEmpty'
      BY <1>2, <1>10
         DEF CallAgain, OwnType, SignalsAccounted, PairNotEmpty, Owed
    <2>4. QED
      BY <1>2, <2>1, <2>2, <2>3
  <1>11. CASE \/ \E ev \in UserEv : BecomesReady(ev)
              \/ \E f \in Fd : HangsUp(f)
              \/ UNCHANGED vars
    <2>1. /\ ready' \subseteq UserEv /\ hup' \subseteq Fd
          /\ UNCHANGED <<pc, result, callVars, sigVars>>
      BY <1>11 DEF BecomesReady, HangsUp, OwnType, vars, worldVars
    <2>2. OwnType'
      BY <2>1 DEF OwnType, callVars, sigVars
    <2>3. Phases' /\ PairAdded' /\ Calls' /\ PairBytes'
      BY <1>2, <1>3, <2>1
         DEF Phases, PairAdded, Calls, PairBytes, callVars, sigVars
    <2>4. SignalsAccounted' /\ PairNotEmpty'
      BY <1>2, <2>1 DEF SignalsAccounted, PairNotEmpty, Owed, callVars, sigVars
    <2>5. QED
      BY <1>2, <2>2, <2>3, <2>4
  <1>12. QED
    BY <1>4, <1>5, <1>6, <1>7, <1>8, <1>9, <1>10, <1>11

\* event_active appends an event that is not active, once.
LEMMA FreshFacts ==
    ASSUME NEW ev \in Ev
    PROVE  /\ Fresh(ev) \in Seq(Ev) /\ IsInjective(Fresh(ev))
           /\ ToSet(Fresh(ev)) = {ev} \ Active
  <1>1. CASE ev \in Active
    BY <1>1 DEF Fresh, IsInjective, ToSet
  <1>2. CASE ev \notin Active
    <2>1. Fresh(ev) = <<ev>> /\ <<ev>> \in Seq(Ev)
      BY <1>2 DEF Fresh
    <2>2. DOMAIN <<ev>> = {1} /\ <<ev>>[1] = ev
      OBVIOUS
    <2>3. ToSet(<<ev>>) = {ev}
      BY <2>2 DEF ToSet
    <2>4. IsInjective(<<ev>>)
      BY <2>2 DEF IsInjective
    <2>5. QED
      BY <1>2, <2>1, <2>3, <2>4
  <1>3. QED
    BY <1>1, <1>2

\* What is activated for a descriptor is inserted and not active yet, and the
\* read and the write event are never the same.
LEMMA FoundFacts ==
    ASSUME Tables, NEW f
    PROVE  /\ Found(f) \in Seq(Ev) /\ IsInjective(Found(f))
           /\ ToSet(Found(f)) \subseteq inserted \ Active
           /\ Sig \notin ToSet(Found(f))
           /\ PairEv \in ToSet(Found(f)) => f = Pair
  <1>1. ASSUME NEW d
        PROVE  /\ Due(f, d) \in Seq(Ev) /\ IsInjective(Due(f, d))
               /\ ToSet(Due(f, d)) \subseteq {<<f, d>>} \cap (slot \ Active)
    <2>1. CASE d \in result[f] /\ <<f, d>> \in slot
      <3>1. <<f, d>> \in Ev /\ Due(f, d) = Fresh(<<f, d>>)
        BY <2>1 DEF Due, Tables
      <3>2. QED
        BY <3>1, <2>1, FreshFacts
    <2>2. CASE ~(d \in result[f] /\ <<f, d>> \in slot)
      BY <2>2 DEF Due, IsInjective, ToSet
    <2>3. QED
      BY <2>1, <2>2
  <1>2. <<f, "r">> # <<f, "w">>
    OBVIOUS
  <1>3. /\ Found(f) \in Seq(Ev) /\ IsInjective(Found(f))
        /\ ToSet(Found(f)) = ToSet(Due(f, "r")) \cup ToSet(Due(f, "w"))
    BY <1>1, <1>2, ConcatFacts DEF Found
  <1>4. ToSet(Found(f)) \subseteq {<<f, "r">>, <<f, "w">>} \cap (slot \ Active)
    BY <1>1, <1>3
  <1>5. slot = inserted \ {Sig}
    BY DEF Tables
  <1>6. PairEv \in {<<f, "r">>, <<f, "w">>} => f = Pair
    BY DEF PairEv
  <1>7. QED
    BY <1>3, <1>4, <1>5, <1>6

\* The steps that activate and call events.
LEMMA ActivateIInv ==
    ASSUME IInv, evsignal_activate
    PROVE  IInv'
  <1> USE DEF IInv
  <1>0. Sig \in Ev /\ PairEv # Sig
    BY EventFacts DEF Ev
  <1>1. /\ pc = "sigread" /\ evsigcaught > 0 /\ pc' = "sigclear"
        /\ ncalls' = IF Sig \in Active THEN ncalls ELSE evsigcaught
        /\ Activate(Fresh(Sig))
        /\ UNCHANGED <<inserted, epollVars, ready, hup, result, cur, left,
                       evsigcaught, evsignal_caught, bytes, raised, late, called>>
    BY DEF evsignal_activate, worldVars, callVars
  <1>2. Active = {} /\ Sig \in inserted
    BY <1>1 DEF Phases, Active, PairAdded
  <1>3. Tables' /\ Active' = {Sig}
    BY <1>0, <1>1, <1>2, FreshFacts, ActivateFacts
  <1>4. OwnType'
    BY <1>1, <1>2 DEF OwnType
  <1>5. Phases' /\ PairAdded' /\ Calls' /\ PairBytes'
    BY <1>0, <1>1, <1>2, <1>3 DEF Phases, PairAdded, Calls, PairBytes, OwnType
  <1>6. SignalsAccounted' /\ PairNotEmpty'
    BY <1>1, <1>2, <1>3 DEF SignalsAccounted, PairNotEmpty, Owed, OwnType
  <1>7. QED
    BY <1>3, <1>4, <1>5, <1>6

LEMMA CollectIInv ==
    ASSUME IInv, NEW f \in AllFd, Collect(f)
    PROVE  IInv'
  <1> USE DEF IInv
  <1>1. /\ pc = "collect" /\ f \in DOMAIN result
        /\ Activate(Found(f))
        /\ result' = [g \in DOMAIN result \ {f} |-> result[g]]
        /\ UNCHANGED <<pc, inserted, epollVars, ready, hup, cur, left, ncalls,
                       evsigcaught, evsignal_caught, bytes, raised, late, called>>
    BY DEF Collect, worldVars, callVars, sigVars
  <1>2. Tables' /\ Active' = Active \cup ToSet(Found(f))
    BY <1>1, FoundFacts, ActivateFacts
  <1>3. OwnType'
    BY <1>1 DEF OwnType
  <1>4. /\ Sig \in Active' <=> Sig \in Active
        /\ PairEv \in Active' => bytes > 0
    BY <1>1, <1>2, FoundFacts DEF PairBytes
  <1>5. Phases' /\ PairAdded' /\ Calls' /\ PairBytes'
    BY <1>1, <1>4 DEF Phases, PairAdded, Calls, PairBytes
  <1>6. SignalsAccounted' /\ PairNotEmpty'
    BY <1>1, <1>4 DEF SignalsAccounted, PairNotEmpty, Owed
  <1>7. QED
    BY <1>2, <1>3, <1>5, <1>6

LEMMA CallFirstIInv ==
    ASSUME IInv, CallFirst
    PROVE  IInv'
  <1> USE DEF IInv
  <1> DEFINE ev == Head(activeQ)
  <1>1. /\ pc = "active" /\ activeQ # <<>> /\ pc' = "call"
        /\ TakeOff(ev) /\ cur' = ev
        /\ UNCHANGED <<ready, hup, result, evsigcaught, evsignal_caught, bytes,
                       raised, late>>
    BY DEF CallFirst, worldVars
  <1>2. IF ev = Sig
        THEN left' = ncalls - 1 /\ ncalls' = 0 /\ called' = called + 1
        ELSE left' = 0 /\ ncalls' = ncalls /\ called' = called
    BY DEF CallFirst
  <1>3. /\ Tables' /\ ev \in Active /\ ev \in Ev
        /\ Active' = Active \ {ev}
        /\ inserted' = IF ev \in Persistent THEN inserted ELSE inserted \ {ev}
    BY <1>1, TakeOffFacts
  <1> HIDE DEF ev
  <1>4. left = 0 /\ (ev = Sig => ncalls > 0)
    BY <1>1, <1>3 DEF Calls, OwnType
  <1>5. OwnType'
    <2>1. left' \in Nat /\ ncalls' \in Nat /\ called' \in Nat
      BY <1>2, <1>4 DEF OwnType
    <2>2. QED
      BY <1>1, <1>3, <2>1 DEF OwnType
  <1>6. /\ Sig \in inserted' <=> Sig \in inserted
        /\ PairEv \in inserted' <=> PairEv \in inserted
    BY <1>3 DEF Persistent
  <1>7. Phases' /\ PairAdded' /\ Calls' /\ PairBytes'
    BY <1>1, <1>2, <1>3, <1>4, <1>6 DEF Phases, PairAdded, Calls, PairBytes
  <1>8. SignalsAccounted'
    <2>1. CASE ev = Sig
      BY <1>1, <1>2, <1>3, <1>4, <2>1 DEF SignalsAccounted, Owed, OwnType
    <2>2. CASE ev # Sig
      BY <1>1, <1>2, <1>3, <1>4, <2>2 DEF SignalsAccounted, Owed, OwnType
    <2>3. QED
      BY <2>1, <2>2
  <1>9. PairNotEmpty'
    BY <1>1, <1>3 DEF PairNotEmpty, PairBytes
  <1>10. QED
    BY <1>3, <1>5, <1>7, <1>8, <1>9

LEMMA StepIInv ==
    ASSUME IInv, [Next]_vars
    PROVE  IInv'
  <1>1. CASE \/ \E ev \in UserEv : UserAdds(ev) \/ UserDeletes(ev)
             \/ signal_add
    BY <1>1, UserIInv
  <1>2. CASE \/ evsignal_handler \/ event_base_loop \/ WaitReturns \/ CheckSignals
             \/ WaitInterrupted \/ evsignal_clear \/ evsignal_none \/ CollectDone
             \/ AllCalled \/ CallReturns \/ CallAgain
             \/ \E ev \in UserEv : BecomesReady(ev)
             \/ \E f \in Fd : HangsUp(f)
             \/ UNCHANGED vars
    BY <1>2, QuietIInv
  <1>3. CASE evsignal_activate
    BY <1>3, ActivateIInv
  <1>4. CASE \E f \in AllFd : Collect(f)
    BY <1>4, CollectIInv
  <1>5. CASE CallFirst
    BY <1>5, CallFirstIInv
  <1>6. QED
    BY <1>1, <1>2, <1>3, <1>4, <1>5 DEF Next, LoopStep

------------------------------------------------------------------------------
(* In every state of the loop the queues, the counts, epoll's table and    *)
(* the kernel agree, and signals are accounted for.                        *)
THEOREM LoopInvariant == Spec => []IInv
  <1>1. IInv /\ [Next]_vars => IInv'
    BY StepIInv
  <1>2. QED
    BY <1>1, InitIInv, PTL DEF Spec

(* No inserted event is deaf and no deleted one is called: the active      *)
(* queue holds inserted events, each once, its counts are right, and the   *)
(* kernel watches what epoll's table records although some of the calls of *)
(* epoll_del fail.                                                         *)
THEOREM TablesCorrect == Spec => []TablesSound
  <1>1. IInv => TablesSound
    BY IInvSound
  <1>2. QED
    BY <1>1, LoopInvariant, PTL

(* The callback of a signal is called once for each signal caught, but for *)
(* those between the reading and the clearing of the count, and the        *)
(* callback of the socket pair never blocks on an empty one.               *)
THEOREM SignalsCorrect == Spec => []SignalsSound
  <1>1. IInv => SignalsSound
    BY IInvSound
  <1>2. QED
    BY <1>1, LoopInvariant, PTL
================================================================================
