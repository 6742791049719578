------------------------------ MODULE EventLoop -------------------------------
(***************************************************************************)
(* The event loop of cs/my_event (event.c, epoll.c, signal.c): a program   *)
(* adds and deletes events before the loop and in callbacks; the loop      *)
(* waits in epoll, turns what the kernel reports and the signals its       *)
(* handler has counted into active events, and calls them.                 *)
(*                                                                         *)
(* An I/O event is a descriptor and a direction; no event has both (the    *)
(* comment in epoll_add), and one descriptor has at most one of each.  The *)
(* signal Sig has one persistent event, which nobody deletes (evsignal_del *)
(* is empty).  Its handler runs between any two steps.  Events are added   *)
(* without a timeout: timeout_process is empty, no timeout ever expires.   *)
(***************************************************************************)
EXTENDS Integers, FiniteSets, Sequences, SequencesExt

CONSTANTS Fd,         \* descriptors of clients
          Listen,     \* the listening descriptor: a persistent read event
          Pair,       \* ev_signal_pair[1], which the signal handler writes to
          Sig,        \* the signal event
          MaxSignals  \* bounds the signals

ASSUME EventLoopAssumption ==
    /\ Listen \notin Fd /\ Pair \notin Fd /\ Listen # Pair
    /\ Sig \notin (Fd \cup {Listen, Pair}) \X {"r", "w"}
    /\ MaxSignals \in Nat

Dir == {"r", "w"}
ListenEv == <<Listen, "r">>
PairEv == <<Pair, "r">>
UserEv == {ListenEv} \cup (Fd \X Dir)
IoEv == UserEv \cup {PairEv}
Ev == IoEv \cup {Sig}
AllFd == Fd \cup {Listen, Pair}

\* EV_PERSIST
Persistent == {ListenEv, PairEv, Sig}

VARIABLES
    pc,            \* "main", or the place in event_base_loop
    inserted,      \* events with EVLIST_INSERTED
    activeQ,       \* active_queue[0], the only priority
    event_count, event_count_active,
    slot,          \* I/O events that epollop->fds points to
    watched, mask, \* the kernel: descriptors in epoll, and what they wait for
    ready, hup,    \* the world: what could be done without blocking, hang-ups
    result,        \* descriptor -> what epoll_wait reported and is not handled
    cur, left,     \* the event whose callback runs, calls still to make
    ncalls,        \* ev_ncalls of Sig
    evsigcaught, evsignal_caught,
    bytes,         \* in the socket pair
    raised, late, called \* signals caught, those between the reading and the
                         \* clearing of evsigcaught, and callbacks of Sig

queueVars == <<inserted, activeQ, event_count, event_count_active>>
epollVars == <<slot, watched, mask>>
worldVars == <<ready, hup>>
callVars == <<cur, left>>
sigVars == <<ncalls, evsigcaught, evsignal_caught, bytes, raised, late, called>>
vars == <<pc, queueVars, epollVars, worldVars, result, callVars, sigVars>>

NoResult == [f \in {} |-> {}]

\* The table of descriptors is zeroed, and the kernel watches none.
epoll_init == slot = {} /\ watched = {} /\ mask = [f \in AllFd |-> {}]

Init ==
    /\ pc = "main"
    /\ inserted = {} /\ activeQ = <<>>
    /\ event_count = 0 /\ event_count_active = 0
    /\ epoll_init
    /\ ready = {} /\ hup = {}
    /\ result = NoResult
    /\ cur = Sig /\ left = 0
    /\ ncalls = 0 /\ evsigcaught = 0 /\ evsignal_caught = FALSE
    /\ bytes = 0 /\ raised = 0 /\ late = 0 /\ called = 0

Active == {activeQ[i] : i \in DOMAIN activeQ}
SlotDirs(f) == {d \in Dir : <<f, d>> \in slot}

------------------------------------------------------------------------------
\* Mutant: MOD with the direction of the new event only.
epoll_add_Only(ev) ==
    /\ slot' = slot \cup {ev}
    /\ watched' = watched \cup {ev[1]}
    /\ mask' = [mask EXCEPT ![ev[1]] = {ev[2]}]

\* epoll_add.  Its op is ADD when neither event of the descriptor is recorded,
\* else MOD; the kernel refuses an ADD of what it has and a MOD of what it has
\* not, and epoll_add does not look at the result.
epoll_add(ev) ==
    LET f == ev[1]
        op == IF SlotDirs(f) = {} THEN "add" ELSE "mod"
    IN  /\ slot' = slot \cup {ev}
        /\ IF (op = "add") = (f \notin watched)
           THEN /\ watched' = watched \cup {f}
                /\ mask' = [mask EXCEPT ![f] = SlotDirs(f) \cup {ev[2]}]
           ELSE UNCHANGED <<watched, mask>>

\* epoll_del.  With the other event of the descriptor still recorded its op is
\* MOD, with no epoll_event to go with it: the kernel refuses and goes on
\* reporting both directions.
epoll_del(ev) ==
    LET f == ev[1]
    IN  IF SlotDirs(f) \ {ev[2]} # {}
        THEN /\ slot' = slot \ {ev}
             /\ UNCHANGED <<watched, mask>>
        ELSE /\ slot' = {x \in slot : x[1] # f}
             /\ watched' = watched \ {f}
             /\ mask' = [mask EXCEPT ![f] = {}]

\* event_add, for an event that is on no queue; on any other it does nothing.
event_add(ev) ==
    /\ ev \notin inserted \cup Active
    /\ epoll_add(ev)
    /\ inserted' = inserted \cup {ev}
    /\ event_count' = event_count + 1
    /\ UNCHANGED <<activeQ, event_count_active>>

\* event_queue_remove, for each of the two queues that the event is on.
event_queue_remove(ev) ==
    LET onActive == IF ev \in Active THEN 1 ELSE 0
        onInserted == IF ev \in inserted THEN 1 ELSE 0
    IN  /\ activeQ' = RemoveFirst(activeQ, ev)
        /\ event_count_active' = event_count_active - onActive
        /\ inserted' = inserted \ {ev}
        /\ event_count' = event_count - onActive - onInserted

\* event_del: off the queues and out of epoll.
event_del(ev) ==
    /\ event_queue_remove(ev)
    /\ IF ev \in inserted THEN epoll_del(ev) ELSE UNCHANGED epollVars

\* The program, in main or in a callback.
UserAdds(ev) ==
    /\ pc \in {"main", "call"}
    /\ event_add(ev)
    /\ UNCHANGED <<pc, worldVars, result, callVars, sigVars>>

UserDeletes(ev) ==
    /\ pc \in {"main", "call"}
    /\ ev \in inserted \cup Active
    /\ event_del(ev)
    /\ UNCHANGED <<pc, worldVars, result, callVars, sigVars>>

\* signal_add with evsignal_add: the event of the socket pair is added, then
\* the signal event is inserted.
signal_add ==
    /\ pc \in {"main", "call"}
    /\ Sig \notin inserted
    /\ epoll_add(PairEv)
    /\ inserted' = inserted \cup {PairEv, Sig}
    /\ event_count' = event_count + 2
    /\ UNCHANGED <<pc, activeQ, event_count_active, worldVars, result, callVars,
                   sigVars>>

------------------------------------------------------------------------------
\* evsignal_handler, which interrupts the loop anywhere.
evsignal_handler ==
    /\ Sig \in inserted /\ raised < MaxSignals
    /\ evsigcaught' = evsigcaught + 1
    /\ evsignal_caught' = TRUE
    /\ bytes' = bytes + 1
    /\ raised' = raised + 1
    /\ late' = IF pc = "sigclear" THEN late + 1 ELSE late
    /\ UNCHANGED <<pc, queueVars, epollVars, worldVars, result, callVars, ncalls,
                   called>>

\* What epoll_wait has to report of a descriptor; a hang-up is reported
\* whatever the mask, and activates both events.
Reported(f) ==
    IF f \in hup THEN Dir
    ELSE {d \in mask[f] : <<f, d>> \in ready \/ (f = Pair /\ bytes > 0)}

Reportable == {f \in watched : Reported(f) # {}}

event_base_loop ==
    /\ pc = "main"
    /\ pc' = "wait"
    /\ UNCHANGED <<queueVars, epollVars, worldVars, result, callVars, sigVars>>

\* epoll_wait returns with events, or with none after the timeout, which is
\* an uninitialized value: it may be any time or for ever.
WaitReturns ==
    /\ pc = "wait"
    /\ result' = [f \in Reportable |-> Reported(f)]
    /\ pc' = "check"
    /\ UNCHANGED <<queueVars, epollVars, worldVars, callVars, sigVars>>

\* Mutant: signals are looked for only when epoll_wait was interrupted.
CheckSignals_Interrupted ==
    /\ pc = "check"
    /\ pc' = "collect"
    /\ evsignal_caught' = FALSE
    /\ UNCHANGED <<queueVars, epollVars, worldVars, result, callVars, ncalls,
                   evsigcaught, bytes, raised, late, called>>

\* epoll_dispatch looks whether a signal was caught; evsignal_process begins
\* with clearing the mark.
CheckSignals ==
    /\ pc = "check"
    /\ pc' = IF evsignal_caught THEN "sigread" ELSE "collect"
    /\ evsignal_caught' = FALSE
    /\ UNCHANGED <<queueVars, epollVars, worldVars, result, callVars, ncalls,
                   evsigcaught, bytes, raised, late, called>>

\* A signal ends a blocked epoll_wait with EINTR.
WaitInterrupted ==
    /\ pc = "wait" /\ Reportable = {}
    /\ Sig \in inserted /\ raised < MaxSignals
    /\ evsigcaught' = evsigcaught + 1
    /\ evsignal_caught' = FALSE
    /\ bytes' = bytes + 1
    /\ raised' = raised + 1
    /\ pc' = "sigread"
    /\ UNCHANGED <<queueVars, epollVars, worldVars, result, callVars, ncalls, late,
                   called>>

\* What event_active appends: nothing for an event that is active.
Fresh(ev) == IF ev \in Active THEN <<>> ELSE <<ev>>

\* Mutant: the count of active events is not kept up for more than one.
Activate_Once(new) ==
    /\ activeQ' = activeQ \o new
    /\ event_count' = event_count + Len(new)
    /\ event_count_active' = event_count_active + 1

\* event_active and event_queue_insert, for the events of a sequence.
Activate(new) ==
    /\ activeQ' = activeQ \o new
    /\ event_count' = event_count + Len(new)
    /\ event_count_active' = event_count_active + Len(new)

\* Mutant: the callback is called once for any number of signals.
evsignal_activate_Once ==
    /\ pc = "sigread" /\ evsigcaught > 0
    /\ Activate(Fresh(Sig))
    /\ ncalls' = 1
    /\ pc' = "sigclear"
    /\ UNCHANGED <<inserted, epollVars, worldVars, result, callVars, evsigcaught,
                   evsignal_caught, bytes, raised, late, called>>

\* evsignal_process, which epoll_dispatch calls: the count is read and the
\* event activated, and only then is the count cleared.
evsignal_activate ==
    /\ pc = "sigread" /\ evsigcaught > 0
    /\ Activate(Fresh(Sig))
    /\ ncalls' = IF Sig \in Active THEN ncalls ELSE evsigcaught
    /\ pc' = "sigclear"
    /\ UNCHANGED <<inserted, epollVars, worldVars, result, callVars, evsigcaught,
                   evsignal_caught, bytes, raised, late, called>>

\* Mutant: the socket pair is emptied here too.
evsignal_clear_Drains ==
    /\ pc = "sigclear"
    /\ evsigcaught' = 0
    /\ bytes' = 0
    /\ pc' = "collect"
    /\ UNCHANGED <<queueVars, epollVars, worldVars, result, callVars, ncalls,
                   evsignal_caught, raised, late, called>>

evsignal_clear ==
    /\ pc = "sigclear"
    /\ evsigcaught' = 0
    /\ pc' = "collect"
    /\ UNCHANGED <<queueVars, epollVars, worldVars, result, callVars, ncalls,
                   evsignal_caught, bytes, raised, late, called>>

evsignal_none ==
    /\ pc = "sigread" /\ evsigcaught = 0
    /\ pc' = "collect"
    /\ UNCHANGED <<queueVars, epollVars, worldVars, result, callVars, sigVars>>

\* The event recorded for f and d, when that was reported.
Due(f, d) ==
    IF d \in result[f] /\ <<f, d>> \in slot THEN Fresh(<<f, d>>) ELSE <<>>

\* Mutant: one event per descriptor.
Found_One(f) == IF Due(f, "r") # <<>> THEN Due(f, "r") ELSE Due(f, "w")

\* The events to activate for what was reported of f, the read event first.
Found(f) == Due(f, "r") \o Due(f, "w")

\* epoll_dispatch handles the result of one descriptor; the kernel orders them.
Collect(f) ==
    /\ pc = "collect" /\ f \in DOMAIN result
    /\ Activate(Found(f))
    /\ result' = [g \in DOMAIN result \ {f} |-> result[g]]
    /\ UNCHANGED <<pc, inserted, epollVars, worldVars, callVars, sigVars>>

CollectDone ==
    /\ pc = "collect" /\ DOMAIN result = {}
    /\ pc' = IF event_count_active > 0 THEN "active" ELSE "wait"
    /\ UNCHANGED <<queueVars, epollVars, worldVars, result, callVars, sigVars>>

------------------------------------------------------------------------------
\* Before the callbacks of an active event: a persistent one leaves the active
\* queue, any other is deleted.
TakeOff(ev) ==
    IF ev \in Persistent
    THEN /\ activeQ' = Tail(activeQ)
         /\ event_count' = event_count - 1
         /\ event_count_active' = event_count_active - 1
         /\ UNCHANGED <<inserted, epollVars>>
    ELSE event_del(ev)

\* event_process_active takes the first active event and calls it, a signal
\* event ev_ncalls times.
CallFirst ==
    /\ pc = "active" /\ activeQ # <<>>
    /\ LET ev == Head(activeQ)
       IN  /\ TakeOff(ev)
           /\ cur' = ev
           /\ IF ev = Sig
              THEN left' = ncalls - 1 /\ ncalls' = 0 /\ called' = called + 1
              ELSE left' = 0 /\ UNCHANGED <<ncalls, called>>
    /\ pc' = "call"
    /\ UNCHANGED <<worldVars, result, evsigcaught, evsignal_caught, bytes, raised,
                   late>>

AllCalled ==
    /\ pc = "active" /\ activeQ = <<>>
    /\ pc' = "wait"
    /\ UNCHANGED <<queueVars, epollVars, worldVars, result, callVars, sigVars>>

\* The callback returns.  It may have used up what made its event ready;
\* evsignal_cb empties the socket pair.
CallReturns ==
    /\ pc = "call" /\ left = 0
    /\ bytes' = IF cur = PairEv THEN 0 ELSE bytes
    /\ ready' \in {ready, ready \ {cur}}
    /\ cur' = Sig
    /\ pc' = "active"
    /\ UNCHANGED <<queueVars, epollVars, hup, result, left, ncalls, evsigcaught,
                   evsignal_caught, raised, late, called>>

\* Mutant: one call more.
CallAgain_More ==
    /\ pc = "call" /\ cur = Sig /\ left >= 0
    /\ left' = left - 1
    /\ called' = called + 1
    /\ UNCHANGED <<pc, queueVars, epollVars, worldVars, result, cur, ncalls,
                   evsigcaught, evsignal_caught, bytes, raised, late>>

\* The callback is called again, as long as ncalls says so.
CallAgain ==
    /\ pc = "call" /\ left > 0
    /\ left' = left - 1
    /\ called' = called + 1
    /\ UNCHANGED <<pc, queueVars, epollVars, worldVars, result, cur, ncalls,
                   evsigcaught, evsignal_caught, bytes, raised, late>>

------------------------------------------------------------------------------
\* The world.
BecomesReady(ev) ==
    /\ ev \notin ready
    /\ ready' = ready \cup {ev}
    /\ UNCHANGED <<pc, queueVars, epollVars, hup, result, callVars, sigVars>>

HangsUp(f) ==
    /\ f \notin hup
    /\ hup' = hup \cup {f}
    /\ UNCHANGED <<pc, queueVars, epollVars, ready, result, callVars, sigVars>>

LoopStep ==
    \/ event_base_loop \/ CheckSignals
    \/ evsignal_activate \/ evsignal_clear \/ evsignal_none
    \/ (\E f \in AllFd : Collect(f)) \/ CollectDone
    \/ CallFirst \/ AllCalled \/ CallReturns \/ CallAgain

Next ==
    \/ LoopStep \/ WaitReturns \/ WaitInterrupted
    \/ \E ev \in UserEv : UserAdds(ev) \/ UserDeletes(ev) \/ BecomesReady(ev)
    \/ \E f \in Fd : HangsUp(f)
    \/ signal_add \/ evsignal_handler

\* The thread runs, callbacks return, and epoll_wait returns when it has
\* something to report; whether its timeout ends it is open.
Fairness ==
    /\ WF_vars(LoopStep)
    /\ WF_vars(Reportable # {} /\ WaitReturns)

Spec == Init /\ [][Next]_vars
FairSpec == Spec /\ Fairness

------------------------------------------------------------------------------
TypeOK ==
    /\ pc \in {"main", "wait", "check", "sigread", "sigclear", "collect", "active",
               "call"}
    /\ inserted \subseteq Ev /\ activeQ \in Seq(Ev)
    /\ event_count \in Nat /\ event_count_active \in Nat
    /\ slot \subseteq IoEv /\ watched \subseteq AllFd
    /\ mask \in [AllFd -> SUBSET Dir]
    /\ ready \subseteq UserEv /\ hup \subseteq Fd
    /\ DOMAIN result \subseteq AllFd
    /\ \A f \in DOMAIN result : result[f] \subseteq Dir
    /\ cur \in Ev /\ left \in Nat /\ ncalls \in Nat
    /\ evsigcaught \in Nat /\ evsignal_caught \in BOOLEAN
    /\ bytes \in Nat /\ raised \in 0 .. MaxSignals
    /\ late \in Nat /\ called \in Nat

(* The counts of event_queue_insert and event_queue_remove are right, no   *)
(* event is on the active queue twice, and the queue is empty whenever the *)
(* loop waits: event_base_loop trusts event_count_active before it calls   *)
(* event_process_active, which cannot cope with an empty queue.  An event  *)
(* on the active queue is inserted, so none is called after a callback     *)
(* deleted it, and event_add, which does nothing for an active event,      *)
(* never forgets one.                                                      *)
QueuesAgree ==
    /\ event_count_active = Len(activeQ)
    /\ event_count = Cardinality(inserted) + Len(activeQ)
    /\ Len(activeQ) = Cardinality(Active)
    /\ pc = "wait" => activeQ = <<>> /\ result = NoResult
    /\ Active \subseteq inserted

(* epoll's table records exactly the inserted I/O events, and although its *)
(* calls of epoll_ctl fail now and then, the kernel watches every one of   *)
(* them: no event is deaf.                                                 *)
TableAgrees ==
    /\ slot = inserted \ {Sig}
    /\ watched = {ev[1] : ev \in slot}
    /\ \A ev \in slot : ev[2] \in mask[ev[1]]

(* The queues, the counts, epoll's table and the kernel agree.             *)
TablesSound == TypeOK /\ QueuesAgree /\ TableAgrees

\* Calls of the signal's callback that were promised and not made yet.
Owed == (IF Sig \in Active THEN ncalls ELSE 0) + left

(* The callback of a signal is called once for each time it was caught,    *)
(* except for signals that come between the reading and the clearing of    *)
(* evsigcaught, which are lost.                                            *)
SignalsAccounted ==
    raised = (IF pc = "sigclear" THEN 0 ELSE evsigcaught) + Owed + called + late

(* evsignal_cb always finds something to read, so that it does not block   *)
(* the loop: its end of the socket pair is a blocking one.                 *)
PairNotEmpty == pc = "call" /\ cur = PairEv => bytes > 0

(* What the handler counts and what it writes reach the loop: no callback  *)
(* is lost beyond those, and no read waits for ever.                       *)
SignalsSound == SignalsAccounted /\ PairNotEmpty

(* An event whose descriptor is ready is called or deleted, whatever other *)
(* events are ready at the same time and are added again for ever.         *)
EventServed ==
    \A ev \in UserEv :
        (ev \in inserted /\ ev \in ready) ~>
            (ev \notin inserted \/ (pc = "call" /\ cur = ev))

\* evsignal_cb is called or will be, before the loop waits again.
Draining ==
    \/ PairEv \in Active \/ (pc = "call" /\ cur = PairEv)
    \/ pc = "collect" /\ Pair \in DOMAIN result

(* A signal caught while no call of evsignal_cb is due is processed, in    *)
(* particular one that comes just before epoll_wait blocks: its byte in    *)
(* the socket pair ends the wait, and evsignal_process runs before the     *)
(* byte is read.  While one is due, evsignal_cb may read the byte of a     *)
(* signal that evsignal_process has not seen; then nothing ends the wait   *)
(* for it, and it stays counted until something else does.                 *)
SignalServed == (evsigcaught > 0 /\ bytes > 0 /\ ~Draining) ~> evsigcaught = 0
==============================================================================
