--------------------------------- MODULE Timer ---------------------------------
(***************************************************************************)
(* The timer service of mytimer (mytimer/timer.c, list.c, select.c): a     *)
(* single thread sleeps until the first timer is due, subtracts the slept  *)
(* time from all waiting timers, moves the due ones from the heap to the   *)
(* list tl and calls them; a multi timer adds itself again, a once timer   *)
(* removes its wrapper from the list ml and frees it.  A callback may      *)
(* register more timers.                                                   *)
(*                                                                         *)
(* The heap is module TimerQueue, which MinHeap implements.  The clock     *)
(* counts nanoseconds, Res of which make the microsecond the code works    *)
(* with: requests and clock readings are rounded down.  Lists are          *)
(* sequences, head first.                                                  *)
(***************************************************************************)
EXTENDS Integers, FiniteSets, Sequences, Functions

CONSTANTS Wrapper,   \* the addresses malloc hands out
          Res,       \* nanoseconds per microsecond
          MaxReq,    \* the longest request, in nanoseconds
          MaxOver,   \* bounds how much longer than asked select sleeps
          MaxBusy,   \* bounds how long a callback runs
          MaxCalls   \* bounds the calls of once_call and multi_call

ASSUME TimerAssumption ==
    /\ Res \in Nat \ {0}
    /\ MaxReq \in Nat /\ MaxOver \in Nat /\ MaxBusy \in Nat /\ MaxCalls \in Nat

Kind == {"once", "multi"}

VARIABLES
    at,      \* "main": outside timer_loop; "wild" and "doublefree": the
             \* behaviour is undefined from here on, and the model ends
    left,    \* the heap: waiting wrapper -> microseconds left
    tl, ml,  \* the activated timers, and all wrappers
    kind,    \* wrapper -> which callback it has
    req,     \* wrapper -> the timeout it was registered with
    lost,    \* wrappers whose min_heap_push failed: never called again
    array,   \* the heap's array: "none", "live" or "freed"
    phase,   \* nanoseconds since the last full microsecond
    served,  \* wrapper -> time since timer_add, with what rounding may have
             \* added to it; not counted beyond MaxReq
    calls,   \* registrations so far
    orderly  \* the program registers nothing while a once timer waits

wrapVars == <<kind, req>>
timerVars == <<at, left, tl, ml, wrapVars, lost, array, phase, served, calls,
              orderly>>

TimerHeap == INSTANCE TimerQueue WITH Timer <- Wrapper, Time <- 0 .. MaxReq + MaxOver

waiting == DOMAIN left

\* The list of activated timers.  list_remove is only asked for the head,
\* which timer_process_actived has just called.
list_new == <<>>
list_insert(l, t) == <<t>> \o l
list_remove(l) == Tail(l)

\* The blocks list_free frees: a timer is the first part of its wrapper.
list_free(l) == Range(l)

\* The list of wrappers.  m_list_insert never sets prev, so only the removal
\* of the head has a defined effect.
m_list_new == <<>>
m_list_insert(l, w) == <<w>> \o l
Removable(l, w) == Head(l) = w
m_list_remove(l) == Tail(l)
m_list_free(l) == Range(l)

TimerInit ==
    /\ at = "main"
    /\ TimerHeap!Init
    /\ tl = list_new /\ ml = m_list_new
    /\ kind = [w \in Wrapper |-> "once"]
    /\ req = [w \in Wrapper |-> 0]
    /\ lost = {} /\ array = "none"
    /\ phase = 0
    /\ served = [w \in Wrapper |-> 0]
    /\ calls = 0
    /\ orderly \in BOOLEAN

\* Real time d passes for the waiting timers, and rounding adds r; the timers
\* of Z begin anew.
Serve(d, r, Z) ==
    served' = [w \in Wrapper |->
                  IF w \in Z THEN 0
                  ELSE IF w \notin waiting THEN served[w]
                  ELSE IF served[w] + d + r > MaxReq THEN MaxReq
                  ELSE served[w] + d + r]

\* The addresses malloc may return.
timer_wrapper_new == Wrapper \ Range(ml)

\* What freed wrappers hold is never read again.
timer_wrapper_free(S) ==
    /\ kind' = [w \in Wrapper |-> IF w \in S THEN "once" ELSE kind[w]]
    /\ req' = [w \in Wrapper |-> IF w \in S THEN 0 ELSE req[w]]

Pass(d) == phase' = (phase + d) % Res

------------------------------------------------------------------------------
\* The conversion of a request to a timeval.
Micros(r) == r \div Res

\* timer_add, whose result the callers ignore.  The capacity of the heap is
\* left open: any push may find that the array cannot be grown.
timer_add(w, r) ==
    \/ TimerHeap!Add(w, Micros(r)) /\ array' = "live" /\ UNCHANGED lost
    \/ lost' = lost \cup {w} /\ UNCHANGED <<left, array>>

timer_set(w, k, r) ==
    /\ kind' = [kind EXCEPT ![w] = k]
    /\ req' = [req EXCEPT ![w] = r]

\* once_call and multi_call, from main or from a callback.  An orderly program
\* leaves the wrapper of a once timer at the head of ml.
Register(w, k, r) ==
    /\ orderly => \A v \in Range(ml) : kind[v] = "multi"
    /\ at \in {"main", "call"} /\ array # "freed" /\ calls < MaxCalls
    /\ w \in timer_wrapper_new
    /\ timer_set(w, k, r)
    /\ timer_add(w, r)
    /\ Serve(0, 0, {w})
    /\ ml' = m_list_insert(ml, w)
    /\ calls' = calls + 1
    /\ UNCHANGED <<at, tl, phase, orderly>>

timer_loop ==
    /\ at = "main" /\ array # "freed"
    /\ at' = "poll"
    /\ UNCHANGED <<left, tl, ml, wrapVars, lost, array, phase, served, calls, orderly>>

\* Mutant: the difference of the clock readings is rounded up.
measured_Up(d) == (phase + d) \div Res + 1

\* The difference of two clock readings d nanoseconds apart.
measured(d) == (phase + d) \div Res

\* Mutant: only the first timer is aged.
timer_update_all_Top(d) ==
    \E t \in waiting :
        /\ TimerHeap!IsTop(t)
        /\ left' = [left EXCEPT ![t] = left[t] - measured(d)]

\* timer_update, between the two clock readings around the sleep.
timer_update_all(d) == TimerHeap!Age(measured(d))

\* select sleeps at least as long as asked for.
Sleep(d) ==
    /\ at = "poll"
    /\ \E t \in waiting : TimerHeap!IsTop(t) /\ d >= left[t] * Res
    /\ timer_update_all(d)
    /\ Serve(d, Res - 1, {})
    /\ Pass(d)
    /\ at' = "expire"
    /\ UNCHANGED <<tl, ml, wrapVars, lost, array, calls, orderly>>

\* A signal ends select and the loop; with an empty heap nothing else does.
Interrupted ==
    /\ at = "poll"
    /\ at' = "main"
    /\ UNCHANGED <<left, tl, ml, wrapVars, lost, array, phase, served, calls, orderly>>

\* timer_process_timeout, one iteration and its end.
Expire ==
    /\ at = "expire"
    /\ \E t \in waiting :
          /\ TimerHeap!IsTop(t) /\ left[t] <= 0
          /\ TimerHeap!Remove(t)
          /\ tl' = list_insert(tl, t)
    /\ UNCHANGED <<at, ml, wrapVars, lost, array, phase, served, calls, orderly>>

ExpireDone ==
    /\ at = "expire"
    /\ \A t \in waiting : TimerHeap!IsTop(t) => left[t] > 0
    /\ at' = "run"
    /\ UNCHANGED <<left, tl, ml, wrapVars, lost, array, phase, served, calls, orderly>>

------------------------------------------------------------------------------
\* Mutant: the list is not checked for being empty.
Call_Unchecked ==
    /\ at = "run"
    /\ at' = "call"
    /\ UNCHANGED <<left, tl, ml, wrapVars, lost, array, phase, served, calls, orderly>>

\* timer_process_actived calls the first timer of tl.
Call ==
    /\ at = "run" /\ tl # <<>>
    /\ at' = "call"
    /\ UNCHANGED <<left, tl, ml, wrapVars, lost, array, phase, served, calls, orderly>>

RunDone ==
    /\ at = "run" /\ tl = <<>>
    /\ at' = "poll"
    /\ UNCHANGED <<left, tl, ml, wrapVars, lost, array, phase, served, calls, orderly>>

\* The end of multi_cb, and list_remove, for which the timer is the head.
MultiReturns(d) ==
    /\ at = "call" /\ kind[Head(tl)] = "multi"
    /\ timer_add(Head(tl), req[Head(tl)])
    /\ Serve(d, 0, {Head(tl)})
    /\ Pass(d)
    /\ tl' = list_remove(tl)
    /\ at' = "run"
    /\ UNCHANGED <<ml, wrapVars, calls, orderly>>

\* Mutant: a once timer adds itself again before it is freed.
OnceReturns_Again(d) ==
    /\ at = "call" /\ kind[Head(tl)] = "once"
    /\ ml # <<>> /\ Removable(ml, Head(tl))
    /\ ml' = m_list_remove(ml)
    /\ timer_add(Head(tl), req[Head(tl)])
    /\ UNCHANGED served
    /\ Pass(d)
    /\ tl' = list_remove(tl)
    /\ at' = "run"
    /\ UNCHANGED <<wrapVars, calls, orderly>>

\* The end of once_cb: m_list_remove, free and list_remove.  The removal of
\* a wrapper that is not the head of ml goes through an uninitialized or null
\* pointer.  The list_remove that follows reads next of the freed wrapper,
\* which free has not overwritten.
OnceReturns(d) ==
    /\ at = "call" /\ kind[Head(tl)] = "once"
    /\ \/ /\ Removable(ml, Head(tl))
          /\ ml' = m_list_remove(ml) /\ tl' = list_remove(tl)
          /\ timer_wrapper_free({Head(tl)}) /\ Serve(d, 0, {Head(tl)})
          /\ at' = "run"
       \/ /\ ~Removable(ml, Head(tl))
          /\ at' = "wild"
          /\ UNCHANGED <<ml, tl, wrapVars, served>>
    /\ Pass(d)
    /\ UNCHANGED <<left, lost, array, calls, orderly>>

------------------------------------------------------------------------------
\* What both functions below free.
FreeAll(next) ==
    /\ at' = IF list_free(tl) \cap m_list_free(ml) # {} \/ array = "freed"
              THEN "doublefree"
              ELSE at
    /\ array' = next
    /\ left' = [w \in {} |-> 0]
    /\ tl' = list_new /\ ml' = m_list_new /\ lost' = {}
    /\ timer_wrapper_free(Wrapper)
    /\ Serve(0, 0, Wrapper)
    /\ UNCHANGED <<phase, calls, orderly>>

\* timer_destory leaves its pointers behind; after it only timer_init makes
\* sense, which then frees the array and the wrappers once more.
timer_destory ==
    /\ at = "main" /\ array # "freed"
    /\ FreeAll(IF array = "live" \/ ml # <<>> THEN "freed" ELSE array)

timer_init ==
    /\ at = "main"
    /\ FreeAll("none")

LoopStep ==
    \/ \E d \in 0 .. MaxReq + MaxOver : Sleep(d)
    \/ Expire \/ ExpireDone \/ Call \/ RunDone
    \/ \E d \in 0 .. MaxBusy : MultiReturns(d) \/ OnceReturns(d)

TimerNext ==
    \/ \E w \in Wrapper, k \in Kind, r \in 0 .. MaxReq : Register(w, k, r)
    \/ timer_loop \/ LoopStep \/ Interrupted
    \/ timer_destory \/ timer_init

\* The thread runs, callbacks return, and now and then a sleep is long enough
\* for the clock to show it.
TimerFairness ==
    /\ WF_timerVars(LoopStep)
    /\ SF_timerVars(\E d \in 0 .. MaxReq + MaxOver : measured(d) > 0 /\ Sleep(d))

TimerSpec == TimerInit /\ [][TimerNext]_timerVars
TimerFairSpec == TimerSpec /\ TimerFairness

------------------------------------------------------------------------------
TimerTypeOK ==
    /\ at \in {"main", "poll", "expire", "run", "call", "wild", "doublefree"}
    /\ waiting \subseteq Wrapper
    /\ left \in [waiting -> Int]
    /\ tl \in Seq(Wrapper) /\ ml \in Seq(Wrapper)
    /\ kind \in [Wrapper -> Kind] /\ req \in [Wrapper -> 0 .. MaxReq]
    /\ lost \subseteq Wrapper
    /\ array \in {"none", "live", "freed"}
    /\ phase \in 0 .. Res - 1
    /\ served \in [Wrapper -> 0 .. MaxReq]
    /\ calls \in 0 .. MaxCalls
    /\ at = "call" => tl # <<>>
    /\ orderly \in BOOLEAN

(* A timer is never called early: when it is activated, the time since its *)
(* timer_add is at least what was asked for, up to one microsecond for the *)
(* rounding of the request and one for each timer_update it waited         *)
(* through.  Time spent in callbacks is not subtracted from the timers, so *)
(* they may be late without bound, but not early.                          *)
NeverEarly == \A w \in Range(tl) : served[w] + Res - 1 >= req[w]

(* Every wrapper in ml waits in the heap, or is activated, or was lost to  *)
(* a failed push, exactly one of these, and heap and tl hold no wrapper    *)
(* that has been freed, whatever callbacks register while timers run.      *)
(* When timer_loop returns no activated timer is left over, so that        *)
(* timer_destory, which frees the timers of tl and then the wrappers they  *)
(* are part of, frees each once.                                           *)
OnePlace ==
    /\ TimerTypeOK
    /\ waiting \cup Range(tl) \cup lost = Range(ml)
    /\ waiting \cap Range(tl) = {}
    /\ lost \cap (waiting \cup Range(tl)) = {}
    /\ Len(tl) = Cardinality(Range(tl))
    /\ Len(ml) = Cardinality(Range(ml))
    /\ at = "main" => tl = <<>>

(* Every waiting timer is activated in the end, also behind multi timers   *)
(* that are always due, as long as the loop is not left.  It is so for an  *)
(* orderly program; any other may run into UnlinksDefined.                 *)
Fires ==
    \A w \in Wrapper :
        (orderly /\ w \in waiting) ~> (w \notin waiting \/ at = "main")

(* list.c:135 asks of a caller of m_list_remove only that the wrapper is   *)
(* in the list, as that of a returning once timer is.  But the unlinking   *)
(* of any wrapper but the head goes through prev, which m_list_insert does *)
(* not set.                                                                *)
UnlinksDefined == at # "wild"
==============================================================================
