------------------------------- MODULE MCServices -------------------------------
(* A worker, the master of the workers and the timer service for TLC, side by    *)
(* side: a behaviour is of one of them, and the others stay as they begin.       *)
EXTENDS Worker, MasterWorker, Timer

VARIABLE service

OneInit ==
    /\ service \in {"worker", "master", "timer"}
    /\ Init /\ MasterInit /\ TimerInit
    /\ service # "timer" => orderly

OneNext ==
    /\ \/ /\ service = "worker" /\ Next
          /\ UNCHANGED <<masterVars, timerVars>>
       \/ /\ service = "master" /\ MasterNext
          /\ UNCHANGED <<vars, timerVars>>
       \/ /\ service = "timer" /\ TimerNext
          /\ UNCHANGED <<vars, masterVars>>
    /\ UNCHANGED service

(* The fairness of each: as they begin, no callback of the worker is ready and   *)
(* timer_loop is not called, so that theirs asks for nothing when they stay.     *)
OneFairness ==
    /\ Fairness /\ TimerFairness
    /\ WF_masterVars(service = "master" /\ MasterStep)
    /\ WF_masterVars(service = "master" /\ HandleChld)
    /\ WF_masterVars(service = "master" /\ HandleInt)
    /\ WF_masterVars(service = "master" /\ worker_exit)
    /\ WF_masterVars(service = "master" /\ rogue_exit)

OneSpec ==
    /\ OneInit /\ [][OneNext]_<<service, vars, masterVars, timerVars>>
    /\ OneFairness
=================================================================================
