----------------------------- MODULE MasterWorker -----------------------------
(***************************************************************************)
(* The process side of the multi_progress server (multi_progress/process.c):*)
(* the master forks Workers workers, replaces one for each SIGCHLD callback *)
(* and on SIGINT or SIGTERM kills its process group.                       *)
(*                                                                         *)
(* Processes of one kind are interchangeable, so the model counts them.  A *)
(* signal goes through three stages: pending in the kernel, which keeps one *)
(* of each kind; caught, counted by libevent's handler, which may run at   *)
(* any moment; and calls, the callback invocations event_dispatch still    *)
(* owes.  SIGTERM is treated like SIGINT, SIGHUP changes nothing.          *)
(***************************************************************************)
EXTENDS Integers

CONSTANTS Workers,     \* workers the master starts (2 in the code)
          MaxDeaths,   \* bounds the workers that die on their own
          MaxStops,    \* bounds the SIGCHLDs for a stopped or continued worker
          MaxTerms,    \* bounds the SIGINTs sent from outside
          MaxRogues,   \* bounds the CGI children whose execve fails
          MaxFails,    \* bounds the forks that fail
          HangPossible \* may a worker be caught in an endless callback?

ASSUME MasterWorkerAssumption ==
    /\ Workers \in Nat \ {0}
    /\ MaxDeaths \in Nat /\ MaxStops \in Nat /\ MaxTerms \in Nat
    /\ MaxRogues \in Nat /\ MaxFails \in Nat
    /\ HangPossible \in BOOLEAN

VARIABLES
    pc,        \* where the master is
    started,   \* workers _master_start_worker has tried to fork
    idle,      \* workers with no signal to act on
    told,      \* workers with a SIGINT to act on
    stuck,      \* workers that never return to their event loop
    rogue,     \* CGI children running on as workers after a failed execve
    toldRogue, \* those of them with a SIGINT to act on
    zombies,   \* dead workers the master has not waited for
    pendChld, pendInt,     \* pending signals of the master: 0 or 1
    caughtChld, caughtInt, \* runs of the signal handler, not yet dispatched
    callChld, callInt,     \* callbacks still to be invoked
    failed,    \* forks that failed
    merged,    \* deaths whose SIGCHLD merged with one already pending
    deaths, stops, terms, rogues  \* budgets used

rogueVars == <<rogue, toldRogue>>
procVars == <<idle, told, stuck, zombies>>
chldVars == <<pendChld, caughtChld, callChld, merged>>
intVars == <<pendInt, caughtInt, callInt>>
budgets == <<deaths, stops, terms, rogues>>
masterVars == <<pc, started, rogueVars, procVars, chldVars, intVars, failed, budgets>>

MasterInit ==
    /\ pc = "start" /\ started = 0
    /\ idle = 0 /\ told = 0 /\ stuck = 0 /\ zombies = 0
    /\ rogue = 0 /\ toldRogue = 0
    /\ pendChld = 0 /\ caughtChld = 0 /\ callChld = 0
    /\ pendInt = 0 /\ caughtInt = 0 /\ callInt = 0
    /\ failed = 0 /\ merged = 0
    /\ deaths = 0 /\ stops = 0 /\ terms = 0 /\ rogues = 0

alive == idle + told + stuck
MasterRuns == pc # "exited"

\* SIGCHLDs of the master on their way to a wait.
InFlight == pendChld + caughtChld + callChld + (IF pc = "wait" THEN 1 ELSE 0)

------------------------------------------------------------------------------
\* fork fails, within the bound of the model.
ForkFails ==
    /\ failed < MaxFails
    /\ failed' = failed + 1
    /\ UNCHANGED <<idle, told>>

\* _master_spawn_worker.  The child inherits the handler's counts, so a SIGINT
\* the master has caught and not dispatched reaches the child too.
master_spawn_worker ==
    \/ /\ IF caughtInt > 0 THEN told' = told + 1 /\ idle' = idle
                           ELSE idle' = idle + 1 /\ told' = told
       /\ UNCHANGED failed
    \/ ForkFails

\* Mutant: the loop runs once too often.
master_start_worker_OneMore ==
    /\ pc = "start"
    /\ master_spawn_worker
    /\ started' = started + 1
    /\ pc' = IF started = Workers THEN "loop" ELSE "start"
    /\ UNCHANGED <<stuck, rogueVars, zombies, chldVars, intVars, budgets>>

\* _master_start_worker, called by master_cycle.
master_start_worker ==
    /\ pc = "start"
    /\ master_spawn_worker
    /\ started' = started + 1
    /\ pc' = IF started + 1 = Workers THEN "loop" ELSE "start"
    /\ UNCHANGED <<stuck, rogueVars, zombies, chldVars, intVars, budgets>>

\* The signal handler libevent installed runs in the master.
HandleChld ==
    /\ MasterRuns /\ pendChld = 1
    /\ pendChld' = 0 /\ caughtChld' = caughtChld + 1
    /\ UNCHANGED <<pc, started, rogueVars, procVars, callChld, merged, intVars,
                   failed, budgets>>

HandleInt ==
    /\ MasterRuns /\ pendInt = 1
    /\ pendInt' = 0 /\ caughtInt' = caughtInt + 1
    /\ UNCHANGED <<pc, started, rogueVars, procVars, chldVars, callInt, failed,
                   budgets>>

\* Mutant: the callback is invoked once however often the handler ran.
Dispatch_Once ==
    /\ pc = "loop"
    /\ callChld = 0 /\ callInt = 0
    /\ caughtChld + caughtInt > 0
    /\ callChld' = IF caughtChld > 0 THEN 1 ELSE 0
    /\ callInt' = caughtInt
    /\ caughtChld' = 0 /\ caughtInt' = 0
    /\ UNCHANGED <<pc, started, rogueVars, procVars, pendChld, merged, pendInt,
                   failed, budgets>>

\* event_dispatch turns the counts into as many invocations of the callback.
Dispatch ==
    /\ pc = "loop"
    /\ callChld = 0 /\ callInt = 0
    /\ caughtChld + caughtInt > 0
    /\ callChld' = caughtChld /\ callInt' = caughtInt
    /\ caughtChld' = 0 /\ caughtInt' = 0
    /\ UNCHANGED <<pc, started, rogueVars, procVars, pendChld, merged, pendInt,
                   failed, budgets>>

\* _sig_callback_master for SIGINT and SIGTERM, up to the kill of _master_exit;
\* it comes before SIGCHLD since signals are dispatched by number.
sig_callback_int ==
    /\ pc = "loop" /\ callInt > 0
    /\ callInt' = callInt - 1
    /\ pc' = "kill"
    /\ UNCHANGED <<started, rogueVars, procVars, chldVars, pendInt, caughtInt,
                   failed, budgets>>

\* _sig_callback_master for SIGCHLD, up to its call of wait.
sig_callback_chld ==
    /\ pc = "loop" /\ callInt = 0 /\ callChld > 0
    /\ callChld' = callChld - 1
    /\ pc' = "wait"
    /\ UNCHANGED <<started, rogueVars, procVars, pendChld, caughtChld, merged,
                   intVars, failed, budgets>>

\* Mutant: a wait that does not block, whose 0 is taken for a child.
WaitChild_NoHang ==
    /\ pc = "wait"
    /\ zombies' = IF zombies > 0 THEN zombies - 1 ELSE 0
    /\ pc' = "spawn"
    /\ UNCHANGED <<started, idle, told, stuck, rogueVars, chldVars, intVars,
                   failed, budgets>>

\* wait(&stat) returns a dead child.  With running children and no dead one it
\* blocks: the handler restarts it, so signals do not end it.
WaitChild ==
    /\ pc = "wait" /\ zombies > 0
    /\ zombies' = zombies - 1
    /\ pc' = "spawn"
    /\ UNCHANGED <<started, idle, told, stuck, rogueVars, chldVars, intVars,
                   failed, budgets>>

\* wait returns -1 when there is no child at all.
WaitError ==
    /\ pc = "wait" /\ zombies = 0 /\ alive = 0
    /\ pc' = "loop"
    /\ UNCHANGED <<started, rogueVars, procVars, chldVars, intVars, failed,
                   budgets>>

\* Mutant: no replacement is forked.
SpawnOneMore_Not ==
    /\ pc = "spawn"
    /\ pc' = "loop"
    /\ UNCHANGED <<started, idle, told, failed>>
    /\ UNCHANGED <<stuck, rogueVars, zombies, chldVars, intVars, budgets>>

\* The rest of the SIGCHLD callback: one more worker.
SpawnOneMore ==
    /\ pc = "spawn"
    /\ master_spawn_worker
    /\ pc' = "loop"
    /\ UNCHANGED <<started, stuck, rogueVars, zombies, chldVars, intVars, budgets>>

\* Mutant: exit without the kill.
master_exit_Silent ==
    /\ pc = "kill"
    /\ pc' = "exited"
    /\ UNCHANGED <<started, rogueVars, procVars, chldVars, intVars, failed,
                   budgets>>

\* SIGINT for every process of the group but the master.
TellGroup ==
    /\ told' = told + idle /\ idle' = 0
    /\ toldRogue' = toldRogue + rogue /\ rogue' = 0

\* _master_exit: kill(0, SIGINT) reaches the whole group, then exit.
master_exit ==
    /\ pc = "kill"
    /\ TellGroup
    /\ pc' = "exited"
    /\ UNCHANGED <<started, stuck, zombies, chldVars, intVars, failed, budgets>>

------------------------------------------------------------------------------
\* A child of the master changes state; with died it leaves a zombie.  When the
\* master is gone nobody waits.
RaiseChld(died) ==
    IF ~MasterRuns THEN UNCHANGED <<zombies, pendChld, merged>>
    ELSE /\ pendChld' = 1
         /\ zombies' = IF died THEN zombies + 1 ELSE zombies
         /\ merged' = IF died /\ pendChld = 1 THEN merged + 1 ELSE merged

\* A worker dies on its own: a crash, or a signal nobody handles.
WorkerDies ==
    /\ deaths < MaxDeaths
    /\ deaths' = deaths + 1
    /\ \/ idle > 0 /\ idle' = idle - 1 /\ UNCHANGED <<told, stuck>>
       \/ told > 0 /\ told' = told - 1 /\ UNCHANGED <<idle, stuck>>
       \/ stuck > 0 /\ stuck' = stuck - 1 /\ UNCHANGED <<idle, told>>
    /\ RaiseChld(TRUE)
    /\ UNCHANGED <<pc, started, rogueVars, caughtChld, callChld, intVars, failed,
                   stops, terms, rogues>>

\* A worker is stopped or continued, which raises SIGCHLD as well.
WorkerStops ==
    /\ stops < MaxStops /\ alive > 0 /\ MasterRuns
    /\ stops' = stops + 1
    /\ RaiseChld(FALSE)
    /\ UNCHANGED <<pc, started, rogueVars, idle, told, stuck, caughtChld, callChld,
                   intVars, failed, deaths, terms, rogues>>

\* _sig_callback_worker for SIGINT and SIGTERM: _worker_exit.
worker_exit ==
    /\ told > 0
    /\ told' = told - 1
    /\ RaiseChld(TRUE)
    /\ UNCHANGED <<pc, started, rogueVars, idle, stuck, caughtChld, callChld,
                   intVars, failed, budgets>>

\* The same in a CGI child that runs on: its parent is a worker.
rogue_exit ==
    /\ toldRogue > 0
    /\ toldRogue' = toldRogue - 1
    /\ UNCHANGED <<pc, started, rogue, procVars, chldVars, intVars, failed,
                   budgets>>

\* _conn_parse_request: execve fails, and the child returns to the event loop
\* it has inherited instead of exiting.
RogueFork ==
    /\ rogues < MaxRogues
    /\ rogues' = rogues + 1
    /\ \/ idle > 0 /\ rogue' = rogue + 1 /\ UNCHANGED toldRogue
       \/ told > 0 /\ toldRogue' = toldRogue + 1 /\ UNCHANGED rogue
    /\ UNCHANGED <<pc, started, procVars, chldVars, intVars, failed, deaths,
                   stops, terms>>

\* _conn_write_response does not return (module Worker).
WorkerHangs ==
    /\ HangPossible
    /\ \/ idle > 0 /\ idle' = idle - 1 /\ UNCHANGED told
       \/ told > 0 /\ told' = told - 1 /\ UNCHANGED idle
    /\ stuck' = stuck + 1
    /\ UNCHANGED <<pc, started, rogueVars, zombies, chldVars, intVars, failed,
                   budgets>>

\* A SIGINT from outside, to the master alone or to the group (a terminal).
Term ==
    /\ terms < MaxTerms /\ MasterRuns
    /\ terms' = terms + 1
    /\ pendInt' = 1
    /\ TellGroup \/ UNCHANGED <<idle, told, rogueVars>>
    /\ UNCHANGED <<pc, started, stuck, zombies, chldVars, caughtInt, callInt,
                   failed, deaths, stops, rogues>>

MasterStep ==
    \/ master_start_worker \/ Dispatch
    \/ sig_callback_int \/ sig_callback_chld
    \/ WaitChild \/ WaitError \/ SpawnOneMore \/ master_exit

MasterNext ==
    \/ MasterStep
    \/ HandleChld \/ HandleInt
    \/ WorkerDies \/ WorkerStops \/ WorkerHangs \/ worker_exit
    \/ rogue_exit \/ RogueFork
    \/ Term

\* The kernel runs the master and its handlers, and a worker that is in its
\* event loop sees a signal.
MasterFairness ==
    /\ WF_masterVars(MasterStep)
    /\ WF_masterVars(HandleChld) /\ WF_masterVars(HandleInt)
    /\ WF_masterVars(worker_exit) /\ WF_masterVars(rogue_exit)

MasterSpec == MasterInit /\ [][MasterNext]_masterVars
MasterFairSpec == MasterSpec /\ MasterFairness

------------------------------------------------------------------------------
MasterTypeOK ==
    /\ pc \in {"start", "loop", "wait", "spawn", "kill", "exited"}
    /\ started \in 0 .. Workers
    /\ pc = "start" <=> started < Workers
    /\ idle \in Nat /\ told \in Nat /\ stuck \in Nat /\ zombies \in Nat
    /\ rogue \in Nat /\ toldRogue \in Nat
    /\ pendChld \in 0 .. 1 /\ caughtChld \in Nat /\ callChld \in Nat
    /\ pendInt \in 0 .. 1 /\ caughtInt \in Nat /\ callInt \in Nat
    /\ failed \in Nat /\ merged \in Nat
    /\ deaths \in 0 .. MaxDeaths /\ stops \in 0 .. MaxStops
    /\ terms \in 0 .. MaxTerms /\ rogues \in 0 .. MaxRogues

(* No worker is lost and none is created from nothing: over forks, deaths, *)
(* waits and replacements in any order, the running workers, the unwaited  *)
(* dead, the failed forks and the replacement about to be forked are the   *)
(* workers _master_start_worker forked.  In particular the master never    *)
(* runs more than Workers workers.                                         *)
Conservation ==
    MasterRuns =>
        alive + zombies + failed + (IF pc = "spawn" THEN 1 ELSE 0) = started

(* Each SIGCHLD callback calls wait once: a wait that finds no dead child, *)
(* which blocks the master or fails, needs a SIGCHLD for a child that was  *)
(* stopped or continued.                                                   *)
WaitFindsTheDead ==
    MasterRuns => InFlight <= zombies + stops

(* The other way round, a death that no SIGCHLD is on its way for is one   *)
(* whose signal merged with a pending one: the master handles it with a    *)
(* later SIGCHLD or never, and runs that many workers fewer.               *)
UnseenDeathsMerged ==
    MasterRuns => zombies <= InFlight + merged

(* Both: SIGCHLDs on their way and deaths to be handled differ only by the *)
(* stops and by the signals that merged.                                   *)
DeathsSignalled == WaitFindsTheDead /\ UnseenDeathsMerged

(* The books of the master balance: every worker it forked, and every      *)
(* SIGCHLD, is accounted for, in every interleaving.                       *)
WorkersAccounted == MasterTypeOK /\ Conservation /\ DeathsSignalled

(* The server does not die out: without a failed fork, a master without a  *)
(* running worker has a SIGCHLD on its way or is about to fork, however    *)
(* the deaths, the signals and the callbacks interleave.                   *)
NeverDiesOut ==
    MasterRuns /\ started > 0 /\ failed = 0 /\ alive = 0 =>
        InFlight > 0 \/ pc = "spawn"

(* The master does get a worker again after the last one died, unless a    *)
(* fork fails or it is told to exit meanwhile.                             *)
Revives ==
    (MasterRuns /\ started > 0 /\ alive = 0) ~>
        (alive > 0 \/ failed > 0 \/ ~MasterRuns)

(* A SIGINT caught by the master ends the master and every process of its  *)
(* group, except for workers that hang and for a master that waits for a   *)
(* stopped worker.                                                         *)
ShutdownReaches ==
    (caughtInt + callInt > 0) ~>
        \/ ~MasterRuns /\ idle + told + rogue + toldRogue = 0
        \/ pc = "wait" /\ stops > 0
==============================================================================
