------------------------------ MODULE JobQueue ------------------------------
(***************************************************************************)
(* The server's job queue (dinkster_server/queue.py) together with the     *)
(* durable record it keeps of accepted work (dinkster_server/history.py).  *)
(*                                                                         *)
(* Everything below runs on one asyncio event loop, so an action is what   *)
(* the code does between two awaits: a public method of JobQueue, one turn *)
(* of the dispatcher, or one stretch of a job's task.  A run number stands *)
(* for the Job object, its run_id and its place in the submission order.   *)
(* Only two things about a job's content matter to the queue, its key and  *)
(* its priority; the content fingerprint only chooses between two replies  *)
(* that leave the queue alone.                                             *)
(***************************************************************************)
EXTENDS Integers, FiniteSets

CONSTANTS
    Clients,       \* client ids
    JobIds,        \* job ids, chosen by the clients
    Priorities,    \* a job's priority, 0 unless the client gives one
    MaxRuns,       \* bound: how many jobs are ever accepted
    HistoryLimit,  \* history_limit: terminal jobs kept in memory
    SlotLimits,    \* the values max_running_jobs takes
    MaxCrashes,    \* bound: how often the process dies
    MaxErased,     \* bound: how many history rows are deleted
    WritesFail,    \* whether the database may refuse a write
    None           \* Python's None

Runs == 1 .. MaxRuns
Keys == Clients \X JobIds

ASSUME QueueAssumption ==
    /\ MaxRuns \in Nat
    /\ 0 \in Priorities /\ Priorities \subseteq Int
    /\ HistoryLimit \in Nat \ {0}
    /\ SlotLimits # {} /\ SlotLimits \subseteq Nat \ {0}
    /\ MaxCrashes \in Nat /\ MaxErased \in Nat
    /\ WritesFail \in BOOLEAN
    /\ None \notin Keys /\ None \notin Runs

VARIABLES
    \* The Job objects.
    key,          \* key[r]: the (client, job id) pair r was submitted under
    prio,         \* prio[r]: its priority
    state,        \* state[r]: Job.state
    task,         \* task[r]: how far the asyncio task _run_job(r) has come
    stop,         \* stop[r]: task.cancel() has been called on it
    verdict,      \* verdict[r]: terminal_state, once the body is over
    \* The JobQueue object.
    jobs,         \* _jobs: key -> the job that holds it
    byRun,        \* _by_run: run -> key
    pending,      \* _pending: queued jobs
    retained,     \* _history: terminal jobs still in memory ...
    finished,     \* ... in the order of these stamps
    running,      \* _running: the keys that occupy a slot
    paused, maintenance, wakeup, maxRunning,
    dispatcher,   \* the dispatcher task: "waiting" on _wakeup or "ended"
    phase,        \* "open", "closing", "closed", or "down": no process
    \* The database.
    accepted,     \* accepted[r]: the state column of r's accepted row
    hist,         \* hist[r]: the state column of r's history row
    erased,       \* runs whose history row was deleted on request
    \* Bookkeeping of the model.
    nextRun, crashes

jobVars == <<key, prio, state, task, stop, verdict>>
tableVars == <<jobs, byRun, pending, retained, finished, running>>
controlVars == <<paused, maintenance, wakeup, maxRunning, dispatcher, phase>>
durableVars == <<accepted, hist, erased>>
vars == <<jobVars, tableVars, controlVars, durableVars, nextRun, crashes>>

Verdicts == {"completed", "failed", "cancelled"}  \* TERMINAL_STATES
Active == {"queued", "running"}

TypeOK ==
    /\ key \in [Runs -> Keys \cup {None}]
    /\ prio \in [Runs -> Priorities]
    /\ state \in [Runs -> {"none"} \cup Active \cup Verdicts]
    /\ task \in [Runs -> {"none", "created", "body", "settling", "done"}]
    /\ stop \in [Runs -> BOOLEAN]
    /\ verdict \in [Runs -> Verdicts \cup {None}]
    /\ jobs \in [Keys -> Runs \cup {None}]
    /\ byRun \in [Runs -> Keys \cup {None}]
    /\ pending \subseteq Runs
    /\ retained \subseteq Runs
    /\ finished \in [Runs -> Nat]
    /\ running \subseteq Keys
    /\ paused \in BOOLEAN /\ maintenance \in BOOLEAN /\ wakeup \in BOOLEAN
    /\ maxRunning \in SlotLimits
    /\ dispatcher \in {"waiting", "ended"}
    /\ phase \in {"open", "closing", "closed", "down"}
    /\ accepted \in [Runs -> {"absent"} \cup Active]
    /\ hist \in [Runs -> {"absent", "interrupted"} \cup Verdicts]
    /\ erased \subseteq Runs
    /\ nextRun \in 1 .. MaxRuns + 1
    /\ crashes \in 0 .. MaxCrashes

-----------------------------------------------------------------------------
(* A JobQueue as __init__ and start() leave it, over an empty database.    *)
Init ==
    /\ key = [r \in Runs |-> None]
    /\ prio = [r \in Runs |-> 0]
    /\ state = [r \in Runs |-> "none"]
    /\ task = [r \in Runs |-> "none"]
    /\ stop = [r \in Runs |-> FALSE]
    /\ verdict = [r \in Runs |-> None]
    /\ jobs = [k \in Keys |-> None]
    /\ byRun = [r \in Runs |-> None]
    /\ pending = {} /\ retained = {} /\ running = {}
    /\ finished = [r \in Runs |-> 0]
    /\ paused = FALSE /\ maintenance = FALSE /\ wakeup = FALSE
    /\ maxRunning \in SlotLimits
    /\ dispatcher = "waiting" /\ phase = "open"
    /\ accepted = [r \in Runs |-> "absent"]
    /\ hist = [r \in Runs |-> "absent"]
    /\ erased = {}
    /\ nextRun = 1 /\ crashes = 0

Up == phase # "down"

(* The order of dispatch: higher priority first, then submission order.    *)
Before(q, r) == prio[q] > prio[r] \/ (prio[q] = prio[r] /\ q < r)

(* The job that holds key k, as a set of at most one.                      *)
HolderForgotten(k) == {}
Holder(k) == {jobs[k]} \cap Runs

(* The members of S that finished last, as many as the history keeps.      *)
Newest(S, stamp) ==
    {r \in S : Cardinality({q \in S : stamp[q] > stamp[r]}) < HistoryLimit}

(* The jobs whose row in the database gets written, in a step that writes. *)
Saves == IF WritesFail THEN SUBSET Runs ELSE {Runs}

(* Positions 1..|S| for the members of S.                                  *)
Orders(S) ==
    {o \in [S -> 1 .. Cardinality(S)] : \A q, r \in S : q # r => o[q] # o[r]}

(***************************************************************************)
(* _finish for every job of S, one after the other in the given order.     *)
(* The database moves the accepted row into history in one transaction;    *)
(* for the jobs outside `saved' that write raised and was only logged.     *)
(* The job joins the in-memory history, which drops its oldest members.    *)
(***************************************************************************)
FinishAll(S, v, order, saved) ==
    LET ended == {r \in Runs : state[r] \in Verdicts}
        stamp == [r \in Runs |-> IF r \in S THEN Cardinality(ended) + order[r]
                                            ELSE finished[r]]
        gone  == (retained \cup S) \ Newest(retained \cup S, stamp)
    IN  /\ state' = [r \in Runs |-> IF r \in S THEN v ELSE state[r]]
        /\ accepted' = [r \in Runs |-> IF r \in S \cap saved THEN "absent"
                                                             ELSE accepted[r]]
        /\ hist' = [r \in Runs |->
                      IF r \in S \cap saved /\ hist[r] = "absent"
                      THEN v ELSE hist[r]]
        /\ finished' = [r \in Runs |-> IF r \in gone THEN 0 ELSE stamp[r]]
        /\ retained' = (retained \cup S) \ gone
        /\ jobs' = [k \in Keys |-> IF jobs[k] \in gone THEN None ELSE jobs[k]]
        /\ byRun' = [r \in Runs |-> IF r \in gone THEN None ELSE byRun[r]]

-----------------------------------------------------------------------------
(* The public methods.                                                     *)

(* submit, when the key is free or its holder is terminal.  The accepted   *)
(* row lands first (if that write raises nothing has happened), then the   *)
(* terminal predecessor is retired from _by_run and from _history.         *)
Submit(k, p) ==
    LET r == nextRun
        old == Holder(k)
    IN  /\ phase = "open"
        /\ r \in Runs
        /\ \A q \in old : state[q] \in Verdicts
        /\ accepted' = [accepted EXCEPT ![r] = "queued"]
        /\ byRun' = [q \in Runs |-> IF q = r THEN k
                                    ELSE IF q \in old THEN None ELSE byRun[q]]
        /\ retained' = retained \ old
        /\ jobs' = [jobs EXCEPT ![k] = r]
        /\ key' = [key EXCEPT ![r] = k]
        /\ prio' = [prio EXCEPT ![r] = p]
        /\ state' = [state EXCEPT ![r] = "queued"]
        /\ pending' = pending \cup {r}
        /\ wakeup' = TRUE
        /\ nextRun' = nextRun + 1
        /\ UNCHANGED <<task, stop, verdict, finished, running, paused,
                       maintenance, maxRunning, dispatcher, phase, hist,
                       erased, crashes>>

(* cancel of a queued job: it leaves the queue and is finished at once.    *)
CancelQueued(k, saved) ==
    LET r == jobs[k]
    IN  /\ Up /\ r # None
        /\ state[r] = "queued"
        /\ pending' = pending \ {r}
        /\ FinishAll({r}, "cancelled", [q \in {r} |-> 1], saved)
        /\ UNCHANGED <<key, prio, task, stop, verdict, running, controlVars,
                       erased, nextRun, crashes>>

(* cancel of a running job: its task is asked to stop.                     *)
CancelRunning(k) ==
    LET r == jobs[k]
    IN  /\ Up /\ r # None
        /\ state[r] = "running"
        /\ stop' = [stop EXCEPT ![r] = (task[r] # "done")]
        /\ UNCHANGED <<key, prio, state, task, verdict, tableVars, controlVars,
                       durableVars, nextRun, crashes>>

(* clear: cancel the queued jobs of these clients, in dispatch order.      *)
Clear(who, saved) ==
    LET victims == {r \in pending : key[r][1] \in who}
        order == [r \in victims |->
                    1 + Cardinality({q \in victims : Before(q, r)})]
    IN  /\ Up
        /\ pending' = pending \ victims
        /\ FinishAll(victims, "cancelled", order, saved)
        /\ UNCHANGED <<key, prio, task, stop, verdict, running, controlVars,
                       erased, nextRun, crashes>>

Pause ==
    /\ Up
    /\ paused' = TRUE
    /\ UNCHANGED <<jobVars, tableVars, durableVars, maintenance, wakeup,
                   maxRunning, dispatcher, phase, nextRun, crashes>>

(* Fault: no maintenance check.                                            *)
ResumeAlways ==
    /\ Up
    /\ paused' = FALSE
    /\ wakeup' = TRUE
    /\ UNCHANGED <<jobVars, tableVars, durableVars, maintenance, maxRunning,
                   dispatcher, phase, nextRun, crashes>>

(* resume: refused while maintenance is active.                            *)
Resume ==
    /\ Up
    /\ ~maintenance
    /\ paused' = FALSE
    /\ wakeup' = TRUE
    /\ UNCHANGED <<jobVars, tableVars, durableVars, maintenance, maxRunning,
                   dispatcher, phase, nextRun, crashes>>

BeginMaintenance ==
    /\ Up
    /\ ~maintenance
    /\ paused
    /\ running = {}
    /\ maintenance' = TRUE
    /\ UNCHANGED <<jobVars, tableVars, durableVars, paused, wakeup, maxRunning,
                   dispatcher, phase, nextRun, crashes>>

(* end_maintenance: called by the holder of the freeze; the queue stays    *)
(* paused.                                                                 *)
EndMaintenance ==
    /\ Up
    /\ maintenance
    /\ maintenance' = FALSE
    /\ UNCHANGED <<jobVars, tableVars, durableVars, paused, wakeup, maxRunning,
                   dispatcher, phase, nextRun, crashes>>

(* Fault: a raised limit wakes nobody.                                     *)
SetMaxRunningQuietly(n) ==
    /\ Up
    /\ maxRunning' = n
    /\ UNCHANGED <<jobVars, tableVars, durableVars, paused, maintenance,
                   wakeup, dispatcher, phase, nextRun, crashes>>

(* set_max_running: only a raised limit wakes the dispatcher.              *)
SetMaxRunning(n) ==
    /\ Up
    /\ maxRunning' = n
    /\ wakeup' = (wakeup \/ n > maxRunning)
    /\ UNCHANGED <<jobVars, tableVars, durableVars, paused, maintenance,
                   dispatcher, phase, nextRun, crashes>>

(* close, up to its first await: finish what is queued, in list order (any *)
(* order here), and ask every running task to stop.                        *)
Close(order, saved) ==
    /\ phase = "open"
    /\ phase' = "closing"
    /\ wakeup' = TRUE
    /\ pending' = {}
    /\ FinishAll(pending, "cancelled", order, saved)
    /\ stop' = [r \in Runs |-> stop[r] \/ (/\ state[r] = "running"
                                           /\ task[r] # "done")]
    /\ UNCHANGED <<key, prio, task, verdict, running, paused, maintenance,
                   maxRunning, dispatcher, erased, nextRun, crashes>>

(* Fault: close waits for the slots instead of the tasks.                  *)
CloseWhenIdle ==
    /\ phase = "closing"
    /\ running = {}
    /\ phase' = "closed"
    /\ dispatcher' = "ended"
    /\ UNCHANGED <<jobVars, tableVars, durableVars, paused, maintenance,
                   wakeup, maxRunning, nextRun, crashes>>

(* close, after the tasks it waits for are over: the dispatcher goes too.  *)
CloseDone ==
    /\ phase = "closing"
    /\ \A r \in Runs : state[r] = "running" => task[r] = "done"
    /\ phase' = "closed"
    /\ dispatcher' = "ended"
    /\ UNCHANGED <<jobVars, tableVars, durableVars, paused, maintenance,
                   wakeup, maxRunning, nextRun, crashes>>

-----------------------------------------------------------------------------
(* The dispatcher and the jobs' tasks.                                     *)

(* Fault: the queue is not sorted before a job is popped.                  *)
BatchUnsorted ==
    IF paused \/ maintenance THEN {}
    ELSE {r \in pending :
            Cardinality({q \in pending : q < r})
              < maxRunning - Cardinality(running)}

(* The queued jobs that the inner loop of _dispatch_loop takes: as many as *)
(* there are free slots, first in dispatch order.                          *)
Batch ==
    IF paused \/ maintenance THEN {}
    ELSE {r \in pending :
            Cardinality({q \in pending : Before(q, r)})
              < maxRunning - Cardinality(running)}

(* One turn of _dispatch_loop.  The job_started write may raise (jobs      *)
(* outside `saved'); the job runs all the same.                            *)
Dispatch(saved) ==
    /\ dispatcher = "waiting"
    /\ wakeup
    /\ phase = "open"
    /\ wakeup' = FALSE
    /\ pending' = pending \ Batch
    /\ state' = [r \in Runs |-> IF r \in Batch THEN "running" ELSE state[r]]
    /\ accepted' = [r \in Runs |->
                      IF r \in Batch \cap saved /\ accepted[r] # "absent"
                      THEN "running" ELSE accepted[r]]
    /\ running' = running \cup {key[r] : r \in Batch}
    /\ task' = [r \in Runs |-> IF r \in Batch THEN "created" ELSE task[r]]
    /\ UNCHANGED <<key, prio, stop, verdict, jobs, byRun, retained, finished,
                   paused, maintenance, maxRunning, dispatcher, phase, hist,
                   erased, nextRun, crashes>>

(* The dispatcher wakes in a closed queue and returns.                     *)
DispatcherReturns ==
    /\ dispatcher = "waiting"
    /\ wakeup
    /\ phase = "closing"
    /\ wakeup' = FALSE
    /\ dispatcher' = "ended"
    /\ UNCHANGED <<jobVars, tableVars, durableVars, paused, maintenance,
                   maxRunning, phase, nextRun, crashes>>

(* The first step of a task.  asyncio throws a pending cancellation into   *)
(* the coroutine before its first statement, so a task that was cancelled  *)
(* before it ever ran is over without having entered _run_job's try.       *)
TaskStart(r) ==
    /\ task[r] = "created"
    /\ task' = [task EXCEPT ![r] = IF stop[r] THEN "done" ELSE "body"]
    /\ stop' = [stop EXCEPT ![r] = FALSE]
    /\ UNCHANGED <<key, prio, state, verdict, tableVars, controlVars,
                   durableVars, nextRun, crashes>>

(* The engine and complete_result return or raise, a CancelledError among  *)
(* others; terminal_state is set and the finally clause begins to await    *)
(* settle_job.                                                             *)
BodyEnds(r, v) ==
    /\ task[r] = "body"
    /\ verdict' = [verdict EXCEPT ![r] = v]
    /\ task' = [task EXCEPT ![r] = "settling"]
    /\ stop' = [stop EXCEPT ![r] = FALSE]
    /\ UNCHANGED <<key, prio, state, tableVars, controlVars, durableVars,
                   nextRun, crashes>>

(* Fault: the dispatcher is not woken.                                     *)
FinishRunQuietly(r, saved) ==
    /\ task[r] = "settling"
    /\ task' = [task EXCEPT ![r] = "done"]
    /\ stop' = [stop EXCEPT ![r] = FALSE]
    /\ verdict' = [verdict EXCEPT ![r] = None]
    /\ FinishAll({r}, verdict[r], [q \in {r} |-> 1], saved)
    /\ running' = running \ {key[r]}
    /\ UNCHANGED <<key, prio, pending, paused, maintenance, wakeup,
                   maxRunning, dispatcher, phase, erased, nextRun, crashes>>

(* settle_job is over, by itself, by an error or by a cancellation: the    *)
(* job is finished, its slot is freed and the dispatcher is woken.         *)
FinishRun(r, saved) ==
    /\ task[r] = "settling"
    /\ task' = [task EXCEPT ![r] = "done"]
    /\ stop' = [stop EXCEPT ![r] = FALSE]
    /\ verdict' = [verdict EXCEPT ![r] = None]
    /\ FinishAll({r}, verdict[r], [q \in {r} |-> 1], saved)
    /\ running' = running \ {key[r]}
    /\ wakeup' = TRUE
    /\ UNCHANGED <<key, prio, pending, paused, maintenance, maxRunning,
                   dispatcher, phase, erased, nextRun, crashes>>

-----------------------------------------------------------------------------
(* The database and the process.                                           *)

(* delete and delete_where of the history store.                           *)
DeleteHistory(S) ==
    /\ Up
    /\ S # {} /\ \A r \in S : hist[r] # "absent"
    /\ hist' = [r \in Runs |-> IF r \in S THEN "absent" ELSE hist[r]]
    /\ Cardinality(erased \cup S) <= MaxErased
    /\ erased' = erased \cup S
    /\ UNCHANGED <<jobVars, tableVars, controlVars, accepted, nextRun, crashes>>

(* The process dies, or exits once it is closed: its memory is gone.       *)
Crash ==
    /\ Up
    /\ crashes < MaxCrashes
    /\ crashes' = crashes + 1
    /\ key' = [r \in Runs |-> None]
    /\ prio' = [r \in Runs |-> 0]
    /\ state' = [r \in Runs |-> "none"]
    /\ task' = [r \in Runs |-> "none"]
    /\ stop' = [r \in Runs |-> FALSE]
    /\ verdict' = [r \in Runs |-> None]
    /\ jobs' = [k \in Keys |-> None]
    /\ byRun' = [r \in Runs |-> None]
    /\ pending' = {} /\ retained' = {} /\ running' = {}
    /\ finished' = [r \in Runs |-> 0]
    /\ paused' = FALSE /\ maintenance' = FALSE /\ wakeup' = FALSE
    /\ phase' = "down" /\ dispatcher' = "ended"
    /\ UNCHANGED <<maxRunning, durableVars, nextRun>>

(* Fault: the sweep only takes the rows of jobs that were running.         *)
RestartDropsQueued ==
    /\ phase = "down"
    /\ maxRunning' \in SlotLimits
    /\ phase' = "open" /\ dispatcher' = "waiting"
    /\ hist' = [r \in Runs |->
                  IF accepted[r] = "running" /\ hist[r] = "absent"
                  THEN "interrupted" ELSE hist[r]]
    /\ accepted' = [r \in Runs |-> "absent"]
    /\ UNCHANGED <<jobVars, tableVars, paused, maintenance, wakeup, erased,
                   nextRun, crashes>>

(* The server starts: recover_interrupted sweeps the accepted rows before  *)
(* the queue is built, with the limit the settings name by then.           *)
Restart ==
    /\ phase = "down"
    /\ maxRunning' \in SlotLimits
    /\ phase' = "open" /\ dispatcher' = "waiting"
    /\ hist' = [r \in Runs |->
                  IF accepted[r] # "absent" /\ hist[r] = "absent"
                  THEN "interrupted" ELSE hist[r]]
    /\ accepted' = [r \in Runs |-> "absent"]
    /\ UNCHANGED <<jobVars, tableVars, paused, maintenance, wakeup, erased,
                   nextRun, crashes>>

Next ==
    \/ \E k \in Keys, p \in Priorities : Submit(k, p)
    \/ \E k \in Keys, saved \in Saves : CancelQueued(k, saved)
    \/ \E k \in Keys : CancelRunning(k)
    \/ \E who \in {Clients} \cup {{c} : c \in Clients}, saved \in Saves :
          Clear(who, saved)
    \/ Pause
    \/ Resume
    \/ BeginMaintenance
    \/ EndMaintenance
    \/ \E n \in SlotLimits : SetMaxRunning(n)
    \/ \E order \in Orders(pending), saved \in Saves : Close(order, saved)
    \/ CloseDone
    \/ \E saved \in Saves : Dispatch(saved)
    \/ DispatcherReturns
    \/ \E r \in Runs : TaskStart(r)
    \/ \E r \in Runs, v \in Verdicts : BodyEnds(r, v)
    \/ \E r \in Runs, saved \in Saves : FinishRun(r, saved)
    \/ \E S \in SUBSET Runs : DeleteHistory(S)
    \/ Crash
    \/ Restart

Spec == Init /\ [][Next]_vars

(* The loop runs what is ready: the dispatcher once woken, a task once     *)
(* created or settling, and close once its tasks are over.  That a body    *)
(* ends is the engine's own promise and is assumed here.                   *)
Fairness ==
    /\ WF_vars(\E saved \in Saves : Dispatch(saved))
    /\ \A r \in Runs : /\ WF_vars(TaskStart(r))
                       /\ WF_vars(\E v \in Verdicts : BodyEnds(r, v))
                       /\ WF_vars(\E saved \in Saves : FinishRun(r, saved))
    /\ WF_vars(CloseDone)

FairSpec == Spec /\ Fairness

-----------------------------------------------------------------------------
(* What must hold.                                                         *)

(* Every run the server acknowledged is in exactly one place: the accepted *)
(* table, the history table, or among the rows deleted on request.  No     *)
(* crash, failed write or sweep loses a run or leaves it in both tables    *)
(* (job_terminal's "no crash window", history.py).                         *)
RecordedOnce ==
    \A r \in Runs :
        LET open == accepted[r] # "absent"
            shut == hist[r] # "absent"
            gone == r \in erased
        IN  /\ r < nextRun => (open \/ shut \/ gone)
            /\ r >= nextRun => ~open /\ ~shut /\ ~gone
            /\ ~(open /\ shut) /\ ~(open /\ gone) /\ ~(shut /\ gone)

(* The database never contradicts the process that is alive: a job that is *)
(* queued or running still has its accepted row and is not called running  *)
(* before it was dispatched; a terminal job's history row, if it is there, *)
(* has the job's own verdict and not "interrupted".                        *)
HistoryTruth ==
    \A r \in Runs :
        /\ state[r] \in Active => accepted[r] # "absent"
        /\ state[r] = "queued" => accepted[r] = "queued"
        /\ state[r] \in Verdicts => hist[r] \in {state[r], "absent"}

(* job_for_run: a run id resolves to its own job or to nothing, never to a *)
(* later job submitted under the same key, and every job the queue still   *)
(* holds resolves.  Resubmission and eviction must both keep _jobs and     *)
(* _by_run in step.                                                        *)
RunResolves ==
    \A r \in Runs, k \in Keys : byRun[r] = k <=> jobs[k] = r

(* _jobs, _pending, _history and _running describe the same jobs: the      *)
(* pending ones are the queued ones, a slot belongs to the one running job *)
(* of its key, the retained ones are the terminal jobs that _jobs still    *)
(* holds.  close() indexes _jobs with the keys of _running on the strength *)
(* of this.                                                                *)
TablesAgree ==
    /\ pending = {r \in Runs : state[r] = "queued"}
    /\ running = {key[r] : r \in {q \in Runs : state[q] = "running"}}
    /\ \A r \in Runs : state[r] \in Active => jobs[key[r]] = r
    /\ \A k \in Keys : jobs[k] # None => key[jobs[k]] = k
    /\ retained = {r \in Runs : /\ state[r] \in Verdicts
                                /\ jobs[key[r]] = r}

(* At most history_limit terminal jobs stay in memory, whatever mix of     *)
(* endings, evictions and resubmissions produced them.                     *)
HistoryBounded == Cardinality(retained) <= HistoryLimit

(* After any sequence of calls and endings the tables tell one story: run  *)
(* ids resolve, the four tables hold the same jobs and the bound holds.    *)
QueueInStep == TypeOK /\ RunResolves /\ TablesAgree /\ HistoryBounded

(* No lost wakeup: whenever the open queue could dispatch a job, the       *)
(* dispatcher has been told to look.  end_maintenance and a lowered limit  *)
(* set no wakeup, and must not need to.                                    *)
NoLostWakeup ==
    (/\ phase = "open" /\ pending # {} /\ ~paused /\ ~maintenance
     /\ Cardinality(running) < maxRunning) => wakeup

(* While maintenance is active nothing runs, not even a job submitted,     *)
(* resumed or dispatched after begin_maintenance looked.                   *)
MaintenanceIdle ==
    maintenance => paused /\ running = {}

(* A job ends once: its verdict is never replaced while the process lives, *)
(* whatever cancel, close and the end of its task do in which order.       *)
EndsOnce ==
    [][\A r \in Runs : state[r] \in Verdicts =>
          state'[r] = state[r] \/ phase' = "down"]_vars

(* A dispatch never exceeds the limit in force and never overtakes: no job *)
(* left in the queue comes before one that was just started.               *)
DispatchInOrder ==
    [][\A r \in Runs : state[r] = "queued" /\ state'[r] = "running" =>
          /\ Cardinality(running') <= maxRunning
          /\ \A q \in pending' : ~Before(q, r)]_vars

(* A job whose task is over is not running: "_run_job's handler marks it   *)
(* cancelled" (cancel in queue.py).                                        *)
NoDeadRunningJob ==
    \A r \in Runs : state[r] = "running" => task[r] # "done"

(* A queued job does not wait for ever in an open queue that is not        *)
(* paused, unless a dead running job holds a slot.                         *)
QueuedJobsMove ==
    \A r \in Runs : state[r] = "queued" ~>
        \/ state[r] # "queued"
        \/ paused
        \/ \E q \in Runs : state[q] = "running" /\ task[q] = "done"

(* close() comes to an end: it never waits for a task that waits for it.   *)
CloseEnds == phase = "closing" ~> phase # "closing"

-----------------------------------------------------------------------------
(* The inductive invariant: what ties tasks, tables and rows together.     *)

(* No trace of a run number that was not handed out.                       *)
Fresh == \A r \in Runs : r >= nextRun => state[r] = "none" /\ key[r] = None

(* A task exists only for a job that was dispatched, and a job that has a  *)
(* state has a key.                                                        *)
TaskPhase ==
    \A r \in Runs :
        /\ task[r] \in {"created", "body", "settling"} => state[r] = "running"
        /\ task[r] = "settling" => verdict[r] \in Verdicts
        /\ state[r] # "none" => key[r] \in Keys

(* Without a process there are no jobs in memory.                          *)
DownEmpty == phase = "down" => \A r \in Runs : state[r] = "none"

QueueInv ==
    /\ TypeOK /\ Fresh /\ TaskPhase /\ DownEmpty
    /\ RecordedOnce /\ HistoryTruth
    /\ RunResolves /\ TablesAgree /\ MaintenanceIdle

-----------------------------------------------------------------------------
(* The queue implements the promise about durable records.                 *)

Record(r) == IF hist[r] # "absent" THEN hist[r]
             ELSE IF r \in erased THEN "erased"
             ELSE IF accepted[r] # "absent" THEN accepted[r]
             ELSE "none"

Lifecycle == INSTANCE JobLifecycle WITH record <- [r \in Runs |-> Record(r)]

(* Every step of the queue, the database and the process is a step of the  *)
(* abstract lifecycle of the durable records, or none.                     *)
ImplementsLifecycle == Lifecycle!Spec
=============================================================================
