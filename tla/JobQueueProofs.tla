--------------------------- MODULE JobQueueProofs ---------------------------
(***************************************************************************)
(* Proofs about JobQueue for every set of clients, every bound and every   *)
(* history limit.                                                          *)
(*                                                                         *)
(* The bound of the history is not inductive by itself: that the newest    *)
(* HistoryLimit jobs are few needs finish stamps that are all different,   *)
(* so HistoryInv says that retained jobs are stamped apart, below the      *)
(* number of jobs that have ended.  How many jobs a turn of the dispatcher *)
(* starts, and how many slots that fills, rests on the same count of ranks *)
(* (FewRanks).                                                             *)
(***************************************************************************)
EXTENDS JobQueue, FiniteSetTheorems, NaturalsInduction, WellFoundedInduction, TLAPS

USE QueueAssumption

(* The run numbers, and hence every set of runs, are finite.               *)
LEMMA RunsFinite ==
    ASSUME NEW S \in SUBSET Runs
    PROVE  IsFiniteSet(S) /\ Cardinality(S) \in Nat
  <1>1. IsFiniteSet(Runs)
    BY FS_Interval DEF Runs
  <1>2. IsFiniteSet(S)
    BY <1>1, FS_Subset
  <1> QED
    BY <1>2, FS_CardinalityType

(* _finish, for any batch of active jobs and any verdict, keeps the tables *)
(* in step with each other and with the database, whichever writes fail.   *)
LEMMA FinishKeepsTables ==
    ASSUME QueueInv,
           NEW S \in SUBSET Runs, \A r \in S : state[r] \in Active,
           NEW v \in Verdicts,
           NEW order, \A r \in S : order[r] \in Nat,
           NEW saved,
           FinishAll(S, v, order, saved),
           key' = key, erased' = erased, nextRun' = nextRun
    PROVE  /\ state' \in [Runs -> {"none"} \cup Active \cup Verdicts]
           /\ accepted' \in [Runs -> {"absent"} \cup Active]
           /\ hist' \in [Runs -> {"absent", "interrupted"} \cup Verdicts]
           /\ finished' \in [Runs -> Nat]
           /\ retained' \subseteq Runs
           /\ jobs' \in [Keys -> Runs \cup {None}]
           /\ byRun' \in [Runs -> Keys \cup {None}]
           /\ RecordedOnce' /\ HistoryTruth' /\ RunResolves' /\ Fresh'
           /\ \A r \in Runs : state'[r] \in Active => jobs'[key'[r]] = r
           /\ \A k \in Keys : jobs'[k] # None => key'[jobs'[k]] = k
           /\ retained' = {r \in Runs : /\ state'[r] \in Verdicts
                                        /\ jobs'[key'[r]] = r}
           /\ \A r \in Runs : state'[r] = IF r \in S THEN v ELSE state[r]
  <1> DEFINE ended == {r \in Runs : state[r] \in Verdicts}
             stamp == [r \in Runs |-> IF r \in S THEN Cardinality(ended) + order[r]
                                                 ELSE finished[r]]
             new   == Newest(retained \cup S, stamp)
             gone  == (retained \cup S) \ new
  <1>1. Cardinality(ended) \in Nat
    BY RunsFinite
  <1>2. /\ state' = [r \in Runs |-> IF r \in S THEN v ELSE state[r]]
        /\ accepted' = [r \in Runs |-> IF r \in S \cap saved THEN "absent"
                                                             ELSE accepted[r]]
        /\ hist' = [r \in Runs |-> IF r \in S \cap saved /\ hist[r] = "absent"
                                   THEN v ELSE hist[r]]
        /\ finished' = [r \in Runs |-> IF r \in gone THEN 0 ELSE stamp[r]]
        /\ retained' = (retained \cup S) \ gone
        /\ jobs' = [k \in Keys |-> IF jobs[k] \in gone THEN None ELSE jobs[k]]
        /\ byRun' = [r \in Runs |-> IF r \in gone THEN None ELSE byRun[r]]
    BY DEF FinishAll
  <1>3. stamp \in [Runs -> Nat]
    <2> HIDE DEF ended
    <2> SUFFICES ASSUME NEW r \in Runs
                 PROVE  (IF r \in S THEN Cardinality(ended) + order[r]
                                    ELSE finished[r]) \in Nat
      OBVIOUS
    <2>1. finished[r] \in Nat
      BY DEF QueueInv, TypeOK
    <2> QED
      BY <2>1, <1>1
  <1>4. gone \subseteq retained \cup S
    OBVIOUS
  <1> HIDE DEF stamp, new, gone, ended
  <1>5. finished' \in [Runs -> Nat]
    BY <1>2, <1>3
  <1>6. /\ state' \in [Runs -> {"none"} \cup Active \cup Verdicts]
        /\ accepted' \in [Runs -> {"absent"} \cup Active]
        /\ hist' \in [Runs -> {"absent", "interrupted"} \cup Verdicts]
    BY <1>2 DEF QueueInv, TypeOK
  <1>7. /\ retained' \subseteq Runs
        /\ jobs' \in [Keys -> Runs \cup {None}]
        /\ byRun' \in [Runs -> Keys \cup {None}]
    BY <1>2 DEF QueueInv, TypeOK
  <1>8. \A r \in S : accepted[r] # "absent"
    BY DEF QueueInv, HistoryTruth
  <1>9. RecordedOnce'
    BY <1>2, <1>8 DEF QueueInv, RecordedOnce, Verdicts, TypeOK
  <1>10. HistoryTruth'
    <2> SUFFICES ASSUME NEW r \in Runs
                 PROVE  /\ state'[r] \in Active => accepted'[r] # "absent"
                        /\ state'[r] = "queued" => accepted'[r] = "queued"
                        /\ state'[r] \in Verdicts => hist'[r] \in {state'[r], "absent"}
      BY DEF HistoryTruth
    <2>1. CASE r \in S
      <3>1. state'[r] = v /\ hist[r] = "absent"
        BY <2>1, <1>2, <1>8 DEF QueueInv, RecordedOnce
      <3> QED
        BY <3>1, <2>1, <1>2 DEF Verdicts, Active, TypeOK, QueueInv
    <2>2. CASE r \notin S
      BY <2>2, <1>2 DEF QueueInv, HistoryTruth, TypeOK
    <2> QED
      BY <2>1, <2>2
  <1>11. \A r \in retained \cup S : key[r] \in Keys /\ jobs[key[r]] = r
    BY DEF QueueInv, TablesAgree, TaskPhase, TypeOK, Verdicts, Active
  <1>12. RunResolves'
    BY <1>2, <1>4, <1>11 DEF QueueInv, RunResolves, TypeOK
  <1>13. Fresh'
    BY <1>2 DEF QueueInv, Fresh, TypeOK, Active
  <1>14. \A r \in Runs : state'[r] \in Active => jobs'[key'[r]] = r
    BY <1>2, <1>4 DEF QueueInv, TablesAgree, TaskPhase, TypeOK, Verdicts, Active
  <1>15. \A k \in Keys : jobs'[k] # None => key'[jobs'[k]] = k
    BY <1>2 DEF QueueInv, TablesAgree, TypeOK
  <1>16. retained' = {r \in Runs : /\ state'[r] \in Verdicts
                                   /\ jobs'[key'[r]] = r}
    BY <1>2, <1>4, <1>11 DEF QueueInv, TablesAgree, TaskPhase, TypeOK, Verdicts, Active
  <1> QED
    BY <1>2, <1>5, <1>6, <1>7, <1>9, <1>10, <1>12, <1>13, <1>14, <1>15, <1>16

-----------------------------------------------------------------------------
(* Each action preserves the invariant.                                    *)

LEMMA SubmitInv ==
    ASSUME QueueInv, NEW k \in Keys, NEW p \in Priorities, Submit(k, p)
    PROVE  QueueInv'
  <1> DEFINE r == nextRun
             old == {jobs[k]} \cap Runs
  <1> USE DEF Submit, Holder
  <1>1. r \in Runs /\ r \in Nat /\ state[r] = "none" /\ key[r] = None
    BY DEF QueueInv, Fresh, TypeOK, Runs
  <1>2. \A q \in old : q # r /\ state[q] \in Verdicts /\ key[q] = k
    BY <1>1 DEF QueueInv, TablesAgree, TypeOK, Verdicts
  <1>3. jobs[k] = None \/ jobs[k] \in old
    BY DEF QueueInv, TypeOK
  <1>4. \A q \in Runs : q # r => state'[q] = state[q] /\ key'[q] = key[q]
    BY DEF QueueInv, TypeOK
  <1>5. state'[r] = "queued" /\ key'[r] = k
    BY <1>1 DEF QueueInv, TypeOK
  <1>6. TypeOK'
    <2>1. nextRun' \in 1 .. MaxRuns + 1
      BY <1>1 DEF QueueInv, TypeOK, Runs
    <2>2. byRun' \in [Runs -> Keys \cup {None}]
      BY DEF QueueInv, TypeOK
    <2>3. /\ accepted' \in [Runs -> {"absent"} \cup Active]
          /\ state' \in [Runs -> {"none"} \cup Active \cup Verdicts]
          /\ key' \in [Runs -> Keys \cup {None}]
          /\ prio' \in [Runs -> Priorities]
          /\ jobs' \in [Keys -> Runs \cup {None}]
          /\ retained' \subseteq Runs /\ pending' \subseteq Runs
      BY <1>1 DEF QueueInv, TypeOK, Active
    <2> QED
      BY <2>1, <2>2, <2>3 DEF QueueInv, TypeOK
  <1>7. Fresh'
    BY <1>1 DEF QueueInv, TypeOK, Fresh, Runs
  <1>8. TaskPhase' /\ DownEmpty' /\ MaintenanceIdle'
    BY <1>1, <1>4, <1>5 DEF QueueInv, TypeOK, TaskPhase, DownEmpty, MaintenanceIdle
  <1>9. RecordedOnce'
    BY <1>1 DEF QueueInv, TypeOK, RecordedOnce, Runs
  <1>10. HistoryTruth'
    BY <1>1, <1>4, <1>5 DEF QueueInv, TypeOK, HistoryTruth, Verdicts, Active
  <1>11. RunResolves'
    <2> SUFFICES ASSUME NEW q \in Runs, NEW l \in Keys
                 PROVE  byRun'[q] = l <=> jobs'[l] = q
      BY DEF RunResolves
    <2>1. byRun'[q] = IF q = r THEN k ELSE IF q \in old THEN None ELSE byRun[q]
      OBVIOUS
    <2>2. jobs'[l] = IF l = k THEN r ELSE jobs[l]
      BY DEF QueueInv, TypeOK
    <2>3. byRun[q] = l <=> jobs[l] = q
      BY DEF QueueInv, RunResolves
    <2>4. byRun[r] = l <=> jobs[l] = r
      BY <1>1 DEF QueueInv, RunResolves
    <2>5. jobs[l] # r
      BY <1>1 DEF QueueInv, TablesAgree, TypeOK
    <2>6. q \in old => byRun[q] = k
      BY DEF QueueInv, RunResolves
    <2> QED
      BY <1>1, <1>2, <1>3, <2>1, <2>2, <2>3, <2>4, <2>5, <2>6 DEF QueueInv, TypeOK
  <1>12. TablesAgree'
    <2>1. pending' = {q \in Runs : state'[q] = "queued"}
      BY <1>1, <1>4, <1>5 DEF QueueInv, TablesAgree
    <2>2. running' = {key'[q] : q \in {p0 \in Runs : state'[p0] = "running"}}
      BY <1>1, <1>4, <1>5 DEF QueueInv, TablesAgree
    <2>3. \A q \in Runs : state'[q] \in Active => jobs'[key'[q]] = q
      BY <1>1, <1>2, <1>3, <1>4, <1>5 DEF QueueInv, TablesAgree, TaskPhase, TypeOK, Active, Verdicts
    <2>4. \A l \in Keys : jobs'[l] # None => key'[jobs'[l]] = l
      BY <1>1, <1>4, <1>5 DEF QueueInv, TablesAgree, TypeOK
    <2>5. retained' = {q \in Runs : state'[q] \in Verdicts /\ jobs'[key'[q]] = q}
      BY <1>1, <1>2, <1>3, <1>4, <1>5 DEF QueueInv, TablesAgree, TaskPhase, TypeOK, Verdicts
    <2> QED
      BY <2>1, <2>2, <2>3, <2>4, <2>5 DEF TablesAgree
  <1> QED
    BY <1>6, <1>7, <1>8, <1>9, <1>10, <1>11, <1>12 DEF QueueInv

(* A step that finishes a batch S of queued jobs at once (cancel, clear,   *)
(* close) and touches no task.                                             *)
LEMMA FinishQueuedInv ==
    ASSUME QueueInv,
           NEW S \in SUBSET pending, NEW order, \A r \in S : order[r] \in Nat,
           NEW saved, FinishAll(S, "cancelled", order, saved),
           pending' = pending \ S,
           stop' \in [Runs -> BOOLEAN],
           wakeup' \in BOOLEAN,
           phase' \in {"open", "closing", "closed"},
           UNCHANGED <<key, prio, task, verdict, running, paused, maintenance,
                       maxRunning, dispatcher, erased, nextRun, crashes>>
    PROVE  QueueInv'
  <1>1. S \in SUBSET Runs /\ \A r \in S : state[r] = "queued"
    BY DEF QueueInv, TypeOK, TablesAgree
  <1>2. /\ state' \in [Runs -> {"none"} \cup Active \cup Verdicts]
        /\ accepted' \in [Runs -> {"absent"} \cup Active]
        /\ hist' \in [Runs -> {"absent", "interrupted"} \cup Verdicts]
        /\ finished' \in [Runs -> Nat]
        /\ retained' \subseteq Runs
        /\ jobs' \in [Keys -> Runs \cup {None}]
        /\ byRun' \in [Runs -> Keys \cup {None}]
        /\ RecordedOnce' /\ HistoryTruth' /\ RunResolves' /\ Fresh'
        /\ \A r \in Runs : state'[r] \in Active => jobs'[key'[r]] = r
        /\ \A k \in Keys : jobs'[k] # None => key'[jobs'[k]] = k
        /\ retained' = {r \in Runs : /\ state'[r] \in Verdicts
                                     /\ jobs'[key'[r]] = r}
        /\ \A r \in Runs : state'[r] = IF r \in S THEN "cancelled" ELSE state[r]
    <2>1. \A r \in S : state[r] \in Active
      BY <1>1 DEF Active
    <2>2. "cancelled" \in Verdicts
      BY DEF Verdicts
    <2> QED
      BY <1>1, <2>1, <2>2, FinishKeepsTables
  <1>3. TypeOK'
    BY <1>2 DEF QueueInv, TypeOK
  <1>4. TaskPhase' /\ DownEmpty' /\ MaintenanceIdle'
    BY <1>1, <1>2 DEF QueueInv, TaskPhase, DownEmpty, MaintenanceIdle
  <1>5. TablesAgree'
    <2>1. pending' = {r \in Runs : state'[r] = "queued"}
      BY <1>1, <1>2 DEF QueueInv, TablesAgree
    <2>2. running' = {key'[r] : r \in {q \in Runs : state'[q] = "running"}}
      BY <1>1, <1>2 DEF QueueInv, TablesAgree
    <2> QED
      BY <2>1, <2>2, <1>2 DEF TablesAgree
  <1> QED
    BY <1>2, <1>3, <1>4, <1>5 DEF QueueInv

LEMMA CancelQueuedInv ==
    ASSUME QueueInv, NEW k \in Keys, NEW saved, CancelQueued(k, saved)
    PROVE  QueueInv'
  <1>1. jobs[k] \in pending /\ {jobs[k]} \in SUBSET pending
    BY DEF CancelQueued, QueueInv, TablesAgree, TypeOK
  <1>2. \A r \in {jobs[k]} : [q \in {jobs[k]} |-> 1][r] \in Nat
    OBVIOUS
  <1>3. /\ FinishAll({jobs[k]}, "cancelled", [q \in {jobs[k]} |-> 1], saved)
        /\ pending' = pending \ {jobs[k]}
        /\ stop' \in [Runs -> BOOLEAN] /\ wakeup' \in BOOLEAN
        /\ phase' \in {"open", "closing", "closed"}
        /\ UNCHANGED <<key, prio, task, verdict, running, paused, maintenance,
                       maxRunning, dispatcher, erased, nextRun, crashes>>
    BY DEF CancelQueued, Up, controlVars, QueueInv, TypeOK
  <1> QED
    BY <1>1, <1>2, <1>3, FinishQueuedInv

LEMMA ClearInv ==
    ASSUME QueueInv, NEW who, NEW saved, Clear(who, saved)
    PROVE  QueueInv'
  <1> DEFINE victims == {r \in pending : key[r][1] \in who}
             order == [r \in victims |->
                         1 + Cardinality({q \in victims : Before(q, r)})]
  <1>1. victims \in SUBSET pending
    OBVIOUS
  <1>2. \A r \in victims : order[r] \in Nat
    <2> SUFFICES ASSUME NEW r \in victims PROVE order[r] \in Nat
      OBVIOUS
    <2>1. Cardinality({q \in victims : Before(q, r)}) \in Nat
      BY RunsFinite DEF QueueInv, TypeOK
    <2> QED
      BY <2>1
  <1>3. /\ FinishAll(victims, "cancelled", order, saved)
        /\ pending' = pending \ victims
        /\ stop' \in [Runs -> BOOLEAN] /\ wakeup' \in BOOLEAN
        /\ phase' \in {"open", "closing", "closed"}
        /\ UNCHANGED <<key, prio, task, verdict, running, paused, maintenance,
                       maxRunning, dispatcher, erased, nextRun, crashes>>
    BY DEF Clear, Up, controlVars, QueueInv, TypeOK
  <1> HIDE DEF victims, order
  <1> QED
    BY <1>1, <1>2, <1>3, FinishQueuedInv

LEMMA CloseInv ==
    ASSUME QueueInv, NEW order \in Orders(pending), NEW saved, Close(order, saved)
    PROVE  QueueInv'
  <1>1. \A r \in pending : order[r] \in Nat
    <2>1. Cardinality(pending) \in Nat
      BY RunsFinite DEF QueueInv, TypeOK
    <2> QED
      BY <2>1 DEF Orders
  <1>2. /\ FinishAll(pending, "cancelled", order, saved)
        /\ pending' = pending \ pending
        /\ wakeup' \in BOOLEAN
        /\ phase' \in {"open", "closing", "closed"}
        /\ UNCHANGED <<key, prio, task, verdict, running, paused, maintenance,
                       maxRunning, dispatcher, erased, nextRun, crashes>>
    BY DEF Close
  <1>3. stop' \in [Runs -> BOOLEAN]
    BY Zenon DEF Close, QueueInv, TypeOK
  <1>4. pending \in SUBSET pending
    OBVIOUS
  <1> QED
    BY <1>1, <1>2, <1>3, <1>4, FinishQueuedInv

(* The steps that leave jobs, tables and rows alone and only turn the      *)
(* queue's switches.                                                       *)
LEMMA ControlInv ==
    ASSUME QueueInv,
           \/ Pause \/ Resume \/ BeginMaintenance \/ EndMaintenance
           \/ (\E n \in SlotLimits : SetMaxRunning(n))
           \/ CloseDone \/ DispatcherReturns
    PROVE  QueueInv'
  <1>1. /\ UNCHANGED <<jobVars, tableVars, durableVars, nextRun, crashes>>
        /\ paused' \in BOOLEAN /\ maintenance' \in BOOLEAN
        /\ wakeup' \in BOOLEAN /\ maxRunning' \in SlotLimits
        /\ dispatcher' \in {"waiting", "ended"}
        /\ phase' \in {"open", "closing", "closed", "down"}
        /\ (phase' = "down" => phase = "down")
        /\ MaintenanceIdle'
    <2> USE DEF QueueInv, TypeOK, MaintenanceIdle, tableVars
    <2>1. CASE Pause
      BY <2>1 DEF Pause
    <2>2. CASE Resume
      BY <2>2 DEF Resume
    <2>3. CASE BeginMaintenance
      BY <2>3 DEF BeginMaintenance
    <2>4. CASE EndMaintenance
      BY <2>4 DEF EndMaintenance
    <2>5. CASE \E n \in SlotLimits : SetMaxRunning(n)
      BY <2>5 DEF SetMaxRunning
    <2>6. CASE CloseDone
      BY <2>6 DEF CloseDone
    <2>7. CASE DispatcherReturns
      BY <2>7 DEF DispatcherReturns
    <2> QED
      BY <2>1, <2>2, <2>3, <2>4, <2>5, <2>6, <2>7
  <1>2. TypeOK'
    BY <1>1 DEF QueueInv, TypeOK, jobVars, tableVars, durableVars
  <1>3. Fresh' /\ TaskPhase' /\ DownEmpty' /\ RecordedOnce' /\ HistoryTruth'
    BY <1>1 DEF QueueInv, Fresh, TaskPhase, DownEmpty, RecordedOnce,
                HistoryTruth, jobVars, durableVars
  <1>4. RunResolves' /\ TablesAgree'
    BY <1>1 DEF QueueInv, RunResolves, TablesAgree, jobVars, tableVars
  <1> QED
    BY <1>1, <1>2, <1>3, <1>4 DEF QueueInv

(* The steps of a task before its end, and a cancellation request: they    *)
(* move task, stop and verdict of a job and nothing else.                  *)
LEMMA TaskStepInv ==
    ASSUME QueueInv,
           \/ \E k \in Keys : CancelRunning(k)
           \/ \E r \in Runs : TaskStart(r)
           \/ \E r \in Runs, v \in Verdicts : BodyEnds(r, v)
    PROVE  QueueInv'
  <1>1. /\ UNCHANGED <<key, prio, state, tableVars, controlVars, durableVars,
                       nextRun, crashes>>
        /\ TaskPhase'
        /\ task' \in [Runs -> {"none", "created", "body", "settling", "done"}]
        /\ verdict' \in [Runs -> Verdicts \cup {None}]
    <2>1. CASE \E k \in Keys : CancelRunning(k)
      BY <2>1 DEF CancelRunning, QueueInv, TypeOK, TaskPhase
    <2>2. CASE \E r \in Runs : TaskStart(r)
      BY <2>2 DEF TaskStart, QueueInv, TypeOK, TaskPhase
    <2>3. CASE \E r \in Runs, v \in Verdicts : BodyEnds(r, v)
      BY <2>3 DEF BodyEnds, QueueInv, TypeOK, TaskPhase
    <2> QED
      BY <2>1, <2>2, <2>3
  <1>2. stop' \in [Runs -> BOOLEAN]
    BY DEF CancelRunning, TaskStart, BodyEnds, QueueInv, TypeOK
  <1>3. TypeOK'
    BY <1>1, <1>2 DEF QueueInv, TypeOK, tableVars, controlVars, durableVars
  <1>4. Fresh' /\ DownEmpty' /\ RecordedOnce' /\ HistoryTruth' /\ MaintenanceIdle'
    BY <1>1 DEF QueueInv, Fresh, DownEmpty, RecordedOnce, HistoryTruth,
                MaintenanceIdle, durableVars, controlVars, tableVars
  <1>5. RunResolves' /\ TablesAgree'
    BY <1>1 DEF QueueInv, RunResolves, TablesAgree, tableVars
  <1> QED
    BY <1>1, <1>3, <1>4, <1>5 DEF QueueInv

LEMMA DispatchInv ==
    ASSUME QueueInv, NEW saved, Dispatch(saved)
    PROVE  QueueInv'
  <1>1. Batch \subseteq pending /\ Batch \subseteq Runs
    BY DEF Batch, QueueInv, TypeOK
  <1>2. \A r \in Batch : state[r] = "queued" /\ key[r] \in Keys
    BY <1>1 DEF QueueInv, TablesAgree, TaskPhase
  <1>3. paused \/ maintenance => Batch = {}
    BY DEF Batch
  <1> DEFINE B == Batch
  <1>4. /\ wakeup' = FALSE
        /\ pending' = pending \ B
        /\ state' = [r \in Runs |-> IF r \in B THEN "running" ELSE state[r]]
        /\ accepted' = [r \in Runs |->
                          IF r \in B \cap saved /\ accepted[r] # "absent"
                          THEN "running" ELSE accepted[r]]
        /\ running' = running \cup {key[r] : r \in B}
        /\ task' = [r \in Runs |-> IF r \in B THEN "created" ELSE task[r]]
        /\ UNCHANGED <<key, prio, stop, verdict, jobs, byRun, retained, finished,
                       paused, maintenance, maxRunning, dispatcher, phase, hist,
                       erased, nextRun, crashes>>
        /\ phase = "open"
    BY DEF Dispatch
  <1> HIDE DEF B
  <1>5. B \subseteq pending /\ B \subseteq Runs
        /\ (\A r \in B : state[r] = "queued" /\ key[r] \in Keys)
        /\ (maintenance => B = {})
    BY <1>1, <1>2, <1>3 DEF B
  <1>6. TypeOK'
    <2>1. /\ state' \in [Runs -> {"none"} \cup Active \cup Verdicts]
          /\ accepted' \in [Runs -> {"absent"} \cup Active]
          /\ task' \in [Runs -> {"none", "created", "body", "settling", "done"}]
      BY <1>4, <1>5 DEF QueueInv, TypeOK, Active
    <2>2. running' \subseteq Keys
      <3>1. {key[r] : r \in B} \subseteq Keys
        BY <1>5
      <3> QED
        BY <3>1, <1>4 DEF QueueInv, TypeOK
    <2>3. pending' \subseteq Runs /\ wakeup' \in BOOLEAN
      BY <1>4, <1>5 DEF QueueInv, TypeOK
    <2> QED
      BY <2>1, <2>2, <2>3, <1>4 DEF QueueInv, TypeOK
  <1>7. Fresh' /\ TaskPhase' /\ DownEmpty'
    BY <1>4, <1>5 DEF QueueInv, TypeOK, Fresh, TaskPhase, DownEmpty
  <1>8. RecordedOnce' /\ HistoryTruth'
    BY <1>4, <1>5 DEF QueueInv, TypeOK, RecordedOnce, HistoryTruth, Active, Verdicts
  <1>9. MaintenanceIdle' /\ RunResolves'
    BY <1>4, <1>5 DEF QueueInv, MaintenanceIdle, RunResolves
  <1>10. TablesAgree'
    <2>1. pending' = {r \in Runs : state'[r] = "queued"}
      BY <1>4, <1>5 DEF QueueInv, TablesAgree
    <2>2. running' = {key'[r] : r \in {q \in Runs : state'[q] = "running"}}
      BY <1>4, <1>5 DEF QueueInv, TablesAgree
    <2>3. /\ \A r \in Runs : state'[r] \in Active => jobs'[key'[r]] = r
          /\ \A k \in Keys : jobs'[k] # None => key'[jobs'[k]] = k
      BY <1>4, <1>5 DEF QueueInv, TablesAgree, Active
    <2>4. retained' = {r \in Runs : /\ state'[r] \in Verdicts
                                    /\ jobs'[key'[r]] = r}
      BY <1>4, <1>5 DEF QueueInv, TablesAgree, Verdicts
    <2> QED
      BY <2>1, <2>2, <2>3, <2>4 DEF TablesAgree
  <1> QED
    BY <1>6, <1>7, <1>8, <1>9, <1>10 DEF QueueInv

LEMMA FinishRunInv ==
    ASSUME QueueInv, NEW r \in Runs, NEW saved, FinishRun(r, saved)
    PROVE  QueueInv'
  <1>1. /\ state[r] = "running" /\ verdict[r] \in Verdicts /\ key[r] \in Keys
        /\ {r} \in SUBSET Runs /\ \A q \in {r} : state[q] \in Active
        /\ \A q \in {r} : [p \in {r} |-> 1][q] \in Nat
    BY DEF FinishRun, QueueInv, TaskPhase, Active
  <1>2. /\ FinishAll({r}, verdict[r], [q \in {r} |-> 1], saved)
        /\ task' = [task EXCEPT ![r] = "done"]
        /\ running' = running \ {key[r]}
        /\ wakeup' = TRUE
        /\ stop' = [stop EXCEPT ![r] = FALSE]
        /\ verdict' = [verdict EXCEPT ![r] = None]
        /\ UNCHANGED <<key, prio, pending, paused, maintenance, maxRunning,
                       dispatcher, phase, erased, nextRun, crashes>>
    BY DEF FinishRun
  <1>3. /\ state' \in [Runs -> {"none"} \cup Active \cup Verdicts]
        /\ accepted' \in [Runs -> {"absent"} \cup Active]
        /\ hist' \in [Runs -> {"absent", "interrupted"} \cup Verdicts]
        /\ finished' \in [Runs -> Nat]
        /\ retained' \subseteq Runs
        /\ jobs' \in [Keys -> Runs \cup {None}]
        /\ byRun' \in [Runs -> Keys \cup {None}]
        /\ RecordedOnce' /\ HistoryTruth' /\ RunResolves' /\ Fresh'
        /\ \A q \in Runs : state'[q] \in Active => jobs'[key'[q]] = q
        /\ \A k \in Keys : jobs'[k] # None => key'[jobs'[k]] = k
        /\ retained' = {q \in Runs : /\ state'[q] \in Verdicts
                                     /\ jobs'[key'[q]] = q}
        /\ \A q \in Runs : state'[q] = IF q \in {r} THEN verdict[r] ELSE state[q]
    BY <1>1, <1>2, FinishKeepsTables
  <1>4. state'[r] \in Verdicts /\ \A q \in Runs : q # r => state'[q] = state[q]
    BY <1>1, <1>3
  <1>5. TypeOK'
    BY <1>1, <1>2, <1>3 DEF QueueInv, TypeOK
  <1>6. TaskPhase' /\ DownEmpty' /\ MaintenanceIdle'
    BY <1>1, <1>2, <1>4 DEF QueueInv, TypeOK, TaskPhase, DownEmpty, MaintenanceIdle
  <1>7. TablesAgree'
    <2>1. pending' = {q \in Runs : state'[q] = "queued"}
      BY <1>1, <1>2, <1>4 DEF QueueInv, TablesAgree, Verdicts
    <2>2. running' = {key'[q] : q \in {p \in Runs : state'[p] = "running"}}
      <3>1. \A q \in Runs : state[q] = "running" /\ key[q] = key[r] => q = r
        BY <1>1 DEF QueueInv, TablesAgree, Active
      <3>2. running = {key[q] : q \in {p \in Runs : state[p] = "running"}}
        BY DEF QueueInv, TablesAgree
      <3>3. \A q \in Runs : state'[q] = "running" <=> state[q] = "running" /\ q # r
        BY <1>4 DEF Verdicts
      <3> QED
        BY <1>2, <3>1, <3>2, <3>3
    <2> QED
      BY <2>1, <2>2, <1>3 DEF TablesAgree
  <1> QED
    BY <1>3, <1>5, <1>6, <1>7 DEF QueueInv

LEMMA ProcessInv ==
    ASSUME QueueInv,
           \/ \E S \in SUBSET Runs : DeleteHistory(S)
           \/ Crash
           \/ Restart
    PROVE  QueueInv'
  <1>1. CASE \E S \in SUBSET Runs : DeleteHistory(S)
    <2>1. PICK S \in SUBSET Runs : DeleteHistory(S)
      BY <1>1
    <2> USE <2>1 DEF DeleteHistory, jobVars, tableVars, controlVars
    <2>2. TypeOK'
      <3>1. hist' \in [Runs -> {"absent", "interrupted"} \cup Verdicts]
        BY DEF QueueInv, TypeOK
      <3> QED
        BY <3>1 DEF QueueInv, TypeOK
    <2>3. RecordedOnce' /\ HistoryTruth'
      BY DEF QueueInv, TypeOK, RecordedOnce, HistoryTruth, Active, Verdicts
    <2>4. Fresh' /\ TaskPhase' /\ DownEmpty' /\ MaintenanceIdle' /\ RunResolves'
          /\ TablesAgree'
      BY DEF QueueInv, Fresh, TaskPhase, DownEmpty, MaintenanceIdle,
             RunResolves, TablesAgree
    <2> QED
      BY <2>2, <2>3, <2>4 DEF QueueInv
  <1>2. CASE Crash
    <2> USE <1>2 DEF Crash, durableVars
    <2>1. TypeOK'
      <3>1. crashes' \in 0 .. MaxCrashes
        BY DEF QueueInv, TypeOK
      <3>2. /\ key' \in [Runs -> Keys \cup {None}]
            /\ prio' \in [Runs -> Priorities]
            /\ state' \in [Runs -> {"none"} \cup Active \cup Verdicts]
            /\ task' \in [Runs -> {"none", "created", "body", "settling", "done"}]
            /\ stop' \in [Runs -> BOOLEAN]
            /\ verdict' \in [Runs -> Verdicts \cup {None}]
        OBVIOUS
      <3>3. /\ jobs' \in [Keys -> Runs \cup {None}]
            /\ byRun' \in [Runs -> Keys \cup {None}]
            /\ finished' \in [Runs -> Nat]
            /\ pending' \subseteq Runs /\ retained' \subseteq Runs
            /\ running' \subseteq Keys
        OBVIOUS
      <3> QED
        BY <3>1, <3>2, <3>3 DEF QueueInv, TypeOK
    <2>2. Fresh' /\ TaskPhase' /\ DownEmpty' /\ MaintenanceIdle'
      BY DEF Fresh, TaskPhase, DownEmpty, MaintenanceIdle
    <2>3. RecordedOnce' /\ HistoryTruth'
      BY DEF QueueInv, RecordedOnce, HistoryTruth, Active, Verdicts
    <2>4. RunResolves' /\ TablesAgree'
      BY DEF RunResolves, TablesAgree, Active, Verdicts
    <2> QED
      BY <2>1, <2>2, <2>3, <2>4 DEF QueueInv
  <1>3. CASE Restart
    <2> USE <1>3 DEF Restart, jobVars, tableVars
    <2>1. TypeOK'
      BY DEF QueueInv, TypeOK
    <2>2. Fresh' /\ TaskPhase' /\ DownEmpty' /\ MaintenanceIdle'
      BY DEF QueueInv, Fresh, TaskPhase, DownEmpty, MaintenanceIdle
    <2>3. RecordedOnce' /\ HistoryTruth'
      BY DEF QueueInv, TypeOK, RecordedOnce, HistoryTruth, DownEmpty, Active, Verdicts
    <2>4. RunResolves' /\ TablesAgree'
      BY DEF QueueInv, RunResolves, TablesAgree
    <2> QED
      BY <2>1, <2>2, <2>3, <2>4 DEF QueueInv
  <1> QED
    BY <1>1, <1>2, <1>3

LEMMA InitInv == Init => QueueInv
  <1> SUFFICES ASSUME Init PROVE QueueInv
    OBVIOUS
  <1> USE DEF Init
  <1>1. TypeOK
    <2>1. nextRun \in 1 .. MaxRuns + 1 /\ crashes \in 0 .. MaxCrashes
      OBVIOUS
    <2> QED
      BY <2>1 DEF TypeOK
  <1>2. Fresh /\ TaskPhase /\ DownEmpty /\ MaintenanceIdle
    BY DEF Fresh, TaskPhase, DownEmpty, MaintenanceIdle
  <1>3. RecordedOnce /\ HistoryTruth
    BY DEF RecordedOnce, HistoryTruth, Active, Verdicts, Runs
  <1>4. RunResolves /\ TablesAgree
    BY DEF RunResolves, TablesAgree, Active, Verdicts
  <1> QED
    BY <1>1, <1>2, <1>3, <1>4 DEF QueueInv

LEMMA StutterInv == ASSUME QueueInv, UNCHANGED vars PROVE QueueInv'
  <1> USE DEF vars, jobVars, tableVars, controlVars, durableVars
  <1>1. TypeOK'
    BY DEF QueueInv, TypeOK
  <1>2. Fresh' /\ TaskPhase' /\ DownEmpty' /\ MaintenanceIdle'
    BY DEF QueueInv, Fresh, TaskPhase, DownEmpty, MaintenanceIdle
  <1>3. RecordedOnce' /\ HistoryTruth' /\ RunResolves' /\ TablesAgree'
    BY DEF QueueInv, RecordedOnce, HistoryTruth, RunResolves, TablesAgree
  <1> QED
    BY <1>1, <1>2, <1>3 DEF QueueInv

-----------------------------------------------------------------------------
(* The results.                                                            *)

(* The inductive invariant holds in every state the queue, its database    *)
(* and its crashes can reach.                                              *)
THEOREM QueueInvariant == Spec => []QueueInv
  <1>1. Init => QueueInv
    BY InitInv
  <1>2. QueueInv /\ [Next]_vars => QueueInv'
    <2> SUFFICES ASSUME QueueInv, [Next]_vars PROVE QueueInv'
      OBVIOUS
    <2>1. CASE \E k \in Keys, p \in Priorities : Submit(k, p)
      BY <2>1, SubmitInv
    <2>2. CASE \E k \in Keys, saved \in Saves : CancelQueued(k, saved)
      BY <2>2, CancelQueuedInv
    <2>3. CASE \E who \in {Clients} \cup {{c} : c \in Clients}, saved \in Saves :
                 Clear(who, saved)
      BY <2>3, ClearInv
    <2>4. CASE \E order \in Orders(pending), saved \in Saves : Close(order, saved)
      BY <2>4, CloseInv
    <2>5. CASE \/ Pause \/ Resume \/ BeginMaintenance \/ EndMaintenance
               \/ (\E n \in SlotLimits : SetMaxRunning(n))
               \/ CloseDone \/ DispatcherReturns
      BY <2>5, ControlInv
    <2>6. CASE \/ \E k \in Keys : CancelRunning(k)
               \/ \E r \in Runs : TaskStart(r)
               \/ \E r \in Runs, v \in Verdicts : BodyEnds(r, v)
      BY <2>6, TaskStepInv
    <2>7. CASE \E saved \in Saves : Dispatch(saved)
      BY <2>7, DispatchInv
    <2>8. CASE \E r \in Runs, saved \in Saves : FinishRun(r, saved)
      BY <2>8, FinishRunInv
    <2>9. CASE \/ \E S \in SUBSET Runs : DeleteHistory(S)
               \/ Crash
               \/ Restart
      BY <2>9, ProcessInv
    <2>10. CASE UNCHANGED vars
      BY <2>10, StutterInv
    <2> QED
      BY <2>1, <2>2, <2>3, <2>4, <2>5, <2>6, <2>7, <2>8, <2>9, <2>10 DEF Next
  <1> QED
    BY <1>1, <1>2, PTL DEF Spec

(* The queue, its tasks and its database keep their types.                 *)
THEOREM QueueTypes == Spec => []TypeOK
  BY QueueInvariant, PTL DEF QueueInv

(* Every acknowledged run is in exactly one of the accepted table, the     *)
(* history table and the set of deleted rows, across crashes and failed    *)
(* writes.                                                                 *)
THEOREM RunsAreNeverLost == Spec => []RecordedOnce
  BY QueueInvariant, PTL DEF QueueInv

(* The database never contradicts the living process.                      *)
THEOREM HistoryTellsTheTruth == Spec => []HistoryTruth
  BY QueueInvariant, PTL DEF QueueInv

(* A run id resolves to its own job or to nothing, whatever resubmissions  *)
(* and evictions happen.                                                   *)
THEOREM RunIdsResolve == Spec => []RunResolves
  BY QueueInvariant, PTL DEF QueueInv

(* The queue's tables describe the same jobs.                              *)
THEOREM TablesStayInStep == Spec => []TablesAgree
  BY QueueInvariant, PTL DEF QueueInv

(* Nothing runs during maintenance.                                        *)
THEOREM MaintenanceFindsQueueIdle == Spec => []MaintenanceIdle
  BY QueueInvariant, PTL DEF QueueInv

(* A job's verdict is given once.                                          *)
THEOREM JobsEndOnce == Spec => EndsOnce
  <1> DEFINE A == \A r \in Runs : state[r] \in Verdicts =>
                     state'[r] = state[r] \/ phase' = "down"
  <1>1. ASSUME QueueInv, [Next]_vars PROVE A \/ UNCHANGED vars
    <2> SUFFICES ASSUME NEW r \in Runs, state[r] \in Verdicts, Next
                 PROVE  state'[r] = state[r] \/ phase' = "down"
      BY <1>1
    <2>0. /\ state[r] # "none" /\ state[r] # "queued" /\ state[r] # "running"
          /\ r \notin pending /\ r < nextRun
      BY <1>1 DEF QueueInv, TypeOK, TablesAgree, Fresh, Verdicts, Runs
    <2>1. CASE \E k \in Keys, p \in Priorities : Submit(k, p)
      BY <2>0, <2>1, <1>1 DEF Submit, QueueInv, TypeOK
    <2>2. CASE \E k \in Keys, saved \in Saves : CancelQueued(k, saved)
      BY <2>0, <2>2 DEF CancelQueued, FinishAll
    <2>3. CASE \E who \in {Clients} \cup {{c} : c \in Clients}, saved \in Saves :
                 Clear(who, saved)
      BY <2>0, <2>3 DEF Clear, FinishAll
    <2>4. CASE \E order \in Orders(pending), saved \in Saves : Close(order, saved)
      BY <2>0, <2>4 DEF Close, FinishAll
    <2>5. CASE \/ Pause \/ Resume \/ BeginMaintenance \/ EndMaintenance
               \/ (\E n \in SlotLimits : SetMaxRunning(n))
               \/ CloseDone \/ DispatcherReturns
      BY <2>5 DEF Pause, Resume, BeginMaintenance, EndMaintenance,
                  SetMaxRunning, CloseDone, DispatcherReturns, jobVars
    <2>6. CASE \/ \E k \in Keys : CancelRunning(k)
               \/ \E q \in Runs : TaskStart(q)
               \/ \E q \in Runs, v \in Verdicts : BodyEnds(q, v)
      BY <2>6 DEF CancelRunning, TaskStart, BodyEnds
    <2>7. CASE \E saved \in Saves : Dispatch(saved)
      BY <2>0, <2>7 DEF Dispatch, Batch
    <2>8. CASE \E q \in Runs, saved \in Saves : FinishRun(q, saved)
      BY <2>0, <2>8, <1>1 DEF FinishRun, FinishAll, QueueInv, TaskPhase
    <2>9. CASE \/ \E S \in SUBSET Runs : DeleteHistory(S)
               \/ Crash
               \/ Restart
      BY <2>9 DEF DeleteHistory, Crash, Restart, jobVars
    <2> QED
      BY <2>1, <2>2, <2>3, <2>4, <2>5, <2>6, <2>7, <2>8, <2>9 DEF Next
  <1> QED
    BY <1>1, QueueInvariant, PTL DEF Spec, EndsOnce

-----------------------------------------------------------------------------
(* How many: the history limit, the slots and the wakeup.                  *)

(* Fewer than n ranks lie below n.                                         *)
LEMMA FewRanks ==
    ASSUME NEW T \in SUBSET Runs, NEW rank \in [T -> Nat], NEW n \in Nat,
           \A q, r \in T : q # r => rank[q] # rank[r]
    PROVE  Cardinality({r \in T : rank[r] < n}) <= n
  <1> DEFINE S == {r \in T : rank[r] < n}
             f == [r \in S |-> rank[r]]
  <1>1. f \in Injection(S, 0 .. n - 1)
    BY DEF Injection, IsInjective
  <1>2. IsFiniteSet(0 .. n - 1) /\ Cardinality(0 .. n - 1) = n
    BY FS_Interval
  <1> HIDE DEF S, f
  <1>3. Cardinality(S) <= Cardinality(0 .. n - 1)
    BY <1>1, <1>2, FS_Injection
  <1> QED
    BY <1>2, <1>3 DEF S

(* A set with one element more is larger.                                  *)
LEMMA OneMore ==
    ASSUME NEW A \in SUBSET Runs, NEW B \in SUBSET Runs, NEW s \in B, A \subseteq B, s \notin A
    PROVE  Cardinality(A) < Cardinality(B)
  <1>1. /\ IsFiniteSet(A) /\ IsFiniteSet(B)
        /\ Cardinality(A) \in Nat /\ Cardinality(B) \in Nat
    BY RunsFinite
  <1>2. Cardinality(A) <= Cardinality(B) /\ (Cardinality(B) = Cardinality(A) => B = A)
    BY <1>1, FS_Subset
  <1> QED
    BY <1>1, <1>2

(* If no two jobs ended at the same time, the history keeps its limit.     *)
LEMMA NewestBounded ==
    ASSUME NEW T \in SUBSET Runs, NEW stamp \in [Runs -> Nat],
           \A q, r \in T : q # r => stamp[q] # stamp[r]
    PROVE  Cardinality(Newest(T, stamp)) <= HistoryLimit
  <1> DEFINE Later(r) == {q \in T : stamp[q] > stamp[r]}
             rank == [r \in T |-> Cardinality(Later(r))]
  <1>1. rank \in [T -> Nat]
    BY RunsFinite
  <1>2. ASSUME NEW q \in T, NEW r \in T, stamp[q] < stamp[r] PROVE rank[r] < rank[q]
    <2>1. /\ Later(q) \in SUBSET Runs /\ Later(r) \in SUBSET Runs
          /\ r \in Later(q) /\ r \notin Later(r) /\ Later(r) \subseteq Later(q)
      BY <1>2
    <2> QED
      BY <2>1, OneMore
  <1>3. \A q, r \in T : q # r => rank[q] # rank[r]
    <2> HIDE DEF rank
    <2> SUFFICES ASSUME NEW q \in T, NEW r \in T, q # r PROVE rank[q] # rank[r]
      OBVIOUS
    <2>1. stamp[q] < stamp[r] \/ stamp[r] < stamp[q]
      OBVIOUS
    <2>2. rank[q] \in Nat /\ rank[r] \in Nat
      BY <1>1
    <2> QED
      BY <1>2, <2>1, <2>2
  <1>4. Newest(T, stamp) = {r \in T : rank[r] < HistoryLimit}
    BY DEF Newest
  <1> HIDE DEF rank
  <1> QED
    BY <1>1, <1>3, <1>4, FewRanks

(* The jobs in memory ended one after the other, none after the last.      *)
Over == {r \in Runs : state[r] \in Verdicts}
Stamped ==
    /\ \A r \in retained : finished[r] <= Cardinality(Over)
    /\ \A q, r \in retained : q # r => finished[q] # finished[r]

LEMMA FinishKeepsHistory ==
    ASSUME QueueInv, Stamped,
           NEW S \in SUBSET Runs, \A r \in S : state[r] \in Active,
           NEW v \in Verdicts,
           NEW order, \A r \in S : order[r] \in 1 .. Cardinality(S),
           \A q, r \in S : q # r => order[q] # order[r],
           NEW saved, FinishAll(S, v, order, saved)
    PROVE  Stamped' /\ HistoryBounded'
  <1> DEFINE stamp == [r \in Runs |-> IF r \in S THEN Cardinality(Over) + order[r]
                                                 ELSE finished[r]]
             T == retained \cup S
             new == Newest(T, stamp)
  <1>1. /\ state' = [r \in Runs |-> IF r \in S THEN v ELSE state[r]]
        /\ finished' = [r \in Runs |-> IF r \in T \ new THEN 0 ELSE stamp[r]]
        /\ retained' = T \ (T \ new)
    BY DEF FinishAll, Over
  <1>2. new \subseteq T /\ T \in SUBSET Runs
    BY DEF Newest, QueueInv, TypeOK
  <1>3. /\ Over \in SUBSET Runs /\ S \cap Over = {} /\ S \cap retained = {}
        /\ retained \subseteq Over
    BY DEF Over, QueueInv, TablesAgree, Active, Verdicts
  <1>4. Cardinality(Over) \in Nat /\ Cardinality(S) \in Nat /\ IsFiniteSet(Over) /\ IsFiniteSet(S)
    BY <1>3, RunsFinite
  <1>5. Over' = Over \cup S
    BY <1>1 DEF Over
  <1>6. Cardinality(Over') = Cardinality(Over) + Cardinality(S)
    <2>1. Over \cap S = {}
      BY <1>3
    <2>2. Cardinality(Over \cup S) = Cardinality(Over) + Cardinality(S) - Cardinality(Over \cap S)
      BY <1>4, FS_Union
    <2>3. Cardinality(Over \cap S) = 0
      BY <2>1, FS_EmptySet
    <2> QED
      BY <1>4, <1>5, <2>2, <2>3
  <1>7. \A r \in Runs : stamp[r] \in Nat /\ finished[r] \in Nat
    <2> SUFFICES ASSUME NEW r \in Runs PROVE stamp[r] \in Nat /\ finished[r] \in Nat
      OBVIOUS
    <2>1. finished[r] \in Nat
      BY DEF QueueInv, TypeOK
    <2>2. r \in S => Cardinality(Over) + order[r] \in Nat
      BY <1>4
    <2> QED
      BY <2>1, <2>2
  <1>8. stamp \in [Runs -> Nat]
    BY <1>7
  <1>9. \A r \in S : stamp[r] = Cardinality(Over) + order[r] /\ order[r] \in 1 .. Cardinality(S)
    OBVIOUS
  <1>10. \A r \in retained : stamp[r] = finished[r] /\ finished[r] <= Cardinality(Over)
    BY <1>2, <1>3 DEF Stamped
  <1> HIDE DEF stamp, new
  <1>11. \A r \in T : stamp[r] <= Cardinality(Over')
    BY <1>2, <1>4, <1>6, <1>7, <1>9, <1>10
  <1>12. \A q, r \in T : q # r => stamp[q] # stamp[r]
    <2> SUFFICES ASSUME NEW q \in T, NEW r \in T, q # r PROVE stamp[q] # stamp[r]
      OBVIOUS
    <2>1. CASE q \in retained /\ r \in retained
      BY <1>10, <2>1 DEF Stamped
    <2>2. CASE q \in S /\ r \in S
      BY <1>4, <1>9, <2>2
    <2>3. CASE (q \in S /\ r \in retained) \/ (q \in retained /\ r \in S)
      BY <1>2, <1>4, <1>7, <1>9, <1>10, <2>3
    <2> QED
      BY <2>1, <2>2, <2>3
  <1>13. retained' = new /\ \A r \in new : finished'[r] = stamp[r]
    BY <1>1, <1>2
  <1>14. Stamped'
    BY <1>2, <1>11, <1>12, <1>13 DEF Stamped
  <1>15. HistoryBounded'
    <2>1. Cardinality(new) <= HistoryLimit
      BY <1>2, <1>8, <1>12, NewestBounded DEF new
    <2> QED
      BY <2>1, <1>13 DEF HistoryBounded
  <1> QED
    BY <1>14, <1>15

(* Before orders the queued jobs.                                          *)
LEMMA BeforeOrders ==
    ASSUME QueueInv
    PROVE  /\ \A q \in Runs : ~Before(q, q)
           /\ \A q, r \in Runs : q # r => Before(q, r) \/ Before(r, q)
           /\ \A p, q, r \in Runs : Before(p, q) /\ Before(q, r) => Before(p, r)
  <1>1. \A r \in Runs : prio[r] \in Int /\ r \in Int
    <2>1. \A r \in Runs : prio[r] \in Priorities
      BY DEF QueueInv, TypeOK
    <2>2. \A r \in Runs : r \in Int
      BY DEF Runs
    <2> QED
      BY <2>1, <2>2
  <1> QED
    BY <1>1 DEF Before

(* A job's rank among others: how many of them go first.                   *)
LEMMA RanksDiffer ==
    ASSUME QueueInv, NEW T \in SUBSET Runs, NEW q \in T, NEW r \in T, Before(q, r)
    PROVE  Cardinality({p \in T : Before(p, q)}) < Cardinality({p \in T : Before(p, r)})
  <1> DEFINE A == {p \in T : Before(p, q)}
             B == {p \in T : Before(p, r)}
  <1>1. A \in SUBSET Runs /\ B \in SUBSET Runs /\ A \subseteq B /\ q \in B /\ q \notin A
    BY BeforeOrders
  <1> HIDE DEF A, B
  <1>2. Cardinality(A) < Cardinality(B)
    BY <1>1, OneMore
  <1> QED
    BY <1>2 DEF A, B

(* Stamps and limit hold throughout.                                       *)
HistoryInv == Stamped /\ HistoryBounded

LEMMA HistoryStep ==
    ASSUME QueueInv, HistoryInv, [Next]_vars
    PROVE  HistoryInv'
  <1>0. ASSUME retained' \subseteq retained, \A r \in Runs : finished'[r] = finished[r],
               Over' = Over
        PROVE  HistoryInv'
    <2>1. IsFiniteSet(retained) /\ Cardinality(retained) \in Nat /\ retained \subseteq Runs
      BY RunsFinite DEF QueueInv, TypeOK
    <2>2. Cardinality(retained') <= Cardinality(retained) /\ Cardinality(retained') \in Nat
      BY <1>0, <2>1, FS_Subset, FS_CardinalityType
    <2>3. HistoryBounded'
      BY <2>1, <2>2 DEF HistoryInv, HistoryBounded
    <2> QED
      BY <1>0, <2>1, <2>3 DEF HistoryInv, Stamped
  <1>1. CASE \E k \in Keys, p \in Priorities : Submit(k, p)
    <2>1. PICK k \in Keys, p \in Priorities : Submit(k, p)
      BY <1>1
    <2>2. /\ retained' \subseteq retained /\ finished' = finished /\ nextRun \in Runs
          /\ state' = [state EXCEPT ![nextRun] = "queued"]
      BY <2>1 DEF Submit
    <2>3. state[nextRun] = "none"
      BY <2>2 DEF QueueInv, Fresh, Runs
    <2>4. Over' = Over
      BY <2>2, <2>3 DEF Over, QueueInv, TypeOK, Verdicts
    <2> QED
      BY <1>0, <2>2, <2>4
  <1>2. CASE \E k \in Keys, saved \in Saves : CancelQueued(k, saved)
    <2>1. PICK k \in Keys, saved \in Saves : CancelQueued(k, saved)
      BY <1>2
    <2> DEFINE r == jobs[k]
    <2>2. /\ r \in Runs /\ state[r] \in Active
          /\ FinishAll({r}, "cancelled", [q \in {r} |-> 1], saved)
      BY <2>1 DEF CancelQueued, QueueInv, TypeOK, Active
    <2>3. Cardinality({r}) = 1
      BY FS_Singleton
    <2> HIDE DEF r
    <2> QED
      BY <2>2, <2>3, FinishKeepsHistory DEF HistoryInv, Verdicts
  <1>3. CASE \E who \in {Clients} \cup {{c} : c \in Clients}, saved \in Saves :
               Clear(who, saved)
    <2>1. PICK who, saved : Clear(who, saved)
      BY <1>3
    <2> DEFINE victims == {r \in pending : key[r][1] \in who}
               order == [r \in victims |->
                           1 + Cardinality({q \in victims : Before(q, r)})]
    <2>2. FinishAll(victims, "cancelled", order, saved)
      BY <2>1 DEF Clear
    <2>3. victims \in SUBSET Runs /\ \A r \in victims : state[r] \in Active
      BY DEF QueueInv, TypeOK, TablesAgree, Active
    <2>4. Cardinality(victims) \in Nat
      BY <2>3, RunsFinite
    <2> HIDE DEF victims
    <2>5. \A r \in victims : order[r] \in 1 .. Cardinality(victims)
      <3> SUFFICES ASSUME NEW r \in victims PROVE order[r] \in 1 .. Cardinality(victims)
        OBVIOUS
      <3> DEFINE A == {q \in victims : Before(q, r)}
      <3>1. A \in SUBSET Runs /\ A \subseteq victims /\ r \notin A
        BY <2>3, BeforeOrders
      <3>2. Cardinality(A) \in Nat
        BY <3>1, RunsFinite
      <3>3. order[r] = 1 + Cardinality(A)
        OBVIOUS
      <3> HIDE DEF A, order
      <3>4. Cardinality(A) < Cardinality(victims)
        BY <2>3, <3>1, OneMore
      <3> QED
        BY <2>4, <3>2, <3>3, <3>4
    <2>6. \A q, r \in victims : q # r => order[q] # order[r]
      <3> SUFFICES ASSUME NEW q \in victims, NEW r \in victims, q # r PROVE order[q] # order[r]
        OBVIOUS
      <3>1. \A p \in victims : Cardinality({x \in victims : Before(x, p)}) \in Nat
        BY <2>3, RunsFinite
      <3>2. Before(q, r) \/ Before(r, q)
        BY <2>3, BeforeOrders
      <3>3. \/ Cardinality({p \in victims : Before(p, q)}) < Cardinality({p \in victims : Before(p, r)})
            \/ Cardinality({p \in victims : Before(p, r)}) < Cardinality({p \in victims : Before(p, q)})
        BY <2>3, <3>2, RanksDiffer
      <3> QED
        BY <3>1, <3>3
    <2> HIDE DEF order
    <2> QED
      BY <2>2, <2>3, <2>5, <2>6, FinishKeepsHistory DEF HistoryInv, Verdicts
  <1>4. CASE \E order \in Orders(pending), saved \in Saves : Close(order, saved)
    <2>1. PICK order \in Orders(pending), saved \in Saves : Close(order, saved)
      BY <1>4
    <2>2. FinishAll(pending, "cancelled", order, saved)
      BY <2>1 DEF Close
    <2>3. pending \in SUBSET Runs /\ \A r \in pending : state[r] \in Active
      BY DEF QueueInv, TypeOK, TablesAgree, Active
    <2>4. /\ \A r \in pending : order[r] \in 1 .. Cardinality(pending)
          /\ \A q, r \in pending : q # r => order[q] # order[r]
      BY DEF Orders
    <2> QED
      BY <2>2, <2>3, <2>4, FinishKeepsHistory DEF HistoryInv, Verdicts
  <1>5. CASE \/ Pause \/ Resume \/ BeginMaintenance \/ EndMaintenance
             \/ (\E n \in SlotLimits : SetMaxRunning(n))
             \/ CloseDone \/ DispatcherReturns
    <2>1. UNCHANGED <<jobVars, tableVars>>
      BY <1>5 DEF Pause, Resume, BeginMaintenance, EndMaintenance, SetMaxRunning, CloseDone,
                  DispatcherReturns
    <2> QED
      BY <1>0, <2>1 DEF jobVars, tableVars, Over
  <1>6. CASE \/ \E k \in Keys : CancelRunning(k)
             \/ \E r \in Runs : TaskStart(r)
             \/ \E r \in Runs, v \in Verdicts : BodyEnds(r, v)
    <2>1. UNCHANGED <<state, tableVars>>
      BY <1>6 DEF CancelRunning, TaskStart, BodyEnds
    <2> QED
      BY <1>0, <2>1 DEF tableVars, Over
  <1>7. CASE \E saved \in Saves : Dispatch(saved)
    <2>1. UNCHANGED <<retained, finished>>
      BY <1>7 DEF Dispatch
    <2>2. \A r \in Batch : state[r] = "queued"
      BY DEF Batch, QueueInv, TablesAgree
    <2>3. Over' = Over
      BY <1>7, <2>2 DEF Dispatch, Over, Verdicts
    <2> QED
      BY <1>0, <2>1, <2>3
  <1>8. CASE \E r \in Runs, saved \in Saves : FinishRun(r, saved)
    <2>1. PICK r \in Runs, saved \in Saves : FinishRun(r, saved)
      BY <1>8
    <2>2. /\ state[r] \in Active /\ verdict[r] \in Verdicts
          /\ FinishAll({r}, verdict[r], [q \in {r} |-> 1], saved)
      BY <2>1 DEF FinishRun, QueueInv, TaskPhase, Active
    <2>3. Cardinality({r}) = 1
      BY FS_Singleton
    <2> QED
      BY <2>2, <2>3, FinishKeepsHistory DEF HistoryInv
  <1>9. CASE \E S \in SUBSET Runs : DeleteHistory(S)
    BY <1>0, <1>9 DEF DeleteHistory, jobVars, tableVars, Over
  <1>10. CASE Crash
    <2>1. retained' = {}
      BY <1>10 DEF Crash
    <2> QED
      BY <2>1, FS_EmptySet DEF HistoryInv, Stamped, HistoryBounded
  <1>11. CASE Restart
    BY <1>0, <1>11 DEF Restart, jobVars, tableVars, Over
  <1>12. CASE UNCHANGED vars
    BY <1>0, <1>12 DEF vars, jobVars, tableVars, Over
  <1> QED
    BY <1>1, <1>2, <1>3, <1>4, <1>5, <1>6, <1>7, <1>8, <1>9, <1>10, <1>11, <1>12 DEF Next

(* After any sequence of calls and endings the queue's tables tell one     *)
(* story, and memory holds no more ended jobs than the limit.              *)
THEOREM QueueStaysInStep == Spec => []QueueInStep
  <1>1. Init => HistoryInv
    BY FS_EmptySet DEF Init, HistoryInv, Stamped, HistoryBounded
  <1>2. QueueInv /\ HistoryInv => QueueInStep
    BY DEF QueueInv, HistoryInv, QueueInStep
  <1> QED
    BY <1>1, <1>2, QueueInvariant, HistoryStep, PTL DEF Spec

(* A turn of the dispatcher takes jobs from the front of the queue, never  *)
(* more than there are free slots, and as many as there are unless the     *)
(* queue runs empty.                                                       *)
LEMMA BatchFits ==
    ASSUME QueueInv, ~paused, ~maintenance, Cardinality(running) \in Nat
    PROVE  LET free == maxRunning - Cardinality(running)
           IN  /\ Batch \in SUBSET pending /\ Cardinality(Batch) \in Nat
               /\ Batch # {} => Cardinality(Batch) <= free
               /\ Batch # pending => Cardinality(Batch) >= free
               /\ \A r \in Batch, q \in pending \ Batch : ~Before(q, r)
  <1> DEFINE rank == [r \in pending |-> Cardinality({q \in pending : Before(q, r)})]
             free == maxRunning - Cardinality(running)
  <1>1. pending \in SUBSET Runs /\ free \in Int
    BY DEF QueueInv, TypeOK
  <1>2. rank \in [pending -> Nat]
    BY <1>1, RunsFinite
  <1>3. \A q, r \in pending : Before(q, r) => rank[q] < rank[r]
    BY <1>1, RanksDiffer
  <1>4. Batch = {r \in pending : rank[r] < free}
    BY DEF Batch
  <1>a. \A r \in pending : rank[r] = Cardinality({q \in pending : Before(q, r)})
    OBVIOUS
  <1> HIDE DEF rank, free
  <1>5. Batch \in SUBSET pending /\ IsFiniteSet(Batch) /\ Cardinality(Batch) \in Nat
    BY <1>1, <1>4, RunsFinite
  <1>6. \A q, r \in pending : q # r => rank[q] # rank[r]
    <2> SUFFICES ASSUME NEW q \in pending, NEW r \in pending, q # r PROVE rank[q] # rank[r]
      OBVIOUS
    <2>1. Before(q, r) \/ Before(r, q)
      BY <1>1, BeforeOrders
    <2> QED
      BY <1>2, <1>3, <2>1
  <1>7. Batch # {} => Cardinality(Batch) <= free
    <2> SUFFICES ASSUME NEW r \in Batch PROVE Cardinality(Batch) <= free
      OBVIOUS
    <2>1. rank[r] \in Nat /\ rank[r] < free
      BY <1>2, <1>4
    <2>2. free \in Nat
      BY <1>1, <2>1
    <2> QED
      BY <1>1, <1>2, <1>4, <1>6, <2>2, FewRanks
  <1>8. Batch # pending => Cardinality(Batch) >= free
    <2> SUFFICES ASSUME Batch # pending PROVE Cardinality(Batch) >= free
      OBVIOUS
    <2> DEFINE Left == {rank[r] : r \in pending \ Batch}
    <2>1. Left \in SUBSET Nat /\ Left # {}
      BY <1>2, <1>5
    <2>2. PICK m \in Left : \A n \in Left : ~(<<n, m>> \in OpToRel(<, Nat))
      <3> HIDE DEF Left
      <3> QED
        BY <2>1, NatLessThanWellFounded, WFMin
    <2>3. PICK r \in pending \ Batch : m = rank[r]
      OBVIOUS
    <2>4. \A q \in pending : Before(q, r) => q \in Batch
      <3> SUFFICES ASSUME NEW q \in pending, Before(q, r), q \notin Batch PROVE FALSE
        OBVIOUS
      <3>1. rank[q] \in Left /\ rank[q] \in Nat /\ rank[r] \in Nat /\ rank[q] < rank[r]
        BY <1>2, <1>3, <2>3
      <3> QED
        BY <2>2, <2>3, <3>1 DEF OpToRel
    <2>5. {q \in pending : Before(q, r)} \in SUBSET Batch
      BY <2>4
    <2>6. rank[r] <= Cardinality(Batch)
      <3> DEFINE F == {q \in pending : Before(q, r)}
      <3>1. F \in SUBSET Batch /\ rank[r] = Cardinality(F)
        BY <2>3, <2>5, <1>a
      <3> HIDE DEF F
      <3> QED
        BY <1>5, <3>1, FS_Subset
    <2>7. rank[r] \in Nat /\ rank[r] >= free
      BY <1>1, <1>2, <1>4, <2>3
    <2> QED
      BY <1>1, <1>5, <2>6, <2>7
  <1>9. \A r \in Batch, q \in pending \ Batch : ~Before(q, r)
    BY <1>1, <1>2, <1>3, <1>4
  <1> QED
    BY <1>5, <1>7, <1>8, <1>9 DEF free

(* The slots in use are as many as the jobs that run: no key has two.      *)
LEMMA SlotsCounted ==
    ASSUME QueueInv, NEW S \in SUBSET Runs, \A r \in S : state[r] \in Active
    PROVE  /\ IsFiniteSet({key[r] : r \in S})
           /\ Cardinality({key[r] : r \in S}) = Cardinality(S)
  <1> DEFINE T == {key[r] : r \in S}
             f == [r \in S |-> key[r]]
  <1>1. \A q, r \in S : key[q] = key[r] => q = r
    BY DEF QueueInv, TablesAgree
  <1>2. f \in Injection(S, T) /\ f \in Surjection(S, T)
    BY <1>1 DEF Injection, IsInjective, Surjection
  <1>3. IsFiniteSet(S)
    BY RunsFinite
  <1> HIDE DEF T, f
  <1>4. IsFiniteSet(T) /\ Cardinality(T) = Cardinality(S)
    BY <1>2, <1>3, FS_Surjection
  <1> QED
    BY <1>4 DEF T

LEMMA RunningFinite ==
    ASSUME QueueInv PROVE IsFiniteSet(running) /\ Cardinality(running) \in Nat
  <1> DEFINE S == {q \in Runs : state[q] = "running"}
  <1>1. S \in SUBSET Runs /\ \A r \in S : state[r] \in Active
    BY DEF Active
  <1>2. running = {key[r] : r \in S}
    BY DEF QueueInv, TablesAgree
  <1> HIDE DEF S
  <1> QED
    BY <1>1, <1>2, SlotsCounted, FS_CardinalityType

(* A turn of the dispatcher fills one slot for each job it takes.          *)
LEMMA SlotsFill ==
    ASSUME QueueInv, NEW saved, Dispatch(saved)
    PROVE  Cardinality(running') = Cardinality(running) + Cardinality(Batch)
  <1>1. running' = running \cup {key[r] : r \in Batch}
    BY DEF Dispatch
  <1>2. Batch \in SUBSET Runs /\ \A r \in Batch : state[r] = "queued"
    BY DEF Batch, QueueInv, TypeOK, TablesAgree
  <1>3. running \cap {key[r] : r \in Batch} = {}
    <2>1. \A q \in Runs, r \in Batch : state[q] = "running" => key[q] # key[r]
      BY <1>2 DEF QueueInv, TablesAgree, Active
    <2> QED
      BY <2>1 DEF QueueInv, TablesAgree
  <1> DEFINE K == {key[r] : r \in Batch}
  <1>4. IsFiniteSet(K) /\ Cardinality(K) = Cardinality(Batch)
    BY <1>2, SlotsCounted DEF Active
  <1>5. Cardinality(K) \in Nat /\ Cardinality(running) \in Nat /\ IsFiniteSet(running)
    BY <1>4, RunningFinite, FS_CardinalityType
  <1>6. running' = running \cup K /\ running \cap K = {}
    BY <1>1, <1>3
  <1> HIDE DEF K
  <1>7. Cardinality(running') = Cardinality(running) + Cardinality(K) - Cardinality(running \cap K)
    BY <1>4, <1>5, <1>6, FS_Union
  <1> QED
    BY <1>4, <1>5, <1>6, <1>7, FS_EmptySet

LEMMA WakeupStep ==
    ASSUME QueueInv, NoLostWakeup, [Next]_vars
    PROVE  NoLostWakeup'
  <1> USE DEF NoLostWakeup
  <1>1. CASE \E k \in Keys, p \in Priorities : Submit(k, p)
    BY <1>1 DEF Submit
  <1>2. CASE \/ \E k \in Keys, saved \in Saves : CancelQueued(k, saved)
             \/ \E who \in {Clients} \cup {{c} : c \in Clients}, saved \in Saves :
                   Clear(who, saved)
    <2>1. pending' \subseteq pending /\ UNCHANGED <<running, controlVars>>
      BY <1>2 DEF CancelQueued, Clear
    <2> QED
      BY <2>1 DEF controlVars
  <1>3. CASE \E order \in Orders(pending), saved \in Saves : Close(order, saved)
    BY <1>3 DEF Close
  <1>4. CASE Pause
    BY <1>4 DEF Pause
  <1>5. CASE Resume
    BY <1>5 DEF Resume
  <1>6. CASE BeginMaintenance
    BY <1>6 DEF BeginMaintenance
  <1>7. CASE EndMaintenance
    BY <1>7 DEF EndMaintenance, QueueInv, MaintenanceIdle
  <1>8. CASE \E n \in SlotLimits : SetMaxRunning(n)
    <2>1. PICK n \in SlotLimits : SetMaxRunning(n)
      BY <1>8
    <2>2. /\ maxRunning' = n /\ wakeup' = (wakeup \/ n > maxRunning)
          /\ UNCHANGED <<phase, pending, paused, maintenance, running>>
      BY <2>1 DEF SetMaxRunning, tableVars
    <2>3. n \in Nat /\ maxRunning \in Nat
      BY DEF QueueInv, TypeOK
    <2>4. Cardinality(running) \in Nat
      BY RunningFinite
    <2>5. CASE n > maxRunning
      BY <2>2, <2>5
    <2>6. CASE ~(n > maxRunning)
      <3>1. Cardinality(running) < n => Cardinality(running) < maxRunning
        BY <2>3, <2>4, <2>6
      <3> QED
        BY <2>2, <2>6, <3>1
    <2> QED
      BY <2>5, <2>6
  <1>9. CASE CloseDone \/ DispatcherReturns
    BY <1>9 DEF CloseDone, DispatcherReturns
  <1>10. CASE \/ \E k \in Keys : CancelRunning(k)
              \/ \E r \in Runs : TaskStart(r)
              \/ \E r \in Runs, v \in Verdicts : BodyEnds(r, v)
    <2>1. UNCHANGED <<tableVars, controlVars>>
      BY <1>10 DEF CancelRunning, TaskStart, BodyEnds
    <2> QED
      BY <2>1 DEF tableVars, controlVars
  <1>11. CASE \E saved \in Saves : Dispatch(saved)
    <2>1. PICK saved \in Saves : Dispatch(saved)
      BY <1>11
    <2>2. pending' = pending \ Batch /\ UNCHANGED <<paused, maintenance, maxRunning>>
      BY <2>1 DEF Dispatch
    <2> SUFFICES ASSUME pending' # {}, ~paused, ~maintenance,
                        Cardinality(running') < maxRunning
                 PROVE  FALSE
      BY <2>2
    <2>3. /\ Cardinality(running) \in Nat /\ maxRunning \in Nat /\ Cardinality(Batch) \in Nat
      BY RunningFinite, BatchFits DEF QueueInv, TypeOK
    <2>4. Cardinality(Batch) >= maxRunning - Cardinality(running)
      BY <2>2, <2>3, BatchFits
    <2>5. Cardinality(running') = Cardinality(running) + Cardinality(Batch)
      BY <2>1, SlotsFill
    <2> QED
      BY <2>3, <2>4, <2>5
  <1>12. CASE \E r \in Runs, saved \in Saves : FinishRun(r, saved)
    BY <1>12 DEF FinishRun
  <1>13. CASE \E S \in SUBSET Runs : DeleteHistory(S)
    BY <1>13 DEF DeleteHistory, tableVars, controlVars
  <1>14. CASE Crash
    BY <1>14 DEF Crash
  <1>15. CASE Restart
    <2>1. pending = {} /\ pending' = pending
      BY <1>15 DEF Restart, tableVars, QueueInv, DownEmpty, TablesAgree
    <2> QED
      BY <2>1
  <1>16. CASE UNCHANGED vars
    BY <1>16 DEF vars, tableVars, controlVars
  <1> QED
    BY <1>1, <1>2, <1>3, <1>4, <1>5, <1>6, <1>7, <1>8, <1>9, <1>10, <1>11, <1>12, <1>13,
       <1>14, <1>15, <1>16 DEF Next

(* Whenever the open queue could dispatch a job, the dispatcher has been   *)
(* told to look: neither end_maintenance nor a lowered limit needs to.     *)
THEOREM NoWakeupIsLost == Spec => []NoLostWakeup
  <1>1. Init => NoLostWakeup
    BY DEF Init, NoLostWakeup
  <1> QED
    BY <1>1, QueueInvariant, WakeupStep, PTL DEF Spec

(* A dispatch never exceeds the limit in force and never overtakes.        *)
THEOREM DispatchesInOrder == Spec => DispatchInOrder
  <1> DEFINE A == \A r \in Runs : state[r] = "queued" /\ state'[r] = "running" =>
                     /\ Cardinality(running') <= maxRunning
                     /\ \A q \in pending' : ~Before(q, r)
  <1>1. ASSUME QueueInv, [Next]_vars PROVE A \/ UNCHANGED vars
    <2> SUFFICES ASSUME NEW r \in Runs, state[r] = "queued", state'[r] = "running", Next
                 PROVE  /\ Cardinality(running') <= maxRunning
                        /\ \A q \in pending' : ~Before(q, r)
      BY <1>1
    <2>1. \E saved \in Saves : Dispatch(saved)
      <3>1. ~\E k \in Keys, p \in Priorities : Submit(k, p)
        BY <1>1 DEF Submit, QueueInv, TypeOK
      <3>2. ASSUME NEW k \in Keys, NEW saved, CancelQueued(k, saved) PROVE FALSE
        <4>1. FinishAll({jobs[k]}, "cancelled", [q \in {jobs[k]} |-> 1], saved)
          BY <3>2 DEF CancelQueued
        <4> QED
          BY <4>1 DEF FinishAll
      <3>3. ~\E who \in {Clients} \cup {{c} : c \in Clients}, saved \in Saves :
               Clear(who, saved)
        BY DEF Clear, FinishAll
      <3>4. ~\E order \in Orders(pending), saved \in Saves : Close(order, saved)
        BY DEF Close, FinishAll
      <3>5. ~(\/ Pause \/ Resume \/ BeginMaintenance \/ EndMaintenance
              \/ (\E n \in SlotLimits : SetMaxRunning(n)) \/ CloseDone \/ DispatcherReturns)
        BY DEF Pause, Resume, BeginMaintenance, EndMaintenance, SetMaxRunning, CloseDone,
               DispatcherReturns, jobVars
      <3>6. ~(\/ \E k \in Keys : CancelRunning(k)
              \/ \E q \in Runs : TaskStart(q)
              \/ \E q \in Runs, v \in Verdicts : BodyEnds(q, v))
        BY DEF CancelRunning, TaskStart, BodyEnds
      <3>7. ASSUME NEW q \in Runs, NEW saved, FinishRun(q, saved) PROVE FALSE
        <4>1. FinishAll({q}, verdict[q], [p \in {q} |-> 1], saved) /\ state[q] = "running"
          BY <1>1, <3>7 DEF FinishRun, QueueInv, TaskPhase
        <4> QED
          BY <4>1 DEF FinishAll
      <3>8. ~(\/ \E S \in SUBSET Runs : DeleteHistory(S)
              \/ Crash \/ Restart)
        BY DEF DeleteHistory, Crash, Restart, jobVars
      <3> QED
        BY <3>1, <3>2, <3>3, <3>4, <3>5, <3>6, <3>7, <3>8 DEF Next
    <2>2. PICK saved \in Saves : Dispatch(saved)
      BY <2>1
    <2>3. r \in Batch /\ pending' = pending \ Batch
      BY <2>2 DEF Dispatch
    <2>4. ~paused /\ ~maintenance
      BY <2>3 DEF Batch
    <2>5. /\ Cardinality(running) \in Nat /\ maxRunning \in Nat
          /\ Cardinality(running') = Cardinality(running) + Cardinality(Batch)
      BY <1>1, <2>2, RunningFinite, SlotsFill DEF QueueInv, TypeOK
    <2>6. /\ Cardinality(Batch) \in Nat /\ Cardinality(Batch) <= maxRunning - Cardinality(running)
          /\ \A q \in pending \ Batch : ~Before(q, r)
      BY <1>1, <2>3, <2>4, <2>5, BatchFits
    <2> QED
      BY <2>3, <2>5, <2>6
  <1> QED
    BY <1>1, QueueInvariant, PTL DEF Spec, DispatchInOrder

-----------------------------------------------------------------------------
(* The queue implements JobLifecycle.                                      *)

(* A batch of endings gives one verdict to the runs whose write succeeded. *)
LEMMA FinishSettles ==
    ASSUME QueueInv,
           NEW S \in SUBSET Runs, \A r \in S : state[r] \in Active,
           NEW v \in Verdicts, NEW order, NEW saved,
           FinishAll(S, v, order, saved), erased' = erased
    PROVE  \E T \in SUBSET Runs, w \in Lifecycle!Verdicts : Lifecycle!Settle(T, w)
  <1>1. /\ accepted' = [r \in Runs |-> IF r \in S \cap saved THEN "absent"
                                                             ELSE accepted[r]]
        /\ hist' = [r \in Runs |-> IF r \in S \cap saved /\ hist[r] = "absent"
                                   THEN v ELSE hist[r]]
    BY DEF FinishAll
  <1>2. \A r \in S : accepted[r] # "absent" /\ hist[r] = "absent" /\ r \notin erased
    BY DEF QueueInv, HistoryTruth, RecordedOnce
  <1>3. \A r \in S \cap saved : Record(r) \in Lifecycle!Open
    BY <1>2 DEF Record, Lifecycle!Open, QueueInv, TypeOK, Active
  <1>4. \A r \in Runs : Record(r)' = IF r \in S \cap saved THEN v ELSE Record(r)
    BY <1>1, <1>2 DEF Record, QueueInv, TypeOK, Verdicts
  <1>5. Lifecycle!Settle(S \cap saved, v)
    BY <1>3, <1>4 DEF Lifecycle!Settle
  <1> QED
    BY <1>5 DEF Lifecycle!Verdicts, Verdicts

(* The queue, its database and its crashes implement the lifecycle that    *)
(* JobLifecycle promises for the durable record of every run.              *)
THEOREM QueueImplementsLifecycle == Spec => ImplementsLifecycle
  <1> DEFINE record == [r \in Runs |-> Record(r)]
  <1>1. Init => Lifecycle!Init
    BY DEF Init, Lifecycle!Init, Record
  <1>2. ASSUME QueueInv, [Next]_vars
        PROVE  Lifecycle!Next \/ UNCHANGED record
    <2> USE <1>2
    <2>0. ASSUME UNCHANGED <<accepted, hist, erased>> PROVE UNCHANGED record
      BY <2>0 DEF Record
    <2>1. CASE \E k \in Keys, p \in Priorities : Submit(k, p)
      <3>1. PICK k \in Keys, p \in Priorities : Submit(k, p)
        BY <2>1
      <3>2. /\ nextRun \in Runs
            /\ accepted' = [accepted EXCEPT ![nextRun] = "queued"]
            /\ hist' = hist /\ erased' = erased
        BY <3>1 DEF Submit
      <3>3. accepted[nextRun] = "absent" /\ hist[nextRun] = "absent"
            /\ nextRun \notin erased
        BY <3>2 DEF QueueInv, RecordedOnce, Runs
      <3>4. \A r \in Runs : Record(r)' = IF r = nextRun THEN "queued" ELSE Record(r)
        BY <3>2, <3>3 DEF Record, QueueInv, TypeOK
      <3>5. Lifecycle!Accept(nextRun)
        BY <3>2, <3>3, <3>4 DEF Lifecycle!Accept, Record
      <3> QED
        BY <3>2, <3>5 DEF Lifecycle!Next
    <2>2. CASE \E k \in Keys, saved \in Saves : CancelQueued(k, saved)
      <3>1. PICK k \in Keys, saved \in Saves : CancelQueued(k, saved)
        BY <2>2
      <3>2. /\ {jobs[k]} \in SUBSET Runs /\ state[jobs[k]] \in Active
            /\ FinishAll({jobs[k]}, "cancelled", [q \in {jobs[k]} |-> 1], saved)
            /\ erased' = erased
        BY <3>1 DEF CancelQueued, QueueInv, TypeOK, Active
      <3> QED
        BY <3>2, FinishSettles DEF Lifecycle!Next, Verdicts
    <2>3. CASE \E who \in {Clients} \cup {{c} : c \in Clients}, saved \in Saves :
                 Clear(who, saved)
      <3>1. PICK who, saved : Clear(who, saved)
        BY <2>3
      <3> DEFINE victims == {r \in pending : key[r][1] \in who}
                 order == [r \in victims |->
                             1 + Cardinality({q \in victims : Before(q, r)})]
      <3>2. FinishAll(victims, "cancelled", order, saved) /\ erased' = erased
        BY <3>1 DEF Clear
      <3>3. victims \in SUBSET Runs /\ \A r \in victims : state[r] \in Active
        BY DEF QueueInv, TypeOK, TablesAgree, Active
      <3> HIDE DEF victims, order
      <3> QED
        BY <3>2, <3>3, FinishSettles DEF Lifecycle!Next, Verdicts
    <2>4. CASE \E order \in Orders(pending), saved \in Saves : Close(order, saved)
      <3>1. PICK order, saved : Close(order, saved)
        BY <2>4
      <3>2. FinishAll(pending, "cancelled", order, saved) /\ erased' = erased
        BY <3>1 DEF Close
      <3>3. pending \in SUBSET Runs /\ \A r \in pending : state[r] \in Active
        BY DEF QueueInv, TypeOK, TablesAgree, Active
      <3> QED
        BY <3>2, <3>3, FinishSettles DEF Lifecycle!Next, Verdicts
    <2>5. CASE \/ Pause \/ Resume \/ BeginMaintenance \/ EndMaintenance
               \/ (\E n \in SlotLimits : SetMaxRunning(n))
               \/ CloseDone \/ DispatcherReturns
      BY <2>0, <2>5 DEF Pause, Resume, BeginMaintenance, EndMaintenance,
                  SetMaxRunning, CloseDone, DispatcherReturns, durableVars
    <2>6. CASE \/ \E k \in Keys : CancelRunning(k)
               \/ \E q \in Runs : TaskStart(q)
               \/ \E q \in Runs, v \in Verdicts : BodyEnds(q, v)
      BY <2>0, <2>6 DEF CancelRunning, TaskStart, BodyEnds, durableVars
    <2>7. CASE \E saved \in Saves : Dispatch(saved)
      <3>1. PICK saved \in Saves : Dispatch(saved)
        BY <2>7
      <3>2. /\ accepted' = [r \in Runs |->
                              IF r \in Batch \cap saved /\ accepted[r] # "absent"
                              THEN "running" ELSE accepted[r]]
            /\ hist' = hist /\ erased' = erased
        BY <3>1 DEF Dispatch
      <3>3. /\ Batch \in SUBSET Runs
            /\ \A r \in Batch : /\ accepted[r] = "queued" /\ hist[r] = "absent"
                                 /\ r \notin erased
        BY DEF Batch, QueueInv, TypeOK, TablesAgree, HistoryTruth, RecordedOnce
      <3>4. \A r \in Runs :
               Record(r)' = IF r \in Batch \cap saved THEN "running" ELSE Record(r)
        BY <3>2, <3>3 DEF Record, QueueInv, TypeOK
      <3>5. \A r \in Batch \cap saved : Record(r) = "queued"
        BY <3>3 DEF Record
      <3>6. Lifecycle!Start(Batch \cap saved)
        BY <3>3, <3>4, <3>5 DEF Lifecycle!Start
      <3> QED
        BY <3>3, <3>6 DEF Lifecycle!Next
    <2>8. CASE \E q \in Runs, saved \in Saves : FinishRun(q, saved)
      <3>1. PICK q \in Runs, saved \in Saves : FinishRun(q, saved)
        BY <2>8
      <3>2. /\ FinishAll({q}, verdict[q], [p \in {q} |-> 1], saved)
            /\ erased' = erased /\ state[q] \in Active /\ verdict[q] \in Verdicts
        BY <3>1 DEF FinishRun, QueueInv, TaskPhase, Active
      <3> QED
        BY <3>2, FinishSettles DEF Lifecycle!Next
    <2>9. CASE \E S \in SUBSET Runs : DeleteHistory(S)
      <3>1. PICK S \in SUBSET Runs : DeleteHistory(S)
        BY <2>9
      <3>2. \A r \in S : Record(r) \in Lifecycle!Settled
        BY <3>1 DEF DeleteHistory, Record, QueueInv, TypeOK, Verdicts,
                    Lifecycle!Settled, Lifecycle!Verdicts
      <3>3. \A r \in Runs : Record(r)' = IF r \in S THEN "erased" ELSE Record(r)
        BY <3>1 DEF DeleteHistory, Record, QueueInv, TypeOK
      <3>4. Lifecycle!Erase(S)
        BY <3>2, <3>3 DEF Lifecycle!Erase
      <3> QED
        BY <3>4 DEF Lifecycle!Next
    <2>10. CASE Crash
      BY <2>0, <2>10 DEF Crash, durableVars
    <2>11. CASE Restart
      <3>1. \A r \in Runs : Record(r)' = IF Record(r) \in Lifecycle!Open
                                         THEN "interrupted" ELSE Record(r)
        BY <2>11 DEF Restart, Record, Lifecycle!Open, QueueInv, TypeOK,
                     RecordedOnce, Active, Verdicts
      <3> QED
        BY <3>1 DEF Lifecycle!Sweep, Lifecycle!Next
    <2>12. CASE UNCHANGED vars
      BY <2>0, <2>12 DEF vars, durableVars
    <2> QED
      BY <2>1, <2>2, <2>3, <2>4, <2>5, <2>6, <2>7, <2>8, <2>9, <2>10, <2>11,
         <2>12 DEF Next
  <1> QED
    BY <1>1, <1>2, QueueInvariant, PTL
       DEF Spec, ImplementsLifecycle, Lifecycle!Spec
=============================================================================
