-------------------------- MODULE ExecutionJournal --------------------------
(***************************************************************************)
(* The record of what runs did (execution_journal.py, over journal.py):    *)
(* published events are buffered on the event loop and written in batches  *)
(* by a thread; the end of a run prunes its stream and retires old runs; a *)
(* new process marks the runs it finds unfinished as abandoned.            *)
(*                                                                         *)
(* An event is its place in the log of everything published, which is also *)
(* its time.  The reporter of a worker is closed before its invocation     *)
(* returns (in_process.py), so no event of a run follows its terminal one. *)
(* Retirement by age, logs and records that can not be encoded are left    *)
(* out; a run has one node.                                                *)
(***************************************************************************)
EXTENDS Naturals, Sequences, FiniteSets, FiniteSetsExt

CONSTANTS
    Runs,
    MaxPending,             \* MAX_PENDING_RECORDS
    KeepRuns,               \* keep_runs
    MaxEvents, MaxFaults    \* bounds: events published; failed writes and deaths

ASSUME JournalAssumption == {MaxPending, KeepRuns, MaxEvents, MaxFaults} \subseteq Nat

VARIABLES
    log,      \* everything published: the run and the kind of each event
    pending,  \* _pending; its order is that of the events
    last,     \* _last_progress: at most one event of each run
    batch,    \* the batch a thread is writing
    phase,    \* up, closing, closed
    stream,   \* the journal's rows for each run; execution_runs has a row for it if any
    finished, \* execution_runs.finished, 0 for NULL
    gap,      \* the runs the journal lost something of
    dead,     \* the runs that died with their process
    faults

store == <<stream, finished>>
vars == <<log, pending, last, batch, phase, store, gap, dead, faults>>

(* The end of a job, any other fact of it (job_state, lifecycle, warning), *)
(* and what may be coalesced.                                              *)
Kinds == {"final", "fact", "progress"}
Durable(i) == log[i].kind # "progress"

Of(r) == {i \in DOMAIN log : log[i].run = r}
Started(r) == Of(r) # {}
Over(r) == \E i \in Of(r) : log[i].kind = "final"

Here(r) == stream[r] # {}
Finished == {r \in Runs : finished[r] > 0}

Init ==
    /\ log = <<>> /\ pending = {} /\ last = [r \in Runs |-> {}] /\ batch = {}
    /\ phase = "up"
    /\ stream = [r \in Runs |-> {}] /\ finished = [r \in Runs |-> 0]
    /\ gap = {} /\ dead = {} /\ faults = 0

-----------------------------------------------------------------------------
(* observe: chatter is dropped when too much is buffered, facts never; the *)
(* end takes the last progress with it.                                    *)

Item(r, i) == [op |-> "append", run |-> r, at |-> i, keepers |-> {}]
Finalize(r, i, keepers) == [op |-> "finalize", run |-> r, at |-> i, keepers |-> keepers]

(* Fault: the bound applies to facts too.                                  *)
BoundForAll(r, kind, i) ==
    IF Cardinality(pending) >= MaxPending THEN {}
    ELSE {Item(r, i)} \cup (IF kind = "final" THEN {Finalize(r, i, last[r])} ELSE {})

Buffered(r, kind, i) ==
    IF kind = "progress" /\ Cardinality(pending) >= MaxPending THEN {}
    ELSE {Item(r, i)} \cup (IF kind = "final" THEN {Finalize(r, i, last[r])} ELSE {})

Observe(r, kind) ==
    LET i == Len(log) + 1
    IN  /\ phase = "up" /\ ~Over(r) /\ r \notin dead /\ Len(log) < MaxEvents
        /\ log' = Append(log, [run |-> r, kind |-> kind])
        /\ pending' = pending \cup Buffered(r, kind, i)
        /\ last' = [last EXCEPT ![r] = CASE kind = "progress" -> {i}
                                         [] kind = "final" -> {}
                                         [] OTHER -> @]
        /\ UNCHANGED <<batch, phase, store, gap, dead, faults>>

-----------------------------------------------------------------------------
(* flush and _write                                                        *)

Flush ==
    /\ phase # "closed" /\ batch = {} /\ pending # {}
    /\ batch' = pending /\ pending' = {}
    /\ UNCHANGED <<log, last, phase, store, gap, dead, faults>>

(* One transaction, run by run: the appends of a run precede its end, and  *)
(* expiring after every end of the batch keeps what the last one keeps.    *)
Appended(r) ==
    stream[r] \cup {[ev |-> x.at, durable |-> Durable(x.at)] :
                        x \in {y \in batch : y.op = "append" /\ y.run = r}}

Ends(r) == {x \in batch : x.op = "finalize" /\ x.run = r}

(* Fault: the last progress is pruned with the rest.                       *)
KeepersPruned(r, rows) ==
    IF Ends(r) = {} THEN rows ELSE {e \in rows : e.durable}

(* The last progress is appended as a fact, then the chatter is pruned.    *)
Pruned(r, rows) ==
    IF Ends(r) = {} THEN rows
    ELSE {e \in rows : e.durable}
            \cup {[ev |-> i, durable |-> TRUE] : i \in UNION {x.keepers : x \in Ends(r)}}

(* Fault: the end of a run is not recorded.                                *)
NeverFinished(r) == finished[r]

FinishedAt(r) == Max({finished[r]} \cup {x.at : x \in Ends(r)})

(* _expire: of the runs that finished, the last ones are kept.             *)
Expired(times) ==
    {r \in Runs : /\ times[r] > 0
                  /\ Cardinality({q \in Runs : times[q] > times[r]}) >= KeepRuns}

Commit(rows, times) ==
    /\ stream' = [r \in Runs |-> IF r \in Expired(times) THEN {} ELSE rows[r]]
    /\ finished' = [r \in Runs |-> IF r \in Expired(times) THEN 0 ELSE times[r]]

Write ==
    /\ batch # {}
    /\ Commit([r \in Runs |-> Pruned(r, Appended(r))], [r \in Runs |-> FinishedAt(r)])
    /\ batch' = {}
    /\ UNCHANGED <<log, pending, last, phase, gap, dead, faults>>

Named(items) == {x.run : x \in items}

(* "execution journal write failed; records dropped"                       *)
WriteFails ==
    /\ batch # {} /\ faults < MaxFaults
    /\ faults' = faults + 1
    /\ gap' = gap \cup Named(batch)
    /\ batch' = {}
    /\ UNCHANGED <<log, pending, last, phase, store, dead>>

-----------------------------------------------------------------------------
(* close: the queue has ended every job by then; the flush loop ends, what *)
(* is buffered is landed, the file is closed.                              *)
Close ==
    /\ phase = "up" /\ \A r \in Runs : Started(r) => Over(r) \/ r \in dead
    /\ phase' = "closing"
    /\ UNCHANGED <<log, pending, last, batch, store, gap, dead, faults>>

Closed ==
    /\ phase = "closing" /\ batch = {} /\ pending = {}
    /\ phase' = "closed"
    /\ UNCHANGED <<log, pending, last, batch, store, gap, dead, faults>>

(* bootstrap: a run left unfinished is abandoned as of its last event, and *)
(* retired like any other.                                                 *)
Abandoned(r) ==
    IF Here(r) /\ finished[r] = 0 THEN Max({e.ev : e \in stream[r]}) ELSE finished[r]

(* The process dies, a new one opens the file; the old runs are over.      *)
Restart ==
    /\ phase # "closed" /\ faults < MaxFaults
    /\ faults' = faults + 1
    /\ dead' = dead \cup {r \in Runs : Started(r) /\ ~Over(r)}
    /\ gap' = gap \cup dead' \cup Named(batch \cup pending)
    /\ Commit(stream, [r \in Runs |-> Abandoned(r)])
    /\ pending' = {} /\ last' = [r \in Runs |-> {}] /\ batch' = {} /\ phase' = "up"
    /\ UNCHANGED log

-----------------------------------------------------------------------------
Next ==
    \/ \E r \in Runs, kind \in Kinds : Observe(r, kind)
    \/ Flush \/ Write \/ WriteFails \/ Close \/ Closed \/ Restart

Spec == Init /\ [][Next]_vars

(* The flush loop wakes up, a write comes back, close() goes on.           *)
FairSpec == Spec /\ WF_vars(Flush) /\ WF_vars(Write \/ WriteFails) /\ WF_vars(Closed)

-----------------------------------------------------------------------------
(* Every variable holds what the code can store in it.                     *)
TypeOK ==
    /\ log \in Seq([run : Runs, kind : Kinds])
    /\ last \in [Runs -> SUBSET DOMAIN log]
    /\ \A r \in Runs : last[r] \subseteq Of(r) /\ Cardinality(last[r]) <= 1
    /\ phase \in {"up", "closing", "closed"}
    /\ stream \in [Runs -> SUBSET [ev : DOMAIN log, durable : BOOLEAN]]
    /\ finished \in [Runs -> 0..Len(log)]
    /\ gap \subseteq Runs /\ dead \subseteq gap /\ faults \in 0..MaxFaults

Written(r) == {e.ev : e \in stream[r]}
InFlight(r) == {i \in Of(r) : Item(r, i) \in pending \cup batch}
Retired(r) == Over(r) /\ ~Here(r) /\ InFlight(r) = {} /\ Cardinality(Finished) = KeepRuns

(* Unless a write failed or the process died, the journal has or will have *)
(* every fact of a run, in order: a full buffer, the pruning of other runs *)
(* and a close lose none; a run is retired only after its end and only for *)
(* newer ones.                                                             *)
DurableKept ==
    \A r \in Runs \ gap : Started(r) =>
        \/ /\ {i \in Of(r) : Durable(i)} \subseteq Written(r) \cup InFlight(r)
           /\ phase = "closed" => r \in Finished
        \/ Retired(r)

(* What is left of a run that ended: its facts and its last progress, even *)
(* if that was never written before, and no other chatter.                 *)
FinishedIsPruned ==
    \A r \in Finished \ gap :
        /\ \A e \in stream[r] : e.durable
        /\ \A i \in Of(r) : log[i].kind = "progress" =>
            ((\A j \in Of(r) : log[j].kind = "progress" => j <= i) <=> i \in Written(r))

(* However runs end, at most keep_runs of them are kept, and after a       *)
(* restart no run of the dead process escapes that count.                  *)
RetentionBounded ==
    /\ Cardinality(Finished) <= KeepRuns
    /\ \A r \in Runs :
        Here(r) /\ InFlight(r) = {} /\ (r \in dead \/ (Over(r) /\ r \notin gap)) => r \in Finished

(* Retention works on what the journal really holds of each run.           *)
JournalInStep == TypeOK /\ FinishedIsPruned /\ RetentionBounded

(* A run that ended is soon marked finished, or a write was lost.          *)
EndsFinished ==
    \A r \in Runs : Over(r) ~> (r \in Finished \/ Retired(r) \/ r \in gap)

-----------------------------------------------------------------------------
(* The inductive invariant.                                                *)

Progress(r) == {i \in Of(r) : log[i].kind = "progress"}
LastProgress(r) == {i \in Progress(r) : \A j \in Progress(r) : j <= i}

(* What is buffered or being written is of the log; the end of a run       *)
(* travels with its event and carries the last progress.                   *)
ItemsReal ==
    \A x \in pending \cup batch :
        /\ x.run \in Runs /\ x.at \in Of(x.run)
        /\ \/ x = Item(x.run, x.at)
           \/ x = Finalize(x.run, x.at, LastProgress(x.run)) /\ log[x.at].kind = "final"

EndsTogether ==
    \A r \in Runs : \A i \in Of(r) : log[i].kind = "final" =>
        /\ Item(r, i) \in pending <=> Finalize(r, i, LastProgress(r)) \in pending
        /\ Item(r, i) \in batch <=> Finalize(r, i, LastProgress(r)) \in batch

(* Nothing follows the end of a run, and batches are written in order.     *)
EndIsLast == \A r \in Runs : \A i, j \in Of(r) : log[i].kind = "final" => j <= i
InOrder == \A x \in batch, y \in pending : x.at < y.at

(* While anything of a run that ended is on its way, its end is.           *)
EndFollows ==
    \A x \in pending \cup batch : Over(x.run) =>
        \E y \in pending \cup batch : y.op = "finalize" /\ y.run = x.run

(* Nothing is on its way for a run that is finished or dead.               *)
DoneIsQuiet == \A x \in pending \cup batch : finished[x.run] = 0 /\ x.run \notin dead

LastIsKnown == \A r \in Runs \ dead : ~Over(r) => last[r] = LastProgress(r)

(* A run is finished as of one of its events, after its end or its death.  *)
FinishedReal ==
    \A r \in Finished : finished[r] \in Of(r) /\ (Over(r) \/ r \in dead)

(* The rows of a run are events of it; nothing but its end makes a fact of *)
(* its progress.                                                           *)
StreamReal ==
    \A r \in Runs : \A e \in stream[r] :
        /\ e.ev \in Of(r)
        /\ Durable(e.ev) => e.durable
        /\ finished[r] = 0 => (e.durable => Durable(e.ev))

ClosingInOrder ==
    /\ phase # "up" => \A r \in Runs : Started(r) => Over(r) \/ r \in dead
    /\ phase = "closed" => pending = {} /\ batch = {}

JournalInv ==
    /\ ItemsReal /\ EndsTogether /\ EndIsLast /\ InOrder /\ EndFollows /\ DoneIsQuiet
    /\ LastIsKnown /\ FinishedReal /\ StreamReal /\ ClosingInOrder
    /\ JournalInStep /\ DurableKept
=============================================================================
