----------------------------- MODULE Environment -----------------------------
(***************************************************************************)
(* Generations of a project and the journaled operations that install,     *)
(* select and collect them (dinkster_supervisor/environment*.py).          *)
(*                                                                         *)
(* The state on disk survives; `cli` is the one tool that holds the        *)
(* project's writer lock, and is lost when it dies.  An action is one      *)
(* durable write, rename or engine start or stop, so that the tool may die *)
(* between any two of them, in the middle of a recovery too.  A journal is *)
(* named by its place in `journal`: the code's file names are timestamps.  *)
(***************************************************************************)
EXTENDS Integers, FiniteSets, FiniteSetsExt, Sequences

CONSTANTS
    Engines,      \* names of engine bindings
    Settings,     \* texts of project.json
    Default,      \* the one setup writes
    MaxGen,       \* bound: generation numbers
    MaxCommands,  \* bound: invocations of the tool
    MaxCrashes,   \* bound: deaths of the tool
    MaxFails,     \* bound: steps that raise
    MaxLost       \* bound: supervisors that die without a receipt

ASSUME EnvironmentAssumption ==
    /\ Engines # {} /\ Default \in Settings
    /\ {MaxGen, MaxCommands, MaxCrashes, MaxFails, MaxLost} \subseteq Nat

Generations == 1 .. MaxGen

VARIABLES
    tree,      \* tree[g]: the directory generations/g
    parked,    \* generations moved to .garbage
    current,   \* the file `current`, 0 when there is none
    settings,  \* project.json
    engine,    \* engine[g][e]: runtime/g/e.json and the process it names
    journal,   \* the files of journal/, oldest first
    history,   \* the journals whose entry is published, by entry id
    attempts,  \* the journals of failed restores with a receipt
    cli,       \* the running tool: where it is, in which journal, and why
    bounds     \* how often each bounded event has happened

disk == <<tree, parked, current, settings>>
records == <<journal, history, attempts>>
vars == <<disk, engine, records, cli, bounds>>

Trees == {"absent", "partial", "whole"}
EngineStates == {"absent", "pending", "ready", "stopped", "lost"}
Installs == {"setup", "update", "restore"}
Stages == {"planned", "building", "starting", "switching", "complete", "rolled-back"}
Commands == Installs \cup {"gc", "start", "stop"}
Working == {"build", "activate", "start", "settings", "switch", "stop", "gc_move"}
Recovering == {"recover", "r_stop", "r_current", "r_start", "r_receipt", "r_done",
               "gc_restore", "gc_clean"}
Places == {"idle", "begin"} \cup Working \cup Recovering

Journals ==
    [op : Installs \cup {"gc"}, previous : 0 .. MaxGen, target : Generations, stage : Stages,
     running : SUBSET Engines, halted : SUBSET Engines, settings : Seq(Settings),
     entry : Nat, collected : SUBSET Generations]

TypeOK ==
    /\ tree \in [Generations -> Trees]
    /\ parked \subseteq Generations
    /\ current \in 0 .. MaxGen
    /\ settings \in Settings
    /\ engine \in [Generations -> [Engines -> EngineStates]]
    /\ journal \in Seq(Journals)
    /\ history \in Seq(DOMAIN journal)
    /\ attempts \in Seq(DOMAIN journal)
    /\ cli \in [at : Places, want : Commands \cup {"none"}, op : Nat,
                todo : (SUBSET Engines) \cup (SUBSET Generations)]
    /\ bounds \in [{"commands", "crashes", "fails", "lost"} -> Nat]

Idle == [at |-> "idle", want |-> "none", op |-> 0, todo |-> {}]

Init ==
    /\ tree = [g \in Generations |-> "absent"]
    /\ parked = {}
    /\ current = 0
    /\ settings = Default
    /\ engine = [g \in Generations |-> [e \in Engines |-> "absent"]]
    /\ journal = <<>> /\ history = <<>> /\ attempts = <<>>
    /\ cli = Idle
    /\ bounds = [b \in {"commands", "crashes", "fails", "lost"} |-> 0]

Count(b, max) ==
    /\ bounds[b] < max
    /\ bounds' = [bounds EXCEPT ![b] = @ + 1]

-----------------------------------------------------------------------------
(* Journals.                                                               *)

Ended == {"complete", "rolled-back"}
Incomplete(i) == journal[i].stage \notin Ended
Done(i) == journal[i].op \in Installs /\ journal[i].stage = "complete"
Published(i) == \E k \in DOMAIN history : history[k] = i

(* Fault: only unfinished operations are looked for.                       *)
IncompleteOnly(i) == Incomplete(i)

(* What _recover_pending has to do something about.                        *)
Pending(i) ==
    \/ Incomplete(i)
    \/ Done(i) /\ ~Published(i)
    \/ journal[i].op = "gc" /\ journal[i].stage = "complete"
       /\ journal[i].collected \cap parked # {}

(* The journal this tool works on.                                         *)
J == journal[cli.op]
WriteStage(s) == journal' = [journal EXCEPT ![cli.op].stage = s]

(* next_generation: beyond every tree and every number ever completed.     *)
NextGeneration ==
    Max({g \in Generations : tree[g] # "absent"}
          \cup {journal[i].target : i \in {k \in DOMAIN journal : journal[k].stage = "complete"}}
          \cup {0}) + 1

(* previous_activation: the newest completed journal that led to g.        *)
Predecessors(g) ==
    LET led == {i \in DOMAIN journal : Done(i) /\ journal[i].target = g
                                       /\ journal[i].previous # 0}
    IN  IF led = {} THEN {} ELSE {journal[Max(led)].previous}

(* Fault: the generation before the selected one is not retained.          *)
CurrentOnly == {current}
Retained == {current} \cup Predecessors(current)

-----------------------------------------------------------------------------
(* The tool's moves.                                                       *)

Goto(place) == cli' = [cli EXCEPT !.at = place]
Work(place, todo) == cli' = [cli EXCEPT !.at = place, !.todo = todo]
Finish == cli' = Idle

(* An exception leaves the handlers of the operation, which recover it.    *)
Raised == [Idle EXCEPT !.at = "recover"]

(* A command, confirmed by the user.  All of them recover what is pending  *)
(* before anything else, under the writer lock.                            *)
Command(c) ==
    /\ cli.at = "idle"
    /\ Count("commands", MaxCommands)
    /\ cli' = [Idle EXCEPT !.at = "recover", !.want = c]
    /\ UNCHANGED <<disk, engine, records>>

(* The journals are taken in order.  An interrupted operation is undone, a *)
(* completed one is given its history entry or its rubbish is removed.     *)
RecoverPending ==
    /\ cli.at = "recover"
    /\ LET pending == {i \in DOMAIN journal : Pending(i)}
       IN  IF pending = {}
             THEN /\ cli' = IF cli.want = "none" THEN Idle ELSE [cli EXCEPT !.at = "begin"]
                  /\ UNCHANGED history
             ELSE LET i == Min(pending)
                      j == journal[i]
                  IN  IF Done(i)
                        THEN /\ Len(history) + 1 = j.entry
                             /\ history' = Append(history, i)
                             /\ UNCHANGED cli
                        ELSE /\ cli' = [cli EXCEPT
                                   !.at = IF j.op # "gc" THEN "r_stop"
                                          ELSE IF Incomplete(i) THEN "gc_restore"
                                          ELSE "gc_clean",
                                   !.op = i,
                                   !.todo = IF j.op # "gc" THEN j.running \cup j.halted
                                            ELSE j.collected]
                             /\ UNCHANGED history
    /\ UNCHANGED <<disk, engine, journal, attempts, bounds>>

(* The plan was made on a state that has changed, an engine is busy or the *)
(* command does not apply: nothing has been written.                       *)
Refuse ==
    /\ cli.at = "begin"
    /\ Finish
    /\ UNCHANGED <<disk, engine, records, bounds>>

(* Any step of an operation may raise.  activate and its callers recover   *)
(* the journal and give the exception back; a restore that fails before    *)
(* activation leaves its receipt first.                                    *)
Receipt(i) ==
    attempts' = IF journal[i].op = "restore" /\ \A k \in DOMAIN attempts : attempts[k] # i
                  THEN Append(attempts, i) ELSE attempts

Raise ==
    /\ cli.at \in Working
    /\ Count("fails", MaxFails)
    /\ cli' = Raised
    /\ IF cli.at = "build" THEN Receipt(cli.op) ELSE UNCHANGED attempts
    /\ tree' = IF cli.at = "build" THEN [tree EXCEPT ![J.target] = "absent"] ELSE tree
    /\ UNCHANGED <<parked, current, settings, engine, journal, history>>

(* So may any step of a recovery, and then the tool ends; but around the   *)
(* handler of activate there is the command's own, which recovers again.   *)
RecoveryRaises ==
    /\ cli.at \in Recovering
    /\ Count("fails", MaxFails)
    /\ IF cli.want = "none" /\ cli.op # 0 /\ J.stage \in {"starting", "switching"}
         THEN cli' = Raised /\ Receipt(cli.op)
         ELSE Finish /\ UNCHANGED attempts
    /\ UNCHANGED <<disk, engine, journal, history>>

(* The tool is killed.  Engines belong to their own supervisors.           *)
Crash ==
    /\ cli.at # "idle"
    /\ Count("crashes", MaxCrashes)
    /\ Finish
    /\ UNCHANGED <<disk, engine, records>>

(* A supervisor dies and leaves no proof that its engine has ended.        *)
Lose(g, e) ==
    /\ engine[g][e] = "ready"
    /\ Count("lost", MaxLost)
    /\ engine' = [engine EXCEPT ![g][e] = "lost"]
    /\ UNCHANGED <<disk, records, cli>>

-----------------------------------------------------------------------------
(* Engines: start_engine, stop_engine.  Both refuse a supervisor whose     *)
(* identity they cannot check.  A record whose launch nobody has claimed   *)
(* is "pending": no start accepts it, but a stop cancels the launch.       *)

Startable(g, e) == tree[g] = "whole" /\ engine[g][e] \notin {"pending", "lost"}
(* Fault: only a running engine can be stopped.                            *)
ReadyOnly(g, e) == engine[g][e] = "ready"
Stoppable(g, e) == engine[g][e] # "lost"

(* The record, the launch and the wait for it are one step here.           *)
Started(g, e) == engine' = [engine EXCEPT ![g][e] = "ready"]
Stopped(g, e) ==
    engine' = [engine EXCEPT ![g][e] = IF @ = "absent" THEN "absent" ELSE "stopped"]

(* What require_idle and engine_assignments ask of every record.           *)
AllAccounted ==
    \A g \in Generations, e \in Engines : engine[g][e] \notin {"pending", "lost"}

(* The tool dies in start_engine, between the record and the supervisor.   *)
CrashInStart(g, e) ==
    /\ \/ cli.at = "begin" /\ cli.want = "start" /\ g = current
       \/ cli.at = "start" /\ e \in cli.todo \cap J.running /\ g = J.target
       \/ cli.at = "r_start" /\ e \in cli.todo /\ g = J.previous
    /\ Startable(g, e) /\ engine[g][e] # "ready"
    /\ Count("crashes", MaxCrashes)
    /\ engine' = [engine EXCEPT ![g][e] = "pending"]
    /\ Finish
    /\ UNCHANGED <<disk, records>>

(* `start` and `stop` of the selected generation's engine.                 *)
StartCommand(e) ==
    /\ cli.at = "begin" /\ cli.want = "start"
    /\ current # 0
    /\ Startable(current, e)
    /\ Started(current, e)
    /\ Finish
    /\ UNCHANGED <<disk, records, bounds>>

StopCommand(e) ==
    /\ cli.at = "begin" /\ cli.want = "stop"
    /\ current # 0
    /\ Stoppable(current, e)
    /\ Stopped(current, e)
    /\ Finish
    /\ UNCHANGED <<disk, records, bounds>>

-----------------------------------------------------------------------------
(* setup, update, restore.  Here `repair` is an update that keeps the      *)
(* settings, and `rollback` a restore of the entry before the last.        *)

NewJournal(op, target, running, halted, change, collected) ==
    [op |-> op, previous |-> current, target |-> target, stage |-> "planned",
     running |-> running, halted |-> halted, settings |-> change,
     entry |-> 0, collected |-> collected]

Begin(op, target, running, halted, change) ==
    /\ target \in Generations
    /\ journal' = Append(journal, NewJournal(op, target, running, halted, change, {}))
    /\ cli' = [cli EXCEPT !.at = "build", !.op = Len(journal) + 1]

(* begin_setup: the first engine is to run.                                *)
BeginSetup(e) ==
    /\ cli.at = "begin" /\ cli.want = "setup"
    /\ current = 0 /\ AllAccounted
    /\ Begin("setup", NextGeneration, {e}, {}, <<>>)
    /\ UNCHANGED <<disk, engine, history, attempts, bounds>>

(* begin_activation records which engines run.  An update may select other *)
(* settings; the journal keeps both texts.                                 *)
BeginActivation(change) ==
    /\ cli.at = "begin" /\ cli.want \in {"update", "restore"}
    /\ current # 0
    /\ change # <<>> => cli.want = "update" /\ change[1] # change[2]
    /\ AllAccounted
    /\ Begin(cli.want, NextGeneration,
             {e \in Engines : engine[current][e] = "ready"},
             {e \in Engines : engine[current][e] = "stopped"}, change)
    /\ UNCHANGED <<disk, engine, history, attempts, bounds>>

(* build_generation: generation.json is written last and makes it whole.   *)
Build ==
    /\ cli.at = "build"
    /\ \/ /\ tree[J.target] = "absent"
          /\ tree' = [tree EXCEPT ![J.target] = "partial"]
          /\ WriteStage("building")
          /\ UNCHANGED cli
       \/ /\ tree[J.target] = "partial"
          /\ tree' = [tree EXCEPT ![J.target] = "whole"]
          /\ Goto("activate")
          /\ UNCHANGED journal
    /\ UNCHANGED <<parked, current, settings, engine, history, attempts, bounds>>

(* activate: the history entry is prepared, then the candidates start.     *)
Activate ==
    /\ cli.at = "activate"
    /\ current = J.previous /\ tree[J.target] = "whole"
    /\ journal' = [journal EXCEPT ![cli.op].stage = "starting",
                                  ![cli.op].entry = Len(history) + 1]
    /\ Work("start", J.running \cup J.halted)
    /\ UNCHANGED <<disk, engine, history, attempts, bounds>>

(* One binding after the other: start_engine, or preserve_stopped_engine.  *)
StartTarget(e) ==
    /\ cli.at = "start" /\ e \in cli.todo
    /\ Startable(J.target, e)
    /\ IF e \in J.running
         THEN Started(J.target, e)
         ELSE engine[J.previous][e] = "stopped"
              /\ engine' = [engine EXCEPT ![J.target][e] = "stopped"]
    /\ Work("start", cli.todo \ {e})
    /\ UNCHANGED <<disk, records, bounds>>

(* The candidate does not become ready: it was stopped, it ended before it *)
(* claimed its launch, or it is lost.                                      *)
StartFails(e) ==
    /\ cli.at = "start" /\ e \in cli.todo \cap J.running
    /\ Count("fails", MaxFails)
    /\ \E s \in {"stopped", "pending", "lost"} : engine' = [engine EXCEPT ![J.target][e] = s]
    /\ cli' = Raised
    /\ UNCHANGED <<disk, records>>

(* Fault: the switch begins without its stage.                             *)
RevalidateUnstaged ==
    /\ cli.at = "start" /\ cli.todo = {}
    /\ current = J.previous
    /\ AllAccounted
    /\ Goto("settings")
    /\ UNCHANGED <<disk, engine, records, bounds>>

(* revalidate and require_idle, then the stage that allows the switch.     *)
Revalidate ==
    /\ cli.at = "start" /\ cli.todo = {}
    /\ current = J.previous
    /\ AllAccounted
    /\ WriteStage("switching")
    /\ Goto("settings")
    /\ UNCHANGED <<disk, engine, history, attempts, bounds>>

RevalidateFails ==
    /\ cli.at = "start" /\ cli.todo = {}
    /\ ~AllAccounted
    /\ cli' = Raised
    /\ UNCHANGED <<disk, engine, records, bounds>>

WriteSettings ==
    /\ cli.at = "settings"
    /\ settings' = IF J.settings = <<>> THEN settings ELSE J.settings[2]
    /\ Goto("switch")
    /\ UNCHANGED <<tree, parked, current, engine, records, bounds>>

(* Fault: the old engines are left running.                                *)
SetCurrentOnly ==
    /\ cli.at = "switch"
    /\ tree[J.target] = "whole"
    /\ current' = J.target
    /\ Work("stop", {})
    /\ UNCHANGED <<tree, parked, settings, engine, records, bounds>>

SetCurrent ==
    /\ cli.at = "switch"
    /\ tree[J.target] = "whole"
    /\ current' = J.target
    /\ Work("stop", IF J.previous = 0 THEN {} ELSE J.running)
    /\ UNCHANGED <<tree, parked, settings, engine, records, bounds>>

StopPrevious(e) ==
    /\ cli.at = "stop" /\ e \in cli.todo
    /\ Stoppable(J.previous, e)
    /\ Stopped(J.previous, e)
    /\ Work("stop", cli.todo \ {e})
    /\ UNCHANGED <<disk, records, bounds>>

(* An engine whose supervisor died in the meantime cannot be stopped.      *)
StopRefused ==
    /\ cli.at = "stop"
    /\ \E e \in cli.todo : ~Stoppable(J.previous, e)
    /\ cli' = Raised
    /\ UNCHANGED <<disk, engine, records, bounds>>

(* The commit point.  The entry is published by the recovery that follows. *)
Complete ==
    /\ cli.at = "stop" /\ cli.todo = {}
    /\ WriteStage("complete")
    /\ cli' = Raised
    /\ UNCHANGED <<disk, engine, history, attempts, bounds>>

-----------------------------------------------------------------------------
(* recover_activation of an interrupted journal.                           *)

RecoverStop(e) ==
    /\ cli.at = "r_stop" /\ e \in cli.todo
    /\ Stoppable(J.target, e)
    /\ Stopped(J.target, e)
    /\ Work("r_stop", cli.todo \ {e})
    /\ UNCHANGED <<disk, records, bounds>>

(* Fault: the settings are not put back.                                   *)
SettingsLeft ==
    /\ cli.at = "r_stop" /\ cli.todo = {}
    /\ Goto("r_current")
    /\ UNCHANGED <<disk, engine, records, bounds>>

RecoverSettings ==
    /\ cli.at = "r_stop" /\ cli.todo = {}
    /\ settings' = IF J.settings # <<>> /\ J.stage = "switching"
                     THEN J.settings[1] ELSE settings
    /\ Goto("r_current")
    /\ UNCHANGED <<tree, parked, current, engine, records, bounds>>

RecoverCurrent ==
    /\ cli.at = "r_current"
    /\ J.previous # 0 => tree[J.previous] = "whole"
    /\ current' = J.previous
    /\ Work("r_start", IF J.previous = 0 THEN {} ELSE J.running)
    /\ UNCHANGED <<tree, parked, settings, engine, records, bounds>>

RecoverStart(e) ==
    /\ cli.at = "r_start" /\ e \in cli.todo
    /\ Startable(J.previous, e)
    /\ Started(J.previous, e)
    /\ Work("r_start", cli.todo \ {e})
    /\ UNCHANGED <<disk, records, bounds>>

(* "Process identity ambiguity leaves the journal incomplete."  A restore  *)
(* that failed in this command has its receipt all the same.               *)
RecoveryRefused ==
    /\ \/ cli.at = "r_stop" /\ \E e \in cli.todo : ~Stoppable(J.target, e)
       \/ cli.at = "r_start" /\ \E e \in cli.todo : ~Startable(J.previous, e)
    /\ Finish
    /\ IF cli.want = "none" THEN Receipt(cli.op) ELSE UNCHANGED attempts
    /\ UNCHANGED <<disk, engine, journal, history, bounds>>

(* rmtree of the failed target, which may be cut short.                    *)
RecoverTree ==
    /\ cli.at = "r_start" /\ cli.todo = {}
    /\ \/ /\ tree[J.target] = "whole"
          /\ tree' = [tree EXCEPT ![J.target] = "partial"]
          /\ UNCHANGED cli
       \/ /\ tree[J.target] # "whole"
          /\ tree' = [tree EXCEPT ![J.target] = "absent"]
          /\ Goto("r_receipt")
    /\ UNCHANGED <<parked, current, settings, engine, records, bounds>>

RecoverReceipt ==
    /\ cli.at = "r_receipt"
    /\ Receipt(cli.op)
    /\ Goto("r_done")
    /\ UNCHANGED <<disk, engine, journal, history, bounds>>

RolledBack ==
    /\ cli.at = "r_done"
    /\ WriteStage("rolled-back")
    /\ Goto("recover")
    /\ UNCHANGED <<disk, engine, history, attempts, bounds>>

-----------------------------------------------------------------------------
(* gc.                                                                     *)

(* collection_plan: everything but the selected generation and the one     *)
(* before it; a live or ambiguous engine of another generation refuses.    *)
BeginCollection ==
    /\ cli.at = "begin" /\ cli.want = "gc"
    /\ current # 0
    /\ \A g \in Retained : tree[g] = "whole"
    /\ LET collected == {g \in Generations \ Retained : tree[g] # "absent"}
       IN  /\ collected # {}
           /\ \A g \in collected, e \in Engines : engine[g][e] \in {"absent", "stopped"}
           /\ journal' = Append(journal, NewJournal("gc", current, {}, {}, <<>>, collected))
           /\ cli' = [cli EXCEPT !.at = "gc_move", !.op = Len(journal) + 1, !.todo = collected]
    /\ UNCHANGED <<disk, engine, history, attempts, bounds>>

(* durable_rename of one tree to .garbage, in the order of the numbers.    *)
Park ==
    /\ cli.at = "gc_move" /\ cli.todo # {}
    /\ LET g == Min(cli.todo)
       IN  /\ tree' = [tree EXCEPT ![g] = "absent"]
           /\ parked' = parked \cup {g}
           /\ Work("gc_move", cli.todo \ {g})
    /\ WriteStage("building")
    /\ UNCHANGED <<current, settings, engine, history, attempts, bounds>>

CommitCollection ==
    /\ cli.at = "gc_move" /\ cli.todo = {}
    /\ WriteStage("complete")
    /\ cli' = [cli EXCEPT !.at = "gc_clean", !.want = "none", !.todo = J.collected]
    /\ UNCHANGED <<disk, engine, history, attempts, bounds>>

(* cleanup_collection: only what a committed journal names is deleted.     *)
Clean ==
    /\ cli.at = "gc_clean"
    /\ IF cli.todo = {}
         THEN Goto("recover") /\ UNCHANGED parked
         ELSE /\ parked' = parked \ {Min(cli.todo)}
              /\ Work("gc_clean", cli.todo \ {Min(cli.todo)})
    /\ UNCHANGED <<tree, current, settings, engine, records, bounds>>

(* recover_collection: every parked tree goes back.                        *)
Unpark ==
    /\ cli.at = "gc_restore" /\ cli.todo # {}
    /\ current = J.target
    /\ LET g == Min(cli.todo)
       IN  /\ IF g \in parked
                THEN /\ tree[g] = "absent"
                     /\ tree' = [tree EXCEPT ![g] = "whole"]
                     /\ parked' = parked \ {g}
                ELSE tree[g] # "absent" /\ UNCHANGED <<tree, parked>>
           /\ Work("gc_restore", cli.todo \ {g})
    /\ UNCHANGED <<current, settings, engine, records, bounds>>

CollectionUndone ==
    /\ cli.at = "gc_restore" /\ cli.todo = {}
    /\ WriteStage("rolled-back")
    /\ Goto("recover")
    /\ UNCHANGED <<disk, engine, history, attempts, bounds>>

-----------------------------------------------------------------------------
(* The tool goes on by itself until it ends; it may be killed, a step may  *)
(* raise and a supervisor may die, but none of these has to happen.        *)
Steps ==
    \/ RecoverPending \/ Refuse
    \/ \E e \in Engines : StartCommand(e) \/ StopCommand(e) \/ BeginSetup(e)
    \/ BeginActivation(<<>>)
    \/ \E s \in Settings : BeginActivation(<<settings, s>>)
    \/ Build \/ Activate
    \/ \E e \in Engines : StartTarget(e)
    \/ Revalidate \/ RevalidateFails \/ WriteSettings \/ SetCurrent
    \/ \E e \in Engines : StopPrevious(e)
    \/ StopRefused \/ Complete
    \/ \E e \in Engines : RecoverStop(e) \/ RecoverStart(e)
    \/ RecoverSettings \/ RecoverCurrent \/ RecoveryRefused
    \/ RecoverTree \/ RecoverReceipt \/ RolledBack
    \/ BeginCollection \/ Park \/ CommitCollection \/ Clean
    \/ Unpark \/ CollectionUndone

Next ==
    \/ \E c \in Commands : Command(c)
    \/ Steps
    \/ Raise \/ RecoveryRaises \/ Crash
    \/ \E e \in Engines : StartFails(e)
    \/ \E g \in Generations, e \in Engines : CrashInStart(g, e) \/ Lose(g, e)

Spec == Init /\ [][Next]_vars
FairSpec == Spec /\ WF_vars(Steps)

-----------------------------------------------------------------------------
(* `current` always names a whole generation, at every instant of every    *)
(* operation and of its recovery: an engine started from it will run.      *)
CurrentIsWhole == current # 0 => tree[current] = "whole"

(* What can be gone back to is there: the generation an unfinished         *)
(* operation would restore, and the one before the selected one, which no  *)
(* collection takes.                                                       *)
FallbackKept ==
    /\ \A i \in DOMAIN journal :
          Incomplete(i) /\ journal[i].previous # 0 => tree[journal[i].previous] = "whole"
    /\ \A g \in Predecessors(current) : tree[g] = "whole"

(* Once no operation is open, engines run in the selected generation only: *)
(* neither the old ones nor a failed candidate's are left behind.          *)
OneGenerationServes ==
    (\A i \in DOMAIN journal : ~Incomplete(i)) =>
        \A g \in Generations, e \in Engines : engine[g][e] = "ready" => g = current

(* An operation is marked rolled-back only when the state it found is back *)
(* in force: pointer, settings, running engines, and no trace of its       *)
(* target, however often the recovery itself was interrupted.              *)
RolledBackRestores ==
    [][\A i \in DOMAIN journal :
          Incomplete(i) /\ journal'[i].stage = "rolled-back" /\ journal[i].op # "gc" =>
              /\ current = journal[i].previous
              /\ tree[journal[i].target] = "absent"
              /\ journal[i].settings # <<>> => settings = journal[i].settings[1]
              /\ \A e \in Engines : engine[journal[i].target][e] # "ready"
              /\ journal[i].previous # 0 =>
                    \A e \in journal[i].running :
                       engine[journal[i].previous][e] \in {"ready", "lost"}]_vars

(* The published history is the completed operations in their order, at    *)
(* most the last one missing, and it ends in the selected generation: the  *)
(* check `rollback` makes can fail only before a recovery.                 *)
HistoryTellsCurrent ==
    LET done == {i \in DOMAIN journal : Done(i)}
        told == {history[k] : k \in DOMAIN history}
    IN  /\ told \subseteq done
        /\ \A k \in DOMAIN history, l \in DOMAIN history : k < l => history[k] < history[l]
        /\ \A i \in done \ told : \A k \in done : k <= i
        /\ told = done /\ history # <<>> /\ (\A i \in DOMAIN journal : ~Incomplete(i))
              => journal[history[Len(history)]].target = current

(* A collection in progress has each of its generations either in place or *)
(* in quarantine, and quarantine holds nothing else: rmtree destroys only  *)
(* what a committed journal named.                                         *)
CollectionLosesNothing ==
    /\ \A i \in DOMAIN journal : journal[i].op = "gc" /\ Incomplete(i) =>
          \A g \in journal[i].collected : (tree[g] = "whole") # (g \in parked)
    /\ \A g \in parked : \E i \in DOMAIN journal :
          journal[i].stage # "rolled-back" /\ g \in journal[i].collected

(* A failed restore has exactly one receipt when its journal is closed,    *)
(* and a restore that was activated has none.                              *)
OneReceipt ==
    \A i \in DOMAIN journal :
        LET n == Cardinality({k \in DOMAIN attempts : attempts[k] = i})
        IN  /\ n <= 1
            /\ journal[i].stage = "complete" => n = 0
            /\ journal[i].stage = "rolled-back" /\ journal[i].op = "restore" => n = 1

(* No interruption costs a generation that is in use, that an operation    *)
(* would go back to, or that no committed collection named.                *)
GenerationsWhole ==
    TypeOK /\ CurrentIsWhole /\ FallbackKept /\ CollectionLosesNothing

(* The two published logs tell what happened, each operation once.         *)
LogsTellTheTruth == HistoryTellsCurrent /\ OneReceipt

(* Whatever was interrupted, and wherever, a tool that is left alone puts  *)
(* it in order, unless an engine's identity cannot be checked, or the tool *)
(* died while it was about to launch an engine the recovery has to restore *)
(* (a stop would cancel that launch, but a stop recovers first).           *)
LaunchStuck ==
    \E i \in DOMAIN journal :
        /\ Incomplete(i) /\ journal[i].previous # 0
        /\ \E e \in journal[i].running : engine[journal[i].previous][e] = "pending"

RecoverySettles ==
    (cli.at = "recover" /\ bounds["crashes"] = MaxCrashes /\ bounds["fails"] = MaxFails)
        ~> \/ \E g \in Generations, e \in Engines : engine[g][e] = "lost"
           \/ LaunchStuck
           \/ \A i \in DOMAIN journal : ~Pending(i)

(* Seen from outside, an operation takes place when its journal is marked  *)
(* complete, or not at all.                                                *)
Open == {i \in DOMAIN journal : Incomplete(i) /\ journal[i].op # "gc"}
Committed == IF Open = {} THEN current ELSE journal[Max(Open)].previous
Configured ==
    IF Open # {} /\ journal[Max(Open)].stage = "switching" /\ journal[Max(Open)].settings # <<>>
      THEN journal[Max(Open)].settings[1] ELSE settings
Versions == INSTANCE EnvironmentVersions WITH
    selected <- Committed, config <- Configured,
    taken <- {journal[i].target : i \in {k \in DOMAIN journal : Done(k)}}
ImplementsVersions == Versions!Spec
=============================================================================
