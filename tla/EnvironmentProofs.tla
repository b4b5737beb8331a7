-------------------------- MODULE EnvironmentProofs --------------------------
(***************************************************************************)
(* What the supervisor's generations and journals promise, for any engines *)
(* and settings and however often the tool dies.                           *)
(*                                                                         *)
(* Only the last journal can be open, and where the tool stands tells how  *)
(* far it has come with it.  The invariant says what each stage has left   *)
(* to undo: which trees, engines, settings and log entries it has touched. *)
(***************************************************************************)
EXTENDS Environment, FiniteSetTheorems, NaturalsInduction, WellFoundedInduction, TLAPS

USE EnvironmentAssumption

Last == journal[Len(journal)]
OpenInstall == journal # <<>> /\ Last.op \in Installs /\ Last.stage \notin Ended
OpenGc == journal # <<>> /\ Last.op = "gc" /\ Last.stage \notin Ended

(* The generation in force: what an open operation would go back to.       *)
Base == IF OpenInstall THEN Last.previous ELSE current

(* Generation numbers grow.                                                *)
Numbers ==
    /\ \A i \in DOMAIN journal : Incomplete(i) => i = Len(journal)
    /\ \A i \in DOMAIN journal : journal[i].op \in Installs => journal[i].previous < journal[i].target
    /\ \A i, k \in DOMAIN journal :
          i < k /\ journal[i].stage = "complete" /\ journal[k].op \in Installs
                /\ journal[k].stage # "rolled-back"
            => journal[i].target < journal[k].target
    /\ \A i \in DOMAIN journal : \A g \in journal[i].collected : g <= journal[i].target
    /\ \A i \in DOMAIN journal :
          Done(i) /\ (\A k \in DOMAIN journal : Done(k) => k <= i) => journal[i].target = Base

(* What the base is and what came before it are whole; the target of an    *)
(* open installation is the one tree that may be in pieces.                *)
Installed ==
    /\ Base # 0 => tree[Base] = "whole"
    /\ \A i \in DOMAIN journal :
          Done(i) /\ journal[i].target = Base /\ journal[i].previous # 0
            => tree[journal[i].previous] = "whole"
    /\ OpenInstall =>
          \/ current = Last.previous
          \/ current = Last.target /\ Last.stage = "switching" /\ tree[current] = "whole"
    /\ \A g \in Generations : tree[g] = "partial" => OpenInstall /\ g = Last.target
    /\ \A g \in Generations :
          tree[g] = "whole" => g <= Base \/ (OpenInstall /\ g = Last.target)

(* Trees are in quarantine only for the last journal, and a committed      *)
(* collection's are nowhere else.                                          *)
Collected ==
    /\ parked # {} => /\ journal # <<>> /\ Last.op = "gc" /\ Last.stage # "rolled-back"
                      /\ parked \subseteq Last.collected
    /\ OpenGc =>
          /\ current = Last.target /\ current = Last.previous /\ current \notin Last.collected
          /\ \A g \in Last.collected : (tree[g] = "whole") # (g \in parked)
          /\ \A i \in DOMAIN journal :
                Done(i) /\ journal[i].target = current => journal[i].previous \notin Last.collected
    /\ \A i \in DOMAIN journal :
          journal[i].op = "gc" /\ journal[i].stage = "complete" =>
              \A g \in journal[i].collected : tree[g] = "absent" /\ (g \in parked => i = Len(journal))

(* Engines run in the base, or were started by the open installation.      *)
Serving ==
    \A g \in Generations, e \in Engines : engine[g][e] = "ready" =>
        IF OpenInstall THEN g \in {Last.previous, Last.target} /\ e \in Last.running
                       ELSE g = current

(* An open installation has changed the settings only once it switches.    *)
Configuration ==
    OpenInstall /\ Last.settings # <<>> =>
        Len(Last.settings) = 2 /\ (Last.stage # "switching" => settings = Last.settings[1])

(* Where the tool stands.                                                  *)
Undoing == {"r_current", "r_start", "r_receipt", "r_done"}
WorkPlaced ==
    /\ cli.at = "begin" => \A i \in DOMAIN journal : ~Pending(i)
    /\ cli.at \in {"build", "activate"} => OpenInstall /\ Last.stage \in {"planned", "building"}
    /\ cli.at = "start" => OpenInstall /\ Last.stage = "starting"
    /\ cli.at \in {"settings", "switch", "stop"} => OpenInstall /\ Last.stage = "switching"
    /\ cli.at = "stop" =>
          /\ current = Last.target
          /\ Last.previous # 0 =>
                \A e \in Engines : engine[Last.previous][e] = "ready" => e \in cli.todo

UndoPlaced ==
    /\ cli.at = "r_stop" =>
          OpenInstall /\ \A e \in Engines : engine[Last.target][e] = "ready" => e \in cli.todo
    /\ cli.at \in Undoing =>
          /\ OpenInstall
          /\ \A e \in Engines : engine[Last.target][e] # "ready"
          /\ Last.settings # <<>> => settings = Last.settings[1]
    /\ cli.at \in Undoing \ {"r_current"} =>
          /\ current = Last.previous
          /\ Last.previous # 0 =>
                \A e \in Last.running : \/ cli.at = "r_start" /\ e \in cli.todo
                                       \/ engine[Last.previous][e] \in {"ready", "lost"}
    /\ cli.at = "r_start" => cli.todo \subseteq Last.running
    /\ cli.at \in {"r_receipt", "r_done"} => tree[Last.target] = "absent"
    /\ cli.at = "r_done" /\ Last.op = "restore" =>
          \E k \in DOMAIN attempts : attempts[k] = Len(journal)

GcPlaced ==
    /\ cli.at = "gc_move" =>
          OpenGc /\ cli.todo \subseteq Last.collected /\ parked = Last.collected \ cli.todo
    /\ cli.at = "gc_restore" =>
          OpenGc /\ cli.todo \subseteq Last.collected /\ parked \subseteq cli.todo
    /\ cli.at = "gc_clean" =>
          /\ journal # <<>> /\ Last.op = "gc" /\ Last.stage = "complete"
          /\ cli.todo \subseteq Last.collected

Placed ==
    /\ cli.at \in Working \cup (Recovering \ {"recover"}) => cli.op = Len(journal)
    /\ cli.at = "recover" /\ cli.op # 0 => cli.op \in DOMAIN journal /\ ~Incomplete(cli.op)
    /\ WorkPlaced /\ UndoPlaced /\ GcPlaced

(* Completed operations are in the history, the last one perhaps not yet.  *)
HistoryKept ==
    /\ \A k \in DOMAIN history : Done(history[k])
    /\ \A k, l \in DOMAIN history : k < l => history[k] < history[l]
    /\ \A i \in DOMAIN journal : Done(i) /\ ~Published(i) =>
          \A k \in DOMAIN journal : Done(k) \/ Incomplete(k) => k <= i /\ ~Incomplete(k)

(* Receipts: at most one each, none for what was completed.                *)
ReceiptsKept ==
    /\ \A k, l \in DOMAIN attempts : attempts[k] = attempts[l] => k = l
    /\ \A k \in DOMAIN attempts : journal[attempts[k]].stage # "complete"
    /\ \A i \in DOMAIN journal : journal[i].stage = "rolled-back" /\ journal[i].op = "restore" =>
          \E k \in DOMAIN attempts : attempts[k] = i
    /\ cli.at \in Working => \A k \in DOMAIN attempts : attempts[k] # cli.op

EnvInv ==
    /\ TypeOK /\ Numbers /\ Installed /\ Collected /\ Serving /\ Configuration
    /\ Placed /\ HistoryKept /\ ReceiptsKept

-----------------------------------------------------------------------------
(* A non-empty set of numbers up to n has a greatest one, and a least one. *)
LEMMA Extremes ==
    ASSUME NEW n \in Nat, NEW S \in SUBSET (0 .. n), S # {}
    PROVE  /\ Max(S) \in S /\ \A x \in S : x <= Max(S)
           /\ Min(S) \in S /\ \A x \in S : Min(S) <= x
  <1> DEFINE D == {n - x : x \in S}
  <1>0. \A x \in S : x \in Nat /\ x <= n
    OBVIOUS
  <1>1. D \in SUBSET Nat /\ D # {} /\ S \in SUBSET Nat
    <2>1. \A x \in S : n - x \in Nat
      BY <1>0
    <2> QED
      BY <1>0, <2>1
  <1>2. PICK d \in D : \A y \in D : ~(<<y, d>> \in OpToRel(<, Nat))
    <2> HIDE DEF D
    <2> QED
      BY <1>1, NatLessThanWellFounded, WFMin
  <1>3. PICK m \in S : d = n - m
    OBVIOUS
  <1>4. \A x \in S : m >= x
    <2> SUFFICES ASSUME NEW x \in S PROVE m >= x
      OBVIOUS
    <2>1. n - x \in D /\ n - x \in Nat /\ n - m \in Nat /\ x \in Nat /\ m \in Nat
      BY <1>1, <1>3
    <2>2. ~(n - x < n - m)
      BY <1>2, <1>3, <2>1 DEF OpToRel
    <2> QED
      BY <2>1, <2>2
  <1>5. Max(S) \in S /\ \A x \in S : Max(S) >= x
    BY <1>4 DEF Max
  <1>6. PICK l \in S : \A y \in S : ~(<<y, l>> \in OpToRel(<, Nat))
    <2> HIDE DEF D
    <2> QED
      BY <1>1, NatLessThanWellFounded, WFMin
  <1>7. \A x \in S : l <= x
    <2> SUFFICES ASSUME NEW x \in S PROVE l <= x
      OBVIOUS
    <2>1. x \in Nat /\ l \in Nat /\ ~(x < l)
      BY <1>0, <1>6 DEF OpToRel
    <2> QED
      BY <2>1
  <1>8. Min(S) \in S /\ \A x \in S : Min(S) <= x
    BY <1>7 DEF Min
  <1> QED
    BY <1>0, <1>5, <1>8

(* What the types say of a journal.                                        *)
LEMMA JournalTypes ==
    ASSUME TypeOK
    PROVE  /\ Len(journal) \in Nat /\ DOMAIN journal = 1 .. Len(journal)
           /\ journal # <<>> => Len(journal) \in DOMAIN journal
           /\ \A i \in DOMAIN journal :
                 /\ journal[i] \in Journals
                 /\ journal[i].op \in Installs \cup {"gc"} /\ journal[i].stage \in Stages
                 /\ journal[i].previous \in 0 .. MaxGen /\ journal[i].target \in Generations
                 /\ journal[i].running \subseteq Engines /\ journal[i].halted \subseteq Engines
                 /\ journal[i].settings \in Seq(Settings) /\ journal[i].entry \in Nat
                 /\ journal[i].collected \subseteq Generations
           /\ \A g \in Generations : g \in Nat /\ g # 0 /\ g \in 0 .. MaxGen
  <1>1. journal \in Seq(Journals)
    BY DEF TypeOK
  <1>2. /\ Len(journal) \in Nat /\ DOMAIN journal = 1 .. Len(journal)
        /\ journal # <<>> => Len(journal) \in DOMAIN journal
        /\ \A i \in DOMAIN journal : journal[i] \in Journals
    BY <1>1
  <1>3. \A g \in Generations : g \in Nat /\ g # 0 /\ g \in 0 .. MaxGen
    BY DEF Generations
  <1> QED
    BY <1>2, <1>3 DEF Journals

(* A new generation number is beyond what is there and what was used.      *)
LEMMA NextIsNew ==
    ASSUME TypeOK
    PROVE  /\ NextGeneration \in Nat \ {0}
           /\ \A g \in Generations : tree[g] # "absent" => g < NextGeneration
           /\ \A i \in DOMAIN journal :
                 journal[i].stage = "complete" => journal[i].target < NextGeneration
  <1> DEFINE A == {g \in Generations : tree[g] # "absent"}
             B == {journal[i].target : i \in {k \in DOMAIN journal : journal[k].stage = "complete"}}
             S == A \cup B \cup {0}
  <1>1. MaxGen \in Nat
    OBVIOUS
  <1>2. S \in SUBSET (0 .. MaxGen) /\ S # {}
    BY <1>1, JournalTypes
  <1>3. NextGeneration = Max(S) + 1
    BY DEF NextGeneration
  <1>4. /\ \A g \in Generations : tree[g] # "absent" => g \in S
        /\ \A i \in DOMAIN journal : journal[i].stage = "complete" => journal[i].target \in S
    OBVIOUS
  <1> HIDE DEF S, A, B
  <1>5. Max(S) \in S /\ \A x \in S : x <= Max(S)
    BY <1>1, <1>2, Extremes
  <1>6. Max(S) \in Nat /\ \A x \in S : x \in Nat /\ x < Max(S) + 1
    <2>1. \A x \in S : x \in Nat
      BY <1>1, <1>2
    <2> QED
      BY <1>5, <2>1
  <1> QED
    BY <1>3, <1>4, <1>6

(* A generation was installed once, so it has one predecessor at most.     *)
LEMMA OnePredecessor ==
    ASSUME TypeOK, Numbers, NEW g
    PROVE  /\ \A p \in Predecessors(g) : \E i \in DOMAIN journal :
                 Done(i) /\ journal[i].target = g /\ journal[i].previous = p /\ p # 0
           /\ \A i \in DOMAIN journal :
                 Done(i) /\ journal[i].target = g /\ journal[i].previous # 0
                   => Predecessors(g) = {journal[i].previous}
  <1> DEFINE led == {i \in DOMAIN journal : Done(i) /\ journal[i].target = g
                                             /\ journal[i].previous # 0}
  <1>1. led \in SUBSET (0 .. Len(journal)) /\ Len(journal) \in Nat
    BY JournalTypes
  <1>2. Predecessors(g) = IF led = {} THEN {} ELSE {journal[Max(led)].previous}
    BY DEF Predecessors
  <1>3. \A i, k \in led : i = k
    <2> SUFFICES ASSUME NEW i \in led, NEW k \in led, i < k PROVE FALSE
      BY <1>1
    <2>1. journal[i].target < journal[k].target
      BY DEF Numbers, Done
    <2> QED
      BY <2>1, JournalTypes
  <1>4. led # {} => Max(led) \in led
    <2> HIDE DEF led
    <2> QED
      BY <1>1, Extremes
  <1> QED
    BY <1>2, <1>3, <1>4

(* What a part of the invariant does not mention cannot break it.          *)
LEMMA SameParts ==
    ASSUME EnvInv
    PROVE  /\ UNCHANGED <<journal, current>> => Numbers'
           /\ UNCHANGED <<journal, current, tree>> => Installed'
           /\ UNCHANGED <<journal, current, tree, parked>> => Collected'
           /\ UNCHANGED <<journal, current, engine>> => Serving'
           /\ UNCHANGED <<journal, settings>> => Configuration'
           /\ UNCHANGED <<journal, history>> => HistoryKept'
  <1> USE DEF EnvInv, OpenInstall, OpenGc, Last, Base, Done, Incomplete, Published
  <1>1. UNCHANGED <<journal, current>> => Numbers'
    BY DEF Numbers
  <1>2. UNCHANGED <<journal, current, tree>> => Installed'
    BY DEF Installed
  <1>3. UNCHANGED <<journal, current, tree, parked>> => Collected'
    BY DEF Collected
  <1>4. UNCHANGED <<journal, current, engine>> => Serving'
    BY DEF Serving
  <1>5. UNCHANGED <<journal, settings>> => Configuration'
    BY DEF Configuration
  <1>6. UNCHANGED <<journal, history>> => HistoryKept'
    BY DEF HistoryKept
  <1> QED
    BY <1>1, <1>2, <1>3, <1>4, <1>5, <1>6

-----------------------------------------------------------------------------
(* Types.                                                                  *)

Tools == [at : Places, want : Commands \cup {"none"}, op : Nat,
          todo : (SUBSET Engines) \cup (SUBSET Generations)]

LEMMA ToolMoves ==
    ASSUME TypeOK
    PROVE  /\ Idle \in Tools /\ Raised \in Tools /\ Raised.at = "recover" /\ Raised.want = "none"
           /\ \A c \in Commands : [Idle EXCEPT !.at = "recover", !.want = c] \in Tools
           /\ \A place \in Places : [cli EXCEPT !.at = place] \in Tools
           /\ \A place \in Places, todo \in (SUBSET Engines) \cup (SUBSET Generations) :
                 /\ [cli EXCEPT !.at = place, !.todo = todo] \in Tools
                 /\ [cli EXCEPT !.at = place, !.want = "none", !.todo = todo] \in Tools
           /\ \A place \in Places, n \in Nat, todo \in (SUBSET Engines) \cup (SUBSET Generations) :
                 /\ [cli EXCEPT !.at = place, !.op = n] \in Tools
                 /\ [cli EXCEPT !.at = place, !.op = n, !.todo = todo] \in Tools
  <1>1. cli \in Tools
    BY DEF TypeOK, Tools
  <1>2. "idle" \in Places /\ "recover" \in Places
    BY DEF Places, Recovering
  <1>3. Idle \in Tools /\ Idle = [at |-> "idle", want |-> "none", op |-> 0, todo |-> {}]
    BY <1>2 DEF Idle, Tools
  <1>4. Raised \in Tools /\ Raised.at = "recover" /\ Raised.want = "none"
    BY <1>2, <1>3 DEF Raised, Tools
  <1>5. \A c \in Commands : [Idle EXCEPT !.at = "recover", !.want = c] \in Tools
    BY <1>2, <1>3 DEF Tools
  <1>6. \A place \in Places, todo \in (SUBSET Engines) \cup (SUBSET Generations) :
                 /\ [cli EXCEPT !.at = place] \in Tools
                 /\ [cli EXCEPT !.at = place, !.todo = todo] \in Tools
                 /\ [cli EXCEPT !.at = place, !.want = "none", !.todo = todo] \in Tools
    BY <1>1 DEF Tools
  <1>7. \A place \in Places, n \in Nat, todo \in (SUBSET Engines) \cup (SUBSET Generations) :
                 /\ [cli EXCEPT !.at = place, !.op = n] \in Tools
                 /\ [cli EXCEPT !.at = place, !.op = n, !.todo = todo] \in Tools
    BY <1>1 DEF Tools
  <1> QED
    BY <1>3, <1>4, <1>5, <1>6, <1>7

LEMMA Counted ==
    ASSUME TypeOK, NEW b \in {"commands", "crashes", "fails", "lost"}, NEW max, Count(b, max)
    PROVE  bounds' \in [{"commands", "crashes", "fails", "lost"} -> Nat]
  BY DEF TypeOK, Count

(* Logs stay typed as the journal grows.                                   *)
LEMMA SeqWidens ==
    ASSUME NEW S, NEW T, S \subseteq T, NEW q \in Seq(S)
    PROVE  q \in Seq(T)
  OBVIOUS

LEMMA ReceiptAdded ==
    ASSUME TypeOK, NEW i \in DOMAIN journal, Receipt(i)
    PROVE  /\ attempts' \in Seq(DOMAIN journal)
           /\ \/ attempts' = attempts
              \/ journal[i].op = "restore" /\ attempts' = Append(attempts, i)
                 /\ \A k \in DOMAIN attempts : attempts[k] # i
           /\ journal[i].op = "restore" => \E k \in DOMAIN attempts' : attempts'[k] = i
  <1>1. attempts \in Seq(DOMAIN journal)
    BY DEF TypeOK
  <1>2. CASE journal[i].op = "restore" /\ \A k \in DOMAIN attempts : attempts[k] # i
    <2>1. attempts' = Append(attempts, i)
      BY <1>2 DEF Receipt
    <2>2. /\ attempts' \in Seq(DOMAIN journal)
          /\ Len(attempts) + 1 \in DOMAIN attempts' /\ attempts'[Len(attempts) + 1] = i
      BY <1>1, <2>1
    <2> QED
      BY <1>2, <2>1, <2>2
  <1>3. CASE ~(journal[i].op = "restore" /\ \A k \in DOMAIN attempts : attempts[k] # i)
    BY <1>1, <1>3 DEF Receipt
  <1> QED
    BY <1>2, <1>3

(* The last journal changes its stage, and perhaps its entry; or a new one *)
(* is written.                                                             *)
Restaged(s) ==
    /\ journal' \in Seq(Journals) /\ journal # <<>> /\ journal' # <<>>
    /\ Len(journal') = Len(journal) /\ DOMAIN journal' = DOMAIN journal
    /\ \A i \in DOMAIN journal : i # Len(journal) => journal'[i] = journal[i]
    /\ \A i \in DOMAIN journal :
          /\ journal'[i].op = journal[i].op /\ journal'[i].previous = journal[i].previous
          /\ journal'[i].target = journal[i].target /\ journal'[i].running = journal[i].running
          /\ journal'[i].settings = journal[i].settings
          /\ journal'[i].collected = journal[i].collected
          /\ journal'[i].stage = IF i = Len(journal) THEN s ELSE journal[i].stage

LEMMA StageWritten ==
    ASSUME TypeOK, journal # <<>>, cli.op = Len(journal), NEW s \in Stages
    PROVE  /\ WriteStage(s) => Restaged(s)
           /\ \A n \in Nat :
                 journal' = [journal EXCEPT ![cli.op].stage = s, ![cli.op].entry = n] => Restaged(s)
  <1>1. journal \in Seq(Journals) /\ Len(journal) \in DOMAIN journal
    BY JournalTypes DEF TypeOK
  <1> DEFINE L == Len(journal)
  <1>2. L \in DOMAIN journal /\ journal[L] \in Journals
    BY <1>1
  <1>3. ASSUME NEW j \in Journals, journal' = [journal EXCEPT ![L] = j],
               j.op = journal[L].op, j.previous = journal[L].previous, j.target = journal[L].target,
               j.running = journal[L].running, j.settings = journal[L].settings,
               j.collected = journal[L].collected, j.stage = s
        PROVE  Restaged(s)
    <2>1. /\ journal' \in Seq(Journals) /\ Len(journal') = L /\ DOMAIN journal' = DOMAIN journal
          /\ \A i \in DOMAIN journal : journal'[i] = IF i = L THEN j ELSE journal[i]
      BY <1>1, <1>3
    <2>2. journal' # <<>>
      BY <2>1, <1>1
    <2> QED
      BY <2>1, <2>2, <1>3 DEF Restaged
  <1>4. ASSUME WriteStage(s) PROVE Restaged(s)
    <2> DEFINE j == [journal[L] EXCEPT !.stage = s]
    <2>1. j \in Journals
      BY <1>2 DEF Journals
    <2>2. journal' = [journal EXCEPT ![L] = j]
      BY <1>4 DEF WriteStage
    <2>3. /\ j.op = journal[L].op /\ j.previous = journal[L].previous /\ j.target = journal[L].target
          /\ j.running = journal[L].running /\ j.settings = journal[L].settings
          /\ j.collected = journal[L].collected /\ j.stage = s
      BY <1>2 DEF Journals
    <2> HIDE DEF j
    <2> QED
      BY <1>3, <2>1, <2>2, <2>3
  <1>5. ASSUME NEW n \in Nat,
               journal' = [journal EXCEPT ![cli.op].stage = s, ![cli.op].entry = n]
        PROVE  Restaged(s)
    <2> DEFINE j == [[journal[L] EXCEPT !.stage = s] EXCEPT !.entry = n]
    <2>1. j \in Journals
      BY <1>2 DEF Journals
    <2>2. journal' = [journal EXCEPT ![L] = j]
      BY <1>2, <1>5
    <2>3. /\ j.op = journal[L].op /\ j.previous = journal[L].previous /\ j.target = journal[L].target
          /\ j.running = journal[L].running /\ j.settings = journal[L].settings
          /\ j.collected = journal[L].collected /\ j.stage = s
      BY <1>2 DEF Journals
    <2> HIDE DEF j
    <2> QED
      BY <1>3, <2>1, <2>2, <2>3
  <1> QED
    BY <1>4, <1>5

LEMMA JournalAdded ==
    ASSUME TypeOK, NEW j \in Journals, journal' = Append(journal, j)
    PROVE  /\ journal' \in Seq(Journals) /\ journal' # <<>> /\ Len(journal') = Len(journal) + 1
           /\ DOMAIN journal' = 1 .. Len(journal) + 1 /\ DOMAIN journal \subseteq DOMAIN journal'
           /\ \A i \in DOMAIN journal : journal'[i] = journal[i] /\ i # Len(journal')
           /\ \A i \in DOMAIN journal' : i \in DOMAIN journal \/ i = Len(journal')
           /\ Last' = j
  <1>1. journal \in Seq(Journals) /\ Len(journal) \in Nat
    BY DEF TypeOK
  <1>2. /\ journal' \in Seq(Journals) /\ Len(journal') = Len(journal) + 1
        /\ DOMAIN journal' = 1 .. Len(journal) + 1 /\ DOMAIN journal = 1 .. Len(journal)
    BY <1>1
  <1>3. \A i \in 1 .. Len(journal) : journal'[i] = journal[i]
    BY <1>1
  <1>4. journal'[Len(journal) + 1] = j
    BY <1>1
  <1> QED
    BY <1>1, <1>2, <1>3, <1>4 DEF Last

(* A tool at work has the last journal open before it.                     *)
LEMMA AtWork ==
    ASSUME EnvInv, cli.at \in Working \cup (Recovering \ {"recover"})
    PROVE  /\ journal # <<>> /\ cli.op = Len(journal) /\ cli.op \in DOMAIN journal
           /\ J = Last /\ Last \in Journals
           /\ Last.op \in Installs \cup {"gc"} /\ Last.stage \in Stages
           /\ Last.previous \in 0 .. MaxGen /\ Last.target \in Generations
           /\ Last.running \subseteq Engines /\ Last.halted \subseteq Engines
           /\ Last.settings \in Seq(Settings) /\ Last.collected \subseteq Generations
           /\ Last.stage # "rolled-back"
  <1>1. journal # <<>> /\ cli.op = Len(journal) /\ Last.stage # "rolled-back"
    BY DEF EnvInv, Placed, WorkPlaced, UndoPlaced, GcPlaced, Working, Recovering, Undoing,
           OpenInstall, OpenGc, Ended
  <1> QED
    BY <1>1, JournalTypes DEF EnvInv, Last, J

(* A tool that rests or is about to recover has nothing to answer for.     *)
LEMMA AtRest ==
    ASSUME cli'.at \in {"idle", "recover"}, cli'.op = 0
    PROVE  Placed' /\ cli'.at \notin Working
  BY DEF Placed, WorkPlaced, UndoPlaced, GcPlaced, Working, Recovering, Undoing

LEMMA ReceiptKept ==
    ASSUME EnvInv, UNCHANGED journal, cli'.at \notin Working,
           \/ UNCHANGED attempts
           \/ \E i \in DOMAIN journal : Receipt(i) /\ journal[i].stage # "complete"
    PROVE  /\ ReceiptsKept' /\ attempts' \in Seq(DOMAIN journal)
           /\ \A i : (\E k \in DOMAIN attempts : attempts[k] = i) =>
                      \E k \in DOMAIN attempts' : attempts'[k] = i
  <1> USE DEF EnvInv
  <1>0. attempts \in Seq(DOMAIN journal)
    BY DEF TypeOK
  <1>1. CASE UNCHANGED attempts
    BY <1>0, <1>1 DEF ReceiptsKept
  <1>2. ASSUME NEW i \in DOMAIN journal, Receipt(i), journal[i].stage # "complete",
               attempts' = Append(attempts, i), \A k \in DOMAIN attempts : attempts[k] # i
        PROVE  /\ ReceiptsKept' /\ attempts' \in Seq(DOMAIN journal)
               /\ \A m : (\E k \in DOMAIN attempts : attempts[k] = m) =>
                          \E k \in DOMAIN attempts' : attempts'[k] = m
    <2> DEFINE n == Len(attempts)
    <2>1. /\ n \in Nat /\ DOMAIN attempts = 1 .. n /\ DOMAIN attempts' = 1 .. n + 1
          /\ \A k \in 1 .. n : attempts'[k] = attempts[k] /\ attempts[k] # i
          /\ attempts'[n + 1] = i /\ attempts' \in Seq(DOMAIN journal)
      BY <1>0, <1>2
    <2> HIDE DEF n
    <2>2. \A k \in DOMAIN attempts' : k \in DOMAIN attempts \/ k = n + 1
      BY <2>1
    <2>3. \A k \in DOMAIN attempts : k \in DOMAIN attempts' /\ k # n + 1
      BY <2>1
    <2>4. \A k, l \in DOMAIN attempts' : attempts'[k] = attempts'[l] => k = l
      BY <2>1, <2>2 DEF ReceiptsKept
    <2>5. \A k \in DOMAIN attempts' : journal'[attempts'[k]].stage # "complete"
      BY <1>2, <2>1, <2>2 DEF ReceiptsKept
    <2>6. \A m : (\E k \in DOMAIN attempts : attempts[k] = m) =>
                 \E k \in DOMAIN attempts' : attempts'[k] = m
      BY <2>1, <2>3
    <2>7. \A m \in DOMAIN journal' : journal'[m].stage = "rolled-back" /\ journal'[m].op = "restore" =>
             \E k \in DOMAIN attempts' : attempts'[k] = m
      BY <2>6 DEF ReceiptsKept
    <2> QED
      BY <2>1, <2>4, <2>5, <2>6, <2>7 DEF ReceiptsKept
  <1>3. CASE \E i \in DOMAIN journal : Receipt(i) /\ journal[i].stage # "complete"
    <2>1. PICK i \in DOMAIN journal : Receipt(i) /\ journal[i].stage # "complete"
      BY <1>3
    <2> QED
      BY <1>1, <1>2, <2>1, ReceiptAdded
  <1> QED
    BY <1>1, <1>3

(* A command is given, or the tool ends and leaves things as they are,     *)
(* but for a receipt.                                                      *)
LEMMA QuietKept ==
    ASSUME EnvInv, UNCHANGED <<disk, engine, journal, history>>,
           \/ UNCHANGED attempts
           \/ \E i \in DOMAIN journal : Receipt(i) /\ journal[i].stage # "complete",
           cli' \in Tools, cli'.at \in {"idle", "recover"}, cli'.op = 0,
           bounds' \in [{"commands", "crashes", "fails", "lost"} -> Nat]
    PROVE  EnvInv'
  <1>1. Placed' /\ cli'.at \notin Working
    BY AtRest
  <1>2. ReceiptsKept' /\ attempts' \in Seq(DOMAIN journal)
    BY <1>1, ReceiptKept
  <1>3. TypeOK'
    BY <1>2 DEF EnvInv, TypeOK, disk, Tools
  <1>4. Numbers' /\ Installed' /\ Collected' /\ Serving' /\ Configuration' /\ HistoryKept'
    BY SameParts DEF disk
  <1> QED
    BY <1>1, <1>2, <1>3, <1>4 DEF EnvInv

LEMMA RestKept ==
    ASSUME EnvInv,
           \/ \E c \in Commands : Command(c)
           \/ Refuse \/ RevalidateFails \/ StopRefused \/ Crash \/ RecoveryRaises \/ RecoveryRefused
    PROVE  EnvInv'
  <1> USE DEF disk, records
  <1>0. TypeOK /\ bounds \in [{"commands", "crashes", "fails", "lost"} -> Nat]
    BY DEF EnvInv, TypeOK
  <1>1. Idle \in Tools /\ Idle.at = "idle" /\ Idle.op = 0
        /\ Raised \in Tools /\ Raised.at = "recover" /\ Raised.op = 0
    BY <1>0, ToolMoves DEF Idle, Raised
  <1>2. CASE \E c \in Commands : Command(c)
    <2>1. PICK c \in Commands : Command(c)
      BY <1>2
    <2>2. cli' \in Tools /\ cli'.at = "recover" /\ cli'.op = 0
      BY <1>0, <2>1, ToolMoves DEF Command, Idle
    <2>3. bounds' \in [{"commands", "crashes", "fails", "lost"} -> Nat]
      BY <1>0, <2>1, Counted DEF Command
    <2> QED
      BY <2>1, <2>2, <2>3, QuietKept DEF Command
  <1>3. CASE Refuse
    BY <1>0, <1>1, <1>3, QuietKept DEF Refuse, Finish
  <1>4. CASE RevalidateFails \/ StopRefused
    BY <1>0, <1>1, <1>4, QuietKept DEF RevalidateFails, StopRefused
  <1>5. CASE Crash
    <2>1. bounds' \in [{"commands", "crashes", "fails", "lost"} -> Nat]
      BY <1>0, <1>5, Counted DEF Crash
    <2> QED
      BY <1>1, <1>5, <2>1, QuietKept DEF Crash, Finish
  <1>6. CASE RecoveryRaises
    <2>1. bounds' \in [{"commands", "crashes", "fails", "lost"} -> Nat]
      BY <1>0, <1>6, Counted DEF RecoveryRaises
    <2>2. CASE cli.want = "none" /\ cli.op # 0 /\ J.stage \in {"starting", "switching"} /\ cli.at # "recover"
      <3>1. cli.op \in DOMAIN journal /\ journal[cli.op].stage # "complete"
        BY <1>6, <2>2, AtWork DEF RecoveryRaises, J
      <3> QED
        BY <1>1, <1>6, <2>1, <2>2, <3>1, QuietKept DEF RecoveryRaises
    <2>3. CASE ~(cli.want = "none" /\ cli.op # 0 /\ J.stage \in {"starting", "switching"})
      BY <1>1, <1>6, <2>1, <2>3, QuietKept DEF RecoveryRaises, Finish
    <2>4. CASE cli.op # 0 /\ cli.at = "recover"
      BY <2>3, <2>4 DEF EnvInv, Placed, Incomplete, Ended, J
    <2> QED
      BY <2>2, <2>3, <2>4
  <1>7. CASE RecoveryRefused
    <2>1. cli.op \in DOMAIN journal /\ journal[cli.op].stage # "complete"
      BY <1>7, AtWork DEF RecoveryRefused, J, Recovering, Undoing, EnvInv, Placed, UndoPlaced, OpenInstall, Ended
    <2> QED
      BY <1>0, <1>1, <1>7, <2>1, QuietKept DEF RecoveryRefused, Finish
  <1> QED
    BY <1>2, <1>3, <1>4, <1>5, <1>6, <1>7

(* The records change only in the history, where a completed operation is  *)
(* entered after all the others.                                           *)
LEMMA EntryKept ==
    ASSUME EnvInv, NEW i \in DOMAIN journal, Done(i), ~Published(i), UNCHANGED journal,
           history' = Append(history, i)
    PROVE  HistoryKept' /\ history' \in Seq(DOMAIN journal)
  <1> USE DEF EnvInv
  <1>0. history \in Seq(DOMAIN journal) /\ DOMAIN journal \subseteq Nat
    <2>1. history \in Seq(DOMAIN journal)
      BY DEF TypeOK
    <2>2. DOMAIN journal = 1 .. Len(journal) /\ Len(journal) \in Nat
      BY JournalTypes
    <2> QED
      BY <2>1, <2>2
  <1> DEFINE n == Len(history)
  <1>1. /\ n \in Nat /\ DOMAIN history = 1 .. n /\ DOMAIN history' = 1 .. n + 1
        /\ \A k \in 1 .. n : history'[k] = history[k] /\ history[k] \in DOMAIN journal
        /\ history'[n + 1] = i /\ history' \in Seq(DOMAIN journal)
    BY <1>0
  <1> HIDE DEF n
  <1>2. \A k \in DOMAIN history' : (k \in DOMAIN history /\ k # n + 1) \/ k = n + 1
    BY <1>1
  <1>3. \A k \in DOMAIN history : history[k] < i
    <2> SUFFICES ASSUME NEW k \in DOMAIN history PROVE history[k] < i
      OBVIOUS
    <2>1. Done(history[k]) /\ history[k] # i /\ history[k] \in DOMAIN journal
      BY <1>1 DEF HistoryKept, Published
    <2>2. history[k] <= i
      BY <2>1 DEF HistoryKept
    <2> QED
      BY <1>0, <2>1, <2>2
  <1>4. \A k \in DOMAIN history' :
           journal'[history'[k]].op \in Installs /\ journal'[history'[k]].stage = "complete"
    BY <1>1, <1>2 DEF HistoryKept, Done
  <1>5. ASSUME NEW k \in DOMAIN history', NEW l \in DOMAIN history', k < l
        PROVE  history'[k] < history'[l]
    <2>1. k \in DOMAIN history
      BY <1>1, <1>5
    <2>2. CASE l = n + 1
      BY <1>1, <1>3, <2>1, <2>2
    <2>3. CASE l \in DOMAIN history
      BY <1>1, <1>5, <2>1, <2>3 DEF HistoryKept
    <2> QED
      BY <1>2, <2>2, <2>3
  <1>6. ASSUME NEW m \in DOMAIN journal, Done(m), ~Published(m)' PROVE FALSE
    <2>1. m # i
      BY <1>1, <1>6 DEF Published
    <2>2. ~Published(m)
      BY <1>1, <1>2, <1>6 DEF Published
    <2>3. i <= m /\ m <= i
      BY <1>6, <2>2 DEF HistoryKept
    <2> QED
      BY <1>0, <2>1, <2>3
  <1>7. \A m \in DOMAIN journal' : ~(Done(m)' /\ ~Published(m)')
    BY <1>6 DEF Done
  <1> QED
    BY <1>1, <1>4, <1>5, <1>7 DEF HistoryKept, Done

(* A pending journal that was not just completed is the last one.          *)
LEMMA PendingIsLast ==
    ASSUME EnvInv, NEW i \in DOMAIN journal, Pending(i), ~Done(i)
    PROVE  /\ i = Len(journal) /\ journal # <<>> /\ journal[i] = Last
           /\ journal[i].op # "gc" => OpenInstall
           /\ journal[i].op = "gc" /\ Incomplete(i) => OpenGc
           /\ journal[i].op = "gc" /\ ~Incomplete(i) => Last.stage = "complete"
  <1>0. TypeOK /\ journal # <<>>
    BY JournalTypes DEF EnvInv
  <1>1. CASE Incomplete(i)
    BY <1>0, <1>1, JournalTypes DEF EnvInv, Numbers, Last, OpenInstall, OpenGc, Incomplete
  <1>2. CASE ~Incomplete(i)
    <2>1. journal[i].op = "gc" /\ journal[i].stage = "complete" /\ journal[i].collected \cap parked # {}
      BY <1>2 DEF Pending
    <2> QED
      BY <1>0, <1>2, <2>1 DEF EnvInv, Collected, Last
  <1> QED
    BY <1>1, <1>2

LEMMA RecoverPendingKept ==
    ASSUME EnvInv, RecoverPending
    PROVE  EnvInv'
  <1> DEFINE pending == {i \in DOMAIN journal : Pending(i)}
             m == Min(pending)
  <1>0. TypeOK /\ cli.at = "recover" /\ UNCHANGED <<disk, engine, journal, attempts, bounds>>
    BY DEF EnvInv, RecoverPending
  <1>1. Numbers' /\ Installed' /\ Collected' /\ Serving' /\ Configuration'
    BY <1>0, SameParts DEF disk
  <1>2. ASSUME cli'.at \notin Working PROVE ReceiptsKept'
    BY <1>0, <1>2, ReceiptKept
  <1>3. ASSUME UNCHANGED history, cli' \in Tools PROVE HistoryKept' /\ TypeOK'
    BY <1>0, <1>3, SameParts DEF TypeOK, disk, Tools
  <1>4. CASE pending = {}
    <2>1. UNCHANGED history /\ cli' = IF cli.want = "none" THEN Idle ELSE [cli EXCEPT !.at = "begin"]
      BY <1>4 DEF RecoverPending
    <2>2. /\ cli' \in Tools /\ cli'.at \in {"idle", "begin"} /\ cli'.at \notin Working
      BY <1>0, <2>1, ToolMoves DEF Places, Idle, Working, TypeOK
    <2>3. \A i \in DOMAIN journal' : ~Pending(i)'
      BY <1>0, <1>4, <2>1 DEF Pending, Done, Incomplete, Published, disk
    <2>4. Placed'
      BY <2>2, <2>3 DEF Placed, WorkPlaced, UndoPlaced, GcPlaced, Working, Recovering, Undoing
    <2> QED
      BY <1>1, <1>2, <1>3, <2>1, <2>2, <2>4 DEF EnvInv
  <1>5. CASE pending # {}
    <2>1. m \in DOMAIN journal /\ Pending(m)
      <3>1. pending \in SUBSET (0 .. Len(journal)) /\ Len(journal) \in Nat
        BY <1>0, JournalTypes
      <3>2. m \in pending
        <4> HIDE DEF pending
        <4> QED
          BY <1>5, <3>1, Extremes
      <3> QED
        BY <3>2
    <2>2. CASE Done(m)
      <3>1. history' = Append(history, m) /\ UNCHANGED cli
        BY <1>5, <2>2 DEF RecoverPending
      <3>2. ~Published(m)
        BY <2>1, <2>2 DEF Pending, Done, Incomplete, Ended, Installs
      <3>3. HistoryKept' /\ history' \in Seq(DOMAIN journal)
        <4> HIDE DEF m
        <4> QED
          BY <1>0, <2>1, <2>2, <3>1, <3>2, EntryKept
      <3>4. TypeOK'
        BY <1>0, <3>1, <3>3 DEF TypeOK, disk
      <3>5. Placed' /\ cli'.at \notin Working
        BY <1>0, <3>1 DEF EnvInv, Placed, WorkPlaced, UndoPlaced, GcPlaced, Working, Recovering, Undoing,
           Incomplete
      <3> QED
        BY <1>1, <1>2, <3>3, <3>4, <3>5 DEF EnvInv
    <2>3. CASE ~Done(m)
      <3> DEFINE at == IF journal[m].op # "gc" THEN "r_stop"
                       ELSE IF Incomplete(m) THEN "gc_restore" ELSE "gc_clean"
                 todo == IF journal[m].op # "gc" THEN journal[m].running \cup journal[m].halted
                         ELSE journal[m].collected
      <3>1. UNCHANGED history /\ cli' = [cli EXCEPT !.at = at, !.op = m, !.todo = todo]
        BY <1>5, <2>3 DEF RecoverPending
      <3> HIDE DEF m
      <3>2. m \in Nat /\ todo \in (SUBSET Engines) \cup (SUBSET Generations) /\ at \in Places
        <4>1. m \in Nat
          BY <1>0, <2>1, JournalTypes
        <4>2. todo \in (SUBSET Engines) \cup (SUBSET Generations)
          <5>1. /\ journal[m].running \subseteq Engines /\ journal[m].halted \subseteq Engines
                /\ journal[m].collected \subseteq Generations
            BY <1>0, <2>1, JournalTypes
          <5>2. CASE journal[m].op # "gc"
            BY <5>1, <5>2
          <5>3. CASE journal[m].op = "gc"
            <6>1. todo = journal[m].collected
              BY <5>3
            <6> HIDE DEF todo
            <6> QED
              BY <5>1, <6>1
          <5> QED
            BY <5>2, <5>3
        <4>3. at \in Places
          BY DEF Places, Recovering
        <4> QED
          BY <4>1, <4>2, <4>3
      <3>3. cli' \in Tools
        <4> HIDE DEF at, todo
        <4> QED
          BY <1>0, <3>1, <3>2, ToolMoves
      <3>4. cli'.at = at /\ cli'.op = m /\ cli'.todo = todo
        BY <1>0, <3>1 DEF TypeOK
      <3>5. /\ m = Len(journal) /\ journal # <<>> /\ journal[m] = Last
            /\ journal[m].op # "gc" => OpenInstall
            /\ journal[m].op = "gc" /\ Incomplete(m) => OpenGc
            /\ journal[m].op = "gc" /\ ~Incomplete(m) => Last.stage = "complete"
        BY <2>1, <2>3, PendingIsLast
      <3>6. /\ (OpenInstall' <=> OpenInstall) /\ (OpenGc' <=> OpenGc)
            /\ Last' = Last /\ Len(journal') = m /\ journal' = journal
        BY <1>0, <3>5 DEF OpenInstall, OpenGc, Last
      <3>7. CASE journal[m].op # "gc"
        <4>1. \A e \in Engines : engine'[Last.target][e] = "ready" => e \in cli'.todo
          BY <1>0, <3>4, <3>5, <3>7, JournalTypes DEF EnvInv, Serving
        <4>2. cli'.at = "r_stop" /\ cli'.op = Len(journal') /\ OpenInstall'
          BY <3>4, <3>5, <3>6, <3>7
        <4>3. Placed' /\ cli'.at \notin Working
          BY <3>6, <4>1, <4>2 DEF Placed, WorkPlaced, UndoPlaced, GcPlaced, Working, Recovering, Undoing
        <4> QED
          BY <1>1, <1>2, <1>3, <3>1, <3>3, <4>3 DEF EnvInv
      <3>8. CASE journal[m].op = "gc"
        <4>1. cli'.todo = Last.collected /\ cli'.op = Len(journal')
          BY <3>4, <3>5, <3>6, <3>8
        <4>2. /\ cli'.at \in {"gc_restore", "gc_clean"}
              /\ cli'.at = "gc_restore" => OpenGc
              /\ cli'.at = "gc_clean" => Last.stage = "complete"
          BY <3>4, <3>5, <3>8
        <4>3. OpenGc => parked \subseteq Last.collected
          BY DEF EnvInv, Collected
        <4>4. Placed' /\ cli'.at \notin Working
          BY <1>0, <3>5, <3>6, <3>8, <4>1, <4>2, <4>3
          DEF Placed, WorkPlaced, UndoPlaced, GcPlaced, Working, Recovering, Undoing, disk
        <4> QED
          BY <1>1, <1>2, <1>3, <3>1, <3>3, <4>4 DEF EnvInv
      <3> QED
        BY <3>7, <3>8
    <2> QED
      BY <2>2, <2>3
  <1> QED
    BY <1>4, <1>5

-----------------------------------------------------------------------------
(* Engines start, stop and are lost one at a time.                         *)

Turned(g, e, s) == engine' = [engine EXCEPT ![g][e] = s]

LEMMA OneTurned ==
    ASSUME TypeOK, NEW g \in Generations, NEW e \in Engines, NEW s \in EngineStates, Turned(g, e, s)
    PROVE  /\ engine' \in [Generations -> [Engines -> EngineStates]]
           /\ engine'[g][e] = s
           /\ \A h \in Generations, f \in Engines :
                 engine'[h][f] = engine[h][f] \/ (h = g /\ f = e /\ engine'[h][f] = s)
  <1>1. engine \in [Generations -> [Engines -> EngineStates]]
    BY DEF TypeOK
  <1> QED
    BY <1>1 DEF Turned

(* What has to be seen of a step that turns one engine.                    *)
LEMMA TurnKept ==
    ASSUME EnvInv, NEW g \in Generations, NEW e \in Engines, NEW s \in EngineStates, Turned(g, e, s),
           UNCHANGED <<disk, records>>, Placed', cli' \in Tools,
           bounds' \in [{"commands", "crashes", "fails", "lost"} -> Nat],
           s = "ready" => IF OpenInstall THEN g \in {Last.previous, Last.target} /\ e \in Last.running
                                         ELSE g = current,
           cli'.at \in Working => cli.at \in Working /\ cli'.op = cli.op
    PROVE  EnvInv'
  <1>0. TypeOK /\ UNCHANGED <<tree, parked, current, settings, journal, history, attempts>>
    BY DEF EnvInv, disk, records
  <1>1. /\ engine' \in [Generations -> [Engines -> EngineStates]]
        /\ \A h \in Generations, f \in Engines :
              engine'[h][f] = engine[h][f] \/ (h = g /\ f = e /\ engine'[h][f] = s)
    BY <1>0, OneTurned
  <1>2. TypeOK'
    BY <1>0, <1>1 DEF TypeOK, Tools
  <1>3. Serving'
    <2>1. ASSUME NEW h \in Generations, NEW f \in Engines, engine'[h][f] = "ready"
          PROVE  IF OpenInstall THEN h \in {Last.previous, Last.target} /\ f \in Last.running
                                ELSE h = current
      BY <1>1, <2>1 DEF EnvInv, Serving
    <2>2. (OpenInstall' <=> OpenInstall) /\ Last' = Last /\ current' = current
      BY <1>0 DEF OpenInstall, Last
    <2> QED
      BY <2>1, <2>2 DEF Serving
  <1>4. ReceiptsKept'
    BY <1>0 DEF EnvInv, ReceiptsKept
  <1>5. Numbers' /\ Installed' /\ Collected' /\ Configuration' /\ HistoryKept'
    BY <1>0, SameParts
  <1> QED
    BY <1>2, <1>3, <1>4, <1>5 DEF EnvInv

LEMMA StopTurns ==
    ASSUME TypeOK, NEW g \in Generations, NEW e \in Engines, Stopped(g, e)
    PROVE  \E s \in {"absent", "stopped"} : Turned(g, e, s)
  <1> DEFINE s == IF engine[g][e] = "absent" THEN "absent" ELSE "stopped"
  <1>1. Turned(g, e, s) /\ s \in {"absent", "stopped"}
    BY DEF Stopped, Turned, TypeOK
  <1> QED
    BY <1>1

LEMMA CommandTurnKept ==
    ASSUME EnvInv, NEW e \in Engines, StartCommand(e) \/ StopCommand(e)
    PROVE  EnvInv'
  <1>0. TypeOK /\ bounds' = bounds /\ bounds \in [{"commands", "crashes", "fails", "lost"} -> Nat]
    BY DEF EnvInv, TypeOK, StartCommand, StopCommand
  <1>1. cli.at = "begin" /\ current \in Generations /\ cli' = Idle /\ UNCHANGED <<disk, records>>
    BY <1>0 DEF StartCommand, StopCommand, TypeOK, Generations, Finish
  <1>2. ~OpenInstall
    BY <1>0, <1>1, JournalTypes
    DEF EnvInv, Placed, WorkPlaced, OpenInstall, Last, Pending, Incomplete
  <1>3. Placed' /\ cli' \in Tools /\ cli'.at \notin Working
    <2>1. cli' \in Tools /\ cli'.at = "idle" /\ cli'.op = 0
      BY <1>0, <1>1, ToolMoves DEF Idle
    <2> QED
      BY <2>1, AtRest
  <1>4. \E s \in {"ready", "absent", "stopped"} : Turned(current, e, s)
    <2>1. CASE StartCommand(e)
      BY <2>1 DEF StartCommand, Started, Turned
    <2>2. CASE StopCommand(e)
      BY <1>0, <1>1, <2>2, StopTurns DEF StopCommand
    <2> QED
      BY <2>1, <2>2
  <1>5. PICK s \in {"ready", "absent", "stopped"} : Turned(current, e, s)
    BY <1>4
  <1>6. s \in EngineStates
    BY <1>5 DEF EngineStates
  <1> QED
    BY <1>0, <1>1, <1>2, <1>3, <1>5, <1>6, TurnKept

LEMMA LoseKept ==
    ASSUME EnvInv, NEW g \in Generations, NEW e \in Engines, Lose(g, e)
    PROVE  EnvInv'
  <1>0. TypeOK /\ UNCHANGED <<disk, records, cli>> /\ Turned(g, e, "lost") /\ "lost" \in EngineStates
    BY DEF EnvInv, Lose, Turned, EngineStates
  <1>1. bounds' \in [{"commands", "crashes", "fails", "lost"} -> Nat]
    BY <1>0, Counted DEF Lose
  <1>2. \A h \in Generations, f \in Engines :
           engine'[h][f] = engine[h][f] \/ (h = g /\ f = e /\ engine'[h][f] = "lost")
    BY <1>0, OneTurned
  <1>3. /\ (OpenInstall' <=> OpenInstall) /\ Last' = Last /\ (OpenGc' <=> OpenGc)
        /\ UNCHANGED <<tree, parked, current, settings, journal, history, attempts, cli>>
        /\ \A i \in DOMAIN journal : (Pending(i)' <=> Pending(i)) /\ (Incomplete(i)' <=> Incomplete(i))
    BY <1>0 DEF OpenInstall, OpenGc, Last, disk, records, Pending, Incomplete, Done, Published
  <1>4. journal # <<>> => /\ Last.target \in Generations /\ Last.running \subseteq Engines
                          /\ Last.previous # 0 => Last.previous \in Generations
    BY <1>0, JournalTypes DEF Last, Generations
  <1>5. WorkPlaced'
    BY <1>2, <1>3, <1>4 DEF EnvInv, Placed, WorkPlaced, OpenInstall
  <1>6. UndoPlaced'
    BY <1>2, <1>3, <1>4 DEF EnvInv, Placed, UndoPlaced, OpenInstall, Undoing
  <1>7. GcPlaced'
    BY <1>3 DEF EnvInv, Placed, GcPlaced
  <1>8. Placed'
    BY <1>3, <1>5, <1>6, <1>7 DEF EnvInv, Placed
  <1>9. cli' \in Tools
    BY <1>0 DEF TypeOK, Tools
  <1> QED
    BY <1>0, <1>1, <1>8, <1>9, TurnKept

(* A launch that nobody claimed runs nothing, and the tool is gone.        *)
LEMMA CrashInStartKept ==
    ASSUME EnvInv, NEW g \in Generations, NEW e \in Engines, CrashInStart(g, e)
    PROVE  EnvInv'
  <1>0. TypeOK /\ UNCHANGED <<disk, records>> /\ Turned(g, e, "pending") /\ "pending" \in EngineStates
    BY DEF EnvInv, CrashInStart, Turned, EngineStates
  <1>1. bounds' \in [{"commands", "crashes", "fails", "lost"} -> Nat]
    BY <1>0, Counted DEF CrashInStart
  <1>2. cli' = Idle /\ Idle \in Tools /\ Idle.at = "idle" /\ Idle.op = 0
    BY <1>0, ToolMoves DEF CrashInStart, Finish, Idle
  <1>3. Placed' /\ cli'.at \notin Working
    BY <1>2, AtRest
  <1> QED
    BY <1>0, <1>1, <1>2, <1>3, TurnKept

LEMMA Moved ==
    ASSUME TypeOK, NEW place \in Places
    PROVE  /\ Goto(place) => /\ cli' \in Tools /\ cli'.at = place /\ cli'.op = cli.op
                             /\ cli'.want = cli.want /\ cli'.todo = cli.todo
           /\ \A todo \in (SUBSET Engines) \cup (SUBSET Generations) :
                 Work(place, todo) => /\ cli' \in Tools /\ cli'.at = place /\ cli'.op = cli.op
                                      /\ cli'.want = cli.want /\ cli'.todo = todo
  <1>1. cli \in Tools
    BY DEF TypeOK, Tools
  <1>2. ASSUME Goto(place)
        PROVE  /\ cli' \in Tools /\ cli'.at = place /\ cli'.op = cli.op
               /\ cli'.want = cli.want /\ cli'.todo = cli.todo
    <2>1. cli' \in Tools
      BY <1>2, ToolMoves DEF Goto
    <2> QED
      BY <1>1, <1>2, <2>1 DEF Goto, Tools
  <1>3. ASSUME NEW todo \in (SUBSET Engines) \cup (SUBSET Generations), Work(place, todo)
        PROVE  /\ cli' \in Tools /\ cli'.at = place /\ cli'.op = cli.op
               /\ cli'.want = cli.want /\ cli'.todo = todo
    <2>1. cli' \in Tools
      BY <1>3, ToolMoves DEF Work
    <2> QED
      BY <1>1, <1>3, <2>1 DEF Work, Tools
  <1> QED
    BY <1>2, <1>3

LEMMA SameJournal ==
    ASSUME UNCHANGED journal
    PROVE  /\ (OpenInstall' <=> OpenInstall) /\ (OpenGc' <=> OpenGc) /\ Last' = Last
           /\ Len(journal') = Len(journal) /\ DOMAIN journal' = DOMAIN journal
           /\ \A i \in DOMAIN journal : (Incomplete(i)' <=> Incomplete(i)) /\ (Done(i)' <=> Done(i))
  BY DEF OpenInstall, OpenGc, Last, Incomplete, Done

LEMMA StartTargetKept ==
    ASSUME EnvInv, NEW e \in Engines, StartTarget(e) \/ StartFails(e)
    PROVE  EnvInv'
  <1>0. TypeOK /\ cli.at = "start" /\ e \in cli.todo /\ UNCHANGED <<disk, records>>
    BY DEF EnvInv, StartTarget, StartFails
  <1>1. /\ journal # <<>> /\ cli.op = Len(journal) /\ J = Last /\ Last.target \in Generations
        /\ OpenInstall /\ Last.stage = "starting"
    <2>1. cli.at \in Working \cup (Recovering \ {"recover"})
      BY <1>0 DEF Working
    <2> QED
      BY <1>0, <2>1, AtWork DEF EnvInv, Placed, WorkPlaced
  <1>2. CASE StartTarget(e)
    <2>1. /\ cli' \in Tools /\ cli'.at = "start" /\ cli'.op = cli.op
      <3>1. cli.todo \ {e} \in (SUBSET Engines) \cup (SUBSET Generations) /\ "start" \in Places
        BY <1>0 DEF TypeOK, Places, Working
      <3> QED
        BY <1>0, <1>2, <3>1, Moved DEF StartTarget
    <2>2. bounds' \in [{"commands", "crashes", "fails", "lost"} -> Nat]
      BY <1>0, <1>2 DEF StartTarget, TypeOK
    <2>3. Placed'
      <3>1. (OpenInstall' <=> OpenInstall) /\ Last' = Last /\ Len(journal') = Len(journal)
        BY <1>0, SameJournal DEF records
      <3> QED
        BY <1>1, <2>1, <3>1
        DEF Placed, WorkPlaced, UndoPlaced, GcPlaced, Working, Recovering, Undoing
    <2>4. PICK s \in {"ready", "stopped"} : Turned(Last.target, e, s) /\ (s = "ready" => e \in Last.running)
      BY <1>1, <1>2 DEF StartTarget, Started, Turned
    <2>5. s \in EngineStates
      BY DEF EngineStates
    <2> QED
      BY <1>0, <1>1, <2>1, <2>2, <2>3, <2>4, <2>5, TurnKept DEF Working
  <1>3. CASE StartFails(e)
    <2>1. cli' = Raised /\ Raised \in Tools /\ Raised.at = "recover" /\ Raised.op = 0
      BY <1>0, <1>3, ToolMoves DEF StartFails, Raised, Idle
    <2>2. bounds' \in [{"commands", "crashes", "fails", "lost"} -> Nat]
      BY <1>0, <1>3, Counted DEF StartFails
    <2>3. Placed' /\ cli'.at \notin Working
      BY <2>1, AtRest
    <2>4. PICK s \in {"stopped", "pending", "lost"} : Turned(Last.target, e, s)
      BY <1>1, <1>3 DEF StartFails, Turned
    <2>5. s \in EngineStates
      BY DEF EngineStates
    <2> QED
      BY <1>0, <1>1, <2>1, <2>2, <2>3, <2>4, <2>5, TurnKept
  <1> QED
    BY <1>2, <1>3

(* The old generation's engines are stopped; nothing else changes.         *)
LEMMA StopPreviousKept ==
    ASSUME EnvInv, NEW e \in Engines, StopPrevious(e)
    PROVE  EnvInv'
  <1>0. /\ TypeOK /\ cli.at = "stop" /\ e \in cli.todo /\ UNCHANGED <<disk, records, bounds>>
        /\ bounds \in [{"commands", "crashes", "fails", "lost"} -> Nat]
    BY DEF EnvInv, StopPrevious, TypeOK
  <1>1. /\ journal # <<>> /\ cli.op = Len(journal) /\ J = Last /\ OpenInstall /\ Last.stage = "switching"
        /\ Last.previous # 0 => Last.previous \in Generations
        /\ current = Last.target
    <2>1. cli.at \in Working \cup (Recovering \ {"recover"})
      BY <1>0 DEF Working
    <2> QED
      BY <1>0, <2>1, AtWork DEF EnvInv, Placed, WorkPlaced, Generations
  <1>2. /\ cli' \in Tools /\ cli'.at = "stop" /\ cli'.op = cli.op /\ cli'.todo = cli.todo \ {e}
    <2>1. cli.todo \ {e} \in (SUBSET Engines) \cup (SUBSET Generations) /\ "stop" \in Places
      BY <1>0 DEF TypeOK, Places, Working
    <2> QED
      BY <1>0, <2>1, Moved DEF StopPrevious
  <1>3. (OpenInstall' <=> OpenInstall) /\ Last' = Last /\ Len(journal') = Len(journal)
    BY <1>0, SameJournal DEF records
  <1>4. ASSUME Last.previous # 0 =>
                 \A f \in Engines : engine'[Last.previous][f] = "ready" => f \in cli'.todo
        PROVE  Placed'
    BY <1>0, <1>1, <1>2, <1>3, <1>4
    DEF Placed, WorkPlaced, UndoPlaced, GcPlaced, Working, Recovering, Undoing, disk
  <1>5. CASE Last.previous = 0
    <2>1. UNCHANGED engine
      BY <1>0, <1>1, <1>5 DEF StopPrevious, Stopped, TypeOK, Generations
    <2>2. TypeOK'
      BY <1>0, <1>2, <2>1 DEF TypeOK, disk, records, Tools
    <2>3. Numbers' /\ Installed' /\ Collected' /\ Configuration' /\ HistoryKept' /\ Serving'
      BY <1>0, <2>1, SameParts DEF disk, records
    <2>4. ReceiptsKept'
      BY <1>0, <1>2 DEF EnvInv, ReceiptsKept, records
    <2> QED
      BY <1>4, <1>5, <2>2, <2>3, <2>4 DEF EnvInv
  <1>6. CASE Last.previous # 0
    <2>1. PICK s \in {"absent", "stopped"} : Turned(Last.previous, e, s)
      BY <1>0, <1>1, <1>6, StopTurns DEF StopPrevious
    <2>2. s \in EngineStates
      BY DEF EngineStates
    <2>3. \A f \in Engines : engine'[Last.previous][f] = "ready" =>
             f # e /\ engine[Last.previous][f] = "ready"
      BY <1>0, <1>1, <1>6, <2>1, <2>2, OneTurned
    <2>4. Placed'
      BY <1>0, <1>2, <1>4, <2>3 DEF EnvInv, Placed, WorkPlaced
    <2> QED
      BY <1>0, <1>1, <1>2, <1>6, <2>1, <2>2, <2>4, TurnKept
  <1> QED
    BY <1>5, <1>6

(* The candidate's engines are stopped before anything is put back.        *)
LEMMA RecoverStopKept ==
    ASSUME EnvInv, NEW e \in Engines, RecoverStop(e)
    PROVE  EnvInv'
  <1>0. /\ TypeOK /\ cli.at = "r_stop" /\ e \in cli.todo /\ UNCHANGED <<disk, records, bounds>>
        /\ bounds \in [{"commands", "crashes", "fails", "lost"} -> Nat]
    BY DEF EnvInv, RecoverStop, TypeOK
  <1>1. /\ journal # <<>> /\ cli.op = Len(journal) /\ J = Last /\ OpenInstall
        /\ Last.target \in Generations
    <2>1. cli.at \in Working \cup (Recovering \ {"recover"})
      BY <1>0 DEF Recovering
    <2> QED
      BY <1>0, <2>1, AtWork DEF EnvInv, Placed, UndoPlaced
  <1>2. /\ cli' \in Tools /\ cli'.at = "r_stop" /\ cli'.op = cli.op /\ cli'.todo = cli.todo \ {e}
    <2>1. cli.todo \ {e} \in (SUBSET Engines) \cup (SUBSET Generations) /\ "r_stop" \in Places
      BY <1>0 DEF TypeOK, Places, Recovering
    <2> QED
      BY <1>0, <2>1, Moved DEF RecoverStop
  <1>3. (OpenInstall' <=> OpenInstall) /\ Last' = Last /\ Len(journal') = Len(journal)
    BY <1>0, SameJournal DEF records
  <1>4. PICK s \in {"absent", "stopped"} : Turned(Last.target, e, s)
    BY <1>0, <1>1, StopTurns DEF RecoverStop
  <1>5. s \in EngineStates
    BY DEF EngineStates
  <1>6. \A f \in Engines : engine'[Last.target][f] = "ready" => f # e /\ engine[Last.target][f] = "ready"
    BY <1>0, <1>1, <1>4, <1>5, OneTurned
  <1>7. \A f \in Engines : engine'[Last.target][f] = "ready" => f \in cli'.todo
    BY <1>0, <1>2, <1>6 DEF EnvInv, Placed, UndoPlaced
  <1>8. Placed'
    BY <1>1, <1>2, <1>3, <1>7
    DEF Placed, WorkPlaced, UndoPlaced, GcPlaced, Working, Recovering, Undoing
  <1>9. cli'.at \notin Working
    BY <1>2 DEF Working
  <1> QED
    BY <1>0, <1>1, <1>2, <1>4, <1>5, <1>8, <1>9, TurnKept

(* Those that ran before run again.                                        *)
LEMMA RecoverStartKept ==
    ASSUME EnvInv, NEW e \in Engines, RecoverStart(e)
    PROVE  EnvInv'
  <1>0. /\ TypeOK /\ cli.at = "r_start" /\ e \in cli.todo /\ UNCHANGED <<disk, records, bounds>>
        /\ bounds \in [{"commands", "crashes", "fails", "lost"} -> Nat]
    BY DEF EnvInv, RecoverStart, TypeOK
  <1>1. /\ journal # <<>> /\ cli.op = Len(journal) /\ J = Last /\ OpenInstall
        /\ Last.target \in Generations /\ Last.running \subseteq Engines
        /\ Last.previous # 0 => Last.previous \in Generations
        /\ e \in Last.running /\ current = Last.previous /\ Last.previous # Last.target
    <2>1. cli.at \in Working \cup (Recovering \ {"recover"})
      BY <1>0 DEF Recovering
    <2>2. /\ journal # <<>> /\ cli.op = Len(journal) /\ J = Last /\ OpenInstall
          /\ Last.target \in Generations /\ Last.running \subseteq Engines
          /\ Last.previous # 0 => Last.previous \in Generations
          /\ e \in Last.running /\ current = Last.previous
      BY <1>0, <2>1, AtWork DEF EnvInv, Placed, UndoPlaced, Generations, Undoing
    <2>3. Last.previous < Last.target /\ Last.previous \in Nat /\ Last.target \in Nat
      BY <1>0, <2>2, JournalTypes DEF EnvInv, Numbers, OpenInstall, Last
    <2> QED
      BY <2>2, <2>3
  <1>2. /\ cli' \in Tools /\ cli'.at = "r_start" /\ cli'.op = cli.op /\ cli'.todo = cli.todo \ {e}
    <2>1. cli.todo \ {e} \in (SUBSET Engines) \cup (SUBSET Generations) /\ "r_start" \in Places
      BY <1>0 DEF TypeOK, Places, Recovering
    <2> QED
      BY <1>0, <2>1, Moved DEF RecoverStart
  <1>3. (OpenInstall' <=> OpenInstall) /\ Last' = Last /\ Len(journal') = Len(journal)
    BY <1>0, SameJournal DEF records
  <1>4. cli'.at \notin Working
    BY <1>2 DEF Working
  <1>5. /\ Last.settings # <<>> => settings = Last.settings[1]
        /\ cli'.todo \subseteq Last.running
        /\ \A f \in Engines : engine[Last.target][f] # "ready"
        /\ Last.previous # 0 =>
              \A f \in Last.running : f \in cli.todo \/ engine[Last.previous][f] \in {"ready", "lost"}
    BY <1>0, <1>2 DEF EnvInv, Placed, UndoPlaced, Undoing
  <1>6. ASSUME \A f \in Engines : engine'[Last.target][f] # "ready",
               Last.previous # 0 =>
                 \A f \in Last.running : f \in cli'.todo \/ engine'[Last.previous][f] \in {"ready", "lost"}
        PROVE  Placed'
    <2>1. /\ Len(journal') = cli'.op /\ current' = Last'.previous /\ OpenInstall'
          /\ Last'.settings # <<>> => settings' = Last'.settings[1]
          /\ cli'.todo \subseteq Last'.running
      BY <1>0, <1>1, <1>2, <1>3, <1>5 DEF disk
    <2> QED
      BY <1>2, <1>3, <1>6, <2>1
      DEF Placed, WorkPlaced, UndoPlaced, GcPlaced, Working, Recovering, Undoing
  <1>7. CASE Last.previous = 0
    <2>1. UNCHANGED engine
      BY <1>0, <1>1, <1>7 DEF RecoverStart, Started, TypeOK, Generations
    <2>2. TypeOK'
      BY <1>0, <1>2, <2>1 DEF TypeOK, disk, records, Tools
    <2>3. Numbers' /\ Installed' /\ Collected' /\ Configuration' /\ HistoryKept' /\ Serving'
      BY <1>0, <2>1, SameParts DEF disk, records
    <2>4. ReceiptsKept'
      BY <1>0, <1>4 DEF EnvInv, ReceiptsKept, records
    <2>5. Placed'
      BY <1>5, <1>6, <1>7, <2>1
    <2> QED
      BY <2>2, <2>3, <2>4, <2>5 DEF EnvInv
  <1>8. CASE Last.previous # 0
    <2>1. Turned(Last.previous, e, "ready") /\ "ready" \in EngineStates
      BY <1>1 DEF RecoverStart, Started, Turned, EngineStates
    <2>2. /\ engine'[Last.previous][e] = "ready"
          /\ \A h \in Generations, f \in Engines :
               engine'[h][f] = engine[h][f] \/ (h = Last.previous /\ f = e /\ engine'[h][f] = "ready")
      BY <1>0, <1>1, <1>8, <2>1, OneTurned
    <2>3. \A f \in Engines : engine'[Last.target][f] # "ready"
      BY <1>1, <1>5, <2>2
    <2>4. \A f \in Last.running : f \in cli'.todo \/ engine'[Last.previous][f] \in {"ready", "lost"}
      BY <1>1, <1>2, <1>5, <1>8, <2>2
    <2>5. Placed'
      BY <1>6, <2>3, <2>4
    <2> QED
      BY <1>0, <1>1, <1>2, <1>4, <1>8, <2>1, <2>5, TurnKept
  <1> QED
    BY <1>7, <1>8

-----------------------------------------------------------------------------
(* The settings and the pointer.                                           *)

LEMMA SettingsKept ==
    ASSUME EnvInv, WriteSettings \/ RecoverSettings
    PROVE  EnvInv'
  <1>0. /\ TypeOK /\ cli.at \in {"settings", "r_stop"}
        /\ UNCHANGED <<tree, parked, current, engine, journal, history, attempts, bounds>>
    BY DEF EnvInv, WriteSettings, RecoverSettings, records
  <1>1. /\ journal # <<>> /\ cli.op = Len(journal) /\ J = Last /\ OpenInstall
        /\ Last.settings \in Seq(Settings)
    <2>1. cli.at \in Working \cup (Recovering \ {"recover"})
      BY <1>0 DEF Working, Recovering
    <2> QED
      BY <1>0, <2>1, AtWork DEF EnvInv, Placed, WorkPlaced, UndoPlaced
  <1>2. Last.settings # <<>> => /\ Last.settings[1] \in Settings /\ Last.settings[2] \in Settings
                                /\ Len(Last.settings) = 2
    <2>1. Last.settings # <<>> => Len(Last.settings) = 2
      BY <1>1 DEF EnvInv, Configuration
    <2> QED
      BY <1>1, <2>1
  <1>3. /\ (OpenInstall' <=> OpenInstall) /\ Last' = Last /\ Len(journal') = Len(journal)
        /\ (OpenGc' <=> OpenGc)
    BY <1>0, SameJournal
  <1>4. Numbers' /\ Installed' /\ Collected' /\ Serving' /\ HistoryKept'
    BY <1>0, SameParts
  <1>5. ASSUME cli' \in Tools, settings' \in Settings, Configuration', Placed',
               cli'.at \in Working => cli.at \in Working /\ cli'.op = cli.op
        PROVE  EnvInv'
    <2>1. TypeOK'
      BY <1>0, <1>5 DEF TypeOK, Tools
    <2>2. ReceiptsKept'
      BY <1>0, <1>5 DEF EnvInv, ReceiptsKept
    <2> QED
      BY <1>4, <1>5, <2>1, <2>2 DEF EnvInv
  <1>6. CASE WriteSettings
    <2>1. cli.at = "settings" /\ Last.stage = "switching"
      BY <1>6 DEF WriteSettings, EnvInv, Placed, WorkPlaced
    <2>2. cli' \in Tools /\ cli'.at = "switch" /\ cli'.op = cli.op
      BY <1>0, <1>6, Moved DEF WriteSettings, Places, Working
    <2>3. settings' \in Settings
      BY <1>0, <1>1, <1>2, <1>6 DEF WriteSettings, TypeOK
    <2>4. Configuration'
      BY <1>2, <1>3, <2>1 DEF Configuration
    <2>5. Placed'
      BY <1>1, <1>3, <2>1, <2>2
      DEF Placed, WorkPlaced, UndoPlaced, GcPlaced, Working, Recovering, Undoing
    <2> QED
      BY <1>5, <2>1, <2>2, <2>3, <2>4, <2>5 DEF Working
  <1>7. CASE RecoverSettings
    <2>1. cli.at = "r_stop" /\ \A e \in Engines : engine[Last.target][e] # "ready"
      BY <1>7 DEF RecoverSettings, EnvInv, Placed, UndoPlaced
    <2>2. cli' \in Tools /\ cli'.at = "r_current" /\ cli'.op = cli.op
      BY <1>0, <1>7, Moved DEF RecoverSettings, Places, Recovering
    <2>3. settings' \in Settings
      BY <1>0, <1>1, <1>2, <1>7 DEF RecoverSettings, TypeOK
    <2>4. Last.settings # <<>> => settings' = Last.settings[1]
      BY <1>1, <1>7 DEF RecoverSettings, EnvInv, Configuration
    <2>5. Configuration'
      BY <1>2, <1>3, <2>4 DEF Configuration
    <2>6. Placed'
      BY <1>0, <1>1, <1>3, <2>1, <2>2, <2>4
      DEF Placed, WorkPlaced, UndoPlaced, GcPlaced, Working, Recovering, Undoing
    <2>7. cli'.at \notin Working
      BY <2>2 DEF Working
    <2> QED
      BY <1>5, <2>2, <2>3, <2>5, <2>6, <2>7
  <1> QED
    BY <1>6, <1>7

(* While an installation is open the pointer may stand on either side.     *)
LEMMA PointerMoved ==
    ASSUME EnvInv, OpenInstall, UNCHANGED <<journal, tree, parked, engine>>,
           \/ current' = Last.previous
           \/ current' = Last.target /\ Last.stage = "switching" /\ tree[Last.target] = "whole"
    PROVE  Numbers' /\ Installed' /\ Collected' /\ Serving'
  <1>1. /\ (OpenInstall' <=> OpenInstall) /\ (OpenGc' <=> OpenGc) /\ Last' = Last
        /\ Len(journal') = Len(journal) /\ DOMAIN journal' = DOMAIN journal
        /\ \A i \in DOMAIN journal : (Incomplete(i)' <=> Incomplete(i)) /\ (Done(i)' <=> Done(i))
    BY SameJournal
  <1>2. Base' = Base /\ ~OpenGc
    BY <1>1 DEF Base, OpenGc, OpenInstall, Installs
  <1>3. Numbers'
    BY <1>1, <1>2 DEF EnvInv, Numbers
  <1>4. Installed'
    <2>1. OpenInstall' =>
            \/ current' = Last'.previous
            \/ current' = Last'.target /\ Last'.stage = "switching" /\ tree'[current'] = "whole"
      BY <1>1
    <2> QED
      BY <1>1, <1>2, <2>1 DEF EnvInv, Installed
  <1>5. Collected'
    BY <1>1, <1>2 DEF EnvInv, Collected
  <1>6. Serving'
    BY <1>1 DEF EnvInv, Serving
  <1> QED
    BY <1>3, <1>4, <1>5, <1>6

LEMMA PointerKept ==
    ASSUME EnvInv, SetCurrent \/ RecoverCurrent
    PROVE  EnvInv'
  <1>0. /\ TypeOK /\ cli.at \in {"switch", "r_current"}
        /\ UNCHANGED <<tree, parked, settings, engine, journal, history, attempts, bounds>>
    BY DEF EnvInv, SetCurrent, RecoverCurrent, records
  <1>1. /\ journal # <<>> /\ cli.op = Len(journal) /\ J = Last /\ OpenInstall
        /\ Last.target \in Generations /\ Last.previous \in 0 .. MaxGen /\ Last.running \subseteq Engines
        /\ Last.previous # 0 => Last.previous \in Generations
        /\ Last.target \in 0 .. MaxGen
    <2>1. cli.at \in Working \cup (Recovering \ {"recover"})
      BY <1>0 DEF Working, Recovering
    <2> QED
      BY <1>0, <2>1, AtWork DEF EnvInv, Placed, WorkPlaced, UndoPlaced, Undoing, Generations
  <1>2. /\ (OpenInstall' <=> OpenInstall) /\ Last' = Last /\ Len(journal') = Len(journal)
        /\ (OpenGc' <=> OpenGc)
    BY <1>0, SameJournal
  <1>3. Configuration' /\ HistoryKept'
    BY <1>0, SameParts
  <1> DEFINE todo == IF Last.previous = 0 THEN {} ELSE Last.running
  <1>4. todo \in (SUBSET Engines) \cup (SUBSET Generations) /\ todo \subseteq Last.running
    BY <1>1
  <1> HIDE DEF todo
  <1>5. CASE SetCurrent
    <2>1. cli.at = "switch" /\ Last.stage = "switching" /\ current' = Last.target
          /\ tree[Last.target] = "whole"
      BY <1>1, <1>5 DEF SetCurrent, EnvInv, Placed, WorkPlaced
    <2>2. Numbers' /\ Installed' /\ Collected' /\ Serving'
      BY <1>0, <1>1, <2>1, PointerMoved
    <2>3. /\ cli' \in Tools /\ cli'.at = "stop" /\ cli'.op = cli.op /\ cli'.todo = todo
      <3>1. Work("stop", todo) /\ "stop" \in Places
        BY <1>1, <1>5 DEF SetCurrent, todo, Places, Working
      <3> QED
        BY <1>0, <1>4, <3>1, Moved
    <2>4. TypeOK'
      BY <1>0, <1>1, <2>1, <2>3 DEF TypeOK, Tools
    <2>5. Last.previous # 0 =>
             \A e \in Engines : engine[Last.previous][e] = "ready" => e \in todo
      BY <1>1 DEF EnvInv, Serving, todo
    <2>6. Placed'
      BY <1>0, <1>1, <1>2, <2>1, <2>3, <2>5
      DEF Placed, WorkPlaced, UndoPlaced, GcPlaced, Working, Recovering, Undoing
    <2>7. ReceiptsKept'
      BY <1>0, <2>1, <2>3 DEF EnvInv, ReceiptsKept, Working
    <2> QED
      BY <1>3, <2>2, <2>4, <2>6, <2>7 DEF EnvInv
  <1>6. CASE RecoverCurrent
    <2>1. cli.at = "r_current" /\ current' = Last.previous
      BY <1>1, <1>6 DEF RecoverCurrent
    <2>2. Numbers' /\ Installed' /\ Collected' /\ Serving'
      BY <1>0, <1>1, <2>1, PointerMoved
    <2>3. /\ cli' \in Tools /\ cli'.at = "r_start" /\ cli'.op = cli.op /\ cli'.todo = todo
      <3>1. Work("r_start", todo) /\ "r_start" \in Places
        BY <1>1, <1>6 DEF RecoverCurrent, todo, Places, Recovering
      <3> QED
        BY <1>0, <1>4, <3>1, Moved
    <2>4. TypeOK'
      BY <1>0, <1>1, <2>1, <2>3 DEF TypeOK, Tools
    <2>5. /\ Last.settings # <<>> => settings = Last.settings[1]
          /\ \A e \in Engines : engine[Last.target][e] # "ready"
          /\ Last.previous # 0 => todo = Last.running
      BY <2>1 DEF EnvInv, Placed, UndoPlaced, Undoing, todo
    <2>6. Placed'
      BY <1>0, <1>1, <1>2, <1>4, <2>1, <2>3, <2>5
      DEF Placed, WorkPlaced, UndoPlaced, GcPlaced, Working, Recovering, Undoing
    <2>7. ReceiptsKept'
      BY <1>0, <2>3 DEF EnvInv, ReceiptsKept, Working
    <2> QED
      BY <1>3, <2>2, <2>4, <2>6, <2>7 DEF EnvInv
  <1> QED
    BY <1>5, <1>6

LEMMA RecoverReceiptKept ==
    ASSUME EnvInv, RecoverReceipt
    PROVE  EnvInv'
  <1>0. /\ TypeOK /\ cli.at = "r_receipt" /\ Receipt(cli.op) /\ Goto("r_done")
        /\ UNCHANGED <<tree, parked, current, settings, engine, journal, history, bounds>>
    BY DEF EnvInv, RecoverReceipt, disk
  <1>1. /\ journal # <<>> /\ cli.op = Len(journal) /\ cli.op \in DOMAIN journal /\ OpenInstall
        /\ J = Last
    <2>1. cli.at \in Working \cup (Recovering \ {"recover"})
      BY <1>0 DEF Recovering
    <2> QED
      BY <1>0, <2>1, AtWork DEF EnvInv, Placed, UndoPlaced, Undoing
  <1>2. cli' \in Tools /\ cli'.at = "r_done" /\ cli'.op = cli.op /\ cli'.at \notin Working
    BY <1>0, Moved DEF Places, Recovering, Working
  <1>3. /\ (OpenInstall' <=> OpenInstall) /\ Last' = Last /\ Len(journal') = Len(journal)
        /\ (OpenGc' <=> OpenGc)
    BY <1>0, SameJournal
  <1>4. Numbers' /\ Installed' /\ Collected' /\ Serving' /\ Configuration' /\ HistoryKept'
    BY <1>0, SameParts
  <1>5. ReceiptsKept' /\ attempts' \in Seq(DOMAIN journal)
    BY <1>0, <1>1, <1>2, ReceiptKept DEF OpenInstall, Ended, J
  <1>6. Last.op = "restore" => \E k \in DOMAIN attempts' : attempts'[k] = Len(journal)
    BY <1>0, <1>1, ReceiptAdded DEF J
  <1>7. TypeOK'
    BY <1>0, <1>2, <1>5 DEF TypeOK, Tools
  <1>8. Placed'
    <2>1. /\ \A e \in Engines : engine'[Last'.target][e] # "ready"
          /\ Last'.settings # <<>> => settings' = Last'.settings[1]
          /\ current' = Last'.previous /\ tree'[Last'.target] = "absent"
          /\ Last'.previous # 0 => \A e \in Last'.running : engine'[Last'.previous][e] \in {"ready", "lost"}
      BY <1>0, <1>3 DEF EnvInv, Placed, UndoPlaced, Undoing
    <2> QED
      BY <1>1, <1>2, <1>3, <1>6, <2>1
      DEF Placed, WorkPlaced, UndoPlaced, GcPlaced, Working, Recovering, Undoing
  <1> QED
    BY <1>4, <1>5, <1>7, <1>8 DEF EnvInv

-----------------------------------------------------------------------------
(* The last journal moves on without being closed, or not at all.          *)

SameShape ==
    /\ journal' \in Seq(Journals) /\ journal # <<>> /\ journal' # <<>>
    /\ Len(journal') = Len(journal) /\ DOMAIN journal' = DOMAIN journal
    /\ \A i \in DOMAIN journal :
          /\ journal'[i].op = journal[i].op /\ journal'[i].previous = journal[i].previous
          /\ journal'[i].target = journal[i].target /\ journal'[i].running = journal[i].running
          /\ journal'[i].settings = journal[i].settings
          /\ journal'[i].collected = journal[i].collected
          /\ journal'[i].stage = journal[i].stage \/ (Incomplete(i) /\ Incomplete(i)')

LEMMA OpenShape ==
    ASSUME EnvInv, NEW s \in Stages \ Ended,
           \/ UNCHANGED journal /\ journal # <<>>
           \/ Restaged(s) /\ (OpenInstall \/ OpenGc)
    PROVE  SameShape
  <1>1. CASE UNCHANGED journal /\ journal # <<>>
    BY <1>1 DEF SameShape, EnvInv, TypeOK
  <1>2. CASE Restaged(s) /\ (OpenInstall \/ OpenGc)
    <2>1. Last.stage \notin Ended /\ Last = journal[Len(journal)]
      BY <1>2 DEF OpenInstall, OpenGc, Last
    <2>2. \A i \in DOMAIN journal :
             journal'[i].stage = journal[i].stage \/ (Incomplete(i) /\ Incomplete(i)')
      BY <1>2, <2>1 DEF Restaged, Incomplete
    <2> QED
      BY <1>2, <2>2 DEF SameShape, Restaged
  <1> QED
    BY <1>1, <1>2

LEMMA ShapeKept ==
    ASSUME EnvInv, SameShape
    PROVE  /\ (OpenInstall' <=> OpenInstall) /\ (OpenGc' <=> OpenGc)
           /\ Last'.op = Last.op /\ Last'.previous = Last.previous /\ Last'.target = Last.target
           /\ Last'.running = Last.running /\ Last'.settings = Last.settings
           /\ Last'.collected = Last.collected /\ (Last.stage \in Ended => Last'.stage = Last.stage)
           /\ (UNCHANGED current \/ OpenInstall) => Base' = Base /\ Numbers'
           /\ UNCHANGED <<current, engine>> => Serving'
           /\ UNCHANGED history => HistoryKept'
           /\ \A i \in DOMAIN journal : /\ (Incomplete(i)' <=> Incomplete(i)) /\ (Done(i)' <=> Done(i))
                                        /\ \A s \in Ended : journal'[i].stage = s <=> journal[i].stage = s
  <1> USE DEF EnvInv
  <1>0. Len(journal) \in DOMAIN journal
    BY JournalTypes DEF SameShape
  <1>1. \A i \in DOMAIN journal :
           /\ journal'[i].stage \in Ended <=> journal[i].stage \in Ended
           /\ \A s \in Ended : journal'[i].stage = s <=> journal[i].stage = s
    BY DEF SameShape, Incomplete
  <1>2. \A i \in DOMAIN journal : (Incomplete(i)' <=> Incomplete(i)) /\ (Done(i)' <=> Done(i))
    BY <1>1 DEF SameShape, Incomplete, Done, Ended
  <1>3. /\ Last'.op = Last.op /\ Last'.previous = Last.previous /\ Last'.target = Last.target
        /\ Last'.running = Last.running /\ Last'.settings = Last.settings
        /\ Last'.collected = Last.collected /\ (Last.stage \in Ended => Last'.stage = Last.stage)
    BY <1>0, <1>1 DEF Last, SameShape
  <1>4. (OpenInstall' <=> OpenInstall) /\ (OpenGc' <=> OpenGc)
    BY <1>0, <1>1, <1>3 DEF OpenInstall, OpenGc, Last, SameShape
  <1>5. ASSUME UNCHANGED current \/ OpenInstall PROVE Base' = Base /\ Numbers'
    <2>1. Base' = Base
      BY <1>3, <1>4, <1>5 DEF Base
    <2>2. \A i \in DOMAIN journal : /\ journal'[i].stage = "complete" <=> journal[i].stage = "complete"
                                    /\ journal'[i].stage = "rolled-back" <=> journal[i].stage = "rolled-back"
      BY <1>1 DEF Ended
    <2> QED
      BY <1>2, <2>1, <2>2 DEF Numbers, SameShape
  <1>6. ASSUME UNCHANGED <<current, engine>> PROVE Serving'
    BY <1>3, <1>4, <1>6 DEF Serving
  <1>7. ASSUME UNCHANGED history PROVE HistoryKept'
    <2>1. \A k \in DOMAIN history : history[k] \in DOMAIN journal
      BY DEF TypeOK
    <2>2. \A k \in DOMAIN history : journal'[history[k]].op \in Installs /\ journal'[history[k]].stage = "complete"
      BY <1>2, <2>1 DEF HistoryKept, Done
    <2>3. \A i \in DOMAIN journal : Published(i)' <=> Published(i)
      BY <1>7 DEF Published
    <2>4. \A i \in DOMAIN journal' : Done(i)' /\ ~Published(i)' =>
             \A k \in DOMAIN journal' : Done(k)' \/ Incomplete(k)' => k <= i /\ ~Incomplete(k)'
      BY <1>2, <2>3 DEF HistoryKept, SameShape
    <2> QED
      BY <1>7, <2>2, <2>4 DEF HistoryKept, Done
  <1> QED
    BY <1>1, <1>2, <1>3, <1>4, <1>5, <1>6, <1>7

(* Only the target's tree changes: nothing else relies on it yet.          *)
LEMMA TargetMoved ==
    ASSUME EnvInv, OpenInstall, SameShape, UNCHANGED <<current, parked>>, current = Last.previous,
           tree' \in [Generations -> Trees], \A g \in Generations \ {Last.target} : tree'[g] = tree[g]
    PROVE  Installed' /\ Collected'
  <1> USE DEF EnvInv
  <1>0. /\ TypeOK /\ Len(journal) \in DOMAIN journal /\ DOMAIN journal = 1 .. Len(journal)
        /\ Len(journal) \in Nat
        /\ \A i \in DOMAIN journal : journal[i].previous \in Nat /\ journal[i].target \in Nat
        /\ Last.previous \in Nat /\ Last.target \in Nat /\ Last.target \in Generations
        /\ Last.previous < Last.target /\ Last.op \in Installs
    BY JournalTypes DEF Last, SameShape, Numbers, OpenInstall
  <1>1. /\ (OpenInstall' <=> OpenInstall) /\ (OpenGc' <=> OpenGc) /\ Base' = Base /\ Base = Last.previous
        /\ Last'.op = Last.op /\ Last'.previous = Last.previous /\ Last'.target = Last.target
        /\ Last'.collected = Last.collected /\ ~OpenGc
        /\ \A i \in DOMAIN journal :
              /\ Done(i)' <=> Done(i)
              /\ journal'[i].stage = "complete" <=> journal[i].stage = "complete"
    BY ShapeKept DEF Ended, Base, OpenGc, OpenInstall, Installs
  <1>2. \A g \in Generations : g <= Last.previous => tree'[g] = tree[g]
    BY <1>0, JournalTypes
  <1>3. Base # 0 => Base \in Generations
    BY <1>0, <1>1, JournalTypes DEF Last, Generations
  <1>4. Base # 0 => tree'[Base] = "whole"
    BY <1>0, <1>1, <1>2, <1>3 DEF Installed
  <1>5. ASSUME NEW i \in DOMAIN journal, Done(i), journal[i].target = Base, journal[i].previous # 0
        PROVE  tree'[journal[i].previous] = "whole"
    <2>1. journal[i].previous <= Last.previous /\ journal[i].previous \in Generations
      BY <1>0, <1>1, <1>5, JournalTypes DEF Numbers, Done, Generations
    <2> QED
      BY <1>2, <1>5, <2>1 DEF Installed
  <1>6. \A g \in Generations : /\ tree'[g] = "partial" => g = Last.target
                               /\ tree'[g] = "whole" => g <= Base \/ g = Last.target
    BY <1>1 DEF Installed
  <1>7. Installed'
    BY <1>1, <1>4, <1>5, <1>6 DEF Installed, SameShape
  <1>8. ASSUME NEW i \in DOMAIN journal, journal[i].op = "gc", journal[i].stage = "complete",
               NEW g \in journal[i].collected
        PROVE  tree'[g] = "absent" /\ (g \in parked => i = Len(journal))
    <2>1. g \in Generations /\ tree[g] = "absent" /\ (g \in parked => i = Len(journal))
      BY <1>0, <1>8, JournalTypes DEF Collected
    <2>2. i # Len(journal) /\ Last.stage # "rolled-back"
      BY <1>0, <1>8 DEF OpenInstall, Last, Installs, Ended
    <2>3. journal[i].target < Last.target
      BY <1>0, <1>8, <2>2 DEF Numbers, Last
    <2>4. g <= journal[i].target
      BY <1>8 DEF Numbers
    <2>5. g # Last.target
      BY <1>0, <2>1, <2>3, <2>4, JournalTypes
    <2> QED
      BY <2>1, <2>5
  <1>9. parked = {}
    BY <1>0 DEF Collected, Installs
  <1>10. Collected'
    BY <1>1, <1>8, <1>9 DEF Collected, SameShape
  <1> QED
    BY <1>7, <1>10

LEMMA ReceiptsSame ==
    ASSUME EnvInv, SameShape, UNCHANGED attempts,
           cli'.at \in Working => cli.at \in Working /\ cli'.op = cli.op
    PROVE  ReceiptsKept' /\ attempts' \in Seq(DOMAIN journal')
  <1>1. attempts \in Seq(DOMAIN journal) /\ DOMAIN journal' = DOMAIN journal
    BY DEF EnvInv, TypeOK, SameShape
  <1>2. \A k \in DOMAIN attempts : attempts[k] \in DOMAIN journal
    BY <1>1
  <1>3. \A i \in DOMAIN journal : /\ journal'[i].stage = "complete" <=> journal[i].stage = "complete"
                                  /\ journal'[i].stage = "rolled-back" <=> journal[i].stage = "rolled-back"
                                  /\ journal'[i].op = journal[i].op
    BY ShapeKept DEF Ended, SameShape
  <1> QED
    BY <1>1, <1>2, <1>3 DEF EnvInv, ReceiptsKept

(* What has to be seen of a step that works on an open installation.       *)
LEMMA WorkKept ==
    ASSUME EnvInv, OpenInstall, SameShape, current = Last.previous,
           UNCHANGED <<current, parked, settings, engine, history, attempts>>,
           tree' \in [Generations -> Trees], \A g \in Generations \ {Last.target} : tree'[g] = tree[g],
           bounds' \in [{"commands", "crashes", "fails", "lost"} -> Nat],
           cli' \in Tools, Placed', Last'.stage # "switching" => Last.stage # "switching",
           cli'.at \in Working => cli.at \in Working /\ cli'.op = cli.op
    PROVE  EnvInv'
  <1>1. Installed' /\ Collected' /\ ReceiptsKept' /\ attempts' \in Seq(DOMAIN journal')
    BY TargetMoved, ReceiptsSame
  <1>2. Numbers' /\ Serving' /\ HistoryKept' /\ (OpenInstall' <=> OpenInstall)
        /\ Last'.settings = Last.settings
    BY ShapeKept
  <1>3. Configuration'
    BY <1>2 DEF EnvInv, Configuration
  <1>4. TypeOK'
    BY <1>1 DEF EnvInv, TypeOK, SameShape, Tools
  <1> QED
    BY <1>1, <1>2, <1>3, <1>4 DEF EnvInv

(* A candidate is still out of reach of the pointer while it is built.     *)
LEMMA AtBuild ==
    ASSUME EnvInv, cli.at \in {"build", "activate", "start"}
    PROVE  /\ journal # <<>> /\ cli.op = Len(journal) /\ J = Last /\ OpenInstall
           /\ cli.op \in DOMAIN journal
           /\ Last.stage # "switching" /\ current = Last.previous
           /\ Last.target \in Generations /\ Last.previous \in 0 .. MaxGen
           /\ Last.running \cup Last.halted \in SUBSET Engines
  <1>1. cli.at \in Working \cup (Recovering \ {"recover"})
    BY DEF Working
  <1>2. OpenInstall /\ Last.stage # "switching"
    BY DEF EnvInv, Placed, WorkPlaced
  <1> QED
    BY <1>1, <1>2, AtWork DEF EnvInv, Installed

LEMMA BuildKept ==
    ASSUME EnvInv, Build
    PROVE  EnvInv'
  <1>0. /\ TypeOK /\ cli.at = "build"
        /\ UNCHANGED <<parked, current, settings, engine, history, attempts, bounds>>
        /\ bounds \in [{"commands", "crashes", "fails", "lost"} -> Nat]
    BY DEF EnvInv, Build, TypeOK
  <1>1. /\ journal # <<>> /\ cli.op = Len(journal) /\ J = Last /\ OpenInstall
        /\ Last.stage \in {"planned", "building"} /\ current = Last.previous
        /\ Last.target \in Generations
    BY <1>0, AtBuild DEF EnvInv, Placed, WorkPlaced
  <1>2. tree' \in [Generations -> Trees] /\ \A g \in Generations \ {Last.target} : tree'[g] = tree[g]
    BY <1>0, <1>1 DEF Build, TypeOK, Trees
  <1>3. CASE WriteStage("building") /\ UNCHANGED cli
    <2>1. Restaged("building")
      BY <1>0, <1>1, <1>3, StageWritten DEF Stages
    <2>2. SameShape
      BY <1>1, <2>1, OpenShape DEF Stages, Ended
    <2>3. OpenInstall' /\ Len(journal') = Len(journal)
      BY <1>1, <2>2, ShapeKept DEF SameShape
    <2>4. Last'.stage = "building"
      BY <1>0, <1>1, <2>1, JournalTypes DEF Restaged, Last
    <2>5. Placed' /\ cli' \in Tools
      BY <1>0, <1>1, <1>3, <2>3, <2>4
      DEF Placed, WorkPlaced, UndoPlaced, GcPlaced, Working, Recovering, Undoing, TypeOK, Tools
    <2> QED
      BY <1>0, <1>1, <1>2, <1>3, <2>2, <2>4, <2>5, WorkKept
  <1>4. CASE Goto("activate") /\ UNCHANGED journal
    <2>1. SameShape
      BY <1>1, <1>4, OpenShape DEF Stages, Ended
    <2>2. OpenInstall' /\ Len(journal') = Len(journal) /\ Last' = Last
      BY <1>1, <1>4, SameJournal
    <2>3. cli' \in Tools /\ cli'.at = "activate" /\ cli'.op = cli.op
      BY <1>0, <1>4, Moved DEF Places, Working
    <2>4. Placed'
      BY <1>1, <2>2, <2>3
      DEF Placed, WorkPlaced, UndoPlaced, GcPlaced, Working, Recovering, Undoing
    <2>5. cli.at \in Working
      BY <1>0 DEF Working
    <2> QED
      BY <1>0, <1>1, <1>2, <2>1, <2>2, <2>3, <2>4, <2>5, WorkKept
  <1> QED
    BY <1>3, <1>4 DEF Build

LEMMA ActivateKept ==
    ASSUME EnvInv, Activate
    PROVE  EnvInv'
  <1>0. /\ TypeOK /\ cli.at = "activate"
        /\ UNCHANGED <<tree, parked, current, settings, engine, history, attempts, bounds>>
        /\ bounds \in [{"commands", "crashes", "fails", "lost"} -> Nat]
        /\ tree \in [Generations -> Trees] /\ history \in Seq(DOMAIN journal)
    BY DEF EnvInv, Activate, TypeOK, disk
  <1>1. /\ journal # <<>> /\ cli.op = Len(journal) /\ J = Last /\ OpenInstall
        /\ Last.stage # "switching" /\ current = Last.previous
        /\ Last.running \cup Last.halted \in SUBSET Engines
    BY <1>0, AtBuild
  <1>2. Restaged("starting")
    <2>1. Len(history) + 1 \in Nat
      BY <1>0
    <2>2. journal' = [journal EXCEPT ![cli.op].stage = "starting", ![cli.op].entry = Len(history) + 1]
      BY DEF Activate
    <2> QED
      BY <1>0, <1>1, <2>1, <2>2, StageWritten DEF Stages
  <1>3. SameShape
    BY <1>1, <1>2, OpenShape DEF Stages, Ended
  <1>4. OpenInstall' /\ Len(journal') = Len(journal)
    BY <1>1, <1>3, ShapeKept DEF SameShape
  <1>5. Last'.stage = "starting"
    BY <1>0, <1>1, <1>2, JournalTypes DEF Restaged, Last
  <1>6. cli' \in Tools /\ cli'.at = "start" /\ cli'.op = cli.op
    <2>1. Last.running \cup Last.halted \in (SUBSET Engines) \cup (SUBSET Generations) /\ "start" \in Places
      BY <1>1 DEF Places, Working
    <2> QED
      BY <1>0, <1>1, <2>1, Moved DEF Activate
  <1>7. Placed'
    BY <1>1, <1>4, <1>5, <1>6
    DEF Placed, WorkPlaced, UndoPlaced, GcPlaced, Working, Recovering, Undoing
  <1>8. cli.at \in Working
    BY <1>0 DEF Working
  <1> QED
    BY <1>0, <1>1, <1>3, <1>5, <1>6, <1>7, <1>8, WorkKept

LEMMA RevalidateKept ==
    ASSUME EnvInv, Revalidate
    PROVE  EnvInv'
  <1>0. /\ TypeOK /\ cli.at = "start"
        /\ UNCHANGED <<tree, parked, current, settings, engine, history, attempts, bounds>>
        /\ bounds \in [{"commands", "crashes", "fails", "lost"} -> Nat]
        /\ tree \in [Generations -> Trees]
    BY DEF EnvInv, Revalidate, TypeOK, disk
  <1>1. /\ journal # <<>> /\ cli.op = Len(journal) /\ OpenInstall /\ current = Last.previous
    BY <1>0, AtBuild
  <1>2. Restaged("switching")
    BY <1>0, <1>1, StageWritten DEF Stages, Revalidate
  <1>3. SameShape
    BY <1>1, <1>2, OpenShape DEF Stages, Ended
  <1>4. OpenInstall' /\ Len(journal') = Len(journal)
    BY <1>1, <1>3, ShapeKept DEF SameShape
  <1>5. Last'.stage = "switching"
    BY <1>0, <1>1, <1>2, JournalTypes DEF Restaged, Last
  <1>6. cli' \in Tools /\ cli'.at = "settings" /\ cli'.op = cli.op
    BY <1>0, Moved DEF Revalidate, Places, Working
  <1>7. Placed'
    BY <1>1, <1>4, <1>5, <1>6
    DEF Placed, WorkPlaced, UndoPlaced, GcPlaced, Working, Recovering, Undoing
  <1>8. cli.at \in Working
    BY <1>0 DEF Working
  <1> QED
    BY <1>0, <1>1, <1>3, <1>5, <1>6, <1>7, <1>8, WorkKept

LEMMA RecoverTreeKept ==
    ASSUME EnvInv, RecoverTree
    PROVE  EnvInv'
  <1>0. /\ TypeOK /\ cli.at = "r_start" /\ cli.todo = {}
        /\ UNCHANGED <<parked, current, settings, engine, journal, history, attempts, bounds>>
        /\ bounds \in [{"commands", "crashes", "fails", "lost"} -> Nat]
    BY DEF EnvInv, RecoverTree, TypeOK, records
  <1>1. /\ journal # <<>> /\ cli.op = Len(journal) /\ J = Last /\ OpenInstall
        /\ current = Last.previous /\ Last.target \in Generations
    <2>1. cli.at \in Working \cup (Recovering \ {"recover"})
      BY <1>0 DEF Recovering
    <2> QED
      BY <1>0, <2>1, AtWork DEF EnvInv, Placed, UndoPlaced, Undoing
  <1>2. SameShape /\ OpenInstall' /\ Len(journal') = Len(journal) /\ Last' = Last
    <2>1. "starting" \in Stages \ Ended
      BY DEF Stages, Ended
    <2> QED
      BY <1>0, <1>1, <2>1, OpenShape, SameJournal
  <1>3. tree' \in [Generations -> Trees] /\ \A g \in Generations \ {Last.target} : tree'[g] = tree[g]
    BY <1>0, <1>1 DEF RecoverTree, TypeOK, Trees
  <1>4. /\ \A e \in Engines : engine[Last.target][e] # "ready"
        /\ Last.settings # <<>> => settings = Last.settings[1]
        /\ Last.previous # 0 => \A e \in Last.running : engine[Last.previous][e] \in {"ready", "lost"}
    BY <1>0 DEF EnvInv, Placed, UndoPlaced, Undoing
  <1>5. CASE UNCHANGED cli
    <2>1. Placed' /\ cli' \in Tools /\ cli'.at \notin Working
      BY <1>0, <1>1, <1>2, <1>4, <1>5
      DEF Placed, WorkPlaced, UndoPlaced, GcPlaced, Working, Recovering, Undoing, TypeOK, Tools
    <2> QED
      BY <1>0, <1>1, <1>2, <1>3, <2>1, WorkKept
  <1>6. CASE Goto("r_receipt") /\ tree' = [tree EXCEPT ![J.target] = "absent"]
    <2>1. cli' \in Tools /\ cli'.at = "r_receipt" /\ cli'.op = cli.op /\ cli'.at \notin Working
      BY <1>0, <1>6, Moved DEF Places, Recovering, Working
    <2>2. tree'[Last.target] = "absent"
      BY <1>0, <1>1, <1>6 DEF TypeOK
    <2>3. Placed'
      BY <1>0, <1>1, <1>2, <1>4, <2>1, <2>2
      DEF Placed, WorkPlaced, UndoPlaced, GcPlaced, Working, Recovering, Undoing
    <2> QED
      BY <1>0, <1>1, <1>2, <1>3, <2>1, <2>3, WorkKept
  <1> QED
    BY <1>5, <1>6 DEF RecoverTree

LEMMA RaiseKept ==
    ASSUME EnvInv, Raise
    PROVE  EnvInv'
  <1>0. /\ TypeOK /\ cli.at \in Working /\ cli' = Raised
        /\ UNCHANGED <<parked, current, settings, engine, journal, history>>
    BY DEF EnvInv, Raise
  <1>1. bounds' \in [{"commands", "crashes", "fails", "lost"} -> Nat]
    BY <1>0, Counted DEF Raise
  <1>2. cli' \in Tools /\ cli'.at = "recover" /\ cli'.op = 0
    BY <1>0, ToolMoves DEF Raised, Idle
  <1>3. CASE cli.at # "build"
    BY <1>0, <1>1, <1>2, <1>3, QuietKept DEF Raise, disk
  <1>4. CASE cli.at = "build"
    <2>1. /\ journal # <<>> /\ cli.op = Len(journal) /\ J = Last /\ OpenInstall
          /\ cli.op \in DOMAIN journal
          /\ current = Last.previous /\ Last.target \in Generations
      BY <1>4, AtBuild
    <2>2. Placed' /\ cli'.at \notin Working
      BY <1>2, AtRest
    <2>3. ReceiptsKept' /\ attempts' \in Seq(DOMAIN journal)
      BY <1>0, <1>4, <2>1, <2>2, ReceiptKept DEF Raise, OpenInstall, Ended, J
    <2>4. tree' \in [Generations -> Trees] /\ \A g \in Generations \ {Last.target} : tree'[g] = tree[g]
      BY <1>0, <1>4, <2>1 DEF Raise, TypeOK, Trees
    <2>5. SameShape
      <3>1. "starting" \in Stages \ Ended
        BY DEF Stages, Ended
      <3> QED
        BY <1>0, <2>1, <3>1, OpenShape
    <2>6. Installed' /\ Collected'
      BY <1>0, <2>1, <2>4, <2>5, TargetMoved
    <2>7. Numbers' /\ Serving' /\ Configuration' /\ HistoryKept'
      BY <1>0, SameParts
    <2>8. TypeOK'
      BY <1>0, <1>1, <1>2, <2>3, <2>4 DEF TypeOK, Tools
    <2> QED
      BY <2>2, <2>3, <2>6, <2>7, <2>8 DEF EnvInv
  <1> QED
    BY <1>3, <1>4

-----------------------------------------------------------------------------
(* The last journal is closed.                                             *)

LEMMA Closed ==
    ASSUME EnvInv, NEW s \in Ended, Restaged(s), Last.stage \notin Ended
    PROVE  /\ ~OpenInstall' /\ ~OpenGc' /\ Base' = current' /\ journal' # <<>>
           /\ Len(journal) \in DOMAIN journal /\ Len(journal) \in Nat
           /\ Last'.op = Last.op /\ Last'.previous = Last.previous /\ Last'.target = Last.target
           /\ Last'.collected = Last.collected /\ Last'.stage = s
           /\ \A i \in DOMAIN journal :
                 /\ ~Incomplete(i)' /\ i <= Len(journal)
                 /\ i # Len(journal) => (Done(i)' <=> Done(i))
                 /\ i = Len(journal) => ~Done(i) /\ Incomplete(i)
                                        /\ (Done(i)' <=> s = "complete" /\ Last.op \in Installs)
  <1> USE DEF EnvInv
  <1>1. /\ Len(journal) \in DOMAIN journal /\ DOMAIN journal = 1 .. Len(journal) /\ Len(journal) \in Nat
    BY JournalTypes DEF Restaged
  <1>2. /\ Last'.op = Last.op /\ Last'.previous = Last.previous /\ Last'.target = Last.target
        /\ Last'.collected = Last.collected /\ Last'.stage = s
    BY <1>1 DEF Restaged, Last
  <1>3. \A i \in DOMAIN journal : i # Len(journal) => journal'[i] = journal[i] /\ ~Incomplete(i)
    BY <1>1 DEF Restaged, Numbers
  <1>4. \A i \in DOMAIN journal : ~Incomplete(i)'
    BY <1>1, <1>2, <1>3 DEF Incomplete, Restaged
  <1>5. \A i \in DOMAIN journal :
           /\ i # Len(journal) => (Done(i)' <=> Done(i))
           /\ i = Len(journal) => ~Done(i) /\ Incomplete(i)
                                  /\ (Done(i)' <=> s = "complete" /\ Last.op \in Installs)
    BY <1>1, <1>3 DEF Incomplete, Restaged, Done, Ended, Last
  <1>6. ~OpenInstall' /\ ~OpenGc' /\ Base' = current'
    BY <1>2 DEF OpenInstall, OpenGc, Base
  <1> QED
    BY <1>1, <1>2, <1>4, <1>5, <1>6 DEF Restaged

LEMMA ClosedLogs ==
    ASSUME EnvInv, NEW s \in Ended, Restaged(s), Last.stage \notin Ended, UNCHANGED <<history, attempts>>,
           s = "complete" => \A k \in DOMAIN attempts : attempts[k] # Len(journal),
           s = "rolled-back" /\ Last.op = "restore" =>
               \E k \in DOMAIN attempts : attempts[k] = Len(journal),
           cli'.at \notin Working
    PROVE  HistoryKept' /\ ReceiptsKept'
  <1> USE DEF EnvInv
  <1> DEFINE L == Len(journal)
  <1>0. /\ L \in DOMAIN journal /\ DOMAIN journal' = DOMAIN journal
        /\ \A i \in DOMAIN journal :
              /\ ~Incomplete(i)' /\ i <= L
              /\ i # L => (Done(i)' <=> Done(i))
              /\ i = L => ~Done(i) /\ Incomplete(i)
    BY Closed DEF Restaged
  <1>1. \A k \in DOMAIN history : history[k] \in DOMAIN journal /\ Done(history[k]) /\ history[k] # L
    BY <1>0 DEF TypeOK, HistoryKept
  <1>2. \A k \in DOMAIN history : journal'[history[k]].op \in Installs /\ journal'[history[k]].stage = "complete"
    BY <1>0, <1>1 DEF Done, Restaged
  <1>3. ASSUME NEW i \in DOMAIN journal, Done(i)', ~Published(i)' PROVE i = L
    <2>1. ~Published(i)
      BY <1>3 DEF Published
    <2> QED
      BY <1>0, <1>3, <2>1 DEF HistoryKept
  <1>4. HistoryKept'
    BY <1>0, <1>2, <1>3 DEF HistoryKept, Done
  <1>5. \A k \in DOMAIN attempts : attempts[k] \in DOMAIN journal
    BY DEF TypeOK
  <1>6. \A i \in DOMAIN journal : /\ journal'[i].op = journal[i].op
                                  /\ journal'[i].stage = IF i = L THEN s ELSE journal[i].stage
    BY DEF Restaged
  <1>7. journal[L].op = Last.op
    BY DEF Last
  <1>8. ReceiptsKept'
    BY <1>0, <1>5, <1>6, <1>7 DEF ReceiptsKept
  <1> QED
    BY <1>4, <1>8

(* A completed installation: the pointer is on its target, whose engines   *)
(* are the only ones left.                                                 *)
LEMMA CompleteKept ==
    ASSUME EnvInv, Complete
    PROVE  EnvInv'
  <1> DEFINE L == Len(journal)
  <1>0. /\ TypeOK /\ cli.at = "stop" /\ cli.todo = {} /\ cli' = Raised
        /\ UNCHANGED <<tree, parked, current, settings, engine, history, attempts, bounds>>
    BY DEF EnvInv, Complete, disk
  <1>1. /\ journal # <<>> /\ cli.op = L /\ OpenInstall /\ Last.stage = "switching"
        /\ current = Last.target /\ Last.op \in Installs /\ Last.stage \notin Ended
        /\ Last.previous # 0 => \A e \in Engines : engine[Last.previous][e] # "ready"
    <2>1. cli.at \in Working \cup (Recovering \ {"recover"})
      BY <1>0 DEF Working
    <2> QED
      BY <1>0, <2>1, AtWork DEF EnvInv, Placed, WorkPlaced, OpenInstall
  <1>2. Restaged("complete") /\ "complete" \in Ended
    BY <1>0, <1>1, StageWritten DEF Stages, Complete, Ended
  <1>3. /\ ~OpenInstall' /\ ~OpenGc' /\ Base' = current' /\ journal' # <<>> /\ L \in DOMAIN journal
        /\ L \in Nat /\ DOMAIN journal' = DOMAIN journal /\ Len(journal') = L
        /\ Last'.op = Last.op /\ Last'.previous = Last.previous /\ Last'.target = Last.target
        /\ Last'.collected = Last.collected /\ Last'.stage = "complete"
        /\ \A i \in DOMAIN journal : /\ ~Incomplete(i)' /\ i <= L
                                     /\ i # L => (Done(i)' <=> Done(i))
                                     /\ i = L => Done(i)'
    BY <1>1, <1>2, Closed DEF Restaged
  <1>4. /\ Last = journal[L] /\ Last.target \in Nat /\ Last.previous \in Nat /\ Last.previous < Last.target
        /\ DOMAIN journal \subseteq Nat
        /\ \A i \in DOMAIN journal : /\ journal[i].target \in Nat
                                     /\ journal[i].target \in Generations
    <2>1. DOMAIN journal = 1 .. L
      BY <1>0, JournalTypes
    <2> QED
      BY <1>0, <1>1, <1>3, <2>1, JournalTypes DEF Last, EnvInv, Numbers
  <1>5. \A i \in DOMAIN journal : i # L /\ journal[i].stage = "complete" => journal[i].target < Last.target
    <2> SUFFICES ASSUME NEW i \in DOMAIN journal, i # L, journal[i].stage = "complete"
                 PROVE  journal[i].target < Last.target
      OBVIOUS
    <2>1. i < L
      BY <1>3, <1>4
    <2> QED
      BY <1>1, <1>3, <1>4, <2>1 DEF EnvInv, Numbers
  <1>6. Numbers'
    <2>1. \A i, k \in DOMAIN journal' :
            i < k /\ journal'[i].stage = "complete" /\ journal'[k].op \in Installs
                  /\ journal'[k].stage # "rolled-back" => journal'[i].target < journal'[k].target
      <3> SUFFICES ASSUME NEW i \in DOMAIN journal, NEW k \in DOMAIN journal, i < k,
                          journal'[i].stage = "complete", journal'[k].op \in Installs,
                          journal'[k].stage # "rolled-back"
                   PROVE  journal[i].target < journal[k].target
        BY <1>2 DEF Restaged
      <3>1. i # L /\ journal[i].stage = "complete"
        BY <1>2, <1>3, <1>4 DEF Restaged
      <3>2. CASE k = L
        BY <1>4, <1>5, <3>1, <3>2
      <3>3. CASE k # L
        BY <1>2, <3>1, <3>3 DEF EnvInv, Numbers, Restaged
      <3> QED
        BY <3>2, <3>3
    <2>2. \A i \in DOMAIN journal' :
             Done(i)' /\ (\A k \in DOMAIN journal' : Done(k)' => k <= i) => journal'[i].target = Base'
      <3> SUFFICES ASSUME NEW i \in DOMAIN journal, L <= i PROVE journal'[i].target = Base'
        BY <1>3
      <3>1. i = L
        BY <1>3, <1>4
      <3> QED
        BY <1>0, <1>1, <1>2, <1>3, <1>4, <3>1 DEF Restaged
    <2> QED
      BY <1>2, <1>3, <2>1, <2>2 DEF EnvInv, Numbers, Restaged
  <1>7. Installed'
    <2>1. tree[current] = "whole"
      BY <1>1, <1>4 DEF EnvInv, Installed
    <2>2. \A i \in DOMAIN journal :
             Done(i)' /\ journal[i].target = current /\ journal[i].previous # 0
               => tree[journal[i].previous] = "whole"
      <3> SUFFICES ASSUME NEW i \in DOMAIN journal, Done(i)', journal[i].target = current,
                          journal[i].previous # 0
                   PROVE  tree[journal[i].previous] = "whole"
        OBVIOUS
      <3>1. i = L
        BY <1>1, <1>3, <1>4, <1>5 DEF Done
      <3> QED
        BY <1>1, <1>4, <3>1 DEF EnvInv, Installed, Base
    <2>3. \A g \in Generations : tree[g] # "partial" /\ (tree[g] = "whole" => g <= current)
      <3> SUFFICES ASSUME NEW g \in Generations
                   PROVE  tree[g] # "partial" /\ (tree[g] = "whole" => g <= current)
        OBVIOUS
      <3>1. g \in Nat
        BY <1>0, JournalTypes
      <3>2. tree[g] = "whole" => g <= Last.previous \/ g = Last.target
        BY <1>1 DEF EnvInv, Installed, Base
      <3>3. tree[g] # "partial"
        BY <1>1, <2>1 DEF EnvInv, Installed
      <3> QED
        BY <1>1, <1>4, <3>1, <3>2, <3>3
    <2> QED
      BY <1>0, <1>2, <1>3, <2>1, <2>2, <2>3 DEF Installed, Restaged
  <1>8. Collected'
    <2>1. parked = {}
      BY <1>1 DEF EnvInv, Collected, Installs
    <2>2. \A i \in DOMAIN journal : journal'[i].op = "gc" /\ journal'[i].stage = "complete" =>
             journal[i].op = "gc" /\ journal[i].stage = "complete"
      BY <1>1, <1>2, <1>4 DEF Restaged, Installs
    <2> QED
      BY <1>0, <1>2, <1>3, <2>1, <2>2 DEF EnvInv, Collected, Restaged
  <1>9. Serving'
    <2>1. \A g \in Generations, e \in Engines : engine[g][e] = "ready" => g = current
      <3> SUFFICES ASSUME NEW g \in Generations, NEW e \in Engines, engine[g][e] = "ready"
                   PROVE  g = Last.target
        BY <1>1
      <3>1. g \in {Last.previous, Last.target} /\ g # 0
        BY <1>0, <1>1, JournalTypes DEF EnvInv, Serving
      <3> QED
        BY <1>1, <3>1
    <2> QED
      BY <1>0, <1>3, <2>1 DEF Serving
  <1>10. Configuration'
    BY <1>3 DEF Configuration
  <1>11. cli' \in Tools /\ cli'.at = "recover" /\ cli'.op = 0
    BY <1>0, ToolMoves DEF Raised, Idle
  <1>12. Placed' /\ cli'.at \notin Working
    BY <1>11, AtRest
  <1>13. HistoryKept' /\ ReceiptsKept'
    <2>1. \A k \in DOMAIN attempts : attempts[k] # L
      BY <1>0, <1>1 DEF EnvInv, ReceiptsKept, Working
    <2> QED
      BY <1>0, <1>1, <1>2, <1>12, <2>1, ClosedLogs
  <1>14. TypeOK'
    BY <1>0, <1>2, <1>3, <1>11 DEF TypeOK, Tools, Restaged
  <1> QED
    BY <1>6, <1>7, <1>8, <1>9, <1>10, <1>12, <1>13, <1>14 DEF EnvInv

(* Any other end leaves the base as it was.                                *)
LEMMA ClosedNumbers ==
    ASSUME EnvInv, NEW s \in Ended, Restaged(s), Last.stage \notin Ended, Base' = Base,
           s = "complete" => Last.op = "gc"
    PROVE  Numbers' /\ \A i \in DOMAIN journal : Done(i)' <=> Done(i)
  <1> USE DEF EnvInv
  <1> DEFINE L == Len(journal)
  <1>0. /\ L \in DOMAIN journal /\ L \in Nat /\ DOMAIN journal' = DOMAIN journal /\ Len(journal') = L
        /\ \A i \in DOMAIN journal : ~Incomplete(i)' /\ i <= L /\ i \in Nat
        /\ \A i \in DOMAIN journal :
              /\ i # L => (Done(i)' <=> Done(i))
              /\ i = L => ~Done(i) /\ (Done(i)' <=> s = "complete" /\ Last.op \in Installs)
    BY Closed, JournalTypes DEF Restaged
  <1>1. \A i \in DOMAIN journal : Done(i)' <=> Done(i)
    BY <1>0 DEF Installs
  <1>2. ASSUME NEW i \in DOMAIN journal, NEW k \in DOMAIN journal, i < k,
               journal'[i].stage = "complete", journal'[k].op \in Installs,
               journal'[k].stage # "rolled-back"
        PROVE  journal[i].target < journal[k].target
    <2>1. i # L /\ journal[i].stage = "complete"
      BY <1>0, <1>2 DEF Restaged
    <2>2. k # L
      BY <1>2 DEF Restaged, Last, Installs, Ended
    <2> QED
      BY <1>2, <2>1, <2>2 DEF Numbers, Restaged
  <1>3. \A i, k \in DOMAIN journal' :
            i < k /\ journal'[i].stage = "complete" /\ journal'[k].op \in Installs
                  /\ journal'[k].stage # "rolled-back" => journal'[i].target < journal'[k].target
    BY <1>2 DEF Restaged
  <1>4. \A i \in DOMAIN journal' :
             Done(i)' /\ (\A k \in DOMAIN journal' : Done(k)' => k <= i) => journal'[i].target = Base'
    BY <1>0, <1>1 DEF Numbers, Restaged
  <1> QED
    BY <1>0, <1>1, <1>3, <1>4 DEF Numbers, Restaged

LEMMA RolledBackKept ==
    ASSUME EnvInv, RolledBack
    PROVE  EnvInv'
  <1> DEFINE L == Len(journal)
  <1>0. /\ TypeOK /\ cli.at = "r_done" /\ Goto("recover")
        /\ UNCHANGED <<tree, parked, current, settings, engine, history, attempts, bounds>>
    BY DEF EnvInv, RolledBack, disk
  <1>1. /\ journal # <<>> /\ cli.op = L /\ OpenInstall /\ Last.op \in Installs /\ Last.stage \notin Ended
        /\ current = Last.previous /\ tree[Last.target] = "absent"
        /\ \A e \in Engines : engine[Last.target][e] # "ready"
        /\ Last.op = "restore" => \E k \in DOMAIN attempts : attempts[k] = L
    <2>1. cli.at \in Working \cup (Recovering \ {"recover"})
      BY <1>0 DEF Recovering
    <2> QED
      BY <1>0, <2>1, AtWork DEF EnvInv, Placed, UndoPlaced, Undoing, OpenInstall
  <1>2. Restaged("rolled-back") /\ "rolled-back" \in Ended
    BY <1>0, <1>1, StageWritten DEF Stages, RolledBack, Ended
  <1>3. /\ ~OpenInstall' /\ ~OpenGc' /\ Base' = current' /\ journal' # <<>> /\ L \in DOMAIN journal
        /\ DOMAIN journal' = DOMAIN journal /\ Len(journal') = L /\ L \in Nat
        /\ Last'.op = Last.op
        /\ \A i \in DOMAIN journal : ~Incomplete(i)'
    BY <1>1, <1>2, Closed DEF Restaged
  <1>4. Base' = Base
    BY <1>0, <1>1, <1>3 DEF Base
  <1>5. Numbers' /\ \A i \in DOMAIN journal : Done(i)' <=> Done(i)
    BY <1>1, <1>2, <1>4, ClosedNumbers
  <1>6. Installed'
    <2>1. \A g \in Generations : tree[g] # "partial" /\ (tree[g] = "whole" => g <= Base)
      BY <1>1 DEF EnvInv, Installed
    <2> QED
      BY <1>0, <1>2, <1>3, <1>4, <1>5, <2>1 DEF EnvInv, Installed, Restaged
  <1>7. Collected'
    <2>1. parked = {}
      BY <1>1 DEF EnvInv, Collected, Installs
    <2>2. \A i \in DOMAIN journal : journal'[i].op = "gc" /\ journal'[i].stage = "complete" =>
             journal[i].op = "gc" /\ journal[i].stage = "complete"
      BY <1>2 DEF Restaged
    <2> QED
      BY <1>0, <1>2, <1>3, <2>1, <2>2 DEF EnvInv, Collected, Restaged
  <1>8. Serving'
    <2>1. \A g \in Generations, e \in Engines : engine[g][e] = "ready" => g = current
      BY <1>1 DEF EnvInv, Serving
    <2> QED
      BY <1>0, <1>3, <2>1 DEF Serving
  <1>9. Configuration'
    BY <1>3 DEF Configuration
  <1>10. cli' \in Tools /\ cli'.at = "recover" /\ cli'.op = L
    BY <1>0, <1>1, Moved DEF Places, Recovering
  <1>11. Placed' /\ cli'.at \notin Working
    BY <1>3, <1>10 DEF Placed, WorkPlaced, UndoPlaced, GcPlaced, Working, Recovering, Undoing
  <1>12. HistoryKept' /\ ReceiptsKept'
    BY <1>0, <1>1, <1>2, <1>11, ClosedLogs
  <1>13. TypeOK'
    BY <1>0, <1>2, <1>3, <1>10 DEF TypeOK, Tools, Restaged
  <1> QED
    BY <1>5, <1>6, <1>7, <1>8, <1>9, <1>11, <1>12, <1>13 DEF EnvInv

LEMMA CollectionClosedKept ==
    ASSUME EnvInv, CommitCollection \/ CollectionUndone
    PROVE  EnvInv'
  <1> DEFINE L == Len(journal)
  <1>0. /\ TypeOK /\ cli.at \in {"gc_move", "gc_restore"} /\ cli.todo = {}
        /\ UNCHANGED <<tree, parked, current, settings, engine, history, attempts, bounds>>
    BY DEF EnvInv, CommitCollection, CollectionUndone, disk
  <1>1. /\ journal # <<>> /\ cli.op = L /\ J = Last /\ OpenGc /\ ~OpenInstall /\ Last.stage \notin Ended
        /\ Last.op = "gc" /\ Last.collected \subseteq Generations
        /\ cli.at = "gc_move" => parked = Last.collected
        /\ cli.at = "gc_restore" => parked = {}
    <2>1. cli.at \in Working \cup (Recovering \ {"recover"})
      BY <1>0 DEF Working, Recovering
    <2> QED
      BY <1>0, <2>1, AtWork DEF EnvInv, Placed, GcPlaced, OpenGc, OpenInstall, Installs
  <1>2. PICK s \in Ended : /\ WriteStage(s)
                           /\ s = "complete" => cli.at = "gc_move"
                           /\ s = "rolled-back" => cli.at = "gc_restore"
                           /\ CommitCollection => s = "complete"
                           /\ CollectionUndone => s = "rolled-back"
    <2>1. CASE CommitCollection
      BY <2>1 DEF CommitCollection, CollectionUndone, Ended
    <2>2. CASE CollectionUndone
      BY <2>2 DEF CommitCollection, CollectionUndone, Ended
    <2> QED
      BY <2>1, <2>2
  <1>3. Restaged(s)
    BY <1>0, <1>1, <1>2, StageWritten DEF Stages, Ended
  <1>4. /\ ~OpenInstall' /\ ~OpenGc' /\ Base' = current' /\ journal' # <<>> /\ L \in DOMAIN journal
        /\ DOMAIN journal' = DOMAIN journal /\ Len(journal') = L /\ L \in Nat
        /\ Last'.op = Last.op /\ Last'.stage = s /\ Last'.collected = Last.collected
        /\ \A i \in DOMAIN journal : ~Incomplete(i)'
    BY <1>1, <1>3, Closed DEF Restaged
  <1>5. Base' = Base
    BY <1>0, <1>1, <1>4 DEF Base
  <1>6. Numbers' /\ \A i \in DOMAIN journal : Done(i)' <=> Done(i)
    BY <1>1, <1>3, <1>5, ClosedNumbers
  <1>7. Installed'
    BY <1>0, <1>1, <1>3, <1>4, <1>5, <1>6 DEF EnvInv, Installed, Restaged
  <1>8. Collected'
    <2>1. parked # {} => s = "complete" /\ parked \subseteq Last.collected
      BY <1>1, <1>2 DEF Ended
    <2>2. ASSUME NEW i \in DOMAIN journal, journal'[i].op = "gc", journal'[i].stage = "complete",
                 NEW g \in journal[i].collected
          PROVE  tree[g] = "absent" /\ (g \in parked => i = L)
      <3>1. CASE i = L
        <4>1. g \in parked /\ g \in Last.collected /\ g \in Generations
          BY <1>1, <1>2, <1>3, <2>2, <3>1 DEF Restaged, Last
        <4>2. tree[g] # "whole" /\ tree[g] # "partial" /\ tree[g] \in Trees
          BY <1>0, <1>1, <4>1 DEF EnvInv, Collected, Installed, TypeOK
        <4> QED
          BY <3>1, <4>2 DEF Trees
      <3>2. CASE i # L
        BY <1>3, <2>2, <3>2 DEF EnvInv, Collected, Restaged
      <3> QED
        BY <3>1, <3>2
    <2>3. parked' # {} => /\ journal' # <<>> /\ Last'.op = "gc" /\ Last'.stage # "rolled-back"
                          /\ parked' \subseteq Last'.collected
      BY <1>0, <1>1, <1>4, <2>1
    <2>4. \A i \in DOMAIN journal' : journal'[i].op = "gc" /\ journal'[i].stage = "complete" =>
            \A g \in journal'[i].collected : tree'[g] = "absent" /\ (g \in parked' => i = Len(journal'))
      BY <1>0, <1>3, <1>4, <2>2 DEF Restaged
    <2> QED
      BY <1>4, <2>3, <2>4 DEF Collected
  <1>9. Serving'
    BY <1>0, <1>1, <1>4 DEF EnvInv, Serving
  <1>10. Configuration'
    BY <1>4 DEF Configuration
  <1>11. cli' \in Tools /\ Placed' /\ cli'.at \notin Working
    <2>1. CASE CommitCollection
      <3>1. cli' = [cli EXCEPT !.at = "gc_clean", !.want = "none", !.todo = Last.collected]
        BY <1>1, <2>1 DEF CommitCollection
      <3>2. cli' \in Tools
        BY <1>0, <1>1, <3>1, ToolMoves DEF Places, Recovering
      <3>3. cli'.at = "gc_clean" /\ cli'.op = L /\ cli'.todo = Last.collected
        BY <1>0, <1>1, <3>1 DEF TypeOK
      <3>4. Placed'
        BY <1>1, <1>2, <1>4, <2>1, <3>3
        DEF Placed, WorkPlaced, UndoPlaced, GcPlaced, Working, Recovering, Undoing
      <3> QED
        BY <3>2, <3>3, <3>4 DEF Working
    <2>2. CASE CollectionUndone
      <3>1. cli' \in Tools /\ cli'.at = "recover" /\ cli'.op = L
        BY <1>0, <1>1, <2>2, Moved DEF Places, Recovering, CollectionUndone
      <3>2. Placed'
        BY <1>4, <3>1 DEF Placed, WorkPlaced, UndoPlaced, GcPlaced, Working, Recovering, Undoing
      <3> QED
        BY <3>1, <3>2 DEF Working
    <2> QED
      BY <2>1, <2>2
  <1>12. HistoryKept' /\ ReceiptsKept'
    <2>1. s = "complete" => \A k \in DOMAIN attempts : attempts[k] # L
      BY <1>1, <1>2 DEF EnvInv, ReceiptsKept, Working
    <2> QED
      BY <1>0, <1>1, <1>3, <1>11, <2>1, ClosedLogs
  <1>13. TypeOK'
    BY <1>0, <1>3, <1>4, <1>11 DEF TypeOK, Tools, Restaged
  <1> QED
    BY <1>6, <1>7, <1>8, <1>9, <1>10, <1>11, <1>12, <1>13 DEF EnvInv

-----------------------------------------------------------------------------
(* Trees go to quarantine, come back or are deleted one at a time.         *)

LEMMA LeastTodo ==
    ASSUME TypeOK, NEW S \in SUBSET Generations, S # {}
    PROVE  Min(S) \in S /\ Min(S) \in Generations
  <1>1. S \in SUBSET (0 .. MaxGen) /\ MaxGen \in Nat
    BY JournalTypes
  <1>2. Min(S) \in S
    BY <1>1, Extremes
  <1> QED
    BY <1>2

LEMMA ParkKept ==
    ASSUME EnvInv, Park
    PROVE  EnvInv'
  <1> DEFINE g == Min(cli.todo)
  <1>0. /\ TypeOK /\ cli.at = "gc_move" /\ cli.todo # {} /\ WriteStage("building")
        /\ tree' = [tree EXCEPT ![g] = "absent"] /\ parked' = parked \cup {g}
        /\ Work("gc_move", cli.todo \ {g})
        /\ UNCHANGED <<current, settings, engine, history, attempts, bounds>>
    BY DEF EnvInv, Park
  <1>1. /\ journal # <<>> /\ cli.op = Len(journal) /\ OpenGc /\ ~OpenInstall /\ Last.stage \notin Ended
        /\ Last.op = "gc" /\ Last.collected \subseteq Generations /\ cli.todo \subseteq Last.collected
        /\ parked = Last.collected \ cli.todo
    <2>1. cli.at \in Working \cup (Recovering \ {"recover"})
      BY <1>0 DEF Working
    <2> QED
      BY <1>0, <2>1, AtWork DEF EnvInv, Placed, GcPlaced, OpenGc, OpenInstall, Installs
  <1>2. g \in cli.todo /\ g \in Last.collected /\ g \in Generations /\ g \notin parked
    BY <1>0, <1>1, LeastTodo
  <1> HIDE DEF g
  <1>3. Restaged("building") /\ SameShape
    <2>1. "building" \in Stages \ Ended
      BY DEF Stages, Ended
    <2>2. Restaged("building")
      BY <1>0, <1>1, <2>1, StageWritten
    <2> QED
      BY <1>1, <2>1, <2>2, OpenShape
  <1>4. /\ (OpenInstall' <=> OpenInstall) /\ (OpenGc' <=> OpenGc)
        /\ Last'.op = Last.op /\ Last'.target = Last.target /\ Last'.collected = Last.collected
        /\ Last'.previous = Last.previous /\ Base' = Base /\ Numbers' /\ Serving' /\ HistoryKept'
        /\ \A i \in DOMAIN journal :
              /\ Done(i)' <=> Done(i)
              /\ journal'[i].stage = "complete" <=> journal[i].stage = "complete"
    BY <1>0, <1>3, ShapeKept DEF Ended
  <1>5. /\ cli' \in Tools /\ cli'.at = "gc_move" /\ cli'.op = cli.op /\ cli'.todo = cli.todo \ {g}
    <2>1. cli.todo \ {g} \in (SUBSET Engines) \cup (SUBSET Generations) /\ "gc_move" \in Places
      BY <1>1 DEF Places, Working
    <2> QED
      BY <1>0, <2>1, Moved
  <1>6. /\ tree' \in [Generations -> Trees] /\ tree'[g] = "absent" /\ tree[g] = "whole"
        /\ \A h \in Generations \ {g} : tree'[h] = tree[h]
        /\ \A h \in Generations : tree'[h] # "absent" => tree'[h] = tree[h]
    BY <1>0, <1>1, <1>2 DEF TypeOK, Trees, EnvInv, Collected
  <1>7. /\ current = Last.target /\ current = Last.previous /\ current \notin Last.collected
        /\ Base = current
        /\ \A i \in DOMAIN journal : Done(i) /\ journal[i].target = current =>
              journal[i].previous \notin Last.collected
    BY <1>1 DEF EnvInv, Collected, Base
  <1>8. Installed'
    <2>1. Base # 0 => tree'[Base] = "whole"
      <3>1. Base # 0 => Base \in Generations /\ Base # g
        <4>1. Base # g
          BY <1>2, <1>7
        <4>2. current \in 0 .. MaxGen
          BY <1>0 DEF TypeOK
        <4> QED
          BY <1>7, <4>1, <4>2 DEF Generations
      <3> QED
        BY <1>6, <3>1 DEF EnvInv, Installed
    <2>2. \A i \in DOMAIN journal :
            Done(i) /\ journal[i].target = Base /\ journal[i].previous # 0
              => tree'[journal[i].previous] = "whole"
      <3> SUFFICES ASSUME NEW i \in DOMAIN journal, Done(i), journal[i].target = Base,
                          journal[i].previous # 0
                   PROVE  tree'[journal[i].previous] = "whole"
        OBVIOUS
      <3>1. journal[i].previous # g /\ journal[i].previous \in Generations
        BY <1>0, <1>2, <1>7, JournalTypes DEF Generations
      <3> QED
        BY <1>6, <3>1 DEF EnvInv, Installed
    <2>3. \A h \in Generations : tree'[h] # "partial" /\ (tree'[h] = "whole" => h <= Base)
      BY <1>1, <1>6 DEF EnvInv, Installed
    <2> QED
      BY <1>1, <1>3, <1>4, <2>1, <2>2, <2>3 DEF Installed, SameShape
  <1>9. Collected'
    <2>1. \A h \in Last.collected : (tree'[h] = "whole") # (h \in parked')
      BY <1>0, <1>1, <1>2, <1>6 DEF EnvInv, Collected
    <2>2. ASSUME NEW i \in DOMAIN journal, journal[i].op = "gc", journal[i].stage = "complete",
                 NEW h \in journal[i].collected
          PROVE  tree'[h] = "absent" /\ (h \in parked' => i = Len(journal))
      <3>1. tree[h] = "absent" /\ (h \in parked => i = Len(journal)) /\ h \in Generations
        BY <1>0, <2>2, JournalTypes DEF EnvInv, Collected
      <3>2. h # g
        BY <1>6, <3>1
      <3> QED
        BY <1>0, <1>6, <3>1, <3>2
    <2>3. parked' \subseteq Last.collected
      BY <1>0, <1>1, <1>2
    <2>4. Last'.stage # "rolled-back"
      BY <1>1, <1>4 DEF OpenGc, Ended
    <2>5. \A i \in DOMAIN journal' :
             Done(i)' /\ journal'[i].target = current => journal'[i].previous \notin Last.collected
      BY <1>3, <1>4, <1>7 DEF SameShape
    <2>6. \A i \in DOMAIN journal' : journal'[i].op = "gc" /\ journal'[i].stage = "complete" =>
            \A h \in journal'[i].collected : tree'[h] = "absent" /\ (h \in parked' => i = Len(journal'))
      BY <1>3, <1>4, <2>2 DEF SameShape
    <2> QED
      BY <1>0, <1>1, <1>3, <1>4, <1>7, <2>1, <2>3, <2>4, <2>5, <2>6 DEF Collected, SameShape
  <1>10. Configuration'
    BY <1>1, <1>4 DEF Configuration
  <1>11. Placed'
    <2>1. parked' = Last.collected \ cli'.todo /\ cli'.todo \subseteq Last.collected
      BY <1>0, <1>1, <1>2, <1>5
    <2> QED
      BY <1>1, <1>3, <1>4, <1>5, <2>1
      DEF Placed, WorkPlaced, UndoPlaced, GcPlaced, Working, Recovering, Undoing, SameShape
  <1>12. ReceiptsKept' /\ attempts' \in Seq(DOMAIN journal')
    <2>1. cli.at \in Working
      BY <1>0 DEF Working
    <2> QED
      BY <1>0, <1>3, <1>5, <2>1, ReceiptsSame
  <1>13. TypeOK'
    <2>1. parked' \subseteq Generations
      BY <1>0, <1>1, <1>2 DEF TypeOK
    <2> QED
      BY <1>0, <1>3, <1>5, <1>6, <1>12, <2>1 DEF TypeOK, Tools, SameShape
  <1> QED
    BY <1>4, <1>8, <1>9, <1>10, <1>11, <1>12, <1>13 DEF EnvInv

(* What has to be seen of a step that empties the quarantine.              *)
LEMMA EmptiedKept ==
    ASSUME EnvInv, UNCHANGED <<current, settings, engine, journal, history, attempts, bounds>>,
           cli' \in Tools, cli'.at \notin Working, Placed', Installed', Collected',
           tree' \in [Generations -> Trees], parked' \subseteq parked
    PROVE  EnvInv'
  <1>1. Numbers' /\ Serving' /\ Configuration' /\ HistoryKept'
    BY SameParts
  <1>2. ReceiptsKept'
    BY DEF EnvInv, ReceiptsKept
  <1>3. TypeOK'
    BY DEF EnvInv, TypeOK, Tools
  <1> QED
    BY <1>1, <1>2, <1>3 DEF EnvInv

LEMMA CleanKept ==
    ASSUME EnvInv, Clean
    PROVE  EnvInv'
  <1> DEFINE g == Min(cli.todo)
  <1>0. /\ TypeOK /\ cli.at = "gc_clean" /\ parked' \subseteq parked /\ tree \in [Generations -> Trees]
        /\ UNCHANGED <<tree, current, settings, engine, journal, history, attempts, bounds>>
    BY DEF EnvInv, Clean, records, TypeOK
  <1>1. /\ journal # <<>> /\ cli.op = Len(journal) /\ cli.op \in DOMAIN journal
        /\ cli.todo \subseteq Last.collected /\ Last.collected \subseteq Generations
        /\ Last.op = "gc" /\ Last.stage = "complete" /\ J = Last
    <2>1. cli.at \in Working \cup (Recovering \ {"recover"})
      BY <1>0 DEF Recovering
    <2> QED
      BY <1>0, <2>1, AtWork DEF EnvInv, Placed, GcPlaced
  <1>2. /\ (OpenInstall' <=> OpenInstall) /\ (OpenGc' <=> OpenGc) /\ Last' = Last /\ ~OpenGc
        /\ Len(journal') = Len(journal)
        /\ \A i \in DOMAIN journal : Incomplete(i)' <=> Incomplete(i)
    BY <1>0, <1>1, SameJournal DEF OpenGc, Ended
  <1>3. Installed'
    BY <1>0, SameParts
  <1>4. Collected'
    BY <1>0, <1>2 DEF EnvInv, Collected
  <1>5. CASE cli.todo = {}
    <2>1. cli' \in Tools /\ cli'.at = "recover" /\ cli'.op = cli.op
      BY <1>0, <1>5, Moved DEF Clean, Places, Recovering
    <2>2. ~Incomplete(cli.op)
      BY <1>1 DEF Incomplete, J, Ended
    <2>3. Placed' /\ cli'.at \notin Working
      BY <1>0, <1>1, <1>2, <2>1, <2>2
      DEF Placed, WorkPlaced, UndoPlaced, GcPlaced, Working, Recovering, Undoing
    <2> QED
      BY <1>0, <1>3, <1>4, <2>1, <2>3, EmptiedKept
  <1>6. CASE cli.todo # {}
    <2>1. cli' \in Tools /\ cli'.at = "gc_clean" /\ cli'.op = cli.op /\ cli'.todo = cli.todo \ {g}
      <3>1. cli.todo \ {g} \in (SUBSET Engines) \cup (SUBSET Generations) /\ "gc_clean" \in Places
        BY <1>1 DEF Places, Recovering
      <3>2. Work("gc_clean", cli.todo \ {g})
        BY <1>6 DEF Clean
      <3> HIDE DEF g
      <3> QED
        BY <1>0, <3>1, <3>2, Moved
    <2>2. Placed' /\ cli'.at \notin Working
      BY <1>0, <1>1, <1>2, <2>1
      DEF Placed, WorkPlaced, UndoPlaced, GcPlaced, Working, Recovering, Undoing
    <2> QED
      BY <1>0, <1>3, <1>4, <2>1, <2>2, EmptiedKept
  <1> QED
    BY <1>5, <1>6

LEMMA UnparkKept ==
    ASSUME EnvInv, Unpark
    PROVE  EnvInv'
  <1> DEFINE g == Min(cli.todo)
  <1>0. /\ TypeOK /\ cli.at = "gc_restore" /\ cli.todo # {} /\ Work("gc_restore", cli.todo \ {g})
        /\ IF g \in parked
             THEN tree[g] = "absent" /\ tree' = [tree EXCEPT ![g] = "whole"] /\ parked' = parked \ {g}
             ELSE tree[g] # "absent" /\ UNCHANGED <<tree, parked>>
        /\ UNCHANGED <<current, settings, engine, journal, history, attempts, bounds>>
    BY DEF EnvInv, Unpark, records
  <1>1. /\ journal # <<>> /\ cli.op = Len(journal) /\ OpenGc /\ ~OpenInstall /\ Last.stage \notin Ended
        /\ Last.op = "gc" /\ Last.collected \subseteq Generations /\ cli.todo \subseteq Last.collected
        /\ parked \subseteq cli.todo
    <2>1. cli.at \in Working \cup (Recovering \ {"recover"})
      BY <1>0 DEF Recovering
    <2> QED
      BY <1>0, <2>1, AtWork DEF EnvInv, Placed, GcPlaced, OpenGc, OpenInstall, Installs
  <1>2. g \in cli.todo /\ g \in Last.collected /\ g \in Generations
    BY <1>0, <1>1, LeastTodo
  <1> HIDE DEF g
  <1>3. /\ (OpenInstall' <=> OpenInstall) /\ (OpenGc' <=> OpenGc) /\ Last' = Last
        /\ Len(journal') = Len(journal) /\ DOMAIN journal' = DOMAIN journal
        /\ \A i \in DOMAIN journal : Done(i)' <=> Done(i)
    BY <1>0, SameJournal
  <1>4. /\ cli' \in Tools /\ cli'.at = "gc_restore" /\ cli'.op = cli.op /\ cli'.todo = cli.todo \ {g}
    <2>1. cli.todo \ {g} \in (SUBSET Engines) \cup (SUBSET Generations) /\ "gc_restore" \in Places
      BY <1>1 DEF Places, Recovering
    <2> QED
      BY <1>0, <2>1, Moved
  <1>5. Placed' /\ cli'.at \notin Working
    <2>1. parked' \subseteq cli'.todo /\ cli'.todo \subseteq Last.collected
      BY <1>0, <1>1, <1>2, <1>4
    <2> QED
      BY <1>1, <1>3, <1>4, <2>1
      DEF Placed, WorkPlaced, UndoPlaced, GcPlaced, Working, Recovering, Undoing
  <1>6. CASE g \notin parked
    <2>1. Installed' /\ Collected' /\ tree' \in [Generations -> Trees] /\ parked' \subseteq parked
      BY <1>0, <1>6, SameParts DEF TypeOK
    <2> QED
      BY <1>0, <1>4, <1>5, <2>1, EmptiedKept
  <1>7. CASE g \in parked
    <2>1. /\ tree' \in [Generations -> Trees] /\ tree'[g] = "whole" /\ parked' = parked \ {g}
          /\ \A h \in Generations \ {g} : tree'[h] = tree[h]
          /\ \A h \in Generations : tree[h] = "whole" => tree'[h] = "whole"
      BY <1>0, <1>2, <1>7 DEF TypeOK, Trees
    <2>2. current = Last.target /\ Base = current /\ Base' = Base /\ g <= current
      <3>1. g <= Last.target
        BY <1>0, <1>1, <1>2, JournalTypes DEF EnvInv, Numbers, Last
      <3> QED
        BY <1>0, <1>1, <1>3, <3>1 DEF EnvInv, Collected, Base
    <2>3. Installed'
      <3>1. Base # 0 => tree'[Base] = "whole"
        <4>1. Base # 0 => Base \in Generations
          BY <1>0, <2>2 DEF TypeOK, Generations
        <4> QED
          BY <2>1, <4>1 DEF EnvInv, Installed
      <3>2. \A i \in DOMAIN journal :
              Done(i) /\ journal[i].target = Base /\ journal[i].previous # 0
                => tree'[journal[i].previous] = "whole"
        <4>1. \A i \in DOMAIN journal : journal[i].previous # 0 => journal[i].previous \in Generations
          BY <1>0, JournalTypes DEF Generations
        <4> QED
          BY <2>1, <4>1 DEF EnvInv, Installed
      <3>3. \A h \in Generations : tree'[h] # "partial" /\ (tree'[h] = "whole" => h <= Base)
        <4> SUFFICES ASSUME NEW h \in Generations
                     PROVE  tree'[h] # "partial" /\ (tree'[h] = "whole" => h <= Base)
          OBVIOUS
        <4>1. CASE h = g
          BY <2>1, <2>2, <4>1
        <4>2. CASE h # g
          BY <1>1, <2>1, <4>2 DEF EnvInv, Installed
        <4> QED
          BY <4>1, <4>2
      <3> QED
        BY <1>0, <1>1, <1>3, <2>2, <3>1, <3>2, <3>3 DEF Installed
    <2>4. Collected'
      <3>1. \A h \in Last.collected : (tree'[h] = "whole") # (h \in parked')
        BY <1>1, <2>1 DEF EnvInv, Collected
      <3>2. ASSUME NEW i \in DOMAIN journal, journal[i].op = "gc", journal[i].stage = "complete",
                   NEW h \in journal[i].collected
            PROVE  tree'[h] = "absent" /\ (h \in parked' => i = Len(journal))
        <4>1. tree[h] = "absent" /\ (h \in parked => i = Len(journal)) /\ h \in Generations
          BY <1>0, <3>2, JournalTypes DEF EnvInv, Collected
        <4>2. i # Len(journal)
          BY <1>1, <3>2 DEF OpenGc, Last, Ended
        <4>3. h # g
          BY <1>7, <4>1, <4>2
        <4> QED
          BY <2>1, <4>1, <4>3
      <3>3. parked' # {} => Last.stage # "rolled-back" /\ parked' \subseteq Last.collected
        BY <1>1, <2>1 DEF Ended
      <3>4. \A i \in DOMAIN journal' : journal'[i].op = "gc" /\ journal'[i].stage = "complete" =>
              \A h \in journal'[i].collected : tree'[h] = "absent" /\ (h \in parked' => i = Len(journal'))
        BY <1>0, <1>3, <3>2
      <3>5. /\ current' = Last'.target /\ current' = Last'.previous /\ current' \notin Last'.collected
            /\ \A i \in DOMAIN journal' :
                  Done(i)' /\ journal'[i].target = current' => journal'[i].previous \notin Last'.collected
        BY <1>0, <1>1, <1>3 DEF EnvInv, Collected
      <3> QED
        BY <1>0, <1>1, <1>3, <3>1, <3>3, <3>4, <3>5 DEF Collected
    <2> QED
      BY <1>0, <1>4, <1>5, <2>1, <2>3, <2>4, EmptiedKept
  <1> QED
    BY <1>6, <1>7

-----------------------------------------------------------------------------
(* A new journal is written: nothing was pending.                          *)

LEMMA NonePending ==
    ASSUME EnvInv, cli.at = "begin"
    PROVE  /\ ~OpenInstall /\ ~OpenGc /\ Base = current /\ parked = {}
           /\ \A i \in DOMAIN journal : ~Incomplete(i) /\ (Done(i) => Published(i))
           /\ \A g \in Generations : tree[g] # "partial" /\ (tree[g] = "whole" => g <= current)
           /\ \A g \in Generations, e \in Engines : engine[g][e] = "ready" => g = current
  <1> USE DEF EnvInv
  <1>1. \A i \in DOMAIN journal : ~Incomplete(i) /\ (Done(i) => Published(i))
    BY DEF Placed, WorkPlaced, Pending
  <1>2. ~OpenInstall /\ ~OpenGc
    BY <1>1, JournalTypes DEF OpenInstall, OpenGc, Last, Incomplete
  <1>3. parked = {}
    <2> SUFFICES ASSUME parked # {} PROVE FALSE
      OBVIOUS
    <2>1. journal # <<>> /\ Last.op = "gc" /\ Last.stage # "rolled-back" /\ parked \subseteq Last.collected
      BY DEF Collected
    <2>2. Last.stage = "complete" /\ Len(journal) \in DOMAIN journal
      BY <1>1, <2>1, JournalTypes DEF Last, Incomplete, Ended
    <2>3. Pending(Len(journal))
      BY <2>1, <2>2 DEF Pending, Last
    <2> QED
      BY <2>2, <2>3 DEF Placed, WorkPlaced
  <1> QED
    BY <1>1, <1>2, <1>3 DEF Base, Installed, Serving

(* What has to be seen of the new journal.                                 *)
LEMMA BeginKept ==
    ASSUME EnvInv, cli.at = "begin", NEW j \in Journals, journal' = Append(journal, j),
           UNCHANGED <<disk, engine, history, attempts, bounds>>,
           j.stage = "planned", j.previous = current,
           j.op \in Installs =>
               /\ j.previous < j.target /\ j.collected = {}
               /\ \A i \in DOMAIN journal : journal[i].stage = "complete" => journal[i].target < j.target
               /\ \A e \in Engines : current # 0 /\ engine[current][e] = "ready" => e \in j.running
               /\ j.settings # <<>> => Len(j.settings) = 2 /\ j.settings[1] = settings,
           j.op = "gc" =>
               /\ j.target = current /\ current \notin j.collected
               /\ \A g \in j.collected : g <= current /\ tree[g] = "whole"
               /\ \A i \in DOMAIN journal :
                     Done(i) /\ journal[i].target = current => journal[i].previous \notin j.collected,
           cli' \in Tools, cli'.op = Len(journal) + 1,
           \/ j.op \in Installs /\ cli'.at = "build"
           \/ j.op = "gc" /\ cli'.at = "gc_move" /\ cli'.todo = j.collected
    PROVE  EnvInv'
  <1> USE DEF EnvInv, disk
  <1> DEFINE L == Len(journal) + 1
  <1>0. /\ TypeOK /\ ~OpenInstall /\ ~OpenGc /\ Base = current /\ parked = {}
        /\ \A i \in DOMAIN journal : ~Incomplete(i) /\ (Done(i) => Published(i))
        /\ \A g \in Generations : tree[g] # "partial" /\ (tree[g] = "whole" => g <= current)
        /\ \A g \in Generations, e \in Engines : engine[g][e] = "ready" => g = current
    BY NonePending
  <1>1. /\ journal' \in Seq(Journals) /\ journal' # <<>> /\ Len(journal') = L /\ L \in Nat
        /\ DOMAIN journal \subseteq DOMAIN journal' /\ L \in DOMAIN journal'
        /\ \A i \in DOMAIN journal : journal'[i] = journal[i] /\ i # L /\ i < L
        /\ \A i \in DOMAIN journal' : i \in DOMAIN journal \/ i = L
        /\ Last' = j /\ journal'[L] = j
    <2>1. /\ journal' \in Seq(Journals) /\ journal' # <<>> /\ Len(journal') = L
          /\ DOMAIN journal' = 1 .. L /\ DOMAIN journal \subseteq DOMAIN journal'
          /\ \A i \in DOMAIN journal : journal'[i] = journal[i] /\ i # L
          /\ \A i \in DOMAIN journal' : i \in DOMAIN journal \/ i = L
          /\ Last' = j
      BY <1>0, JournalAdded
    <2>2. Len(journal) \in Nat /\ DOMAIN journal = 1 .. Len(journal)
      BY <1>0, JournalTypes
    <2>3. L \in Nat /\ L \in 1 .. L /\ \A i \in DOMAIN journal : i < L
      BY <2>2
    <2>4. journal'[L] = j
      BY <2>1 DEF Last
    <2> QED
      BY <2>1, <2>3, <2>4
  <1> HIDE DEF L
  <1>2. /\ \A i \in DOMAIN journal : ~Incomplete(i)' /\ (Done(i)' <=> Done(i))
        /\ \A i \in DOMAIN journal' : i = L => ~Done(i)'
        /\ OpenInstall' <=> j.op \in Installs
        /\ OpenGc' <=> j.op = "gc"
    <2>1. \A i \in DOMAIN journal : ~Incomplete(i)' /\ (Done(i)' <=> Done(i))
      BY <1>0, <1>1 DEF Incomplete, Done
    <2>2. \A i \in DOMAIN journal' : i = L => ~Done(i)'
      BY <1>1 DEF Done
    <2>3. /\ OpenInstall' <=> j.op \in Installs
          /\ OpenGc' <=> j.op = "gc"
      BY <1>1 DEF OpenInstall, OpenGc, Ended
    <2> QED
      BY <2>1, <2>2, <2>3
  <1>3. Base' = current
    BY <1>1 DEF Base
  <1>4. Numbers'
    <2>1. \A i \in DOMAIN journal' : Incomplete(i)' => i = Len(journal')
      BY <1>1, <1>2
    <2>2. \A i \in DOMAIN journal' : journal'[i].op \in Installs => journal'[i].previous < journal'[i].target
      BY <1>1 DEF Numbers
    <2>3. ASSUME NEW i \in DOMAIN journal', NEW k \in DOMAIN journal', i < k,
                 journal'[i].stage = "complete", journal'[k].op \in Installs,
                 journal'[k].stage # "rolled-back"
          PROVE  journal'[i].target < journal'[k].target
      <3>1. i \in DOMAIN journal
        BY <1>1, <2>3
      <3>2. CASE k = L
        BY <1>1, <2>3, <3>1, <3>2
      <3>3. CASE k \in DOMAIN journal
        BY <1>1, <2>3, <3>1, <3>3 DEF Numbers
      <3> QED
        BY <1>1, <3>2, <3>3
    <2>4. \A i \in DOMAIN journal' : \A g \in journal'[i].collected : g <= journal'[i].target
      <3>1. j.op \in Installs \/ j.op = "gc"
        OBVIOUS
      <3>2. \A g \in j.collected : g <= j.target
        BY <3>1
      <3> QED
        BY <1>1, <3>2 DEF Numbers
    <2>5. \A i \in DOMAIN journal' :
             Done(i)' /\ (\A k \in DOMAIN journal' : Done(k)' => k <= i) => journal'[i].target = Base'
      <3> SUFFICES ASSUME NEW i \in DOMAIN journal', Done(i)',
                          \A k \in DOMAIN journal' : Done(k)' => k <= i
                   PROVE  journal'[i].target = Base'
        OBVIOUS
      <3>1. i \in DOMAIN journal /\ Done(i) /\ \A k \in DOMAIN journal : Done(k) => k <= i
        BY <1>1, <1>2
      <3> QED
        BY <1>0, <1>1, <1>3, <3>1 DEF Numbers
    <2> QED
      BY <2>1, <2>2, <2>3, <2>4, <2>5 DEF Numbers
  <1>5. Installed'
    <2>1. \A i \in DOMAIN journal' :
             Done(i)' /\ journal'[i].target = Base' /\ journal'[i].previous # 0
               => tree[journal'[i].previous] = "whole"
      BY <1>0, <1>1, <1>2, <1>3 DEF Installed
    <2>2. current # 0 => tree[current] = "whole"
      BY <1>0 DEF Installed
    <2> QED
      BY <1>0, <1>1, <1>2, <1>3, <2>1, <2>2 DEF Installed
  <1>6. Collected'
    <2>1. \A i \in DOMAIN journal' : journal'[i].op = "gc" /\ journal'[i].stage = "complete" =>
             \A g \in journal'[i].collected : tree[g] = "absent" /\ g \notin parked
      BY <1>0, <1>1 DEF Collected
    <2>2. OpenGc' =>
            /\ current = j.target /\ current = j.previous /\ current \notin j.collected
            /\ \A g \in j.collected : (tree[g] = "whole") # (g \in parked)
            /\ \A i \in DOMAIN journal' :
                  Done(i)' /\ journal'[i].target = current => journal'[i].previous \notin j.collected
      BY <1>0, <1>1, <1>2
    <2> QED
      BY <1>0, <1>1, <2>1, <2>2 DEF Collected
  <1>7. Serving'
    <2>1. ASSUME NEW g \in Generations, NEW e \in Engines, engine[g][e] = "ready"
          PROVE  IF OpenInstall' THEN g \in {j.previous, j.target} /\ e \in j.running ELSE g = current
      <3>1. g = current /\ g # 0
        BY <1>0, <2>1, JournalTypes
      <3> QED
        BY <1>2, <2>1, <3>1
    <2> QED
      BY <1>1, <2>1 DEF Serving
  <1>8. Configuration'
    BY <1>1, <1>2 DEF Configuration
  <1>9. HistoryKept'
    <2>1. \A k \in DOMAIN history : history[k] \in DOMAIN journal /\ Done(history[k])
      BY DEF TypeOK, HistoryKept
    <2>2. \A k \in DOMAIN history : journal'[history[k]].op \in Installs /\ journal'[history[k]].stage = "complete"
      BY <1>1, <2>1 DEF Done
    <2>3. \A i \in DOMAIN journal' : Done(i)' => Published(i)'
      <3> SUFFICES ASSUME NEW i \in DOMAIN journal', Done(i)' PROVE Published(i)'
        OBVIOUS
      <3>1. i \in DOMAIN journal /\ Done(i)
        BY <1>1, <1>2
      <3>2. Published(i)
        BY <1>0, <3>1
      <3> QED
        BY <3>2 DEF Published
    <2> QED
      BY <2>2, <2>3 DEF HistoryKept, Done
  <1>10. ReceiptsKept' /\ attempts \in Seq(DOMAIN journal') /\ history \in Seq(DOMAIN journal')
    <2>1. attempts \in Seq(DOMAIN journal) /\ history \in Seq(DOMAIN journal)
      BY DEF TypeOK
    <2>2. \A k \in DOMAIN attempts : attempts[k] \in DOMAIN journal /\ attempts[k] # L
      BY <1>1, <2>1
    <2>3. \A k, l \in DOMAIN attempts' : attempts'[k] = attempts'[l] => k = l
      BY DEF ReceiptsKept
    <2>4. \A k \in DOMAIN attempts : journal'[attempts[k]].stage # "complete"
      BY <1>1, <2>2 DEF ReceiptsKept
    <2>5. \A i \in DOMAIN journal' : journal'[i].stage = "rolled-back" /\ journal'[i].op = "restore" =>
             \E k \in DOMAIN attempts : attempts[k] = i
      BY <1>1 DEF ReceiptsKept
    <2>6. cli'.op = L
      BY DEF L
    <2>7. ReceiptsKept'
      BY <2>2, <2>3, <2>4, <2>5, <2>6 DEF ReceiptsKept
    <2> QED
      BY <1>1, <2>1, <2>7, SeqWidens
  <1>11. Placed'
    <2>1. cli'.op = Len(journal')
      BY <1>1 DEF L
    <2> QED
      BY <1>0, <1>1, <1>2, <2>1
      DEF Placed, WorkPlaced, UndoPlaced, GcPlaced, Working, Recovering, Undoing
  <1>12. TypeOK'
    BY <1>1, <1>10 DEF TypeOK, Tools
  <1> QED
    BY <1>4, <1>5, <1>6, <1>7, <1>8, <1>9, <1>10, <1>11, <1>12

LEMMA NewTyped ==
    ASSUME TypeOK, NEW op \in Installs \cup {"gc"}, NEW target \in Generations,
           NEW running \in SUBSET Engines, NEW halted \in SUBSET Engines,
           NEW change \in Seq(Settings), NEW collected \in SUBSET Generations
    PROVE  LET j == NewJournal(op, target, running, halted, change, collected) IN
           /\ j \in Journals /\ j.op = op /\ j.previous = current /\ j.target = target
           /\ j.stage = "planned" /\ j.running = running /\ j.settings = change
           /\ j.collected = collected
  BY DEF NewJournal, Journals, TypeOK, Stages

LEMMA BeginInstallKept ==
    ASSUME EnvInv, cli.at = "begin", NEW op \in Installs, NEW running \in SUBSET Engines,
           NEW halted \in SUBSET Engines, NEW change \in Seq(Settings),
           change # <<>> => Len(change) = 2 /\ change[1] = settings,
           \A e \in Engines : current # 0 /\ engine[current][e] = "ready" => e \in running,
           Begin(op, NextGeneration, running, halted, change),
           UNCHANGED <<disk, engine, history, attempts, bounds>>
    PROVE  EnvInv'
  <1> DEFINE j == NewJournal(op, NextGeneration, running, halted, change, {})
  <1>0. /\ TypeOK /\ NextGeneration \in Generations /\ journal' = Append(journal, j)
        /\ cli' = [cli EXCEPT !.at = "build", !.op = Len(journal) + 1]
        /\ Len(journal) + 1 \in Nat
    BY JournalTypes DEF EnvInv, Begin
  <1>1. /\ j \in Journals /\ j.op = op /\ j.previous = current /\ j.target = NextGeneration
        /\ j.stage = "planned" /\ j.running = running /\ j.settings = change
        /\ j.collected = {}
    BY <1>0, NewTyped
  <1> HIDE DEF j
  <1>2. /\ NextGeneration \in Nat \ {0}
        /\ \A g \in Generations : tree[g] # "absent" => g < NextGeneration
        /\ \A i \in DOMAIN journal :
              journal[i].stage = "complete" => journal[i].target < NextGeneration
    BY <1>0, NextIsNew
  <1>3. current < NextGeneration
    <2>1. CASE current = 0
      BY <1>2, <2>1
    <2>2. CASE current # 0
      <3>1. Base = current
        BY NonePending
      <3>2. current \in Generations /\ tree[current] = "whole"
        BY <1>0, <2>2, <3>1 DEF EnvInv, TypeOK, Generations, Installed
      <3> QED
        BY <1>2, <3>2
    <2> QED
      BY <2>1, <2>2
  <1>4. cli' \in Tools /\ cli'.at = "build" /\ cli'.op = Len(journal) + 1
    <2>1. "build" \in Places
      BY DEF Places, Working
    <2>2. cli' \in Tools
      BY <1>0, <2>1, ToolMoves
    <2> QED
      BY <1>0, <2>2 DEF TypeOK
  <1>5. j.op # "gc" /\ j.op \in Installs
    BY <1>1 DEF Installs
  <1> QED
    BY <1>0, <1>1, <1>2, <1>3, <1>4, <1>5, BeginKept

LEMMA BeginInstallsKept ==
    ASSUME EnvInv,
           \/ \E e \in Engines : BeginSetup(e)
           \/ BeginActivation(<<>>)
           \/ \E s \in Settings : BeginActivation(<<settings, s>>)
    PROVE  EnvInv'
  <1>0. TypeOK /\ settings \in Settings /\ <<>> \in Seq(Settings) /\ {} \in SUBSET Engines
    BY DEF EnvInv, TypeOK
  <1>1. CASE \E e \in Engines : BeginSetup(e)
    <2>1. PICK e \in Engines : BeginSetup(e)
      BY <1>1
    <2>2. "setup" \in Installs /\ {e} \in SUBSET Engines
      BY DEF Installs
    <2> QED
      BY <1>0, <2>1, <2>2, BeginInstallKept DEF BeginSetup
  <1>2. ASSUME NEW change \in Seq(Settings), change # <<>> => Len(change) = 2 /\ change[1] = settings,
               BeginActivation(change)
        PROVE  EnvInv'
    <2> DEFINE running == {e \in Engines : engine[current][e] = "ready"}
               halted == {e \in Engines : engine[current][e] = "stopped"}
    <2>1. running \in SUBSET Engines /\ halted \in SUBSET Engines
          /\ \A e \in Engines : current # 0 /\ engine[current][e] = "ready" => e \in running
      OBVIOUS
    <2>2. /\ cli.at = "begin" /\ cli.want \in Installs
          /\ Begin(cli.want, NextGeneration, running, halted, change)
          /\ UNCHANGED <<disk, engine, history, attempts, bounds>>
      BY <1>2 DEF BeginActivation, Installs
    <2> HIDE DEF running, halted
    <2> QED
      BY <1>2, <2>1, <2>2, BeginInstallKept
  <1>3. CASE \E s \in Settings : BeginActivation(<<settings, s>>)
    <2>1. PICK s \in Settings : BeginActivation(<<settings, s>>)
      BY <1>3
    <2>2. /\ <<settings, s>> \in Seq(Settings) /\ Len(<<settings, s>>) = 2
          /\ <<settings, s>>[1] = settings
      BY <1>0
    <2> QED
      BY <1>2, <2>1, <2>2
  <1> QED
    BY <1>0, <1>1, <1>2, <1>3

LEMMA BeginCollectionKept ==
    ASSUME EnvInv, BeginCollection
    PROVE  EnvInv'
  <1> DEFINE collected == {g \in Generations \ Retained : tree[g] # "absent"}
             j == NewJournal("gc", current, {}, {}, <<>>, collected)
  <1>0. /\ TypeOK /\ cli.at = "begin" /\ current # 0 /\ journal' = Append(journal, j)
        /\ cli' = [cli EXCEPT !.at = "gc_move", !.op = Len(journal) + 1, !.todo = collected]
        /\ UNCHANGED <<disk, engine, history, attempts, bounds>>
        /\ Len(journal) + 1 \in Nat
    BY JournalTypes DEF EnvInv, BeginCollection
  <1>1. /\ collected \in SUBSET Generations /\ current \in Generations
        /\ \A g \in collected : g \notin Retained /\ tree[g] # "absent"
    BY <1>0 DEF TypeOK, Generations
  <1> HIDE DEF collected
  <1>2. /\ j \in Journals /\ j.op = "gc" /\ j.previous = current /\ j.target = current
        /\ j.stage = "planned" /\ j.collected = collected
    <2>1. <<>> \in Seq(Settings) /\ {} \in SUBSET Engines /\ "gc" \in Installs \cup {"gc"}
      OBVIOUS
    <2> QED
      BY <1>0, <1>1, <2>1 DEF NewJournal, Journals, TypeOK, Stages
  <1> HIDE DEF j
  <1>3. \A g \in collected : g <= current /\ tree[g] = "whole"
    <2>1. \A g \in Generations : tree[g] # "partial" /\ (tree[g] = "whole" => g <= current)
                                 /\ tree[g] \in Trees
      BY <1>0, NonePending DEF TypeOK
    <2> QED
      BY <1>1, <2>1 DEF Trees
  <1>4. current \notin collected
    BY <1>1 DEF Retained
  <1>5. ASSUME NEW i \in DOMAIN journal, Done(i), journal[i].target = current
        PROVE  journal[i].previous \notin collected
    <2>1. CASE journal[i].previous = 0
      BY <1>0, <1>1, <2>1, JournalTypes
    <2>2. CASE journal[i].previous # 0
      <3>1. Predecessors(current) = {journal[i].previous}
        BY <1>0, <1>5, <2>2, OnePredecessor DEF EnvInv
      <3> QED
        BY <1>1, <3>1 DEF Retained
    <2> QED
      BY <2>1, <2>2
  <1>6. /\ cli' \in Tools /\ cli'.at = "gc_move" /\ cli'.op = Len(journal) + 1
        /\ cli'.todo = collected
    <2>1. "gc_move" \in Places
      BY DEF Places, Working
    <2>2. cli' \in Tools
      BY <1>0, <1>1, <2>1, ToolMoves
    <2> QED
      BY <1>0, <2>2 DEF TypeOK
  <1>7. j.op \notin Installs
    BY <1>2 DEF Installs
  <1> QED
    BY <1>0, <1>2, <1>3, <1>4, <1>5, <1>6, <1>7, BeginKept

-----------------------------------------------------------------------------
LEMMA EnvStarts ==
    ASSUME Init
    PROVE  EnvInv
  <1>1. TypeOK
    <2>1. cli \in [at : Places, want : Commands \cup {"none"}, op : Nat,
                   todo : (SUBSET Engines) \cup (SUBSET Generations)]
      BY DEF Init, Idle, Places
    <2>2. tree \in [Generations -> Trees] /\ engine \in [Generations -> [Engines -> EngineStates]]
      BY DEF Init, Trees, EngineStates
    <2>3. /\ parked \subseteq Generations /\ current \in 0 .. MaxGen /\ settings \in Settings
          /\ journal \in Seq(Journals) /\ history \in Seq(DOMAIN journal) /\ attempts \in Seq(DOMAIN journal)
      BY DEF Init
    <2>4. bounds \in [{"commands", "crashes", "fails", "lost"} -> Nat]
      BY DEF Init
    <2> QED
      BY <2>1, <2>2, <2>3, <2>4 DEF TypeOK
  <1>2. /\ DOMAIN journal = {} /\ DOMAIN history = {} /\ DOMAIN attempts = {}
        /\ ~OpenInstall /\ ~OpenGc /\ Base = 0
    BY DEF Init, OpenInstall, OpenGc, Base
  <1>3. Numbers /\ Collected /\ Configuration /\ HistoryKept
    BY <1>2 DEF Init, Numbers, Collected, Configuration, HistoryKept
  <1>4. Installed /\ Serving
    BY <1>2 DEF Init, Installed, Serving
  <1>5. cli.at = "idle"
    BY DEF Init, Idle
  <1>6. Placed /\ ReceiptsKept
    BY <1>2, <1>5 DEF Placed, WorkPlaced, UndoPlaced, GcPlaced, Working, Recovering, Undoing, ReceiptsKept
  <1> QED
    BY <1>1, <1>3, <1>4, <1>6 DEF EnvInv

LEMMA EnvStays ==
    ASSUME EnvInv, UNCHANGED vars
    PROVE  EnvInv'
  <1>0. UNCHANGED <<tree, parked, current, settings, engine, journal, history, attempts, cli, bounds>>
    BY DEF vars, disk, records
  <1>1. TypeOK'
    BY <1>0 DEF EnvInv, TypeOK
  <1>2. Numbers' /\ Installed' /\ Collected' /\ Serving' /\ Configuration' /\ HistoryKept'
    BY <1>0, SameParts
  <1>3. Placed'
    BY <1>0 DEF EnvInv, Placed, WorkPlaced, UndoPlaced, GcPlaced, OpenInstall, OpenGc, Last, Pending,
                Incomplete, Done, Published
  <1>4. ReceiptsKept'
    BY <1>0 DEF EnvInv, ReceiptsKept
  <1> QED
    BY <1>1, <1>2, <1>3, <1>4 DEF EnvInv

LEMMA EnvSteps ==
    ASSUME EnvInv, Steps
    PROVE  EnvInv'
  <1>1. CASE \E e \in Engines : StartCommand(e) \/ StopCommand(e) \/ BeginSetup(e)
    BY <1>1, CommandTurnKept, BeginInstallsKept
  <1>2. CASE \E e \in Engines : StartTarget(e)
    BY <1>2, StartTargetKept
  <1>3. CASE \E e \in Engines : StopPrevious(e)
    BY <1>3, StopPreviousKept
  <1>4. CASE \E e \in Engines : RecoverStop(e) \/ RecoverStart(e)
    BY <1>4, RecoverStopKept, RecoverStartKept
  <1>5. CASE BeginActivation(<<>>) \/ \E s \in Settings : BeginActivation(<<settings, s>>)
    BY <1>5, BeginInstallsKept
  <1>6. CASE RecoverPending \/ Refuse \/ RevalidateFails \/ StopRefused \/ RecoveryRefused
    BY <1>6, RecoverPendingKept, RestKept
  <1>7. CASE Build \/ Activate \/ Revalidate \/ WriteSettings \/ SetCurrent \/ Complete
    BY <1>7, BuildKept, ActivateKept, RevalidateKept, SettingsKept, PointerKept, CompleteKept
  <1>8. CASE RecoverSettings \/ RecoverCurrent \/ RecoverTree \/ RecoverReceipt \/ RolledBack
    BY <1>8, SettingsKept, PointerKept, RecoverTreeKept, RecoverReceiptKept, RolledBackKept
  <1>9. CASE BeginCollection \/ Park \/ CommitCollection \/ Clean \/ Unpark \/ CollectionUndone
    BY <1>9, BeginCollectionKept, ParkKept, CollectionClosedKept, CleanKept, UnparkKept
  <1> QED
    BY <1>1, <1>2, <1>3, <1>4, <1>5, <1>6, <1>7, <1>8, <1>9 DEF Steps

LEMMA EnvNext ==
    ASSUME EnvInv, [Next]_vars
    PROVE  EnvInv'
  <1>1. CASE Steps
    BY <1>1, EnvSteps
  <1>2. CASE UNCHANGED vars
    BY <1>2, EnvStays
  <1>3. CASE (\E c \in Commands : Command(c)) \/ RecoveryRaises \/ Crash
    BY <1>3, RestKept
  <1>4. CASE Raise
    BY <1>4, RaiseKept
  <1>5. CASE \E e \in Engines : StartFails(e)
    BY <1>5, StartTargetKept
  <1>6. CASE \E g \in Generations, e \in Engines : CrashInStart(g, e) \/ Lose(g, e)
    BY <1>6, CrashInStartKept, LoseKept
  <1> QED
    BY <1>1, <1>2, <1>3, <1>4, <1>5, <1>6 DEF Next

(* Whatever is interrupted, and wherever: each stage of a journal tells    *)
(* what is left to undo, and the tool's place how far it has come.         *)
THEOREM EnvInvariant == Spec => []EnvInv
  <1>1. Init => EnvInv
    BY EnvStarts
  <1>2. EnvInv /\ [Next]_vars => EnvInv'
    BY EnvNext
  <1> QED
    BY <1>1, <1>2, PTL DEF Spec

-----------------------------------------------------------------------------
(* No interruption costs a generation that is in use, that an operation    *)
(* would go back to, or that no committed collection named.                *)
LEMMA InvWhole ==
    ASSUME EnvInv
    PROVE  GenerationsWhole
  <1> USE DEF EnvInv
  <1>0. TypeOK
    OBVIOUS
  <1>1. CurrentIsWhole
    BY DEF Installed, Base, CurrentIsWhole
  <1>2. ASSUME NEW i \in DOMAIN journal, Incomplete(i) PROVE Last = journal[i] /\ (OpenInstall \/ OpenGc)
    <2>1. i = Len(journal) /\ journal # <<>>
      BY <1>0, <1>2, JournalTypes DEF Numbers
    <2> QED
      BY <1>0, <1>2, <2>1, JournalTypes DEF Last, OpenInstall, OpenGc, Incomplete
  <1>3. ASSUME NEW i \in DOMAIN journal, Incomplete(i), journal[i].previous # 0
        PROVE  tree[journal[i].previous] = "whole"
    <2>1. Last = journal[i] /\ (OpenInstall \/ OpenGc)
      BY <1>2, <1>3
    <2>2. CASE OpenInstall
      BY <1>3, <2>1, <2>2 DEF Installed, Base
    <2>3. CASE OpenGc
      BY <1>1, <1>3, <2>1, <2>3 DEF Collected, CurrentIsWhole
    <2> QED
      BY <2>1, <2>2, <2>3
  <1>4. ASSUME NEW g \in Predecessors(current) PROVE tree[g] = "whole"
    <2>1. PICK i \in DOMAIN journal :
             Done(i) /\ journal[i].target = current /\ journal[i].previous = g /\ g # 0
      BY <1>0, OnePredecessor
    <2>2. CASE Base = current
      BY <2>1, <2>2 DEF Installed
    <2>3. CASE Base # current
      <3>1. OpenInstall /\ current = Last.target
        BY <2>3 DEF Installed, Base
      <3>2. i < Len(journal) /\ Len(journal) \in DOMAIN journal
        BY <1>0, <2>1, <3>1, JournalTypes DEF OpenInstall, Last, Done, Ended
      <3>3. journal[i].target < Last.target
        BY <2>1, <3>1, <3>2 DEF Numbers, Done, OpenInstall, Last, Ended
      <3> QED
        BY <1>0, <2>1, <3>1, <3>3, JournalTypes
    <2> QED
      BY <2>2, <2>3
  <1>5. FallbackKept
    BY <1>3, <1>4 DEF FallbackKept
  <1>6. CollectionLosesNothing
    <2>1. ASSUME NEW i \in DOMAIN journal, journal[i].op = "gc", Incomplete(i),
                 NEW g \in journal[i].collected
          PROVE  (tree[g] = "whole") # (g \in parked)
      <3>1. Last = journal[i] /\ OpenGc
        BY <1>2, <2>1 DEF OpenInstall, Installs
      <3> QED
        BY <2>1, <3>1 DEF Collected
    <2>2. ASSUME NEW g \in parked
          PROVE  \E i \in DOMAIN journal : journal[i].stage # "rolled-back" /\ g \in journal[i].collected
      BY <1>0, <2>2, JournalTypes DEF Collected, Last
    <2> QED
      BY <2>1, <2>2 DEF CollectionLosesNothing
  <1> QED
    BY <1>1, <1>5, <1>6 DEF GenerationsWhole

(* In every reachable state: `current`, whatever an open operation would   *)
(* restore, the predecessor of the selected generation and everything in   *)
(* a collection that is not committed are on disk and whole.               *)
THEOREM GenerationsStayWhole == Spec => []GenerationsWhole
  <1>1. EnvInv => GenerationsWhole
    BY InvWhole
  <1> QED
    BY <1>1, EnvInvariant, PTL

(* Once no operation is open, engines run in the selected generation only. *)
THEOREM OneServes == Spec => []OneGenerationServes
  <1>1. EnvInv => OneGenerationServes
    <2> SUFFICES ASSUME EnvInv, \A i \in DOMAIN journal : ~Incomplete(i),
                        NEW g \in Generations, NEW e \in Engines, engine[g][e] = "ready"
                 PROVE  g = current
      BY DEF OneGenerationServes
    <2>1. ~OpenInstall
      BY JournalTypes DEF EnvInv, OpenInstall, Last, Incomplete
    <2> QED
      BY <2>1 DEF EnvInv, Serving
  <1> QED
    BY <1>1, EnvInvariant, PTL

LEMMA InvHistory ==
    ASSUME EnvInv
    PROVE  HistoryTellsCurrent
  <1> USE DEF EnvInv
  <1> DEFINE done == {i \in DOMAIN journal : Done(i)}
             told == {history[k] : k \in DOMAIN history}
  <1>0. /\ TypeOK /\ history \in Seq(DOMAIN journal) /\ DOMAIN history = 1 .. Len(history)
        /\ Len(history) \in Nat /\ \A k \in DOMAIN history : history[k] \in DOMAIN journal
    <2>1. history \in Seq(DOMAIN journal)
      BY DEF TypeOK
    <2> QED
      BY <2>1
  <1>1. told \subseteq done
    BY <1>0 DEF HistoryKept
  <1>2. \A k \in DOMAIN history, l \in DOMAIN history : k < l => history[k] < history[l]
    BY DEF HistoryKept
  <1>3. \A i \in done \ told : \A k \in done : k <= i
    BY DEF HistoryKept, Published
  <1>4. ASSUME told = done, history # <<>>, \A i \in DOMAIN journal : ~Incomplete(i)
        PROVE  journal[history[Len(history)]].target = current
    <2> DEFINE n == Len(history)
    <2>1. n \in DOMAIN history /\ history[n] \in DOMAIN journal /\ Done(history[n])
      BY <1>0, <1>4 DEF HistoryKept
    <2>2. ASSUME NEW k \in DOMAIN journal, Done(k) PROVE k <= history[n]
      <3>1. PICK m \in DOMAIN history : history[m] = k
        BY <1>4, <2>2
      <3>2. m < n \/ m = n
        BY <1>0
      <3> QED
        BY <1>0, <1>2, <2>1, <3>1, <3>2, JournalTypes
    <2>3. Base = current
      BY <1>0, <1>4, JournalTypes DEF Base, OpenInstall, Last, Incomplete
    <2> QED
      BY <2>1, <2>2, <2>3 DEF Numbers
  <1> QED
    BY <1>1, <1>2, <1>3, <1>4 DEF HistoryTellsCurrent

LEMMA InvReceipts ==
    ASSUME EnvInv
    PROVE  OneReceipt
  <1> USE DEF EnvInv
  <1> SUFFICES ASSUME NEW i \in DOMAIN journal
               PROVE  LET n == Cardinality({k \in DOMAIN attempts : attempts[k] = i}) IN
                      /\ n <= 1
                      /\ journal[i].stage = "complete" => n = 0
                      /\ journal[i].stage = "rolled-back" /\ journal[i].op = "restore" => n = 1
    BY DEF OneReceipt
  <1> DEFINE S == {k \in DOMAIN attempts : attempts[k] = i}
  <1>1. CASE S = {}
    <2>1. Cardinality(S) = 0
      BY <1>1, FS_EmptySet
    <2>2. ~(journal[i].stage = "rolled-back" /\ journal[i].op = "restore")
      BY <1>1 DEF ReceiptsKept
    <2> QED
      BY <2>1, <2>2
  <1>2. CASE S # {}
    <2>1. PICK k \in DOMAIN attempts : attempts[k] = i
      BY <1>2
    <2>2. S = {k}
      BY <2>1 DEF ReceiptsKept
    <2>3. Cardinality(S) = 1
      BY <2>2, FS_Singleton
    <2>4. journal[i].stage # "complete"
      BY <2>1 DEF ReceiptsKept
    <2> QED
      BY <2>3, <2>4
  <1> QED
    BY <1>1, <1>2

(* The published history is the completed operations in their order and    *)
(* ends in the selected generation; each failed restore has one receipt.   *)
THEOREM LogsAreTrue == Spec => []LogsTellTheTruth
  <1>1. EnvInv => LogsTellTheTruth
    BY InvHistory, InvReceipts DEF LogsTellTheTruth
  <1> QED
    BY <1>1, EnvInvariant, PTL

-----------------------------------------------------------------------------
(* Who writes the journal, the pointer and the settings.                   *)

Written(s) ==
    /\ Restaged(s) /\ UNCHANGED <<current, settings>>
    /\ (OpenInstall /\ Last.stage # "switching") \/ OpenGc
Planned(j) ==
    /\ cli.at = "begin" /\ UNCHANGED <<current, settings>> /\ journal' = Append(journal, j)
    /\ j.stage = "planned" /\ j.previous = current
Marked == Complete \/ RolledBack \/ CommitCollection \/ CollectionUndone
Pointed == WriteSettings \/ RecoverSettings \/ SetCurrent \/ RecoverCurrent

LEMMA Writers ==
    ASSUME EnvInv, [Next]_vars
    PROVE  \/ UNCHANGED <<journal, current, settings>>
           \/ Pointed \/ Marked
           \/ \E j \in Journals : Planned(j)
           \/ \E s \in {"building", "starting", "switching"} : Written(s)
  <1> USE DEF disk, records
  <1>0. TypeOK
    BY DEF EnvInv
  <1>1. CASE UNCHANGED vars
    BY <1>1 DEF vars
  <1>2. CASE \/ \E c \in Commands : Command(c)
             \/ RecoverPending \/ Refuse \/ Raise \/ RecoveryRaises \/ Crash
             \/ \E e \in Engines : StartFails(e) \/ StartCommand(e) \/ StopCommand(e) \/ StartTarget(e)
             \/ \E g \in Generations, e \in Engines : CrashInStart(g, e) \/ Lose(g, e)
    BY <1>2 DEF Command, RecoverPending, Refuse, Raise, RecoveryRaises, Crash, StartFails,
                StartCommand, StopCommand, StartTarget, CrashInStart, Lose
  <1>3. CASE \/ RevalidateFails \/ StopRefused \/ RecoveryRefused \/ RecoverTree \/ RecoverReceipt
             \/ Clean \/ Unpark
             \/ \E e \in Engines : StopPrevious(e) \/ RecoverStop(e) \/ RecoverStart(e)
    BY <1>3 DEF RevalidateFails, StopRefused, RecoveryRefused, RecoverTree, RecoverReceipt,
                Clean, Unpark, StopPrevious, RecoverStop, RecoverStart
  <1>4. CASE Pointed \/ Marked
    BY <1>4
  <1>5. ASSUME NEW op \in Installs, NEW running \in SUBSET Engines, NEW halted \in SUBSET Engines,
               NEW change \in Seq(Settings), cli.at = "begin", UNCHANGED disk,
               Begin(op, NextGeneration, running, halted, change)
        PROVE  \E j \in Journals : Planned(j)
    <2> DEFINE j == NewJournal(op, NextGeneration, running, halted, change, {})
    <2>1. j \in Journals /\ j.stage = "planned" /\ j.previous = current
      BY <1>0, <1>5, NewTyped DEF Begin
    <2>2. journal' = Append(journal, j)
      BY <1>5 DEF Begin
    <2> HIDE DEF j
    <2> QED
      BY <1>5, <2>1, <2>2 DEF Planned
  <1>6. CASE \E e \in Engines : BeginSetup(e)
    <2>1. PICK e \in Engines : BeginSetup(e)
      BY <1>6
    <2>2. "setup" \in Installs /\ {e} \in SUBSET Engines /\ {} \in SUBSET Engines /\ <<>> \in Seq(Settings)
      BY DEF Installs
    <2> QED
      BY <1>5, <2>1, <2>2 DEF BeginSetup
  <1>7. ASSUME NEW change \in Seq(Settings), BeginActivation(change)
        PROVE  \E j \in Journals : Planned(j)
    <2> DEFINE running == {e \in Engines : engine[current][e] = "ready"}
               halted == {e \in Engines : engine[current][e] = "stopped"}
    <2>1. /\ running \in SUBSET Engines /\ halted \in SUBSET Engines
          /\ cli.at = "begin" /\ cli.want \in Installs /\ UNCHANGED disk
          /\ Begin(cli.want, NextGeneration, running, halted, change)
      BY <1>7 DEF BeginActivation, Installs
    <2> HIDE DEF running, halted
    <2> QED
      BY <1>5, <1>7, <2>1
  <1>8. CASE BeginActivation(<<>>) \/ \E s \in Settings : BeginActivation(<<settings, s>>)
    <2>1. <<>> \in Seq(Settings) /\ \A s \in Settings : <<settings, s>> \in Seq(Settings)
      BY <1>0 DEF TypeOK
    <2> QED
      BY <1>7, <1>8, <2>1
  <1>9. CASE BeginCollection
    <2> DEFINE collected == {g \in Generations \ Retained : tree[g] # "absent"}
               j == NewJournal("gc", current, {}, {}, <<>>, collected)
    <2>1. cli.at = "begin" /\ current # 0 /\ journal' = Append(journal, j) /\ UNCHANGED disk
      BY <1>9 DEF BeginCollection
    <2>2. collected \in SUBSET Generations /\ current \in Generations
          /\ <<>> \in Seq(Settings) /\ {} \in SUBSET Engines
      BY <1>0, <2>1 DEF TypeOK, Generations
    <2> HIDE DEF collected
    <2>3. j \in Journals /\ j.stage = "planned" /\ j.previous = current
      BY <1>0, <2>2 DEF NewJournal, Journals, TypeOK, Stages
    <2> HIDE DEF j
    <2> QED
      BY <2>1, <2>3 DEF Planned
  <1>10. CASE Build
    <2>1. journal # <<>> /\ cli.op = Len(journal) /\ OpenInstall /\ Last.stage # "switching"
      BY <1>10, AtBuild DEF Build
    <2>2. CASE UNCHANGED journal
      BY <1>10, <2>2 DEF Build
    <2>3. CASE WriteStage("building")
      BY <1>0, <1>10, <2>1, <2>3, StageWritten DEF Build, Stages, Written
    <2> QED
      BY <1>10, <2>2, <2>3 DEF Build
  <1>11. CASE Activate
    <2>1. journal # <<>> /\ cli.op = Len(journal) /\ OpenInstall /\ Last.stage # "switching"
      BY <1>11, AtBuild DEF Activate
    <2>2. Len(history) + 1 \in Nat
      BY <1>0 DEF TypeOK
    <2>3. journal' = [journal EXCEPT ![cli.op].stage = "starting", ![cli.op].entry = Len(history) + 1]
      BY <1>11 DEF Activate
    <2>4. Restaged("starting")
      BY <1>0, <2>1, <2>2, <2>3, StageWritten DEF Stages
    <2> QED
      BY <1>11, <2>1, <2>4 DEF Activate, Written
  <1>12. CASE Revalidate
    <2>1. journal # <<>> /\ cli.op = Len(journal) /\ OpenInstall /\ Last.stage # "switching"
      BY <1>12, AtBuild DEF Revalidate
    <2>2. Restaged("switching")
      BY <1>0, <1>12, <2>1, StageWritten DEF Stages, Revalidate
    <2> QED
      BY <1>12, <2>1, <2>2 DEF Revalidate, Written
  <1>13. CASE Park
    <2>1. cli.at = "gc_move" /\ WriteStage("building") /\ UNCHANGED <<current, settings>>
      BY <1>13 DEF Park
    <2>2. journal # <<>> /\ cli.op = Len(journal) /\ OpenGc
      BY <2>1 DEF EnvInv, Placed, GcPlaced, OpenGc, Working
    <2>3. Restaged("building")
      BY <1>0, <2>1, <2>2, StageWritten DEF Stages
    <2> QED
      BY <2>1, <2>2, <2>3 DEF Written
  <1> QED
    BY <1>1, <1>2, <1>3, <1>4, <1>6, <1>8, <1>9, <1>10, <1>11, <1>12, <1>13
    DEF Next, Steps, Pointed, Marked

(* An operation is marked rolled-back only by the last step of its         *)
(* recovery, when everything it found is back in force.                    *)
THEOREM RollbackRestores == Spec => RolledBackRestores
  <1> DEFINE Restored(i) ==
               Incomplete(i) /\ journal'[i].stage = "rolled-back" /\ journal[i].op # "gc" =>
                 /\ current = journal[i].previous
                 /\ tree[journal[i].target] = "absent"
                 /\ journal[i].settings # <<>> => settings = journal[i].settings[1]
                 /\ \A e \in Engines : engine[journal[i].target][e] # "ready"
                 /\ journal[i].previous # 0 =>
                       \A e \in journal[i].running :
                          engine[journal[i].previous][e] \in {"ready", "lost"}
             Act == \A i \in DOMAIN journal : Restored(i)
  <1>1. ASSUME EnvInv, [Next]_vars, NEW i \in DOMAIN journal, Incomplete(i),
               journal'[i].stage = "rolled-back", journal[i].op # "gc"
        PROVE  RolledBack /\ i = Len(journal) /\ journal[i] = Last
    <2>0. TypeOK /\ i = Len(journal) /\ journal[i] = Last /\ journal # <<>> /\ Last.op # "gc"
      BY <1>1, JournalTypes DEF EnvInv, Numbers, Last
    <2>1. journal[i].stage # "rolled-back"
      BY <1>1 DEF Incomplete, Ended
    <2>2. CASE UNCHANGED journal
      BY <1>1, <2>1, <2>2
    <2>3. CASE \E j \in Journals : Planned(j)
      BY <1>1, <2>0, <2>1, <2>3, JournalAdded DEF Planned
    <2>4. CASE \E s \in {"building", "starting", "switching"} : Written(s)
      BY <1>1, <2>0, <2>4 DEF Written, Restaged
    <2>5. CASE Pointed
      BY <1>1, <2>1, <2>5 DEF Pointed, WriteSettings, RecoverSettings, SetCurrent, RecoverCurrent, records
    <2>6. CASE Complete
      <3>1. cli.op = Len(journal)
        BY <1>1, <2>6 DEF Complete, EnvInv, Placed, Working
      <3>2. Restaged("complete")
        BY <2>0, <2>6, <3>1, StageWritten DEF Complete, Stages
      <3> QED
        BY <1>1, <2>0, <3>2 DEF Restaged
    <2>7. CASE CommitCollection \/ CollectionUndone
      BY <1>1, <2>0, <2>7 DEF CommitCollection, CollectionUndone, EnvInv, Placed, GcPlaced, OpenGc
    <2> QED
      BY <1>1, <2>0, <2>2, <2>3, <2>4, <2>5, <2>6, <2>7, Writers DEF Marked
  <1>2. ASSUME EnvInv, [Next]_vars PROVE Act
    <2> SUFFICES ASSUME NEW i \in DOMAIN journal, Incomplete(i), journal'[i].stage = "rolled-back",
                        journal[i].op # "gc"
                 PROVE  /\ current = journal[i].previous
                        /\ tree[journal[i].target] = "absent"
                        /\ journal[i].settings # <<>> => settings = journal[i].settings[1]
                        /\ \A e \in Engines : engine[journal[i].target][e] # "ready"
                        /\ journal[i].previous # 0 =>
                              \A e \in journal[i].running :
                                 engine[journal[i].previous][e] \in {"ready", "lost"}
      OBVIOUS
    <2>1. cli.at = "r_done" /\ journal[i] = Last
      BY <1>1, <1>2 DEF RolledBack
    <2> QED
      BY <1>2, <2>1 DEF EnvInv, Placed, UndoPlaced, Undoing
  <1>3. EnvInv /\ [Next]_vars => [Act]_vars
    BY <1>2
  <1>4. Spec => [][Act]_vars
    <2> HIDE DEF Act
    <2> QED
      BY <1>3, EnvInvariant, PTL DEF Spec
  <1> QED
    BY <1>4 DEF RolledBackRestores

-----------------------------------------------------------------------------
(* Environment implements EnvironmentVersions.                             *)

Taken == {journal[i].target : i \in {k \in DOMAIN journal : Done(k)}}
Conf ==
    IF OpenInstall /\ Last.stage = "switching" /\ Last.settings # <<>>
      THEN Last.settings[1] ELSE settings

(* An open installation is the last journal, and alone.                    *)
LEMMA OneOpen ==
    ASSUME NEW q \in Seq(Journals), \A i \in DOMAIN q : q[i].stage \notin Ended => i = Len(q),
           NEW S, S = {i \in DOMAIN q : q[i].stage \notin Ended /\ q[i].op # "gc"}
    PROVE  /\ S # {} <=> q # <<>> /\ q[Len(q)].op \in Installs /\ q[Len(q)].stage \notin Ended
           /\ S # {} => Max(S) = Len(q)
  <1>1. /\ DOMAIN q = 1 .. Len(q) /\ Len(q) \in Nat
        /\ q # <<>> => Len(q) \in DOMAIN q
    OBVIOUS
  <1>2. \A i \in DOMAIN q : q[i].op \in Installs \cup {"gc"}
    <2>1. \A i \in DOMAIN q : q[i] \in Journals
      OBVIOUS
    <2> QED
      BY <2>1 DEF Journals
  <1>3. S # {} => S = {Len(q)}
    OBVIOUS
  <1>4. S # {} <=> q # <<>> /\ q[Len(q)].op \in Installs /\ q[Len(q)].stage \notin Ended
    BY <1>1, <1>2, <1>3 DEF Installs
  <1>5. ASSUME S # {} PROVE Max(S) = Len(q)
    <2>1. S \in SUBSET (0 .. Len(q))
      BY <1>1
    <2>2. Max(S) \in S
      BY <1>1, <1>5, <2>1, Extremes
    <2> QED
      BY <1>3, <1>5, <2>2
  <1> QED
    BY <1>4, <1>5

LEMMA MapNow ==
    ASSUME EnvInv
    PROVE  Committed = Base /\ Configured = Conf
  <1>1. /\ Open # {} <=> OpenInstall
        /\ Open # {} => Max(Open) = Len(journal)
    BY OneOpen DEF EnvInv, TypeOK, Numbers, Incomplete, Open, OpenInstall, Last
  <1> QED
    BY <1>1 DEF Committed, Configured, Base, Conf, Last

LEMMA MapNext ==
    ASSUME EnvInv'
    PROVE  Committed' = Base' /\ Configured' = Conf'
  <1>1. /\ Open' # {} <=> OpenInstall'
        /\ Open' # {} => Max(Open') = Len(journal')
    BY OneOpen DEF EnvInv, TypeOK, Numbers, Incomplete, Open, OpenInstall, Last
  <1> QED
    BY <1>1 DEF Committed, Configured, Base, Conf, Last

LEMMA TakenSame ==
    ASSUME \A i \in DOMAIN journal : /\ i \in DOMAIN journal' /\ (Done(i)' <=> Done(i))
                                     /\ journal'[i].target = journal[i].target,
           \A i \in DOMAIN journal' : i \in DOMAIN journal \/ ~Done(i)'
    PROVE  Taken' = Taken
  <1>1. \A x \in Taken : x \in Taken'
    BY DEF Taken
  <1>2. \A x \in Taken' : x \in Taken
    BY DEF Taken
  <1> QED
    BY <1>1, <1>2

Unseen == Base' = Base /\ Conf' = Conf /\ Taken' = Taken

LEMMA UnseenKept ==
    ASSUME EnvInv, [Next]_vars
    PROVE  Unseen \/ Complete
  <1>0. /\ TypeOK /\ Len(journal) \in Nat
        /\ journal # <<>> => Len(journal) \in DOMAIN journal
    BY JournalTypes DEF EnvInv
  <1>1. CASE UNCHANGED <<journal, current, settings>>
    BY <1>1 DEF Unseen, Base, Conf, Taken, OpenInstall, Last, Done
  <1>2. CASE Pointed
    <2>1. UNCHANGED journal
      BY <1>2 DEF Pointed, WriteSettings, RecoverSettings, SetCurrent, RecoverCurrent, records
    <2>2. (OpenInstall' <=> OpenInstall) /\ Last' = Last /\ Taken' = Taken
      BY <2>1, SameJournal DEF Taken, Done
    <2>3. /\ cli.at \in Working \cup (Recovering \ {"recover"})
          /\ cli.at \in {"settings", "switch", "r_stop", "r_current"}
      BY <1>2 DEF Pointed, WriteSettings, RecoverSettings, SetCurrent, RecoverCurrent, Working, Recovering
    <2>4. J = Last /\ OpenInstall
      BY <2>3, AtWork DEF EnvInv, Placed, WorkPlaced, UndoPlaced, Undoing
    <2>5. Base' = Base
      BY <2>2, <2>4 DEF Base
    <2>6. CASE WriteSettings
      <3>1. Last.stage = "switching"
        BY <2>6 DEF WriteSettings, EnvInv, Placed, WorkPlaced
      <3>2. Conf' = Conf
        BY <2>2, <2>4, <2>6, <3>1 DEF WriteSettings, Conf
      <3> QED
        BY <2>2, <2>5, <3>2 DEF Unseen
    <2>7. CASE RecoverSettings
      <3>1. Conf' = Conf
        BY <2>2, <2>4, <2>7 DEF RecoverSettings, Conf
      <3> QED
        BY <2>2, <2>5, <3>1 DEF Unseen
    <2>8. CASE SetCurrent \/ RecoverCurrent
      <3>1. Conf' = Conf
        BY <2>2, <2>8 DEF SetCurrent, RecoverCurrent, Conf
      <3> QED
        BY <2>2, <2>5, <3>1 DEF Unseen
    <2> QED
      BY <1>2, <2>6, <2>7, <2>8 DEF Pointed
  <1>3. CASE \E j \in Journals : Planned(j)
    <2>1. PICK j \in Journals : Planned(j)
      BY <1>3
    <2>2. /\ journal' # <<>> /\ DOMAIN journal \subseteq DOMAIN journal'
          /\ \A i \in DOMAIN journal : journal'[i] = journal[i]
          /\ \A i \in DOMAIN journal' : i \in DOMAIN journal \/ i = Len(journal')
          /\ Last' = j
      BY <1>0, <2>1, JournalAdded DEF Planned
    <2>3. ~OpenInstall /\ Base = current /\ Conf = settings
      BY <2>1, NonePending DEF Planned, Conf
    <2>4. Base' = Base /\ Conf' = Conf
      BY <2>1, <2>2, <2>3 DEF Planned, Base, Conf, OpenInstall
    <2>5. \A i \in DOMAIN journal : Done(i)' <=> Done(i)
      BY <2>2 DEF Done
    <2>6. \A i \in DOMAIN journal' : i \in DOMAIN journal \/ ~Done(i)'
      BY <2>1, <2>2 DEF Done, Last, Planned
    <2> QED
      BY <2>2, <2>4, <2>5, <2>6, TakenSame DEF Unseen
  <1>4. CASE \E s \in {"building", "starting", "switching"} : Written(s)
    <2>1. PICK s \in {"building", "starting", "switching"} : Written(s)
      BY <1>4
    <2>2. s \in Stages \ Ended
      BY DEF Stages, Ended
    <2>3. SameShape
      BY <2>1, <2>2, OpenShape DEF Written
    <2>4. /\ Base' = Base /\ (OpenInstall' <=> OpenInstall) /\ Last'.settings = Last.settings
          /\ \A i \in DOMAIN journal : Done(i)' <=> Done(i)
      BY <2>1, <2>3, ShapeKept DEF Written
    <2>5. Taken' = Taken
      BY <2>3, <2>4, TakenSame DEF SameShape
    <2>6. Conf' = Conf
      <3>1. CASE OpenInstall
        <4>1. Last.stage # "switching"
          BY <2>1, <3>1 DEF Written, OpenGc, OpenInstall, Installs
        <4>2. Last.settings # <<>> => settings = Last.settings[1]
          BY <3>1, <4>1 DEF EnvInv, Configuration
        <4>3. settings' = settings
          BY <2>1 DEF Written
        <4> QED
          BY <2>4, <4>1, <4>2, <4>3 DEF Conf
      <3>2. CASE ~OpenInstall
        BY <2>1, <2>4, <3>2 DEF Written, Conf
      <3> QED
        BY <3>1, <3>2
    <2> QED
      BY <2>4, <2>5, <2>6 DEF Unseen
  <1>5. ASSUME NEW s \in Ended, Restaged(s), Last.stage \notin Ended, s = "complete" => Last.op = "gc",
               UNCHANGED <<current, settings>>, Base = current, Conf = settings
        PROVE  Unseen
    <2>1. Base' = current' /\ ~OpenInstall'
      BY <1>5, Closed
    <2>2. Base' = Base /\ Conf' = Conf
      BY <1>5, <2>1 DEF Conf
    <2>3. \A i \in DOMAIN journal : Done(i)' <=> Done(i)
      BY <1>5, <2>2, ClosedNumbers
    <2>4. Taken' = Taken
      BY <1>5, <2>3, TakenSame DEF Restaged
    <2> QED
      BY <2>2, <2>4 DEF Unseen
  <1>6. CASE RolledBack
    <2>1. cli.at = "r_done" /\ WriteStage("rolled-back") /\ UNCHANGED <<current, settings>>
      BY <1>6 DEF RolledBack, disk
    <2>2. /\ OpenInstall /\ current = Last.previous /\ cli.op = Len(journal)
          /\ Last.settings # <<>> => settings = Last.settings[1]
      BY <2>1 DEF EnvInv, Placed, UndoPlaced, Undoing, Recovering
    <2>3. Restaged("rolled-back") /\ "rolled-back" \in Ended /\ Last.stage \notin Ended
      BY <1>0, <2>1, <2>2, StageWritten DEF Stages, Ended, OpenInstall
    <2>4. Base = current /\ Conf = settings
      BY <2>2 DEF Base, Conf
    <2> QED
      BY <1>5, <2>1, <2>3, <2>4
  <1>7. CASE CommitCollection \/ CollectionUndone
    <2>1. PICK s \in Ended : WriteStage(s) /\ UNCHANGED <<current, settings>>
      BY <1>7 DEF CommitCollection, CollectionUndone, disk, Ended
    <2>2. cli.op = Len(journal) /\ OpenGc /\ ~OpenInstall
      BY <1>7 DEF CommitCollection, CollectionUndone, EnvInv, Placed, GcPlaced, Working, Recovering, OpenGc,
                  OpenInstall, Installs
    <2>3. Restaged(s) /\ Last.stage \notin Ended /\ Last.op = "gc"
      BY <1>0, <2>1, <2>2, StageWritten DEF Stages, Ended, OpenGc
    <2>4. Base = current /\ Conf = settings
      BY <2>2 DEF Base, Conf
    <2> QED
      BY <1>5, <2>1, <2>3, <2>4
  <1> QED
    BY <1>1, <1>2, <1>3, <1>4, <1>6, <1>7, Writers DEF Marked

(* The commit point selects the target with the settings in force.         *)
LEMMA CompleteSelects ==
    ASSUME EnvInv, Complete
    PROVE  /\ Base' \in Nat \ ({0} \cup Taken) /\ Taken' = Taken \cup {Base'}
           /\ Conf' \in Settings
  <1> DEFINE L == Len(journal)
  <1>0. TypeOK /\ cli.at = "stop" /\ UNCHANGED <<current, settings>> /\ WriteStage("complete")
    BY DEF EnvInv, Complete, disk
  <1>1. cli.op = L /\ OpenInstall /\ current = Last.target /\ Last.op \in Installs /\ Last.stage \notin Ended
        /\ journal # <<>>
    BY <1>0 DEF EnvInv, Placed, WorkPlaced, OpenInstall, Working
  <1>2. Restaged("complete") /\ "complete" \in Ended
    BY <1>0, <1>1, StageWritten DEF Stages, Ended
  <1>3. /\ L \in DOMAIN journal /\ Base' = current' /\ ~OpenInstall'
        /\ \A i \in DOMAIN journal : /\ i # L => (Done(i)' <=> Done(i))
                                     /\ i = L => Done(i)' /\ ~Done(i)
        /\ DOMAIN journal' = DOMAIN journal
        /\ \A i \in DOMAIN journal : journal'[i].target = journal[i].target
    BY <1>1, <1>2, Closed DEF Restaged
  <1>4. Base' = Last.target /\ Base' = journal[L].target /\ Base' \in Nat \ {0}
    BY <1>0, <1>1, <1>3, JournalTypes DEF Last
  <1>5. Conf' \in Settings
    BY <1>0, <1>3 DEF Conf, TypeOK
  <1>6. ASSUME NEW i \in DOMAIN journal, Done(i) PROVE journal[i].target # Base'
    <2>1. i # L /\ i < L
      BY <1>0, <1>3, <1>6, JournalTypes
    <2>2. journal[i].target < Last.target
      BY <1>1, <1>3, <1>6, <2>1 DEF EnvInv, Numbers, Done, Last, Ended
    <2> QED
      BY <1>0, <1>4, <2>2, JournalTypes
  <1>7. Base' \notin Taken
    BY <1>6 DEF Taken
  <1>8. \A x \in Taken \cup {Base'} : x \in Taken'
    BY <1>3, <1>4 DEF Taken
  <1>9. \A x \in Taken' : x \in Taken \cup {Base'}
    BY <1>3, <1>4 DEF Taken
  <1> QED
    BY <1>4, <1>5, <1>7, <1>8, <1>9

(* Seen from outside, an operation selects its generation and its settings *)
(* in one step, when its journal is marked complete, or not at all.        *)
THEOREM EnvironmentImplementsVersions == Spec => ImplementsVersions
  <1>1. Init => Versions!Init
    <2> SUFFICES ASSUME Init PROVE Versions!Init
      OBVIOUS
    <2>1. Open = {} /\ DOMAIN journal = {}
      BY DEF Init, Open
    <2>2. {journal[i].target : i \in {k \in DOMAIN journal : Done(k)}} = {}
      BY <2>1
    <2> QED
      BY <2>1, <2>2 DEF Init, Versions!Init, Committed, Configured
  <1>2. ASSUME EnvInv, EnvInv', [Next]_vars
        PROVE  [Versions!Next]_<<Committed, Configured,
                                 {journal[i].target : i \in {k \in DOMAIN journal : Done(k)}}>>
    <2>1. /\ Committed = Base /\ Configured = Conf
          /\ {journal[i].target : i \in {k \in DOMAIN journal : Done(k)}} = Taken
      BY <1>2, MapNow DEF Taken
    <2>2. /\ Committed' = Base' /\ Configured' = Conf'
          /\ {journal[i].target : i \in {k \in DOMAIN journal : Done(k)}}' = Taken'
      BY <1>2, MapNext DEF Taken
    <2>3. CASE Unseen
      BY <2>1, <2>2, <2>3 DEF Unseen
    <2>4. CASE Complete
      <3>1. /\ Base' \in Nat \ ({0} \cup Taken) /\ Taken' = Taken \cup {Base'} /\ Conf' \in Settings
        BY <1>2, <2>4, CompleteSelects
      <3> QED
        BY <2>1, <2>2, <3>1 DEF Versions!Next, Versions!Select
    <2> QED
      BY <1>2, <2>3, <2>4, UnseenKept
  <1> QED
    BY <1>1, <1>2, EnvInvariant, PTL DEF Spec, ImplementsVersions, Versions!Spec

=============================================================================
