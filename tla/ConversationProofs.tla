------------------------- MODULE ConversationProofs -------------------------
(***************************************************************************)
(* What a resumable conversation promises, for any finite set of           *)
(* invocations and however often the socket breaks.                        *)
(*                                                                         *)
(* The inductive invariant ConvInv has one part for each thing that a      *)
(* break could spoil.  FramesRight: a frame under way says nothing that    *)
(* may stop being true before it is read.  StartedOnce: an invocation is   *)
(* in one place at a time on its way to the daemon.  Held: the resources   *)
(* of a result are held from its completion until its call has left the    *)
(* places from which it may be adopted, and cancels touch only calls given *)
(* up.  BoundOnce: the rebind of a connection is in one place only, and    *)
(* the daemon writes nothing else before it is answered.  MissingIsGone: a *)
(* status "missing" names no result that is being adopted.                 *)
(* CancelsFlagged: a cancel that reaches the daemon before a rebind is in  *)
(* the flags of that rebind.  AwaitedCovered: on an open connection what   *)
(* the engine waits for has a record, or there is a frame under way that   *)
(* will make or report one.                                                *)
(*                                                                         *)
(* Each part has a lemma of its own, by cases over the actions; Onward and *)
(* Advance, what never goes back on either side, carry most of it.         *)
(***************************************************************************)
EXTENDS Conversation, FiniteSetTheorems, TLAPS

USE ConversationAssumption

(* The places of a call from which its result may still be adopted, and    *)
(* those at which it has been given up.                                    *)
Unsent == {"new", "sending"}
Early == {"new", "sending", "waiting", "adopting"}
Lost == {"cancelled", "failed"}
Begun == {"writing", "sent", "gone"}

-----------------------------------------------------------------------------
(* The inductive invariant.                                                *)

(* A frame on its way to the daemon: what it says of the engine stays so.  *)
UpRight(f) ==
    /\ f.kind = "invoke" => eng[f.inv] \notin Unsent
    /\ f.kind = "ack" => eng[f.inv] \notin Early
    /\ f.kind = "cancel" => eng[f.inv] \in Lost /\ (f.inv \notin known \/ f.inv \in flagged)
    /\ f.kind = "rebind" => \A i \in f.flags : eng[i] \in Lost

(* A frame on its way to the engine: what it says of the daemon stays so.  *)
DownRight(f) ==
    /\ f.kind = "result" => task[f.inv] \in Begun /\ (eng[f.inv] \in Early => f.inv \in refs)
    /\ f.kind = "acked" => task[f.inv] \in Begun /\ rec[f.inv] = "none"

FramesRight ==
    /\ \A n \in DOMAIN upq : UpRight(upq[n])
    /\ \A n \in DOMAIN incoming : UpRight(incoming[n][2])
    /\ \A n \in DOMAIN downq : DownRight(downq[n])

(* An invocation is sent, recorded and started at most once.               *)
Invokes(f, i) == f.kind = "invoke" /\ f.inv = i
StartedOnce ==
    /\ \A i \in Invocations : \A m, n \in DOMAIN upq :
          Invokes(upq[m], i) /\ Invokes(upq[n], i) => m = n
    /\ \A i \in Invocations : \A m, n \in DOMAIN incoming :
          Invokes(incoming[m][2], i) /\ Invokes(incoming[n][2], i) => m = n
    /\ \A i \in Invocations : \A m \in DOMAIN upq : Invokes(upq[m], i) =>
          /\ rec[i] = "none" /\ task[i] = "none"
          /\ \A n \in DOMAIN incoming : ~Invokes(incoming[n][2], i)
    /\ \A i \in Invocations : \A n \in DOMAIN incoming :
          Invokes(incoming[n][2], i) => task[i] = "none"
    /\ \A i \in Invocations : eng[i] \in Unsent => rec[i] = "none" /\ task[i] = "none"
    /\ \A i \in Invocations : runs[i] = IF task[i] = "none" THEN 0 ELSE 1

(* Completed results are held, and cancels touch only calls given up.      *)
Held ==
    /\ \A i \in Invocations : task[i] \notin Begun => rec[i] # "completed"
    /\ refs = {i \in Invocations : rec[i] = "completed"}
    /\ \A i \in Invocations : eng[i] = "adopting" => task[i] \in Begun /\ i \in refs
    /\ \A i \in Invocations : task[i] = "writing" /\ eng[i] \in Early => i \in refs
    /\ \A i \in Invocations : eng[i] \in {"acking", "returned"} => task[i] \in Begun
    /\ \A i \in Invocations : eng[i] = "returned" => rec[i] = "none"
    /\ ackReady \subseteq known /\ \A i \in ackReady : eng[i] \notin Early
    /\ \A i \in flagged \cup cancelled \cup cancelling : eng[i] \in Lost
    /\ plan # <<>> => \A i \in plan[1].stop : eng[i] \in Lost
    /\ \A i \in cancelled : task[i] # "none"
    /\ \A i \in cancelling : i \notin known \/ i \in flagged

(* A connection is bound once: the rebind is still to be sent, in the      *)
(* socket, before the host loop, planned or answered.                      *)
IsRebind(f) == f.kind = "rebind"
Asked == \E n \in DOMAIN upq : IsRebind(upq[n])
Current(n) == incoming[n][1] = epoch
Read == \E n \in DOMAIN incoming : Current(n) /\ IsRebind(incoming[n][2])
Planned == plan # <<>> /\ plan[1].epoch = epoch

BoundOnce ==
    /\ attached =>
          /\ \A m, n \in DOMAIN upq : IsRebind(upq[m]) /\ IsRebind(upq[n]) => m = n
          /\ \A m, n \in DOMAIN incoming :
                Current(m) /\ Current(n) /\ IsRebind(incoming[m][2]) /\ IsRebind(incoming[n][2]) => m = n
          /\ sess = "attached" => ~Asked /\ ~Read /\ ~Planned /\ ~ready
          /\ Asked => ~Read /\ ~Planned /\ ~ready
          /\ Read => ~Planned /\ ~ready
          /\ ~ready => downq = <<>>
          /\ reply # <<>> => ready
    /\ ready => plan = <<>> /\ attached
    /\ link => attached /\ sess \in Writable
    /\ reply # <<>> => sess # "down"
    /\ \A n \in DOMAIN downq : downq[n].kind = "rebindResult" => n = 1
    /\ \A n \in DOMAIN incoming : incoming[n][1] <= epoch
    /\ plan # <<>> => plan[1].epoch <= epoch

(* A status "missing" is about no result that is being adopted.            *)
Gone(st) == \A i \in DOMAIN st : st[i] = "missing" /\ eng[i] = "acking" => rec[i] = "none"
Unread(st) == \A i \in DOMAIN st : st[i] = "missing" => eng[i] # "adopting"
Answer == downq # <<>> /\ downq[1].kind = "rebindResult"
MissingIsGone ==
    /\ attached /\ Planned => Gone(plan[1].status) /\ Unread(plan[1].status)
    /\ Answer => Gone(downq[1].inv) /\ Unread(downq[1].inv)
    /\ reply # <<>> => Gone(reply[1])

(* A cancel that reaches the daemon before a rebind is in its flags.       *)
Cancels(f, i) == f.kind = "cancel" /\ f.inv = i
Flags(f, i) == i \in known /\ i \in f.inv => i \in f.flags
UpClear(n, i) ==
    /\ i \notin cancelling
    /\ \A m \in 1 .. n-1 : ~Cancels(upq[m], i)
    /\ \A m \in DOMAIN incoming : Current(m) => ~Cancels(incoming[m][2], i)
HostClear(n, i) ==
    i \notin cancelling /\ \A m \in 1 .. n-1 : Current(m) => ~Cancels(incoming[m][2], i)
CancelsFlagged ==
    /\ \A n \in DOMAIN upq : IsRebind(upq[n]) =>
          \A i \in Invocations : Flags(upq[n], i) \/ UpClear(n, i)
    /\ \A n \in DOMAIN incoming : Current(n) /\ IsRebind(incoming[n][2]) =>
          \A i \in Invocations : Flags(incoming[n][2], i) \/ HostClear(n, i)
    /\ Planned => \A i \in cancelling \cap known \cap DOMAIN plan[1].status :
          plan[1].status[i] = "cancelled"
    /\ plan # <<>> => \A i \in plan[1].stop :
          i \in DOMAIN plan[1].status /\ plan[1].status[i] = "cancelled"
    /\ \A i \in cancelled : rec[i] # "none" => i \in cancelling \/ (plan # <<>> /\ i \in plan[1].stop)

(* What the engine waits for has a record, or a frame that will tell.      *)
UpCovers(i) == \E n \in DOMAIN upq : Invokes(upq[n], i) \/ Cancels(upq[n], i)
HostCovers(i) == \E n \in DOMAIN incoming : Current(n) /\ Cancels(incoming[n][2], i)
Reports(f, i) == f.kind \in {"acked", "cancelAck"} /\ f.inv = i
DownCovers(i) == \E n \in DOMAIN downq : Reports(downq[n], i)
Covered(i) == rec[i] # "none" \/ i \in cancelling \/ UpCovers(i) \/ HostCovers(i) \/ DownCovers(i)
Bound(st) ==
    \A i \in known \cap DOMAIN st :
        st[i] \in {"running", "completed"} /\ eng[i] # "sending" => Covered(i)
Open == link /\ attached /\ conv = "open"
AwaitedCovered ==
    Open =>
        /\ sess = "up" => ready /\ \A i \in known : eng[i] # "sending" => Covered(i)
        /\ Planned => Bound(plan[1].status)
        /\ Answer => Bound(downq[1].inv)
        /\ reply # <<>> => Bound(reply[1])

ConvInv ==
    /\ TypeOK /\ FramesRight /\ StartedOnce /\ Held /\ BoundOnce /\ MissingIsGone
    /\ CancelsFlagged /\ AwaitedCovered
-----------------------------------------------------------------------------
(* Queues.                                                                 *)

(* What reading the first frame of a queue does to the others.             *)
LEMMA Popped ==
    ASSUME NEW S, NEW q \in Seq(S), q # <<>>
    PROVE  /\ Tail(q) \in Seq(S) /\ Head(q) = q[1] /\ 1 \in DOMAIN q /\ q[1] \in S
           /\ \A n \in DOMAIN Tail(q) : /\ n \in Nat \ {0} /\ n+1 \in DOMAIN q
                                        /\ Tail(q)[n] = q[n+1]
           /\ \A n \in DOMAIN q : n # 1 => n-1 \in DOMAIN Tail(q) /\ Tail(q)[n-1] = q[n]
  OBVIOUS

(* What a frame written to a queue does to it.                             *)
LEMMA Pushed ==
    ASSUME NEW S, NEW q \in Seq(S), NEW f \in S
    PROVE  /\ Append(q, f) = q \o <<f>> /\ q \o <<f>> \in Seq(S)
           /\ DOMAIN (q \o <<f>>) = DOMAIN q \cup {Len(q)+1} /\ Len(q)+1 \notin DOMAIN q
           /\ DOMAIN q = 1 .. Len(q) /\ Len(q) \in Nat
           /\ \A n \in DOMAIN q : (q \o <<f>>)[n] = q[n]
           /\ (q \o <<f>>)[Len(q)+1] = f
  OBVIOUS

(* The frames before a frame of a queue.                                   *)
LEMMA Below ==
    ASSUME NEW S, NEW q \in Seq(S), NEW n \in DOMAIN q
    PROVE  n \in Nat \ {0} /\ \A m \in 1 .. n-1 : m \in DOMAIN q
  OBVIOUS

(* What an answer, a frame and the frames after it, does to a queue.       *)
LEMMA Answered ==
    ASSUME NEW S, NEW q \in Seq(S), NEW f \in S, NEW r \in Seq(S)
    PROVE  LET a == q \o (<<f>> \o r) IN
           /\ a \in Seq(S)
           /\ \A n \in DOMAIN a : \/ n \in DOMAIN q /\ a[n] = q[n]
                                  \/ n = Len(q)+1 /\ a[n] = f
                                  \/ n > Len(q)+1 /\ \E m \in DOMAIN r : a[n] = r[m]
           /\ Len(q)+1 \in DOMAIN a /\ a[Len(q)+1] = f
           /\ DOMAIN q \subseteq DOMAIN a
  <1> DEFINE b == <<f>> \o r
             a == q \o b
  <1>1. /\ b \in Seq(S) /\ Len(b) = Len(r) + 1 /\ b[1] = f
        /\ Len(r) \in Nat /\ Len(q) \in Nat
        /\ \A n \in 1 .. Len(b) : n > 1 => b[n] = r[n-1]
    OBVIOUS
  <1> HIDE DEF b
  <1>2. /\ a \in Seq(S) /\ Len(a) = Len(q) + Len(b)
        /\ \A n \in 1 .. Len(a) : a[n] = IF n <= Len(q) THEN q[n] ELSE b[n - Len(q)]
    BY <1>1
  <1> HIDE DEF a
  <1>3. Len(q)+1 \in 1 .. Len(a) /\ a[Len(q)+1] = f
    <2>1. Len(q)+1 \in 1 .. Len(a) /\ ~(Len(q)+1 <= Len(q)) /\ (Len(q)+1) - Len(q) = 1
      BY <1>1, <1>2
    <2>2. a[Len(q)+1] = b[(Len(q)+1) - Len(q)]
      BY <1>2, <2>1
    <2> QED
      BY <1>1, <2>1, <2>2
  <1>4. ASSUME NEW n \in 1 .. Len(a)
        PROVE  \/ n \in 1 .. Len(q) /\ a[n] = q[n]
               \/ n = Len(q)+1 /\ a[n] = f
               \/ n > Len(q)+1 /\ \E m \in 1 .. Len(r) : a[n] = r[m]
    <2>1. ASSUME n > Len(q)+1
          PROVE  \E m \in 1 .. Len(r) : a[n] = r[m]
      <3>1. n - Len(q) \in 1 .. Len(b) /\ n - Len(q) > 1 /\ a[n] = b[n - Len(q)]
        BY <1>1, <1>2, <2>1
      <3>2. (n - Len(q)) - 1 \in 1 .. Len(r) /\ b[n - Len(q)] = r[(n - Len(q)) - 1]
        BY <1>1, <3>1
      <3> QED
        BY <3>1, <3>2
    <2>2. CASE n <= Len(q)
      BY <1>1, <1>2, <2>2
    <2>3. CASE n = Len(q)+1
      BY <1>3, <2>3
    <2>4. CASE n > Len(q)+1
      BY <2>1, <2>4
    <2>5. n <= Len(q) \/ n = Len(q)+1 \/ n > Len(q)+1
      BY <1>1
    <2> QED
      BY <2>2, <2>3, <2>4, <2>5
  <1>5. DOMAIN a = 1 .. Len(a) /\ DOMAIN q = 1 .. Len(q) /\ DOMAIN r = 1 .. Len(r)
    BY <1>2
  <1> QED
    BY <1>2, <1>4, <1>5, <1>3, <1>1 DEF a, b

(* Writing nothing.                                                        *)
LEMMA Nothing == ASSUME NEW S, NEW q \in Seq(S) PROVE q \o <<>> = q
  OBVIOUS

(* The frames the two sides write.                                         *)
LEMMA FramesIn ==
    /\ \A k \in {"invoke", "cancel", "ack", "result", "acked", "cancelAck"}, i \in Invocations :
          Frame(k, i) \in Frames /\ Frame(k, i).kind = k /\ Frame(k, i).inv = i
    /\ \A S, C \in SUBSET Invocations :
          /\ Rebind(S, C) \in Frames /\ Rebind(S, C).kind = "rebind"
          /\ Rebind(S, C).inv = S /\ Rebind(S, C).flags = C
    /\ \A st \in Statuses :
          /\ RebindResult(st) \in Frames /\ RebindResult(st).kind = "rebindResult"
          /\ RebindResult(st).inv = st
  BY DEF Frame, Rebind, RebindResult, Frames

(* What each kind of frame carries.                                        *)
LEMMA Carried ==
    ASSUME NEW f \in Frames
    PROVE  /\ f.kind \notin {"rebind", "rebindResult"} => f.inv \in Invocations
           /\ f.kind = "rebind" => f.inv \subseteq Invocations /\ f.flags \subseteq Invocations
           /\ f.kind = "rebindResult" => f.inv \in Statuses
  BY DEF Frames

(* What a status table says, and of whom.                                  *)
LEMMA StatusesFit ==
    ASSUME NEW st \in Statuses
    PROVE  /\ DOMAIN st \subseteq Invocations
           /\ \A i \in DOMAIN st : st[i] \in {"running", "completed", "missing", "cancelled"}
  BY DEF Statuses

(* A function on 1 .. n is a sequence.                                     *)
LEMMA IsASeq ==
    ASSUME NEW S, NEW n \in Nat, NEW q \in [1 .. n -> S]
    PROVE  q \in Seq(S)
  OBVIOUS

(* The results that complete_rebind sends again.                           *)
LEMMA Replayed ==
    ASSUME NEW S \in SUBSET Invocations
    PROVE  LET q == SetToSeq({Frame("result", i) : i \in S})
           IN  q \in Seq(Frames) /\ \A n \in DOMAIN q : \E i \in S : q[n] = Frame("result", i)
  <1> DEFINE R == {Frame("result", i) : i \in S}
  <1>1. IsFiniteSet(R)
    <2>1. IsFiniteSet(S)
      BY FS_Subset
    <2>2. [i \in S |-> Frame("result", i)] \in Surjection(S, R)
      BY DEF Surjection
    <2> QED
      BY <2>1, <2>2, FS_Surjection
  <1>2. Cardinality(R) \in Nat /\ ExistsBijection(1 .. Cardinality(R), R)
    BY <1>1, FS_CardinalityType
  <1>3. \E f \in [1 .. Cardinality(R) -> R] : IsInjective(f)
    BY <1>2 DEF ExistsBijection, Bijection, Injection, IsInjective
  <1>4. SetToSeq(R) \in [1 .. Cardinality(R) -> R]
    BY <1>3 DEF SetToSeq
  <1>5. R \subseteq Frames
    BY FramesIn
  <1> HIDE DEF R
  <1>6. SetToSeq(R) \in Seq(R)
    BY <1>2, <1>4, IsASeq
  <1>7. SetToSeq(R) \in Seq(Frames) /\ \A n \in DOMAIN SetToSeq(R) : SetToSeq(R)[n] \in R
    BY <1>5, <1>6
  <1> QED
    BY <1>7 DEF R

-----------------------------------------------------------------------------
(* The flags of the two ends stay flags.                                   *)
LEMMA FlagsKept ==
    ASSUME FlagTypes, [Next]_vars
    PROVE  FlagTypes'
  <1> USE DEF session, wire, port
  <1>Invoke. ASSUME NEW i \in Invocations, Invoke(i)
        PROVE  FlagTypes'
    BY <1>Invoke DEF Invoke, Up, FlagTypes
  <1>SendInvoke. ASSUME NEW i \in Invocations, SendInvoke(i)
        PROVE  FlagTypes'
    BY <1>SendInvoke DEF SendInvoke, Up, FlagTypes
  <1>Cancel. ASSUME NEW i \in Invocations, Cancel(i)
        PROVE  FlagTypes'
    BY <1>Cancel DEF Cancel, Up, FlagTypes
  <1>Adopt. ASSUME NEW i \in Invocations, Adopt(i)
        PROVE  FlagTypes'
    BY <1>Adopt DEF Adopt, Up, FlagTypes
  <1>AdoptFails. ASSUME NEW i \in Invocations, AdoptFails(i)
        PROVE  FlagTypes'
    BY <1>AdoptFails DEF AdoptFails, Up, Forget, FlagTypes
  <1>Retain. ASSUME NEW i \in Invocations, Retain(i)
        PROVE  FlagTypes'
    BY <1>Retain DEF Retain, FlagTypes
  <1>WriteResult. ASSUME NEW i \in Invocations, WriteResult(i)
        PROVE  FlagTypes'
    BY <1>WriteResult DEF WriteResult, Down, FlagTypes
  <1>TaskEnds. ASSUME NEW i \in Invocations, TaskEnds(i)
        PROVE  FlagTypes'
    BY <1>TaskEnds DEF TaskEnds, Release, Live, FlagTypes
  <1>CompleteCancel. ASSUME NEW i \in Invocations, CompleteCancel(i)
        PROVE  FlagTypes'
    BY <1>CompleteCancel DEF CompleteCancel, Release, Down, Live, FlagTypes
  <1>ReceiveResult. CASE ReceiveResult
    BY <1>ReceiveResult DEF ReceiveResult, Reading, Got, Up, FlagTypes
  <1>ReceiveAcked. CASE ReceiveAcked
    BY <1>ReceiveAcked DEF ReceiveAcked, Reading, Got, Forget, FlagTypes
  <1>ReceiveCancelAck. CASE ReceiveCancelAck
    BY <1>ReceiveCancelAck DEF ReceiveCancelAck, Reading, Got, Forget, FlagTypes
  <1>ReceiveRebind. CASE ReceiveRebind
    BY <1>ReceiveRebind DEF ReceiveRebind, Reading, Got, FlagTypes
  <1>ReceiveRefuses. CASE ReceiveRefuses
    BY <1>ReceiveRefuses DEF ReceiveRefuses, Reading, Got, CloseSession, Forget, FlagTypes
  <1>Detach. CASE Detach
    BY <1>Detach DEF Detach, CloseSession, Forget, FlagTypes
  <1>Redial. CASE Redial
    BY <1>Redial DEF Redial, FlagTypes
  <1>RedialFails. CASE RedialFails
    BY <1>RedialFails DEF RedialFails, CloseConversation, Forget, FlagTypes
  <1>SendRebind. CASE SendRebind
    BY <1>SendRebind DEF SendRebind, Up, FlagTypes
  <1>RebindApplied. CASE RebindApplied
    BY <1>RebindApplied DEF RebindApplied, Forget, Settled, Dropped, FlagTypes
  <1>RebindRolledBack. CASE RebindRolledBack
    BY <1>RebindRolledBack DEF RebindRolledBack, Forget, Settled, Dropped, FlagTypes
  <1>SessionExpires. CASE SessionExpires
    BY <1>SessionExpires DEF SessionExpires, CloseSession, Forget, FlagTypes
  <1>Pump. CASE Pump
    BY <1>Pump DEF Pump, FlagTypes
  <1>DaemonDetach. CASE DaemonDetach
    BY <1>DaemonDetach DEF DaemonDetach, CloseConversation, FlagTypes
  <1>ConversationExpires. CASE ConversationExpires
    BY <1>ConversationExpires DEF ConversationExpires, CloseConversation, FlagTypes
  <1>DropStale. CASE DropStale
    BY <1>DropStale DEF DropStale, FlagTypes
  <1>HostInvoke. CASE HostInvoke
    BY <1>HostInvoke DEF HostInvoke, Reads, Named, FlagTypes
  <1>HostCancel. CASE HostCancel
    BY <1>HostCancel DEF HostCancel, Reads, Named, Live, FlagTypes
  <1>HostAck. CASE HostAck
    BY <1>HostAck DEF HostAck, Reads, Named, Down, FlagTypes
  <1>HostRebind. CASE HostRebind
    BY <1>HostRebind DEF HostRebind, Reads, Named, Records, Status, Live, FlagTypes
  <1>HostRefuses. CASE HostRefuses
    BY <1>HostRefuses DEF HostRefuses, CloseConversation, FlagTypes
  <1>FinishRebind. CASE FinishRebind
    BY <1>FinishRebind DEF FinishRebind, Release, Down, Replay, FlagTypes
  <1>Cut. CASE Cut
    BY <1>Cut DEF Cut, FlagTypes
  <1>Still. CASE UNCHANGED vars
    BY <1>Still DEF vars, FlagTypes
  <1> QED
    BY <1>Invoke, <1>SendInvoke, <1>Cancel, <1>Adopt, <1>AdoptFails, <1>Retain, <1>WriteResult,
       <1>TaskEnds, <1>CompleteCancel, <1>ReceiveResult, <1>ReceiveAcked, <1>ReceiveCancelAck,
       <1>ReceiveRebind, <1>ReceiveRefuses, <1>Detach, <1>Redial, <1>RedialFails, <1>SendRebind,
       <1>RebindApplied, <1>RebindRolledBack, <1>SessionExpires, <1>Pump, <1>DaemonDetach,
       <1>ConversationExpires, <1>DropStale, <1>HostInvoke, <1>HostCancel, <1>HostAck,
       <1>HostRebind, <1>HostRefuses, <1>FinishRebind, <1>Cut, <1>Still
    DEF Next, Progress, Ask, Call, Run, ReadLoop, Dial, HostLoop

(* Every step keeps the types.                                             *)
LEMMA TypesKept ==
    ASSUME TypeOK, [Next]_vars
    PROVE  TypeOK'
  <1> USE DEF keys, session, wire, port, work, host
  <1>Flags. FlagTypes'
    BY FlagsKept DEF TypeOK
  <1>Empty. <<>> \in Seq(Frames) /\ <<>> \in Seq(Statuses) /\ <<>> \in Seq(Plans) /\ Len(<<>>) = 0
    OBVIOUS
  <1>Host. incoming # <<>> => incoming[1][2] \in Frames /\ Tail(incoming) \in Seq(Nat \X Frames)
    BY Popped DEF TypeOK
  <1>Invoke. ASSUME NEW i \in Invocations, Invoke(i)
        PROVE  TypeOK'
    <2>1. upq' \in Seq(Frames)
      <3>1. Frame("invoke", i) \in Frames
        BY FramesIn
      <3>2. CASE i \in Transfers
        BY <1>Invoke, <3>2, Nothing DEF Invoke, Up, TypeOK
      <3>3. CASE upq' = upq \o <<Frame("invoke", i)>>
        BY <3>1, <3>3, Pushed DEF TypeOK
      <3> QED
        BY <1>Invoke, <3>2, <3>3 DEF Invoke, Up, TypeOK
    <2> QED
      BY <1>Invoke, <2>1, <1>Flags DEF Invoke, TypeOK, Writable, Ended
  <1>SendInvoke. ASSUME NEW i \in Invocations, SendInvoke(i)
        PROVE  TypeOK'
    BY <1>SendInvoke, FramesIn, Carried, <1>Flags DEF SendInvoke, Up, TypeOK, Writable, Ended
  <1>Cancel. ASSUME NEW i \in Invocations, Cancel(i)
        PROVE  TypeOK'
    BY <1>Cancel, FramesIn, Carried, <1>Flags DEF Cancel, Up, TypeOK, Writable, Ended
  <1>Adopt. ASSUME NEW i \in Invocations, Adopt(i)
        PROVE  TypeOK'
    BY <1>Adopt, FramesIn, Carried, <1>Flags DEF Adopt, Up, TypeOK, Writable, Ended
  <1>AdoptFails. ASSUME NEW i \in Invocations, AdoptFails(i)
        PROVE  TypeOK'
    BY <1>AdoptFails, FramesIn, Carried, <1>Flags DEF AdoptFails, Up, Forget, TypeOK, Writable,
       Ended
  <1>Retain. ASSUME NEW i \in Invocations, Retain(i)
        PROVE  TypeOK'
    BY <1>Retain, FramesIn, Carried, <1>Flags DEF Retain, TypeOK, Writable, Ended
  <1>WriteResult. ASSUME NEW i \in Invocations, WriteResult(i)
        PROVE  TypeOK'
    BY <1>WriteResult, FramesIn, Carried, <1>Flags DEF WriteResult, Down, TypeOK, Writable, Ended
  <1>TaskEnds. ASSUME NEW i \in Invocations, TaskEnds(i)
        PROVE  TypeOK'
    BY <1>TaskEnds, FramesIn, Carried, <1>Flags DEF TaskEnds, Release, Live, TypeOK, Writable, Ended
  <1>CompleteCancel. ASSUME NEW i \in Invocations, CompleteCancel(i)
        PROVE  TypeOK'
    BY <1>CompleteCancel, FramesIn, Carried, <1>Flags DEF CompleteCancel, Release, Down, Live,
       TypeOK, Writable, Ended
  <1>ReceiveResult. CASE ReceiveResult
    BY <1>ReceiveResult, FramesIn, Carried, <1>Flags DEF ReceiveResult, Reading, Got, Up,
       TypeOK, Writable, Ended
  <1>ReceiveAcked. CASE ReceiveAcked
    BY <1>ReceiveAcked, FramesIn, Carried, <1>Flags DEF ReceiveAcked, Reading, Got, Forget,
       TypeOK, Writable, Ended
  <1>ReceiveCancelAck. CASE ReceiveCancelAck
    BY <1>ReceiveCancelAck, FramesIn, Carried, <1>Flags DEF ReceiveCancelAck, Reading, Got,
       Forget, TypeOK, Writable, Ended
  <1>ReceiveRebind. CASE ReceiveRebind
    BY <1>ReceiveRebind, FramesIn, Carried, <1>Flags DEF ReceiveRebind, Reading, Got, TypeOK,
       Writable, Ended
  <1>ReceiveRefuses. CASE ReceiveRefuses
    BY <1>ReceiveRefuses, <1>Empty, <1>Flags DEF ReceiveRefuses, CloseSession, Forget, TypeOK,
       Writable, Ended
  <1>Detach. CASE Detach
    <2>1. CASE CloseSession("closed")
      BY <1>Detach, <2>1, <1>Empty, <1>Flags DEF Detach, CloseSession, Forget, TypeOK, Writable,
         Ended
    <2>2. CASE sess' = "down"
      BY <1>Detach, <2>2, <1>Empty, <1>Flags DEF Detach, TypeOK, Writable, Ended, CloseSession
    <2> QED
      BY <1>Detach, <2>1, <2>2 DEF Detach
  <1>Redial. CASE Redial
    BY <1>Redial, <1>Empty, <1>Flags DEF Redial, TypeOK, Writable, Ended
  <1>RedialFails. CASE RedialFails
    BY <1>RedialFails, FramesIn, Carried, <1>Flags DEF RedialFails, CloseConversation, Forget,
       TypeOK, Writable, Ended
  <1>SendRebind. CASE SendRebind
    <2>1. upq' \in Seq(Frames)
      <3>1. Rebind(known, flagged \cap known) \in Frames
        BY FramesIn DEF TypeOK
      <3> QED
        BY <1>SendRebind, <3>1, Pushed DEF SendRebind, Up, TypeOK
    <2> QED
      BY <1>SendRebind, <2>1, <1>Flags DEF SendRebind, TypeOK, Writable, Ended
  <1>RebindApplied. CASE RebindApplied
    BY <1>RebindApplied, FramesIn, Carried, <1>Flags DEF RebindApplied, Forget, Settled,
       Dropped, TypeOK, Writable, Ended
  <1>RebindRolledBack. CASE RebindRolledBack
    <2>1. PICK S \in SUBSET (Dropped(reply[1]) \cap known) :
            /\ eng' = [i \in Invocations |-> IF i \in S THEN Settled(reply[1], i) ELSE eng[i]]
            /\ Forget(S)
      BY <1>RebindRolledBack DEF RebindRolledBack
    <2> QED
      BY <1>RebindRolledBack, <2>1, <1>Empty, <1>Flags DEF RebindRolledBack, Forget, Settled,
         TypeOK, Writable, Ended
  <1>SessionExpires. CASE SessionExpires
    BY <1>SessionExpires, <1>Empty, <1>Flags DEF SessionExpires, CloseSession, Forget, TypeOK,
       Writable, Ended
  <1>Pump. CASE Pump
    <2>1. upq[1] \in Frames /\ Head(upq) = upq[1] /\ upq' \in Seq(Frames)
      BY <1>Pump, Popped DEF Pump, TypeOK
    <2>2. incoming' \in Seq(Nat \X Frames)
      <3>1. <<epoch, upq[1]>> \in Nat \X Frames
        BY <2>1 DEF TypeOK
      <3> QED
        BY <1>Pump, <2>1, <3>1, Pushed DEF Pump, TypeOK
    <2>3. rec' \in [Invocations -> {"none", "running", "completed"}]
      BY <1>Pump, <2>1, Carried DEF Pump, TypeOK
    <2> QED
      BY <1>Pump, <2>1, <2>2, <2>3, <1>Flags DEF Pump, TypeOK, Writable, Ended
  <1>DaemonDetach. CASE DaemonDetach
    BY <1>DaemonDetach, <1>Empty, <1>Flags DEF DaemonDetach, CloseConversation, TypeOK,
       Writable, Ended
  <1>ConversationExpires. CASE ConversationExpires
    BY <1>ConversationExpires, FramesIn, Carried, <1>Flags DEF ConversationExpires,
       CloseConversation, TypeOK, Writable, Ended
  <1>DropStale. CASE DropStale
    BY <1>DropStale, FramesIn, Carried, <1>Flags DEF DropStale, TypeOK, Writable, Ended
  <1>HostInvoke. CASE HostInvoke
    <2>1. Named \in Invocations /\ incoming' \in Seq(Nat \X Frames)
      BY <1>HostInvoke, <1>Host, Carried DEF HostInvoke, Reads, Named
    <2> QED
      BY <1>HostInvoke, <2>1, <1>Flags DEF HostInvoke, TypeOK, Writable, Ended
  <1>HostCancel. CASE HostCancel
    BY <1>HostCancel, <1>Host, Carried, <1>Flags DEF HostCancel, Reads, Named, TypeOK, Writable,
       Ended
  <1>HostAck. CASE HostAck
    <2>1. Named \in Invocations /\ incoming' \in Seq(Nat \X Frames)
      BY <1>HostAck, <1>Host, Carried DEF HostAck, Reads, Named
    <2>2. downq' \in Seq(Frames)
      BY <1>HostAck, <2>1, FramesIn, Nothing DEF HostAck, Down, TypeOK
    <2> QED
      BY <1>HostAck, <2>1, <2>2, <1>Flags DEF HostAck, TypeOK, Writable, Ended
  <1>HostRebind. CASE HostRebind
    <2>1. /\ Named \subseteq Invocations /\ incoming[1][2].flags \subseteq Invocations
          /\ incoming' \in Seq(Nat \X Frames)
      BY <1>HostRebind, <1>Host, Carried DEF HostRebind, Reads, Named
    <2> DEFINE flags == incoming[1][2].flags
               st == [i \in Named |-> Status(i, flags)]
    <2>2. st \in Statuses
      <3>1. st \in [Named -> {"running", "completed", "missing", "cancelled"}]
        BY <2>1 DEF Status, TypeOK
      <3> HIDE DEF st
      <3> QED
        BY <2>1, <3>1 DEF Statuses
    <2>3. /\ plan' = <<[epoch |-> epoch, stop |-> flags \cap Records, status |-> st]>>
          /\ cancelled' = cancelled \cup {i \in flags \cap Records : Live(i)}
      BY <1>HostRebind DEF HostRebind
    <2> HIDE DEF st, flags
    <2>4. flags \cap Records \subseteq Invocations
      BY <2>1 DEF flags
    <2>5. plan' \in Seq(Plans) /\ Len(plan') <= 1 /\ cancelled' \subseteq Invocations
      <3>1. [epoch |-> epoch, stop |-> flags \cap Records, status |-> st] \in Plans
        BY <2>2, <2>4 DEF Plans, TypeOK
      <3> QED
        BY <2>3, <2>4, <3>1 DEF TypeOK
    <2> QED
      BY <1>HostRebind, <2>1, <2>5, <1>Flags DEF HostRebind, TypeOK, Writable, Ended
  <1>HostRefuses. CASE HostRefuses
    BY <1>HostRefuses, FramesIn, Carried, <1>Flags DEF HostRefuses, CloseConversation, TypeOK,
       Writable, Ended
  <1>FinishRebind. CASE FinishRebind
    <2>1. plan[1] \in Plans
      BY <1>FinishRebind DEF FinishRebind, TypeOK
    <2>2. downq' \in Seq(Frames)
      <3>1. Replay \in Seq(Frames)
        <4> DEFINE S == {j \in DOMAIN plan[1].status \ plan[1].stop : rec[j] = "completed"}
        <4>1. S \in SUBSET Invocations
          BY <2>1, StatusesFit DEF Plans
        <4> HIDE DEF S
        <4> QED
          BY <4>1, Replayed DEF Replay, S
      <3>2. RebindResult(plan[1].status) \in Frames
        BY <2>1, FramesIn DEF Plans
      <3>3. downq' = downq \/ downq' = downq \o (<<RebindResult(plan[1].status)>> \o Replay)
        BY <1>FinishRebind DEF FinishRebind, Down
      <3>4. downq \o (<<RebindResult(plan[1].status)>> \o Replay) \in Seq(Frames)
        BY <3>1, <3>2, Answered DEF TypeOK
      <3> QED
        BY <3>3, <3>4 DEF TypeOK
    <2>3. rec' \in [Invocations -> {"none", "running", "completed"}] /\ refs' \subseteq Invocations
      BY <1>FinishRebind DEF FinishRebind, Release, TypeOK
    <2> QED
      BY <1>FinishRebind, <2>2, <2>3, <1>Empty, <1>Flags DEF FinishRebind, TypeOK, Writable, Ended
  <1>Cut. CASE Cut
    BY <1>Cut, <1>Flags DEF Cut, TypeOK, Writable, Ended
  <1>Still. CASE UNCHANGED vars
    BY <1>Still, <1>Flags DEF vars, TypeOK, Writable, Ended
  <1> QED
    BY <1>Invoke, <1>SendInvoke, <1>Cancel, <1>Adopt, <1>AdoptFails, <1>Retain, <1>WriteResult,
       <1>TaskEnds, <1>CompleteCancel, <1>ReceiveResult, <1>ReceiveAcked, <1>ReceiveCancelAck,
       <1>ReceiveRebind, <1>ReceiveRefuses, <1>Detach, <1>Redial, <1>RedialFails, <1>SendRebind,
       <1>RebindApplied, <1>RebindRolledBack, <1>SessionExpires, <1>Pump, <1>DaemonDetach,
       <1>ConversationExpires, <1>DropStale, <1>HostInvoke, <1>HostCancel, <1>HostAck,
       <1>HostRebind, <1>HostRefuses, <1>FinishRebind, <1>Cut, <1>Still
    DEF Next, Progress, Ask, Call, Run, ReadLoop, Dial, HostLoop

-----------------------------------------------------------------------------
(* What never goes back.                                                   *)

(* A call goes on: nothing is sent again, adopted again or given up again. *)
Onward ==
    \A i \in Invocations :
        /\ eng[i] \notin Unsent => eng'[i] \notin Unsent
        /\ eng[i] \notin Early => eng'[i] \notin Early
        /\ eng[i] \in Lost => eng'[i] = eng[i]
        /\ i \in known' => i \in known \/ eng[i] = "new"
        /\ i \in flagged /\ i \in known' => i \in flagged'

(* The daemon's work goes on: what has completed does not start again,     *)
(* what was let go stays so, and what may be adopted is held.              *)
Advance ==
    \A i \in Invocations :
        /\ task[i] \in Begun => task'[i] \in Begun
        /\ task[i] \in Begun /\ rec[i] = "none" => rec'[i] = "none"
        /\ i \in refs /\ eng'[i] \in Early => i \in refs'

(* Every step moves the calls onward.                                      *)
LEMMA CallsGoOn ==
    ASSUME TypeOK, [Next]_vars
    PROVE  Onward
  <1> USE DEF keys
  <1>Invoke. ASSUME NEW i \in Invocations, Invoke(i)
        PROVE  Onward
    BY <1>Invoke DEF Invoke, Up, Onward, TypeOK, Unsent, Early, Lost, Ended
  <1>SendInvoke. ASSUME NEW i \in Invocations, SendInvoke(i)
        PROVE  Onward
    BY <1>SendInvoke DEF SendInvoke, Up, Onward, TypeOK, Unsent, Early, Lost, Ended
  <1>Cancel. ASSUME NEW i \in Invocations, Cancel(i)
        PROVE  Onward
    BY <1>Cancel DEF Cancel, Up, Onward, TypeOK, Unsent, Early, Lost, Ended
  <1>Adopt. ASSUME NEW i \in Invocations, Adopt(i)
        PROVE  Onward
    BY <1>Adopt DEF Adopt, Up, Onward, TypeOK, Unsent, Early, Lost, Ended
  <1>AdoptFails. ASSUME NEW i \in Invocations, AdoptFails(i)
        PROVE  Onward
    BY <1>AdoptFails DEF AdoptFails, Up, Forget, Onward, TypeOK, Unsent, Early, Lost, Ended
  <1>Retain. ASSUME NEW i \in Invocations, Retain(i)
        PROVE  Onward
    BY <1>Retain DEF Retain, Onward, TypeOK, Unsent, Early, Lost, Ended
  <1>WriteResult. ASSUME NEW i \in Invocations, WriteResult(i)
        PROVE  Onward
    BY <1>WriteResult DEF WriteResult, Down, Onward, TypeOK, Unsent, Early, Lost, Ended
  <1>TaskEnds. ASSUME NEW i \in Invocations, TaskEnds(i)
        PROVE  Onward
    BY <1>TaskEnds DEF TaskEnds, Release, Live, Onward, TypeOK, Unsent, Early, Lost, Ended
  <1>CompleteCancel. ASSUME NEW i \in Invocations, CompleteCancel(i)
        PROVE  Onward
    BY <1>CompleteCancel DEF CompleteCancel, Release, Down, Live, Onward, TypeOK, Unsent, Early,
       Lost, Ended
  <1>ReceiveResult. CASE ReceiveResult
    BY <1>ReceiveResult DEF ReceiveResult, Reading, Got, Up, Onward, TypeOK, Unsent, Early,
       Lost, Ended
  <1>ReceiveAcked. CASE ReceiveAcked
    BY <1>ReceiveAcked DEF ReceiveAcked, Reading, Got, Forget, Onward, TypeOK, Unsent, Early,
       Lost, Ended
  <1>ReceiveCancelAck. CASE ReceiveCancelAck
    BY <1>ReceiveCancelAck DEF ReceiveCancelAck, Reading, Got, Forget, Onward, TypeOK, Unsent,
       Early, Lost, Ended
  <1>ReceiveRebind. CASE ReceiveRebind
    BY <1>ReceiveRebind DEF ReceiveRebind, Reading, Got, Onward, TypeOK, Unsent, Early, Lost, Ended
  <1>ReceiveRefuses. CASE ReceiveRefuses
    BY <1>ReceiveRefuses DEF ReceiveRefuses, Reading, Got, CloseSession, Forget, Onward, TypeOK,
       Unsent, Early, Lost, Ended
  <1>Detach. CASE Detach
    BY <1>Detach DEF Detach, CloseSession, Forget, Onward, TypeOK, Unsent, Early, Lost, Ended
  <1>Redial. CASE Redial
    BY <1>Redial DEF Redial, Onward, TypeOK, Unsent, Early, Lost, Ended
  <1>RedialFails. CASE RedialFails
    BY <1>RedialFails DEF RedialFails, CloseConversation, Forget, Onward, TypeOK, Unsent, Early,
       Lost, Ended
  <1>SendRebind. CASE SendRebind
    BY <1>SendRebind DEF SendRebind, Up, Onward, TypeOK, Unsent, Early, Lost, Ended
  <1>RebindApplied. CASE RebindApplied
    BY <1>RebindApplied DEF RebindApplied, Forget, Settled, Dropped, Onward, TypeOK, Unsent,
       Early, Lost, Ended
  <1>RebindRolledBack. CASE RebindRolledBack
    BY <1>RebindRolledBack DEF RebindRolledBack, Forget, Settled, Dropped, Onward, TypeOK,
       Unsent, Early, Lost, Ended
  <1>SessionExpires. CASE SessionExpires
    BY <1>SessionExpires DEF SessionExpires, CloseSession, Forget, Onward, TypeOK, Unsent,
       Early, Lost, Ended
  <1>Pump. CASE Pump
    BY <1>Pump DEF Pump, Onward, TypeOK, Unsent, Early, Lost, Ended
  <1>DaemonDetach. CASE DaemonDetach
    BY <1>DaemonDetach DEF DaemonDetach, CloseConversation, Onward, TypeOK, Unsent, Early, Lost,
       Ended
  <1>ConversationExpires. CASE ConversationExpires
    BY <1>ConversationExpires DEF ConversationExpires, CloseConversation, Onward, TypeOK,
       Unsent, Early, Lost, Ended
  <1>DropStale. CASE DropStale
    BY <1>DropStale DEF DropStale, Onward, TypeOK, Unsent, Early, Lost, Ended
  <1>HostInvoke. CASE HostInvoke
    BY <1>HostInvoke DEF HostInvoke, Reads, Named, Onward, TypeOK, Unsent, Early, Lost, Ended
  <1>HostCancel. CASE HostCancel
    BY <1>HostCancel DEF HostCancel, Reads, Named, Live, Onward, TypeOK, Unsent, Early, Lost, Ended
  <1>HostAck. CASE HostAck
    BY <1>HostAck DEF HostAck, Reads, Named, Down, Onward, TypeOK, Unsent, Early, Lost, Ended
  <1>HostRebind. CASE HostRebind
    BY <1>HostRebind DEF HostRebind, Reads, Named, Records, Status, Live, Onward, TypeOK,
       Unsent, Early, Lost, Ended
  <1>HostRefuses. CASE HostRefuses
    BY <1>HostRefuses DEF HostRefuses, CloseConversation, Onward, TypeOK, Unsent, Early, Lost, Ended
  <1>FinishRebind. CASE FinishRebind
    BY <1>FinishRebind DEF FinishRebind, Release, Down, Replay, Onward, TypeOK, Unsent, Early,
       Lost, Ended
  <1>Cut. CASE Cut
    BY <1>Cut DEF Cut, Onward, TypeOK, Unsent, Early, Lost, Ended
  <1>Still. CASE UNCHANGED vars
    BY <1>Still DEF vars, Onward, TypeOK, Unsent, Early, Lost, Ended
  <1> QED
    BY <1>Invoke, <1>SendInvoke, <1>Cancel, <1>Adopt, <1>AdoptFails, <1>Retain, <1>WriteResult,
       <1>TaskEnds, <1>CompleteCancel, <1>ReceiveResult, <1>ReceiveAcked, <1>ReceiveCancelAck,
       <1>ReceiveRebind, <1>ReceiveRefuses, <1>Detach, <1>Redial, <1>RedialFails, <1>SendRebind,
       <1>RebindApplied, <1>RebindRolledBack, <1>SessionExpires, <1>Pump, <1>DaemonDetach,
       <1>ConversationExpires, <1>DropStale, <1>HostInvoke, <1>HostCancel, <1>HostAck,
       <1>HostRebind, <1>HostRefuses, <1>FinishRebind, <1>Cut, <1>Still
    DEF Next, Progress, Ask, Call, Run, ReadLoop, Dial, HostLoop

(* The frames at the heads of the queues.                                  *)
LEMMA Heads ==
    ASSUME TypeOK, FramesRight
    PROVE  /\ incoming # <<>> => /\ 1 \in DOMAIN incoming /\ incoming[1][2] \in Frames
                                 /\ UpRight(incoming[1][2])
           /\ upq # <<>> => /\ 1 \in DOMAIN upq /\ upq[1] \in Frames /\ Head(upq) = upq[1]
                            /\ UpRight(upq[1])
           /\ downq # <<>> => /\ 1 \in DOMAIN downq /\ downq[1] \in Frames /\ Head(downq) = downq[1]
                              /\ DownRight(downq[1])
  <1>1. incoming # <<>> => 1 \in DOMAIN incoming /\ incoming[1][2] \in Frames
    BY Popped DEF TypeOK
  <1>2. upq # <<>> => 1 \in DOMAIN upq /\ upq[1] \in Frames /\ Head(upq) = upq[1]
    BY Popped DEF TypeOK
  <1>3. downq # <<>> => 1 \in DOMAIN downq /\ downq[1] \in Frames /\ Head(downq) = downq[1]
    BY Popped DEF TypeOK
  <1> QED
    BY <1>1, <1>2, <1>3 DEF FramesRight

(* Every step moves the work of the daemon onward.                         *)
LEMMA WorkGoesOn ==
    ASSUME TypeOK, FramesRight, StartedOnce, Held, [Next]_vars
    PROVE  Advance
  <1> USE DEF keys, work, host
  <1>Onward. Onward
    BY CallsGoOn
  <1>Invoke. ASSUME NEW i \in Invocations, Invoke(i)
        PROVE  Advance
    BY <1>Invoke, <1>Onward DEF Invoke, Up, Onward, Advance, TypeOK, Begun
  <1>SendInvoke. ASSUME NEW i \in Invocations, SendInvoke(i)
        PROVE  Advance
    BY <1>SendInvoke, <1>Onward DEF SendInvoke, Up, Onward, Advance, TypeOK, Begun
  <1>Cancel. ASSUME NEW i \in Invocations, Cancel(i)
        PROVE  Advance
    BY <1>Cancel, <1>Onward DEF Cancel, Up, Onward, Advance, TypeOK, Begun
  <1>Adopt. ASSUME NEW i \in Invocations, Adopt(i)
        PROVE  Advance
    BY <1>Adopt, <1>Onward DEF Adopt, Up, Onward, Advance, TypeOK, Begun
  <1>AdoptFails. ASSUME NEW i \in Invocations, AdoptFails(i)
        PROVE  Advance
    BY <1>AdoptFails, <1>Onward DEF AdoptFails, Up, Forget, Onward, Advance, TypeOK, Begun
  <1>Retain. ASSUME NEW i \in Invocations, Retain(i)
        PROVE  Advance
    BY <1>Retain, <1>Onward DEF Retain, Onward, Advance, TypeOK, Begun
  <1>WriteResult. ASSUME NEW i \in Invocations, WriteResult(i)
        PROVE  Advance
    BY <1>WriteResult, <1>Onward DEF WriteResult, Down, Onward, Advance, TypeOK, Begun
  <1>TaskEnds. ASSUME NEW i \in Invocations, TaskEnds(i)
        PROVE  Advance
    BY <1>TaskEnds DEF TaskEnds, Release, Held, Advance, TypeOK, Begun, Early, Lost
  <1>CompleteCancel. ASSUME NEW i \in Invocations, CompleteCancel(i)
        PROVE  Advance
    BY <1>CompleteCancel DEF CompleteCancel, Release, Held, Advance, TypeOK, Begun, Early, Lost
  <1>ReceiveResult. CASE ReceiveResult
    BY <1>ReceiveResult, <1>Onward DEF ReceiveResult, Reading, Got, Up, Onward, Advance, TypeOK,
       Begun
  <1>ReceiveAcked. CASE ReceiveAcked
    BY <1>ReceiveAcked, <1>Onward DEF ReceiveAcked, Reading, Got, Forget, Onward, Advance,
       TypeOK, Begun
  <1>ReceiveCancelAck. CASE ReceiveCancelAck
    BY <1>ReceiveCancelAck, <1>Onward DEF ReceiveCancelAck, Reading, Got, Forget, Onward,
       Advance, TypeOK, Begun
  <1>ReceiveRebind. CASE ReceiveRebind
    BY <1>ReceiveRebind, <1>Onward DEF ReceiveRebind, Reading, Got, Onward, Advance, TypeOK, Begun
  <1>ReceiveRefuses. CASE ReceiveRefuses
    BY <1>ReceiveRefuses, <1>Onward DEF ReceiveRefuses, Reading, Got, CloseSession, Forget,
       Onward, Advance, TypeOK, Begun
  <1>Detach. CASE Detach
    BY <1>Detach, <1>Onward DEF Detach, CloseSession, Forget, Onward, Advance, TypeOK, Begun
  <1>Redial. CASE Redial
    BY <1>Redial, <1>Onward DEF Redial, Onward, Advance, TypeOK, Begun
  <1>RedialFails. CASE RedialFails
    BY <1>RedialFails, <1>Onward DEF RedialFails, CloseConversation, Forget, Onward, Advance,
       TypeOK, Begun
  <1>SendRebind. CASE SendRebind
    BY <1>SendRebind, <1>Onward DEF SendRebind, Up, Onward, Advance, TypeOK, Begun
  <1>RebindApplied. CASE RebindApplied
    BY <1>RebindApplied, <1>Onward DEF RebindApplied, Forget, Settled, Dropped, Onward, Advance,
       TypeOK, Begun
  <1>RebindRolledBack. CASE RebindRolledBack
    BY <1>RebindRolledBack, <1>Onward DEF RebindRolledBack, Forget, Settled, Dropped, Onward,
       Advance, TypeOK, Begun
  <1>SessionExpires. CASE SessionExpires
    BY <1>SessionExpires, <1>Onward DEF SessionExpires, CloseSession, Forget, Onward, Advance,
       TypeOK, Begun
  <1>Pump. CASE Pump
    <2>1. upq # <<>> /\ 1 \in DOMAIN upq /\ upq[1] \in Frames /\ Head(upq) = upq[1]
      BY <1>Pump, Heads DEF Pump
    <2>2. upq[1].kind = "invoke" => upq[1].inv \in Invocations /\ task[upq[1].inv] = "none"
      BY <2>1, Carried DEF StartedOnce, Invokes
    <2> QED
      BY <1>Pump, <2>1, <2>2 DEF Pump, Advance, TypeOK, Begun
  <1>DaemonDetach. CASE DaemonDetach
    BY <1>DaemonDetach, <1>Onward DEF DaemonDetach, CloseConversation, Onward, Advance, TypeOK,
       Begun
  <1>ConversationExpires. CASE ConversationExpires
    BY <1>ConversationExpires, <1>Onward DEF ConversationExpires, CloseConversation, Onward,
       Advance, TypeOK, Begun
  <1>DropStale. CASE DropStale
    BY <1>DropStale, <1>Onward DEF DropStale, Onward, Advance, TypeOK, Begun
  <1>HostInvoke. CASE HostInvoke
    <2>1. Named \in Invocations /\ task[Named] = "none"
      BY <1>HostInvoke, Heads, Carried DEF HostInvoke, Reads, Named, StartedOnce, Invokes
    <2> QED
      BY <1>HostInvoke, <2>1 DEF HostInvoke, Advance, TypeOK, Begun
  <1>HostCancel. CASE HostCancel
    BY <1>HostCancel, <1>Onward DEF HostCancel, Reads, Named, Live, Onward, Advance, TypeOK, Begun
  <1>HostAck. CASE HostAck
    <2>1. Named \in Invocations /\ eng[Named] \notin Early
      BY <1>HostAck, Heads, Carried DEF HostAck, Reads, Named, UpRight
    <2> QED
      BY <1>HostAck, <2>1 DEF HostAck, Advance, TypeOK, Begun
  <1>HostRebind. CASE HostRebind
    BY <1>HostRebind, <1>Onward DEF HostRebind, Reads, Named, Records, Status, Live, Onward,
       Advance, TypeOK, Begun
  <1>HostRefuses. CASE HostRefuses
    BY <1>HostRefuses, <1>Onward DEF HostRefuses, CloseConversation, Onward, Advance, TypeOK, Begun
  <1>FinishRebind. CASE FinishRebind
    BY <1>FinishRebind DEF FinishRebind, Release, Held, Advance, TypeOK, Begun, Early, Lost
  <1>Cut. CASE Cut
    BY <1>Cut, <1>Onward DEF Cut, Onward, Advance, TypeOK, Begun
  <1>Still. CASE UNCHANGED vars
    BY <1>Still DEF vars, Onward, Advance, TypeOK, Begun
  <1> QED
    BY <1>Invoke, <1>SendInvoke, <1>Cancel, <1>Adopt, <1>AdoptFails, <1>Retain, <1>WriteResult,
       <1>TaskEnds, <1>CompleteCancel, <1>ReceiveResult, <1>ReceiveAcked, <1>ReceiveCancelAck,
       <1>ReceiveRebind, <1>ReceiveRefuses, <1>Detach, <1>Redial, <1>RedialFails, <1>SendRebind,
       <1>RebindApplied, <1>RebindRolledBack, <1>SessionExpires, <1>Pump, <1>DaemonDetach,
       <1>ConversationExpires, <1>DropStale, <1>HostInvoke, <1>HostCancel, <1>HostAck,
       <1>HostRebind, <1>HostRefuses, <1>FinishRebind, <1>Cut, <1>Still
    DEF Next, Progress, Ask, Call, Run, ReadLoop, Dial, HostLoop

-----------------------------------------------------------------------------
(* Frames.                                                                 *)

(* Every frame was there before, or is right when it is written.           *)
UpKept ==
    \A n \in DOMAIN upq' : (\E m \in DOMAIN upq : upq'[n] = upq[m]) \/ UpRight(upq[n])'
HostKept ==
    \A n \in DOMAIN incoming' :
        (\E m \in DOMAIN incoming : incoming'[n] = incoming[m]) \/ UpRight(incoming[n][2])'
DownKept ==
    \A n \in DOMAIN downq' : (\E m \in DOMAIN downq : downq'[n] = downq[m]) \/ DownRight(downq[n])'

(* What a frame to the daemon says stays right.                            *)
LEMMA UpStays ==
    ASSUME Onward, NEW f \in Frames, UpRight(f)
    PROVE  UpRight(f)'
  BY Carried DEF Onward, UpRight, Lost, Unsent, Early

(* What a frame to the engine says stays right.                            *)
LEMMA DownStays ==
    ASSUME Onward, Advance, NEW f \in Frames, DownRight(f)
    PROVE  DownRight(f)'
  BY Carried DEF Onward, Advance, DownRight, Early, Begun

(* If what is newly written is right, every frame is.                      *)
LEMMA FramesStay ==
    ASSUME TypeOK, FramesRight, Onward, Advance, UpKept, HostKept, DownKept
    PROVE  FramesRight'
  <1>1. ASSUME NEW n \in DOMAIN upq' PROVE UpRight(upq[n])'
    <2>1. CASE \E m \in DOMAIN upq : upq'[n] = upq[m]
      <3>1. PICK m \in DOMAIN upq : upq'[n] = upq[m]
        BY <2>1
      <3>2. upq[m] \in Frames /\ UpRight(upq[m])
        BY DEF TypeOK, FramesRight
      <3>3. \A f \in Frames : UpRight(f) => UpRight(f)'
        BY UpStays
      <3> QED
        BY <3>1, <3>2, <3>3 DEF UpRight
    <2> QED
      BY <2>1 DEF UpKept
  <1>2. ASSUME NEW n \in DOMAIN incoming' PROVE UpRight(incoming[n][2])'
    <2>1. CASE \E m \in DOMAIN incoming : incoming'[n] = incoming[m]
      <3>1. PICK m \in DOMAIN incoming : incoming'[n] = incoming[m]
        BY <2>1
      <3>2. incoming[m][2] \in Frames /\ UpRight(incoming[m][2])
        BY DEF TypeOK, FramesRight
      <3>3. \A f \in Frames : UpRight(f) => UpRight(f)'
        BY UpStays
      <3> QED
        BY <3>1, <3>2, <3>3 DEF UpRight
    <2> QED
      BY <2>1 DEF HostKept
  <1>3. ASSUME NEW n \in DOMAIN downq' PROVE DownRight(downq[n])'
    <2>1. CASE \E m \in DOMAIN downq : downq'[n] = downq[m]
      <3>1. PICK m \in DOMAIN downq : downq'[n] = downq[m]
        BY <2>1
      <3>2. downq[m] \in Frames /\ DownRight(downq[m])
        BY DEF TypeOK, FramesRight
      <3>3. \A f \in Frames : DownRight(f) => DownRight(f)'
        BY DownStays
      <3> QED
        BY <3>1, <3>2, <3>3 DEF DownRight
    <2> QED
      BY <2>1 DEF DownKept
  <1> QED
    BY <1>1, <1>2, <1>3 DEF FramesRight

(* Every step keeps the frames right.                                      *)
LEMMA FramesKept ==
    ASSUME TypeOK, FramesRight, StartedOnce, Held, [Next]_vars
    PROVE  FramesRight'
  <1> USE DEF keys, wire, work, host
  <1>On. Onward /\ Advance
    BY CallsGoOn, WorkGoesOn
  <1>Stay. UpKept /\ HostKept /\ DownKept => FramesRight'
    BY <1>On, FramesStay
  <1>None. /\ upq' \in {upq, <<>>} => UpKept
           /\ incoming' = incoming => HostKept
           /\ incoming # <<>> /\ incoming' = Tail(incoming) => HostKept
           /\ downq' \in {downq, <<>>} => DownKept
           /\ downq # <<>> /\ downq' = Tail(downq) => DownKept
    <2>1. upq' \in {upq, <<>>} => UpKept
      BY DEF TypeOK, UpKept
    <2>2. incoming' = incoming => HostKept
      BY DEF TypeOK, HostKept
    <2>3. incoming # <<>> /\ incoming' = Tail(incoming) => HostKept
      BY Popped DEF TypeOK, HostKept
    <2>4. downq' \in {downq, <<>>} => DownKept
      BY DEF TypeOK, DownKept
    <2>5. downq # <<>> /\ downq' = Tail(downq) => DownKept
      BY Popped DEF TypeOK, DownKept
    <2> QED
      BY <2>1, <2>2, <2>3, <2>4, <2>5
  <1>Up. ASSUME NEW f \in Frames, UpRight(f)', upq' = upq \/ upq' = upq \o <<f>>
         PROVE  UpKept
    <2>1. CASE upq' = upq \o <<f>>
      <3>1. ASSUME NEW n \in DOMAIN upq' PROVE upq'[n] = f \/ \E m \in DOMAIN upq : upq'[n] = upq[m]
        BY <2>1, Pushed DEF TypeOK
      <3> QED
        BY <1>Up, <3>1 DEF UpKept, UpRight
    <2> QED
      BY <1>Up, <1>None, <2>1
  <1>Down. ASSUME NEW f \in Frames, DownRight(f)', downq' = downq \/ downq' = downq \o <<f>>
         PROVE  DownKept
    <2>1. CASE downq' = downq \o <<f>>
      <3>1. ASSUME NEW n \in DOMAIN downq' PROVE downq'[n] = f \/ \E m \in DOMAIN downq : downq'[n] = downq[m]
        BY <2>1, Pushed DEF TypeOK
      <3> QED
        BY <1>Down, <3>1 DEF DownKept, DownRight
    <2> QED
      BY <1>Down, <1>None, <2>1
  <1>Invoke. ASSUME NEW i \in Invocations, Invoke(i)
        PROVE  FramesRight'
    <2>1. upq' = upq \/ upq' = upq \o <<Frame("invoke", i)>>
      BY <1>Invoke, Nothing DEF Invoke, Up, TypeOK
    <2>2. CASE upq' = upq
      BY <1>Invoke, <1>Stay, <1>None, <2>2 DEF Invoke
    <2>3. CASE upq' # upq
      <3>1. eng'[i] = "waiting"
        BY <1>Invoke, <2>3, Nothing DEF Invoke, Up, TypeOK
      <3>2. UpKept
        BY <1>Up, <2>1, <3>1, FramesIn DEF UpRight, Unsent
      <3> QED
        BY <1>Invoke, <1>Stay, <1>None, <3>2 DEF Invoke
    <2> QED
      BY <2>2, <2>3
  <1>SendInvoke. ASSUME NEW i \in Invocations, SendInvoke(i)
        PROVE  FramesRight'
    <2>1. upq' = upq \/ upq' = upq \o <<Frame("invoke", i)>>
      BY <1>SendInvoke DEF SendInvoke, Up
    <2>2. eng'[i] \notin Unsent
      BY <1>SendInvoke DEF SendInvoke, TypeOK, Unsent
    <2>3. UpKept
      BY <1>Up, <2>1, <2>2, FramesIn DEF UpRight
    <2> QED
      BY <1>SendInvoke, <1>Stay, <1>None, <2>3 DEF SendInvoke
  <1>Cancel. ASSUME NEW i \in Invocations, Cancel(i)
        PROVE  FramesRight'
    <2>1. upq' = upq \/ upq' = upq \o <<Frame("cancel", i)>>
      BY <1>Cancel DEF Cancel, Up
    <2>2. eng'[i] \in Lost /\ i \in flagged'
      BY <1>Cancel DEF Cancel, TypeOK, Lost
    <2>3. UpKept
      BY <1>Up, <2>1, <2>2, FramesIn DEF UpRight
    <2> QED
      BY <1>Cancel, <1>Stay, <1>None, <2>3 DEF Cancel
  <1>Adopt. ASSUME NEW i \in Invocations, Adopt(i)
        PROVE  FramesRight'
    <2>1. upq' = upq \/ upq' = upq \o <<Frame("ack", i)>>
      BY <1>Adopt DEF Adopt, Up
    <2>2. eng'[i] \notin Early
      BY <1>Adopt DEF Adopt, TypeOK, Early
    <2>3. UpKept
      BY <1>Up, <2>1, <2>2, FramesIn DEF UpRight
    <2> QED
      BY <1>Adopt, <1>Stay, <1>None, <2>3 DEF Adopt
  <1>AdoptFails. ASSUME NEW i \in Invocations, AdoptFails(i)
        PROVE  FramesRight'
    <2>1. upq' = upq \/ upq' = upq \o <<Frame("cancel", i)>>
      BY <1>AdoptFails DEF AdoptFails, Up
    <2>2. eng'[i] \in Lost /\ i \notin known'
      BY <1>AdoptFails DEF AdoptFails, Forget, TypeOK, Lost
    <2>3. UpKept
      BY <1>Up, <2>1, <2>2, FramesIn DEF UpRight
    <2> QED
      BY <1>AdoptFails, <1>Stay, <1>None, <2>3 DEF AdoptFails
  <1>Retain. ASSUME NEW i \in Invocations, Retain(i)
        PROVE  FramesRight'
    BY <1>Retain, <1>Stay, <1>None DEF Retain
  <1>WriteResult. ASSUME NEW i \in Invocations, WriteResult(i)
        PROVE  FramesRight'
    <2>1. downq' = downq \/ downq' = downq \o <<Frame("result", i)>>
      BY <1>WriteResult, Nothing DEF WriteResult, Down, TypeOK
    <2>2. task'[i] \in Begun /\ (eng'[i] \in Early => i \in refs')
      BY <1>WriteResult DEF WriteResult, TypeOK, Begun, Held
    <2>3. DownKept
      BY <1>Down, <2>1, <2>2, FramesIn DEF DownRight
    <2> QED
      BY <1>WriteResult, <1>Stay, <1>None, <2>3 DEF WriteResult
  <1>TaskEnds. ASSUME NEW i \in Invocations, TaskEnds(i)
        PROVE  FramesRight'
    BY <1>TaskEnds, <1>Stay, <1>None DEF TaskEnds, Release, Live
  <1>CompleteCancel. ASSUME NEW i \in Invocations, CompleteCancel(i)
        PROVE  FramesRight'
    <2>1. downq' = downq \/ downq' = downq \o <<Frame("cancelAck", i)>>
      BY <1>CompleteCancel, Nothing DEF CompleteCancel, Down, TypeOK
    <2>2. DownKept
      BY <1>Down, <2>1, FramesIn DEF DownRight
    <2> QED
      BY <1>CompleteCancel, <1>Stay, <1>None, <2>2 DEF CompleteCancel
  <1>ReceiveResult. CASE ReceiveResult
    <2>1. Got \in Invocations /\ downq # <<>>
      BY <1>ReceiveResult, Heads, Carried DEF ReceiveResult, Reading, Got
    <2>2. upq' = upq \/ (Got \in ackReady /\ upq' = upq \o <<Frame("ack", Got)>>)
      BY <1>ReceiveResult, Nothing DEF ReceiveResult, Up, TypeOK
    <2>3. UpKept
      <3>1. CASE Got \in ackReady /\ upq' = upq \o <<Frame("ack", Got)>>
        <4>1. eng'[Got] \notin Early
          BY <2>1, <3>1, <1>On DEF Held, Onward
        <4>2. \A j \in Invocations :
                eng'[j] \notin Early /\ upq' = upq \o <<Frame("ack", j)>> => UpKept
          BY <1>Up, FramesIn DEF UpRight
        <4> QED
          BY <2>1, <3>1, <4>1, <4>2
      <3> QED
        BY <2>2, <3>1, <1>None
    <2> QED
      BY <1>ReceiveResult, <1>Stay, <1>None, <2>1, <2>3 DEF ReceiveResult
  <1>ReceiveAcked. CASE ReceiveAcked
    BY <1>ReceiveAcked, <1>Stay, <1>None DEF ReceiveAcked, Reading, Got, Forget
  <1>ReceiveCancelAck. CASE ReceiveCancelAck
    BY <1>ReceiveCancelAck, <1>Stay, <1>None DEF ReceiveCancelAck, Reading, Got, Forget
  <1>ReceiveRebind. CASE ReceiveRebind
    BY <1>ReceiveRebind, <1>Stay, <1>None DEF ReceiveRebind, Reading, Got
  <1>ReceiveRefuses. CASE ReceiveRefuses
    BY <1>ReceiveRefuses, <1>Stay, <1>None DEF ReceiveRefuses, Reading, Got, CloseSession, Forget
  <1>Detach. CASE Detach
    BY <1>Detach, <1>Stay, <1>None DEF Detach, CloseSession, Forget
  <1>Redial. CASE Redial
    BY <1>Redial, <1>Stay, <1>None DEF Redial
  <1>RedialFails. CASE RedialFails
    BY <1>RedialFails, <1>Stay, <1>None DEF RedialFails, CloseConversation, Forget
  <1>SendRebind. CASE SendRebind
    <2> DEFINE f == Rebind(known, flagged \cap known)
    <2>1. upq' = upq \/ upq' = upq \o <<f>>
      BY <1>SendRebind DEF SendRebind, Up
    <2>2. f \in Frames /\ f.kind = "rebind" /\ f.flags = flagged \cap known
      <3>1. known \in SUBSET Invocations /\ flagged \cap known \in SUBSET Invocations
        BY DEF TypeOK
      <3> QED
        BY <3>1, FramesIn
    <2>3. \A i \in flagged : eng'[i] \in Lost
      BY <1>SendRebind DEF SendRebind, Held
    <2>4. \A g \in Frames : g.kind = "rebind" /\ (\A i \in g.flags : eng'[i] \in Lost)
                              /\ (upq' = upq \/ upq' = upq \o <<g>>) => UpKept
      BY <1>Up DEF UpRight
    <2> HIDE DEF f
    <2>5. UpKept
      BY <2>1, <2>2, <2>3, <2>4
    <2> QED
      BY <1>SendRebind, <1>Stay, <1>None, <2>5 DEF SendRebind
  <1>RebindApplied. CASE RebindApplied
    BY <1>RebindApplied, <1>Stay, <1>None DEF RebindApplied, Forget, Settled, Dropped
  <1>RebindRolledBack. CASE RebindRolledBack
    BY <1>RebindRolledBack, <1>Stay, <1>None DEF RebindRolledBack, Forget, Settled, Dropped
  <1>SessionExpires. CASE SessionExpires
    BY <1>SessionExpires, <1>Stay, <1>None DEF SessionExpires, CloseSession, Forget
  <1>Pump. CASE Pump
    <2>1. upq # <<>> /\ 1 \in DOMAIN upq /\ upq[1] \in Frames /\ Head(upq) = upq[1]
      BY <1>Pump, Heads DEF Pump
    <2>2. UpKept
      BY <1>Pump, <2>1, Popped DEF Pump, TypeOK, UpKept
    <2>3. <<epoch, upq[1]>> \in Nat \X Frames
      BY <2>1 DEF TypeOK
    <2>4. ASSUME NEW n \in DOMAIN incoming'
          PROVE  incoming'[n][2] = upq[1] \/ \E m \in DOMAIN incoming : incoming'[n] = incoming[m]
      <3>1. incoming' = Append(incoming, <<epoch, upq[1]>>)
        BY <1>Pump, <2>1 DEF Pump
      <3>2. incoming \in Seq(Nat \X Frames)
        BY DEF TypeOK
      <3>3. /\ n \in DOMAIN incoming \cup {Len(incoming)+1}
            /\ \A m \in DOMAIN incoming : incoming'[m] = incoming[m]
            /\ incoming'[Len(incoming)+1] = <<epoch, upq[1]>>
        BY <2>3, <3>1, <3>2, Pushed
      <3> QED
        BY <3>3
    <2>5. \A f \in Frames : UpRight(f) => UpRight(f)'
      BY <1>On, UpStays
    <2>6. HostKept
      BY <2>1, <2>4, <2>5, Heads DEF HostKept, UpRight
    <2> QED
      BY <1>Pump, <1>Stay, <1>None, <2>2, <2>6 DEF Pump
  <1>DaemonDetach. CASE DaemonDetach
    BY <1>DaemonDetach, <1>Stay, <1>None DEF DaemonDetach, CloseConversation
  <1>ConversationExpires. CASE ConversationExpires
    BY <1>ConversationExpires, <1>Stay, <1>None DEF ConversationExpires, CloseConversation
  <1>DropStale. CASE DropStale
    BY <1>DropStale, <1>Stay, <1>None DEF DropStale
  <1>HostInvoke. CASE HostInvoke
    BY <1>HostInvoke, <1>Stay, <1>None DEF HostInvoke, Reads, Named
  <1>HostCancel. CASE HostCancel
    BY <1>HostCancel, <1>Stay, <1>None DEF HostCancel, Reads, Named, Live
  <1>HostAck. CASE HostAck
    <2>1. Named \in Invocations /\ incoming # <<>> /\ rec[Named] = "completed" /\ rec'[Named] = "none"
      BY <1>HostAck, Heads, Carried DEF HostAck, Reads, Named, TypeOK
    <2>2. \A j \in Invocations : downq' = downq \o <<Frame("acked", j)>> /\ task'[j] \in Begun /\ rec'[j] = "none"
              => DownKept
      BY <1>Down, FramesIn DEF DownRight
    <2>3. task'[Named] \in Begun
      BY <1>HostAck, <2>1 DEF HostAck, Held
    <2>4. downq' = downq \/ downq' = downq \o <<Frame("acked", Named)>>
      BY <1>HostAck, Nothing DEF HostAck, Down, TypeOK
    <2>5. DownKept
      BY <1>None, <2>1, <2>2, <2>3, <2>4
    <2> QED
      BY <1>HostAck, <1>Stay, <1>None, <2>1, <2>5 DEF HostAck
  <1>HostRebind. CASE HostRebind
    BY <1>HostRebind, <1>Stay, <1>None DEF HostRebind, Reads, Named, Records, Status, Live
  <1>HostRefuses. CASE HostRefuses
    BY <1>HostRefuses, <1>Stay, <1>None DEF HostRefuses, CloseConversation
  <1>FinishRebind. CASE FinishRebind
    <2>1. plan[1] \in Plans
      BY <1>FinishRebind DEF FinishRebind, TypeOK
    <2> DEFINE S == {j \in DOMAIN plan[1].status \ plan[1].stop : rec[j] = "completed"}
               R == SetToSeq({Frame("result", j) : j \in S})
               f == RebindResult(plan[1].status)
    <2>2. S \in SUBSET Invocations
      BY <2>1, StatusesFit DEF Plans
    <2>3. R \in Seq(Frames) /\ \A n \in DOMAIN R : \E j \in S : R[n] = Frame("result", j)
      <3> HIDE DEF S
      <3> QED
        BY <2>2, Replayed
    <2>4. f \in Frames /\ f.kind = "rebindResult"
      BY <2>1, FramesIn DEF Plans
    <2>5. downq' = downq \/ downq' = downq \o (<<f>> \o R)
      BY <1>FinishRebind DEF FinishRebind, Down, Replay
    <2>6. \A j \in S : j \in Invocations /\ task'[j] \in Begun /\ j \in refs'
      BY <1>FinishRebind, <2>2 DEF FinishRebind, Release, Held
    <2> HIDE DEF S, R, f
    <2>7. CASE downq' = downq \o (<<f>> \o R)
      <3>1. ASSUME NEW n \in DOMAIN downq'
            PROVE  \/ \E m \in DOMAIN downq : downq'[n] = downq[m]
                   \/ downq'[n] = f
                   \/ \E j \in S : downq'[n] = Frame("result", j)
        <4>1. \/ n \in DOMAIN downq /\ downq'[n] = downq[n]
              \/ downq'[n] = f
              \/ \E m \in DOMAIN R : downq'[n] = R[m]
          <5>1. downq \in Seq(Frames) /\ R \in Seq(Frames) /\ f \in Frames
            BY <2>3, <2>4 DEF TypeOK
          <5>2. \A k \in DOMAIN (downq \o (<<f>> \o R)) :
                  \/ k \in DOMAIN downq /\ (downq \o (<<f>> \o R))[k] = downq[k]
                  \/ (downq \o (<<f>> \o R))[k] = f
                  \/ \E m \in DOMAIN R : (downq \o (<<f>> \o R))[k] = R[m]
            BY <5>1, Answered
          <5> QED
            BY <2>7, <5>2
        <4> QED
          BY <2>3, <4>1
      <3>2. ASSUME NEW n \in DOMAIN downq', NEW j \in S, downq'[n] = Frame("result", j)
            PROVE  DownRight(downq[n])'
        BY <2>6, <3>2, FramesIn DEF DownRight
      <3>3. ASSUME NEW n \in DOMAIN downq', downq'[n] = f
            PROVE  DownRight(downq[n])'
        BY <2>4, <3>3 DEF DownRight
      <3>4. ASSUME NEW n \in DOMAIN downq', ~\E m \in DOMAIN downq : downq'[n] = downq[m]
            PROVE  DownRight(downq[n])'
        <4>1. CASE downq'[n] = f
          BY <3>3, <4>1
        <4>2. CASE \E j \in S : downq'[n] = Frame("result", j)
          BY <3>2, <4>2
        <4> QED
          BY <3>1, <3>4, <4>1, <4>2
      <3>5. DownKept
        BY <3>4 DEF DownKept
      <3> QED
        BY <1>FinishRebind, <1>Stay, <1>None, <3>5 DEF FinishRebind
    <2> QED
      BY <1>FinishRebind, <1>Stay, <1>None, <2>5, <2>7 DEF FinishRebind
  <1>Cut. CASE Cut
    BY <1>Cut, <1>Stay, <1>None DEF Cut
  <1>Still. CASE UNCHANGED vars
    BY <1>Still, <1>Stay, <1>None DEF vars
  <1> QED
    BY <1>Invoke, <1>SendInvoke, <1>Cancel, <1>Adopt, <1>AdoptFails, <1>Retain, <1>WriteResult,
       <1>TaskEnds, <1>CompleteCancel, <1>ReceiveResult, <1>ReceiveAcked, <1>ReceiveCancelAck,
       <1>ReceiveRebind, <1>ReceiveRefuses, <1>Detach, <1>Redial, <1>RedialFails, <1>SendRebind,
       <1>RebindApplied, <1>RebindRolledBack, <1>SessionExpires, <1>Pump, <1>DaemonDetach,
       <1>ConversationExpires, <1>DropStale, <1>HostInvoke, <1>HostCancel, <1>HostAck,
       <1>HostRebind, <1>HostRefuses, <1>FinishRebind, <1>Cut, <1>Still
    DEF Next, Progress, Ask, Call, Run, ReadLoop, Dial, HostLoop

-----------------------------------------------------------------------------
(* What each step writes.                                                  *)
LEMMA Writes ==
    ASSUME TypeOK
    PROVE  /\ \A i \in Invocations :
                Invoke(i) => upq' = upq \/ (eng'[i] = "waiting" /\ upq' = upq \o <<Frame("invoke", i)>>)
           /\ \A i \in Invocations : SendInvoke(i) => upq' = upq \/ upq' = upq \o <<Frame("invoke", i)>>
           /\ \A i \in Invocations :
                Cancel(i) \/ AdoptFails(i) => upq' = upq \/ upq' = upq \o <<Frame("cancel", i)>>
           /\ \A i \in Invocations : Adopt(i) => upq' = upq \/ upq' = upq \o <<Frame("ack", i)>>
           /\ SendRebind => upq' = upq \/ upq' = upq \o <<Rebind(known, flagged \cap known)>>
  <1>1. ASSUME NEW i \in Invocations, Invoke(i)
        PROVE  upq' = upq \/ (eng'[i] = "waiting" /\ upq' = upq \o <<Frame("invoke", i)>>)
    BY <1>1, Nothing DEF Invoke, Up, TypeOK
  <1>2. ASSUME NEW i \in Invocations, SendInvoke(i)
        PROVE  upq' = upq \/ upq' = upq \o <<Frame("invoke", i)>>
    BY <1>2 DEF SendInvoke, Up
  <1>3. ASSUME NEW i \in Invocations, Cancel(i) \/ AdoptFails(i)
        PROVE  upq' = upq \/ upq' = upq \o <<Frame("cancel", i)>>
    BY <1>3 DEF Cancel, AdoptFails, Up
  <1>4. ASSUME NEW i \in Invocations, Adopt(i)
        PROVE  upq' = upq \/ upq' = upq \o <<Frame("ack", i)>>
    BY <1>4 DEF Adopt, Up
  <1>5. ASSUME SendRebind
        PROVE  upq' = upq \/ upq' = upq \o <<Rebind(known, flagged \cap known)>>
    BY <1>5 DEF SendRebind, Up
  <1> QED
    BY <1>1, <1>2, <1>3, <1>4, <1>5

(* A replayed result is acknowledged again only if it was before.          *)
LEMMA WritesAgain ==
    ASSUME TypeOK, FramesRight, ReceiveResult
    PROVE  /\ Got \in Invocations /\ downq # <<>>
           /\ upq' = upq \/ (Got \in ackReady /\ upq' = upq \o <<Frame("ack", Got)>>)
  <1>1. Got \in Invocations /\ downq # <<>>
    BY Heads, Carried DEF ReceiveResult, Reading, Got
  <1>2. upq' = upq \/ (Got \in ackReady /\ upq' = upq \o <<Frame("ack", Got)>>)
    BY Nothing DEF ReceiveResult, Up, TypeOK
  <1> QED
    BY <1>1, <1>2

(* The rebind names what the session knows, and what of it is cancelled.   *)
LEMMA Offer ==
    ASSUME TypeOK
    PROVE  LET f == Rebind(known, flagged \cap known) IN
           /\ f \in Frames /\ f.kind = "rebind" /\ f.inv = known /\ f.flags = flagged \cap known
  <1>1. known \in SUBSET Invocations /\ flagged \cap known \in SUBSET Invocations
    BY DEF TypeOK
  <1> QED
    BY <1>1, FramesIn

(* What the pump moves from the socket to the host loop.                   *)
LEMMA Pumped ==
    ASSUME TypeOK, FramesRight, Pump
    PROVE  /\ upq # <<>> /\ upq[1] \in Frames
           /\ DOMAIN incoming' = DOMAIN incoming \cup {Len(incoming)+1}
           /\ Len(incoming)+1 \notin DOMAIN incoming /\ DOMAIN incoming = 1 .. Len(incoming)
           /\ Len(incoming) \in Nat
           /\ \A n \in DOMAIN incoming : incoming'[n] = incoming[n]
           /\ incoming'[Len(incoming)+1] = <<epoch, upq[1]>>
           /\ \A n \in DOMAIN upq' : n \in Nat \ {0} /\ n+1 \in DOMAIN upq /\ upq'[n] = upq[n+1]
           /\ \A n \in DOMAIN upq : n # 1 => n-1 \in DOMAIN upq' /\ upq'[n-1] = upq[n]
  <1>1. upq # <<>> /\ upq[1] \in Frames /\ Head(upq) = upq[1]
    BY Heads DEF Pump
  <1>2. <<epoch, upq[1]>> \in Nat \X Frames
    BY <1>1 DEF TypeOK
  <1>3. incoming' = Append(incoming, <<epoch, upq[1]>>)
    BY <1>1 DEF Pump
  <1>4. upq' = Tail(upq)
    BY DEF Pump
  <1>5. /\ DOMAIN incoming' = DOMAIN incoming \cup {Len(incoming)+1}
        /\ Len(incoming)+1 \notin DOMAIN incoming /\ DOMAIN incoming = 1 .. Len(incoming)
        /\ Len(incoming) \in Nat
        /\ \A n \in DOMAIN incoming : incoming'[n] = incoming[n]
        /\ incoming'[Len(incoming)+1] = <<epoch, upq[1]>>
    <2> DEFINE p == <<epoch, upq[1]>>
    <2>1. p \in Nat \X Frames /\ incoming' = Append(incoming, p)
      BY <1>2, <1>3
    <2> HIDE DEF p
    <2>2. incoming \in Seq(Nat \X Frames)
      BY DEF TypeOK
    <2>3. incoming' = incoming \o <<p>>
      BY <2>1, <2>2, Pushed
    <2>4. /\ DOMAIN incoming' = DOMAIN incoming \cup {Len(incoming)+1}
          /\ Len(incoming)+1 \notin DOMAIN incoming /\ DOMAIN incoming = 1 .. Len(incoming)
          /\ Len(incoming) \in Nat
          /\ \A n \in DOMAIN incoming : incoming'[n] = incoming[n]
          /\ incoming'[Len(incoming)+1] = p
      BY <2>1, <2>2, <2>3, Pushed
    <2> QED
      BY <2>4 DEF p
  <1>6. /\ \A n \in DOMAIN upq' : n \in Nat \ {0} /\ n+1 \in DOMAIN upq /\ upq'[n] = upq[n+1]
        /\ \A n \in DOMAIN upq : n # 1 => n-1 \in DOMAIN upq' /\ upq'[n-1] = upq[n]
    BY <1>1, <1>4, Popped DEF TypeOK
  <1> QED
    BY <1>1, <1>5, <1>6

-----------------------------------------------------------------------------
(* Invocations start once.                                                 *)

(* No invocation is written, recorded or started.                          *)
NoneSent ==
    \/ upq' \in {upq, <<>>}
    \/ \E f \in Frames : f.kind # "invoke" /\ upq' = upq \o <<f>>
NoneStarts ==
    /\ NoneSent
    /\ incoming' = incoming \/ (incoming # <<>> /\ incoming' = Tail(incoming))
    /\ \A i \in Invocations : task[i] = "none" => task'[i] = "none" /\ (rec[i] = "none" => rec'[i] = "none")
    /\ \A i \in Invocations : task[i] # "none" => task'[i] # "none"
    /\ runs' = runs

(* A step that starts nothing keeps the invocations started once.          *)
LEMMA NoneStartsKept ==
    ASSUME TypeOK, StartedOnce, Onward, NoneStarts
    PROVE  StartedOnce'
  <1>1. ASSUME NEW n \in DOMAIN upq', upq'[n].kind = "invoke"
        PROVE  n \in DOMAIN upq /\ upq'[n] = upq[n]
    <2>1. CASE \E f \in Frames : f.kind # "invoke" /\ upq' = upq \o <<f>>
      <3>1. PICK f \in Frames : f.kind # "invoke" /\ upq' = upq \o <<f>>
        BY <2>1
      <3>2. /\ DOMAIN (upq \o <<f>>) = DOMAIN upq \cup {Len(upq)+1}
            /\ \A k \in DOMAIN upq : (upq \o <<f>>)[k] = upq[k]
            /\ (upq \o <<f>>)[Len(upq)+1] = f
        BY Pushed DEF TypeOK
      <3> QED
        BY <1>1, <3>1, <3>2
    <2>2. CASE upq' = <<>>
      BY <1>1, <2>2
    <2> QED
      BY <1>1, <2>1, <2>2 DEF NoneStarts, NoneSent
  <1>2. \/ \A n \in DOMAIN incoming' : n \in DOMAIN incoming /\ incoming'[n] = incoming[n]
        \/ \A n \in DOMAIN incoming' : n \in Nat /\ n+1 \in DOMAIN incoming /\ incoming'[n] = incoming[n+1]
    <2>1. CASE incoming # <<>> /\ incoming' = Tail(incoming)
      BY <2>1, Popped DEF TypeOK
    <2> QED
      BY <2>1 DEF NoneStarts
  <1>3. \A i \in Invocations : \A m, n \in DOMAIN upq' :
          Invokes(upq'[m], i) /\ Invokes(upq'[n], i) => m = n
    BY <1>1 DEF StartedOnce, Invokes
  <1>4. \A i \in Invocations : \A m, n \in DOMAIN incoming' :
          Invokes(incoming'[m][2], i) /\ Invokes(incoming'[n][2], i) => m = n
    BY <1>2 DEF StartedOnce, Invokes
  <1>5. ASSUME NEW n \in DOMAIN incoming'
        PROVE  \E m \in DOMAIN incoming : incoming'[n] = incoming[m]
    BY <1>2
  <1>6. \A i \in Invocations : \A m \in DOMAIN upq' : Invokes(upq'[m], i) =>
          /\ rec'[i] = "none" /\ task'[i] = "none"
          /\ \A n \in DOMAIN incoming' : ~Invokes(incoming'[n][2], i)
    BY <1>1, <1>5 DEF StartedOnce, Invokes, NoneStarts
  <1>7. \A i \in Invocations : \A n \in DOMAIN incoming' :
          Invokes(incoming'[n][2], i) => task'[i] = "none"
    BY <1>5 DEF StartedOnce, Invokes, NoneStarts
  <1>8. \A i \in Invocations : /\ eng'[i] \in Unsent => rec'[i] = "none" /\ task'[i] = "none"
                              /\ runs'[i] = IF task'[i] = "none" THEN 0 ELSE 1
    BY DEF StartedOnce, NoneStarts, Onward
  <1> QED
    BY <1>3, <1>4, <1>6, <1>7, <1>8 DEF StartedOnce, Invokes

(* Every step keeps the invocations started once: a frame is written only  *)
(* by a call that was never sent, recorded only while it is in the socket, *)
(* and run only while it is before the host loop.                          *)
LEMMA StartsKept ==
    ASSUME TypeOK, FramesRight, StartedOnce, [Next]_vars
    PROVE  StartedOnce'
  <1> USE DEF keys, wire, work, host
  <1>On. Onward
    BY CallsGoOn
  <1>Quiet. NoneStarts => StartedOnce'
    BY <1>On, NoneStartsKept
  <1>Sent. ASSUME NEW f \in Frames, f.kind # "invoke", upq' = upq \/ upq' = upq \o <<f>>
           PROVE  NoneSent
    BY <1>Sent DEF NoneSent
  <1>Sends. ASSUME NEW i \in Invocations, eng[i] \in Unsent, upq' = upq \o <<Frame("invoke", i)>>,
                  eng'[i] \notin Unsent, \A j \in Invocations : j # i => eng'[j] = eng[j],
                  UNCHANGED <<incoming, rec, task, runs>>
            PROVE  StartedOnce'
    <2> DEFINE f == Frame("invoke", i)
    <2>1. f \in Frames /\ Invokes(f, i) /\ \A j \in Invocations : Invokes(f, j) => j = i
      BY FramesIn DEF Invokes
    <2> HIDE DEF f
    <2>2. /\ DOMAIN upq' = DOMAIN upq \cup {Len(upq)+1} /\ upq'[Len(upq)+1] = f
          /\ \A n \in DOMAIN upq : upq'[n] = upq[n]
      BY <1>Sends, <2>1, Pushed DEF TypeOK, f
    <2>3. /\ \A n \in DOMAIN upq : ~Invokes(upq[n], i)
          /\ \A n \in DOMAIN incoming : ~Invokes(incoming[n][2], i)
      BY <1>Sends DEF FramesRight, UpRight, Invokes
    <2>4. \A j \in Invocations : \A m, n \in DOMAIN upq' :
            Invokes(upq'[m], j) /\ Invokes(upq'[n], j) => m = n
      BY <2>1, <2>2, <2>3 DEF StartedOnce, Invokes
    <2>5. \A j \in Invocations : \A m \in DOMAIN upq' : Invokes(upq'[m], j) =>
            /\ rec[j] = "none" /\ task[j] = "none"
            /\ \A n \in DOMAIN incoming : ~Invokes(incoming[n][2], j)
      BY <1>Sends, <2>1, <2>2, <2>3 DEF StartedOnce, Invokes
    <2>6. \A j \in Invocations : eng'[j] \in Unsent => rec[j] = "none" /\ task[j] = "none"
      BY <1>Sends DEF StartedOnce
    <2> QED
      BY <1>Sends, <2>4, <2>5, <2>6 DEF StartedOnce, Invokes
  <1>Rest. upq' = upq \/ upq' = <<>> => NoneSent
    BY DEF NoneSent
  <1>Invoke. ASSUME NEW i \in Invocations, Invoke(i)
        PROVE  StartedOnce'
    <2>1. CASE upq' = upq
      BY <1>Invoke, <1>Quiet, <1>Rest, <2>1 DEF Invoke, NoneStarts, TypeOK
    <2>2. CASE upq' # upq
      <3>1. upq' = upq \o <<Frame("invoke", i)>> /\ eng'[i] \notin Unsent
        BY <1>Invoke, <2>2, Writes DEF Unsent
      <3>2. /\ eng[i] \in Unsent /\ \A j \in Invocations : j # i => eng'[j] = eng[j]
            /\ UNCHANGED <<incoming, rec, task, runs>>
        BY <1>Invoke DEF Invoke, TypeOK, Unsent
      <3> QED
        BY <1>Sends, <3>1, <3>2
    <2> QED
      BY <2>1, <2>2
  <1>SendInvoke. ASSUME NEW i \in Invocations, SendInvoke(i)
        PROVE  StartedOnce'
    <2>1. CASE upq' = upq
      BY <1>SendInvoke, <1>Quiet, <1>Rest, <2>1 DEF SendInvoke, NoneStarts, TypeOK
    <2>2. CASE upq' # upq
      <3>1. upq' = upq \o <<Frame("invoke", i)>>
        BY <1>SendInvoke, <2>2, Writes
      <3> QED
        BY <1>SendInvoke, <1>Sends, <3>1 DEF SendInvoke, TypeOK, Unsent
    <2> QED
      BY <2>1, <2>2
  <1>Cancel. ASSUME NEW i \in Invocations, Cancel(i)
        PROVE  StartedOnce'
    <2>1. NoneSent
      <3>1. Frame("cancel", i) \in Frames /\ Frame("cancel", i).kind # "invoke"
        BY FramesIn
      <3>2. upq' = upq \/ upq' = upq \o <<Frame("cancel", i)>>
        BY <1>Cancel, Writes
      <3> QED
        BY <1>Sent, <3>1, <3>2
    <2> QED
      BY <1>Cancel, <1>Quiet, <2>1 DEF Cancel, NoneStarts
  <1>Adopt. ASSUME NEW i \in Invocations, Adopt(i)
        PROVE  StartedOnce'
    <2>1. NoneSent
      <3>1. Frame("ack", i) \in Frames /\ Frame("ack", i).kind # "invoke"
        BY FramesIn
      <3>2. upq' = upq \/ upq' = upq \o <<Frame("ack", i)>>
        BY <1>Adopt, Writes
      <3> QED
        BY <1>Sent, <3>1, <3>2
    <2> QED
      BY <1>Adopt, <1>Quiet, <2>1 DEF Adopt, NoneStarts
  <1>AdoptFails. ASSUME NEW i \in Invocations, AdoptFails(i)
        PROVE  StartedOnce'
    <2>1. NoneSent
      <3>1. Frame("cancel", i) \in Frames /\ Frame("cancel", i).kind # "invoke"
        BY FramesIn
      <3>2. upq' = upq \/ upq' = upq \o <<Frame("cancel", i)>>
        BY <1>AdoptFails, Writes
      <3> QED
        BY <1>Sent, <3>1, <3>2
    <2> QED
      BY <1>AdoptFails, <1>Quiet, <2>1 DEF AdoptFails, NoneStarts
  <1>Retain. ASSUME NEW i \in Invocations, Retain(i)
        PROVE  StartedOnce'
    BY <1>Retain, <1>Quiet, <1>Rest DEF Retain, NoneStarts, TypeOK
  <1>WriteResult. ASSUME NEW i \in Invocations, WriteResult(i)
        PROVE  StartedOnce'
    BY <1>WriteResult, <1>Quiet, <1>Rest DEF WriteResult, Down, NoneStarts, TypeOK
  <1>TaskEnds. ASSUME NEW i \in Invocations, TaskEnds(i)
        PROVE  StartedOnce'
    BY <1>TaskEnds, <1>Quiet, <1>Rest DEF TaskEnds, Release, Live, NoneStarts, TypeOK
  <1>CompleteCancel. ASSUME NEW i \in Invocations, CompleteCancel(i)
        PROVE  StartedOnce'
    BY <1>CompleteCancel, <1>Quiet, <1>Rest DEF CompleteCancel, Release, Down, Live, NoneStarts,
       TypeOK
  <1>ReceiveResult. CASE ReceiveResult
    <2>1. NoneSent
      BY <1>ReceiveResult, <1>Sent, <1>Rest, WritesAgain, FramesIn
    <2> QED
      BY <1>ReceiveResult, <1>Quiet, <2>1 DEF ReceiveResult, NoneStarts
  <1>ReceiveAcked. CASE ReceiveAcked
    BY <1>ReceiveAcked, <1>Quiet, <1>Rest DEF ReceiveAcked, Reading, Got, Forget, NoneStarts, TypeOK
  <1>ReceiveCancelAck. CASE ReceiveCancelAck
    BY <1>ReceiveCancelAck, <1>Quiet, <1>Rest DEF ReceiveCancelAck, Reading, Got, Forget,
       NoneStarts, TypeOK
  <1>ReceiveRebind. CASE ReceiveRebind
    BY <1>ReceiveRebind, <1>Quiet, <1>Rest DEF ReceiveRebind, Reading, Got, NoneStarts, TypeOK
  <1>ReceiveRefuses. CASE ReceiveRefuses
    BY <1>ReceiveRefuses, <1>Quiet, <1>Rest DEF ReceiveRefuses, Reading, Got, CloseSession,
       Forget, NoneStarts, TypeOK
  <1>Detach. CASE Detach
    BY <1>Detach, <1>Quiet, <1>Rest DEF Detach, CloseSession, Forget, NoneStarts, TypeOK
  <1>Redial. CASE Redial
    BY <1>Redial, <1>Quiet, <1>Rest DEF Redial, NoneStarts, TypeOK
  <1>RedialFails. CASE RedialFails
    BY <1>RedialFails, <1>Quiet, <1>Rest DEF RedialFails, CloseConversation, Forget, NoneStarts,
       TypeOK
  <1>SendRebind. CASE SendRebind
    <2>1. NoneSent
      BY <1>SendRebind, <1>Sent, Writes, Offer
    <2> QED
      BY <1>SendRebind, <1>Quiet, <2>1 DEF SendRebind, NoneStarts
  <1>RebindApplied. CASE RebindApplied
    BY <1>RebindApplied, <1>Quiet, <1>Rest DEF RebindApplied, Forget, Settled, Dropped,
       NoneStarts, TypeOK
  <1>RebindRolledBack. CASE RebindRolledBack
    BY <1>RebindRolledBack, <1>Quiet, <1>Rest DEF RebindRolledBack, Forget, Settled, Dropped,
       NoneStarts, TypeOK
  <1>SessionExpires. CASE SessionExpires
    BY <1>SessionExpires, <1>Quiet, <1>Rest DEF SessionExpires, CloseSession, Forget,
       NoneStarts, TypeOK
  <1>Pump. CASE Pump
    <2>1. /\ upq # <<>> /\ 1 \in DOMAIN upq /\ upq[1] \in Frames /\ Head(upq) = upq[1]
      BY <1>Pump, Heads DEF Pump
    <2>2. \A n \in DOMAIN upq' : n \in Nat \ {0} /\ n+1 \in DOMAIN upq /\ upq'[n] = upq[n+1]
      BY <1>Pump, <2>1, Popped DEF Pump, TypeOK
    <2>3. /\ DOMAIN incoming' = DOMAIN incoming \cup {Len(incoming)+1}
          /\ \A n \in DOMAIN incoming : incoming'[n] = incoming[n]
          /\ incoming'[Len(incoming)+1] = <<epoch, upq[1]>>
      BY <1>Pump, <2>1, Pumped
    <2>4. \A i \in Invocations : \A m, n \in DOMAIN upq' :
            Invokes(upq'[m], i) /\ Invokes(upq'[n], i) => m = n
      BY <2>2 DEF StartedOnce, Invokes
    <2>5. \A i \in Invocations : \A m, n \in DOMAIN incoming' :
            Invokes(incoming'[m][2], i) /\ Invokes(incoming'[n][2], i) => m = n
      BY <2>1, <2>3 DEF StartedOnce, Invokes
    <2>6. ASSUME NEW i \in Invocations, NEW m \in DOMAIN upq', Invokes(upq'[m], i)
          PROVE  /\ rec'[i] = "none" /\ task'[i] = "none"
                 /\ \A n \in DOMAIN incoming' : ~Invokes(incoming'[n][2], i)
      <3>1. m+1 \in DOMAIN upq /\ m+1 # 1 /\ Invokes(upq[m+1], i)
        BY <2>2, <2>6
      <3>2. ~Invokes(upq[1], i)
        BY <2>1, <3>1 DEF StartedOnce
      <3>3. rec[i] = "none" /\ task[i] = "none" /\ \A n \in DOMAIN incoming : ~Invokes(incoming[n][2], i)
        BY <3>1 DEF StartedOnce
      <3>4. rec'[i] = "none" /\ task'[i] = "none"
        BY <1>Pump, <2>1, <3>2, <3>3, Carried DEF Pump, Invokes, TypeOK
      <3> QED
        BY <2>3, <3>2, <3>3, <3>4 DEF Invokes
    <2>7. \A i \in Invocations : \A n \in DOMAIN incoming' :
            Invokes(incoming'[n][2], i) => task'[i] = "none"
      BY <1>Pump, <2>1, <2>3 DEF Pump, StartedOnce, Invokes
    <2>8. \A i \in Invocations : /\ eng'[i] \in Unsent => rec'[i] = "none" /\ task'[i] = "none"
                                /\ runs'[i] = IF task'[i] = "none" THEN 0 ELSE 1
      <3>1. ASSUME NEW i \in Invocations, eng[i] \in Unsent
            PROVE  rec'[i] = "none"
        <4>1. ~Invokes(upq[1], i)
          BY <2>1, <3>1, Heads DEF UpRight, Invokes
        <4> QED
          BY <1>Pump, <2>1, <3>1, <4>1, Carried DEF Pump, StartedOnce, Invokes, TypeOK
      <3> QED
        BY <1>Pump, <3>1 DEF Pump, StartedOnce
    <2> QED
      BY <2>4, <2>5, <2>6, <2>7, <2>8 DEF StartedOnce, Invokes
  <1>DaemonDetach. CASE DaemonDetach
    BY <1>DaemonDetach, <1>Quiet, <1>Rest DEF DaemonDetach, CloseConversation, NoneStarts, TypeOK
  <1>ConversationExpires. CASE ConversationExpires
    BY <1>ConversationExpires, <1>Quiet, <1>Rest DEF ConversationExpires, CloseConversation,
       NoneStarts, TypeOK
  <1>DropStale. CASE DropStale
    BY <1>DropStale, <1>Quiet, <1>Rest DEF DropStale, NoneStarts, TypeOK
  <1>HostInvoke. CASE HostInvoke
    <2>1. /\ incoming # <<>> /\ 1 \in DOMAIN incoming /\ Named \in Invocations
          /\ Invokes(incoming[1][2], Named) /\ eng[Named] \notin Unsent
      BY <1>HostInvoke, Heads, Carried DEF HostInvoke, Reads, Named, UpRight, Invokes
    <2>2. \A n \in DOMAIN incoming' : n \in Nat \ {0} /\ n+1 \in DOMAIN incoming /\ incoming'[n] = incoming[n+1]
      BY <1>HostInvoke, <2>1, Popped DEF HostInvoke, TypeOK
    <2>3. \A i \in Invocations : \A m, n \in DOMAIN incoming' :
            Invokes(incoming'[m][2], i) /\ Invokes(incoming'[n][2], i) => m = n
      BY <2>2 DEF StartedOnce, Invokes
    <2>4. \A n \in DOMAIN incoming' : ~Invokes(incoming'[n][2], Named)
      BY <2>1, <2>2 DEF StartedOnce, Invokes
    <2>5. \A n \in DOMAIN upq : ~Invokes(upq[n], Named)
      BY <2>1 DEF StartedOnce
    <2>6. \A i \in Invocations : i # Named => task'[i] = task[i] /\ runs'[i] = runs[i]
      BY <1>HostInvoke DEF HostInvoke, TypeOK
    <2>7. task[Named] = "none" /\ task'[Named] = "running" /\ runs'[Named] = runs[Named] + 1
      BY <1>HostInvoke, <2>1 DEF HostInvoke, TypeOK, StartedOnce
    <2>8. upq' = upq /\ rec' = rec /\ eng' = eng
      BY <1>HostInvoke DEF HostInvoke
    <2>9. \A i \in Invocations : \A m \in DOMAIN upq : Invokes(upq[m], i) =>
            /\ rec'[i] = "none" /\ task'[i] = "none"
            /\ \A n \in DOMAIN incoming' : ~Invokes(incoming'[n][2], i)
      BY <2>2, <2>5, <2>6, <2>8 DEF StartedOnce, Invokes
    <2>10. \A i \in Invocations : \A n \in DOMAIN incoming' :
             Invokes(incoming'[n][2], i) => task'[i] = "none"
      BY <2>2, <2>4, <2>6 DEF StartedOnce, Invokes
    <2>11. \A i \in Invocations : /\ eng'[i] \in Unsent => rec'[i] = "none" /\ task'[i] = "none"
                                 /\ runs'[i] = IF task'[i] = "none" THEN 0 ELSE 1
      <3>1. runs'[Named] = 1 /\ task'[Named] # "none" /\ eng'[Named] \notin Unsent
        BY <2>1, <2>7, <2>8 DEF StartedOnce
      <3> QED
        BY <2>6, <2>8, <3>1 DEF StartedOnce
    <2>12. \A i \in Invocations : \A m, n \in DOMAIN upq' :
             Invokes(upq'[m], i) /\ Invokes(upq'[n], i) => m = n
      BY <2>8 DEF StartedOnce, Invokes
    <2> QED
      BY <2>3, <2>8, <2>9, <2>10, <2>11, <2>12 DEF StartedOnce, Invokes
  <1>HostCancel. CASE HostCancel
    BY <1>HostCancel, <1>Quiet, <1>Rest DEF HostCancel, Reads, Named, Live, NoneStarts, TypeOK
  <1>HostAck. CASE HostAck
    BY <1>HostAck, <1>Quiet, <1>Rest DEF HostAck, Reads, Named, Down, NoneStarts, TypeOK
  <1>HostRebind. CASE HostRebind
    BY <1>HostRebind, <1>Quiet, <1>Rest DEF HostRebind, Reads, Named, Records, Status, Live,
       NoneStarts, TypeOK
  <1>HostRefuses. CASE HostRefuses
    BY <1>HostRefuses, <1>Quiet, <1>Rest DEF HostRefuses, CloseConversation, NoneStarts, TypeOK
  <1>FinishRebind. CASE FinishRebind
    BY <1>FinishRebind, <1>Quiet, <1>Rest DEF FinishRebind, Release, Down, Replay, NoneStarts,
       TypeOK
  <1>Cut. CASE Cut
    BY <1>Cut, <1>Quiet, <1>Rest DEF Cut, NoneStarts, TypeOK
  <1>Still. CASE UNCHANGED vars
    BY <1>Still, <1>Quiet, <1>Rest DEF vars, NoneStarts
  <1> QED
    BY <1>Invoke, <1>SendInvoke, <1>Cancel, <1>Adopt, <1>AdoptFails, <1>Retain, <1>WriteResult,
       <1>TaskEnds, <1>CompleteCancel, <1>ReceiveResult, <1>ReceiveAcked, <1>ReceiveCancelAck,
       <1>ReceiveRebind, <1>ReceiveRefuses, <1>Detach, <1>Redial, <1>RedialFails, <1>SendRebind,
       <1>RebindApplied, <1>RebindRolledBack, <1>SessionExpires, <1>Pump, <1>DaemonDetach,
       <1>ConversationExpires, <1>DropStale, <1>HostInvoke, <1>HostCancel, <1>HostAck,
       <1>HostRebind, <1>HostRefuses, <1>FinishRebind, <1>Cut, <1>Still
    DEF Next, Progress, Ask, Call, Run, ReadLoop, Dial, HostLoop

-----------------------------------------------------------------------------
(* Holds.                                                                  *)

(* What a planned answer is made of.                                       *)
LEMMA PlanFits ==
    ASSUME TypeOK, plan # <<>>
    PROVE  /\ plan[1].epoch \in Nat /\ plan[1].stop \subseteq Invocations
           /\ plan[1].status \in Statuses
  <1>1. plan[1] \in Plans
    BY DEF TypeOK
  <1> QED
    BY <1>1 DEF Plans

(* Every step keeps the completed results held.                            *)
LEMMA HeldKept ==
    ASSUME TypeOK, FramesRight, StartedOnce, Held, MissingIsGone, [Next]_vars
    PROVE  Held'
  <1> USE DEF keys, work, host
  <1>On. Onward /\ Advance
    BY CallsGoOn, WorkGoesOn
  <1>Calls. ASSUME \A i \in Invocations :
                      \/ eng'[i] = eng[i]
                      \/ eng'[i] = "failed"
                      \/ eng[i] \in Unsent /\ eng'[i] \in {"sending", "waiting"}
                      \/ eng[i] = "acking" /\ eng'[i] = "returned" /\ rec[i] = "none",
                   ackReady' \subseteq ackReady /\ ackReady' \subseteq known', flagged' \subseteq flagged,
                   UNCHANGED <<rec, refs, cancelled, cancelling, plan>>,
                   \A i \in Invocations : task'[i] = task[i] \/ (task[i] # "none" /\ task'[i] = "gone")
            PROVE  Held'
    <2>1. \A i \in Invocations : /\ task'[i] \notin Begun => rec'[i] # "completed"
                                 /\ i \in cancelled' => task'[i] # "none"
      BY <1>Calls DEF Held, Begun
    <2>2. refs' = {i \in Invocations : rec'[i] = "completed"}
      BY <1>Calls DEF Held
    <2>3. \A i \in Invocations : eng'[i] = "adopting" => eng[i] = "adopting"
      BY <1>Calls
    <2>4. \A i \in Invocations : /\ eng'[i] = "adopting" => task'[i] \in Begun /\ i \in refs'
                                 /\ eng'[i] \in {"acking", "returned"} => task'[i] \in Begun
                                 /\ eng'[i] = "returned" => rec'[i] = "none"
      BY <1>Calls, <1>On, <2>3 DEF Held, Advance
    <2>5. \A i \in Invocations : task'[i] = "writing" /\ eng'[i] \in Early => i \in refs'
      BY <1>Calls, <1>On DEF Held, Onward
    <2>6. /\ ackReady' \subseteq known' /\ \A i \in ackReady' : eng'[i] \notin Early
          /\ \A i \in flagged' \cup cancelled' \cup cancelling' : eng'[i] \in Lost
      BY <1>Calls, <1>On DEF Held, Onward, TypeOK
    <2>7. plan' # <<>> => \A i \in plan'[1].stop : eng'[i] \in Lost
      <3>1. plan # <<>> => plan[1].stop \subseteq Invocations
        BY PlanFits
      <3> QED
        BY <1>Calls, <1>On, <3>1 DEF Held, Onward
    <2>8. \A i \in cancelling' : i \notin known' \/ i \in flagged'
      BY <1>Calls, <1>On DEF Held, Onward, TypeOK, Lost
    <2> QED
      BY <2>1, <2>2, <2>4, <2>5, <2>6, <2>7, <2>8, <1>Calls DEF Held, TypeOK
  <1>Invoke. ASSUME NEW i \in Invocations, Invoke(i)
        PROVE  Held'
    BY <1>Invoke, <1>Calls DEF Invoke, TypeOK, Unsent, Held
  <1>SendInvoke. ASSUME NEW i \in Invocations, SendInvoke(i)
        PROVE  Held'
    BY <1>SendInvoke, <1>On DEF SendInvoke, Up, Held, TypeOK, Onward, Advance, Early, Lost,
       Begun, Ended
  <1>Cancel. ASSUME NEW i \in Invocations, Cancel(i)
        PROVE  Held'
    BY <1>Cancel, <1>On DEF Cancel, Up, Held, TypeOK, Onward, Advance, Early, Lost, Begun, Ended
  <1>Adopt. ASSUME NEW i \in Invocations, Adopt(i)
        PROVE  Held'
    BY <1>Adopt, <1>On DEF Adopt, Up, Held, TypeOK, Onward, Advance, Early, Lost, Begun, Ended
  <1>AdoptFails. ASSUME NEW i \in Invocations, AdoptFails(i)
        PROVE  Held'
    BY <1>AdoptFails, <1>On DEF AdoptFails, Up, Forget, Held, TypeOK, Onward, Advance, Early,
       Lost, Begun, Ended
  <1>Retain. ASSUME NEW i \in Invocations, Retain(i)
        PROVE  Held'
    BY <1>Retain, <1>On DEF Retain, Held, TypeOK, Onward, Advance, Early, Lost, Begun, Ended
  <1>WriteResult. ASSUME NEW i \in Invocations, WriteResult(i)
        PROVE  Held'
    BY <1>WriteResult, <1>On DEF WriteResult, Down, Held, TypeOK, Onward, Advance, Early, Lost,
       Begun, Ended
  <1>TaskEnds. ASSUME NEW i \in Invocations, TaskEnds(i)
        PROVE  Held'
    BY <1>TaskEnds, <1>On DEF TaskEnds, Release, Live, Held, TypeOK, Onward, Advance, Early,
       Lost, Begun, Ended
  <1>CompleteCancel. ASSUME NEW i \in Invocations, CompleteCancel(i)
        PROVE  Held'
    BY <1>CompleteCancel, <1>On DEF CompleteCancel, Release, Down, Live, Held, TypeOK, Onward,
       Advance, Early, Lost, Begun, Ended
  <1>ReceiveResult. CASE ReceiveResult
    <2>1. /\ Got \in Invocations /\ task[Got] \in Begun /\ (eng[Got] \in Early => Got \in refs)
      BY <1>ReceiveResult, Heads, Carried DEF ReceiveResult, Reading, Got, DownRight
    <2>2. eng' = eng \/ (eng[Got] = "waiting" /\ eng' = [eng EXCEPT ![Got] = "adopting"])
      BY <1>ReceiveResult DEF ReceiveResult
    <2>3. UNCHANGED <<known, ackReady, flagged, task, cancelled, rec, cancelling, refs, plan>>
      BY <1>ReceiveResult DEF ReceiveResult
    <2>4. CASE eng' = eng
      BY <2>3, <2>4 DEF Held
    <2>5. CASE eng[Got] = "waiting" /\ eng' = [eng EXCEPT ![Got] = "adopting"]
      <3>1. plan # <<>> => plan[1].stop \subseteq Invocations
        BY PlanFits
      <3> QED
        BY <2>1, <2>3, <2>5, <3>1 DEF Held, TypeOK, Early, Lost
    <2> QED
      BY <2>2, <2>4, <2>5
  <1>ReceiveAcked. CASE ReceiveAcked
    <2>1. Got \in Invocations /\ rec[Got] = "none"
      BY <1>ReceiveAcked, Heads, Carried DEF ReceiveAcked, Reading, Got, DownRight
    <2> QED
      BY <1>ReceiveAcked, <1>Calls, <2>1 DEF ReceiveAcked, Forget, Held, TypeOK
  <1>ReceiveCancelAck. CASE ReceiveCancelAck
    BY <1>ReceiveCancelAck, <1>On DEF ReceiveCancelAck, Reading, Got, Forget, Held, TypeOK,
       Onward, Advance, Early, Lost, Begun, Ended
  <1>ReceiveRebind. CASE ReceiveRebind
    BY <1>ReceiveRebind, <1>On DEF ReceiveRebind, Reading, Got, Held, TypeOK, Onward, Advance,
       Early, Lost, Begun, Ended
  <1>ReceiveRefuses. CASE ReceiveRefuses
    BY <1>ReceiveRefuses, <1>Calls DEF ReceiveRefuses, CloseSession, Forget, Held, TypeOK
  <1>Detach. CASE Detach
    <2>1. CASE CloseSession("closed")
      BY <1>Detach, <2>1, <1>Calls DEF Detach, CloseSession, Forget, Held, TypeOK
    <2>2. CASE sess' = "down"
      BY <1>Detach, <2>2, <1>Calls DEF Detach, CloseSession, Held, TypeOK, Unsent
    <2> QED
      BY <1>Detach, <2>1, <2>2 DEF Detach
  <1>Redial. CASE Redial
    BY <1>Redial, <1>On DEF Redial, Held, TypeOK, Onward, Advance, Early, Lost, Begun, Ended
  <1>RedialFails. CASE RedialFails
    BY <1>RedialFails, <1>Calls DEF RedialFails, CloseConversation, Forget, Held, TypeOK
  <1>SendRebind. CASE SendRebind
    BY <1>SendRebind, <1>On DEF SendRebind, Up, Held, TypeOK, Onward, Advance, Early, Lost,
       Begun, Ended
  <1>RebindApplied. CASE RebindApplied
    <2>1. \A i \in Invocations : eng'[i] = eng[i] \/ eng'[i] = "failed"
              \/ (eng[i] = "acking" /\ eng'[i] = "returned" /\ rec[i] = "none")
      BY <1>RebindApplied DEF RebindApplied, Dropped, Settled, MissingIsGone, Gone
    <2> QED
      BY <1>RebindApplied, <1>Calls, <2>1 DEF RebindApplied, Forget, Held
  <1>RebindRolledBack. CASE RebindRolledBack
    <2>1. PICK S \in SUBSET (Dropped(reply[1]) \cap known) :
            /\ eng' = [i \in Invocations |-> IF i \in S THEN Settled(reply[1], i) ELSE eng[i]]
            /\ Forget(S)
      BY <1>RebindRolledBack DEF RebindRolledBack
    <2>2. \A i \in Invocations : eng'[i] = eng[i] \/ eng'[i] = "failed"
              \/ (eng[i] = "acking" /\ eng'[i] = "returned" /\ rec[i] = "none")
      BY <1>RebindRolledBack, <2>1 DEF RebindRolledBack, Dropped, Settled, MissingIsGone, Gone
    <2> QED
      BY <1>RebindRolledBack, <1>Calls, <2>1, <2>2 DEF RebindRolledBack, Forget, Held
  <1>SessionExpires. CASE SessionExpires
    BY <1>SessionExpires, <1>Calls DEF SessionExpires, CloseSession, Forget, Held, TypeOK
  <1>Pump. CASE Pump
    <2>1. upq # <<>> /\ 1 \in DOMAIN upq /\ upq[1] \in Frames /\ Head(upq) = upq[1]
      BY <1>Pump, Heads DEF Pump
    <2>2. upq[1].kind = "invoke" => /\ upq[1].inv \in Invocations /\ rec[upq[1].inv] = "none"
                                    /\ task[upq[1].inv] = "none"
      BY <2>1, Carried DEF StartedOnce, Invokes
    <2>3. \A i \in Invocations : \/ rec'[i] = rec[i]
                                 \/ rec[i] = "none" /\ rec'[i] = "running" /\ task[i] = "none"
      BY <1>Pump, <2>1, <2>2 DEF Pump, TypeOK
    <2>4. UNCHANGED <<eng, known, ackReady, flagged, task, cancelled, cancelling, refs, plan>>
      BY <1>Pump DEF Pump
    <2> QED
      BY <2>3, <2>4 DEF Held, Begun
  <1>DaemonDetach. CASE DaemonDetach
    BY <1>DaemonDetach, <1>Calls DEF DaemonDetach, CloseConversation, Held, TypeOK
  <1>ConversationExpires. CASE ConversationExpires
    BY <1>ConversationExpires, <1>On DEF ConversationExpires, CloseConversation, Held, TypeOK,
       Onward, Advance, Early, Lost, Begun, Ended
  <1>DropStale. CASE DropStale
    BY <1>DropStale, <1>On DEF DropStale, Held, TypeOK, Onward, Advance, Early, Lost, Begun, Ended
  <1>HostInvoke. CASE HostInvoke
    BY <1>HostInvoke, <1>On DEF HostInvoke, Reads, Named, Held, TypeOK, Onward, Advance, Early,
       Lost, Begun, Ended
  <1>HostCancel. CASE HostCancel
    <2>1. Named \in Invocations /\ eng[Named] \in Lost /\ (Named \notin known \/ Named \in flagged)
      BY <1>HostCancel, Heads, Carried DEF HostCancel, Reads, Named, UpRight
    <2> QED
      BY <1>HostCancel, <2>1 DEF HostCancel, Live, Held
  <1>HostAck. CASE HostAck
    BY <1>HostAck, <1>On DEF HostAck, Reads, Named, Down, Held, TypeOK, Onward, Advance, Early,
       Lost, Begun, Ended
  <1>HostRebind. CASE HostRebind
    <2>1. \A i \in incoming[1][2].flags : i \in Invocations /\ eng[i] \in Lost
      BY <1>HostRebind, Heads, Carried DEF HostRebind, Reads, Named, UpRight
    <2>2. plan' # <<>> => \A i \in plan'[1].stop : eng[i] \in Lost
      BY <1>HostRebind, <2>1 DEF HostRebind
    <2>3. \A i \in cancelled' : i \in cancelled \/ (eng[i] \in Lost /\ task[i] # "none")
      BY <1>HostRebind, <2>1 DEF HostRebind, Live
    <2>4. UNCHANGED <<eng, known, ackReady, flagged, task, rec, cancelling, refs>>
      BY <1>HostRebind DEF HostRebind
    <2> QED
      BY <2>2, <2>3, <2>4 DEF Held
  <1>HostRefuses. CASE HostRefuses
    BY <1>HostRefuses, <1>On DEF HostRefuses, CloseConversation, Held, TypeOK, Onward, Advance,
       Early, Lost, Begun, Ended
  <1>FinishRebind. CASE FinishRebind
    BY <1>FinishRebind, <1>On DEF FinishRebind, Release, Down, Replay, Held, TypeOK, Onward,
       Advance, Early, Lost, Begun, Ended
  <1>Cut. CASE Cut
    BY <1>Cut, <1>On DEF Cut, Held, TypeOK, Onward, Advance, Early, Lost, Begun, Ended
  <1>Still. CASE UNCHANGED vars
    BY <1>Still DEF vars, Held, TypeOK, Onward, Advance, Early, Lost, Begun, Ended
  <1> QED
    BY <1>Invoke, <1>SendInvoke, <1>Cancel, <1>Adopt, <1>AdoptFails, <1>Retain, <1>WriteResult,
       <1>TaskEnds, <1>CompleteCancel, <1>ReceiveResult, <1>ReceiveAcked, <1>ReceiveCancelAck,
       <1>ReceiveRebind, <1>ReceiveRefuses, <1>Detach, <1>Redial, <1>RedialFails, <1>SendRebind,
       <1>RebindApplied, <1>RebindRolledBack, <1>SessionExpires, <1>Pump, <1>DaemonDetach,
       <1>ConversationExpires, <1>DropStale, <1>HostInvoke, <1>HostCancel, <1>HostAck,
       <1>HostRebind, <1>HostRefuses, <1>FinishRebind, <1>Cut, <1>Still
    DEF Next, Progress, Ask, Call, Run, ReadLoop, Dial, HostLoop

-----------------------------------------------------------------------------
(* A connection is bound once.                                             *)

(* No step of the rebind: nothing of it is written, read or answered.      *)
NoOffer ==
    \/ upq' \in {upq, <<>>}
    \/ \E f \in Frames : f.kind # "rebind" /\ upq' = upq \o <<f>>
NoneArrives == incoming' = incoming \/ (incoming # <<>> /\ incoming' = Tail(incoming))
NoAnswer ==
    \/ downq' \in {downq, <<>>}
    \/ downq # <<>> /\ downq' = Tail(downq)
    \/ ready /\ \E f \in Frames : f.kind # "rebindResult" /\ downq' = downq \o <<f>>
Steady ==
    /\ NoOffer /\ NoneArrives /\ NoAnswer
    /\ epoch' = epoch /\ plan' = plan
    /\ attached' => attached /\ (ready' <=> ready) /\ (sess' = "attached" => sess = "attached")
    /\ ready' => ready /\ attached'
    /\ link' => link /\ attached' /\ sess' \in Writable
    /\ reply' # <<>> => sess' # "down" /\ (attached' => ready')

(* A rebind in the socket, and what was written before it, stays in place. *)
LEMMA SteadyUp ==
    ASSUME TypeOK, NoOffer
    PROVE  \A n \in DOMAIN upq' : IsRebind(upq'[n]) =>
              /\ n \in DOMAIN upq /\ upq'[n] = upq[n]
              /\ \A m \in 1 .. n-1 : m \in DOMAIN upq /\ upq'[m] = upq[m]
  <1>0. \A n \in DOMAIN upq : \A m \in 1 .. n-1 : m \in DOMAIN upq
    BY DEF TypeOK
  <1>1. CASE \E f \in Frames : f.kind # "rebind" /\ upq' = upq \o <<f>>
    <2>1. PICK f \in Frames : f.kind # "rebind" /\ upq' = upq \o <<f>>
      BY <1>1
    <2>2. upq \in Seq(Frames)
      BY DEF TypeOK
    <2>3. /\ DOMAIN (upq \o <<f>>) = DOMAIN upq \cup {Len(upq)+1}
          /\ \A k \in DOMAIN upq : (upq \o <<f>>)[k] = upq[k]
          /\ (upq \o <<f>>)[Len(upq)+1] = f
      BY <2>2, Pushed
    <2> QED
      BY <1>0, <2>1, <2>3 DEF IsRebind
  <1>2. CASE upq' = <<>>
    BY <1>2
  <1>3. CASE upq' = upq
    BY <1>0, <1>3
  <1> QED
    BY <1>1, <1>2, <1>3 DEF NoOffer

(* What is before the host loop moves up by one, or stays.                 *)
LEMMA SteadyHost ==
    ASSUME TypeOK, NoneArrives
    PROVE  \/ incoming' = incoming
           \/ /\ incoming # <<>>
              /\ \A n \in DOMAIN incoming' :
                    n \in Nat \ {0} /\ n+1 \in DOMAIN incoming /\ incoming'[n] = incoming[n+1]
              /\ \A n \in DOMAIN incoming :
                    n # 1 => n-1 \in DOMAIN incoming' /\ incoming'[n-1] = incoming[n]
  <1>1. incoming \in Seq(Nat \X Frames)
    BY DEF TypeOK
  <1>2. CASE incoming # <<>> /\ incoming' = Tail(incoming)
    <2> HIDE DEF Frames
    <2>1. /\ \A n \in DOMAIN Tail(incoming) : /\ n \in Nat \ {0} /\ n+1 \in DOMAIN incoming
                                              /\ Tail(incoming)[n] = incoming[n+1]
          /\ \A n \in DOMAIN incoming :
                n # 1 => n-1 \in DOMAIN Tail(incoming) /\ Tail(incoming)[n-1] = incoming[n]
      BY <1>1, <1>2, Popped
    <2> QED
      BY <1>2, <2>1
  <1> QED
    BY <1>2 DEF NoneArrives

(* An answer in the socket stays in place or is read.                      *)
LEMMA SteadyDown ==
    ASSUME TypeOK, NoAnswer,
           \A n \in DOMAIN downq : downq[n].kind = "rebindResult" => n = 1
    PROVE  /\ \A n \in DOMAIN downq' : downq'[n].kind = "rebindResult" =>
                 n = 1 /\ n \in DOMAIN downq /\ downq'[n] = downq[n]
           /\ downq' # <<>> => downq # <<>> \/ ready
  <1>0. downq \in Seq(Frames)
    BY DEF TypeOK
  <1>1. CASE downq' \in {downq, <<>>}
    BY <1>1
  <1>2. CASE downq # <<>> /\ downq' = Tail(downq)
    <2>1. \A n \in DOMAIN Tail(downq) : /\ n \in Nat \ {0} /\ n+1 \in DOMAIN downq
                                        /\ Tail(downq)[n] = downq[n+1]
      BY <1>0, <1>2, Popped
    <2>2. \A n \in DOMAIN downq' : n+1 # 1 /\ downq'[n] = downq[n+1] /\ n+1 \in DOMAIN downq
      BY <1>2, <2>1
    <2> QED
      BY <1>2, <2>2
  <1>3. CASE ready /\ \E f \in Frames : f.kind # "rebindResult" /\ downq' = downq \o <<f>>
    <2>1. PICK f \in Frames : f.kind # "rebindResult" /\ downq' = downq \o <<f>>
      BY <1>3
    <2>2. /\ DOMAIN (downq \o <<f>>) = DOMAIN downq \cup {Len(downq)+1}
          /\ \A k \in DOMAIN downq : (downq \o <<f>>)[k] = downq[k]
          /\ (downq \o <<f>>)[Len(downq)+1] = f
      BY <1>0, Pushed
    <2>3. \A n \in DOMAIN downq' : downq'[n].kind = "rebindResult" =>
            n \in DOMAIN downq /\ downq'[n] = downq[n]
      BY <2>1, <2>2
    <2> QED
      BY <1>3, <2>3
  <1> QED
    BY <1>1, <1>2, <1>3 DEF NoAnswer

(* A steady step keeps the connection bound once.                          *)
LEMMA SteadyBound ==
    ASSUME TypeOK, BoundOnce, Steady
    PROVE  BoundOnce'
  <1>1. \A n \in DOMAIN upq' : IsRebind(upq'[n]) => n \in DOMAIN upq /\ upq'[n] = upq[n]
    BY SteadyUp DEF Steady
  <1>2. /\ \A n \in DOMAIN downq' : downq'[n].kind = "rebindResult" => n = 1
        /\ downq' # <<>> => downq # <<>> \/ ready
    BY SteadyDown DEF Steady, BoundOnce
  <1>3. epoch' = epoch /\ plan' = plan
    BY DEF Steady
  <1>4. \A n \in DOMAIN incoming' : \E m \in DOMAIN incoming :
           incoming'[n] = incoming[m] /\ m = (IF incoming' = incoming THEN n ELSE n+1) /\ n \in Nat
    BY SteadyHost DEF Steady, TypeOK
  <1>5. \A n \in DOMAIN incoming' : incoming'[n][1] <= epoch'
    BY <1>3, <1>4 DEF BoundOnce
  <1>6. (Read' => Read) /\ (Asked' => Asked) /\ (Planned' <=> Planned)
    <2>1. Read' => Read
      BY <1>3, <1>4 DEF Read, Current, IsRebind
    <2>2. Asked' => Asked
      BY <1>1 DEF Asked, IsRebind
    <2> QED
      BY <1>3, <2>1, <2>2 DEF Planned
  <1>7. ASSUME attached'
        PROVE  /\ \A m, n \in DOMAIN upq' : IsRebind(upq'[m]) /\ IsRebind(upq'[n]) => m = n
               /\ \A m, n \in DOMAIN incoming' :
                     Current(m)' /\ Current(n)' /\ IsRebind(incoming'[m][2])
                        /\ IsRebind(incoming'[n][2]) => m = n
               /\ sess' = "attached" => ~Asked' /\ ~Read' /\ ~Planned' /\ ~ready'
               /\ Asked' => ~Read' /\ ~Planned' /\ ~ready'
               /\ Read' => ~Planned' /\ ~ready'
               /\ ~ready' => downq' = <<>>
               /\ reply' # <<>> => ready'
    <2>0. attached /\ (ready' <=> ready) /\ (sess' = "attached" => sess = "attached")
      BY <1>7 DEF Steady
    <2>1. \A m, n \in DOMAIN upq' : IsRebind(upq'[m]) /\ IsRebind(upq'[n]) => m = n
      BY <1>1, <2>0 DEF BoundOnce
    <2>2. ASSUME NEW m \in DOMAIN incoming', NEW n \in DOMAIN incoming',
                 Current(m)', Current(n)', IsRebind(incoming'[m][2]), IsRebind(incoming'[n][2])
          PROVE  m = n
      <3>1. PICK j \in DOMAIN incoming :
              incoming'[m] = incoming[j] /\ j = (IF incoming' = incoming THEN m ELSE m+1) /\ m \in Nat
        BY <1>4
      <3>2. PICK k \in DOMAIN incoming :
              incoming'[n] = incoming[k] /\ k = (IF incoming' = incoming THEN n ELSE n+1) /\ n \in Nat
        BY <1>4
      <3>3. j = k
        BY <1>3, <2>0, <2>2, <3>1, <3>2 DEF BoundOnce, Current
      <3> QED
        BY <3>1, <3>2, <3>3
    <2>3. /\ sess' = "attached" => ~Asked' /\ ~Read' /\ ~Planned' /\ ~ready'
          /\ Asked' => ~Read' /\ ~Planned' /\ ~ready'
          /\ Read' => ~Planned' /\ ~ready'
      BY <1>6, <2>0 DEF BoundOnce
    <2>4. ~ready' => downq' = <<>>
      BY <1>2, <2>0 DEF BoundOnce
    <2>5. reply' # <<>> => ready'
      BY <1>7 DEF Steady
    <2> QED
      BY <2>1, <2>2, <2>3, <2>4, <2>5
  <1>8. /\ ready' => plan' = <<>> /\ attached'
        /\ link' => attached' /\ sess' \in Writable
        /\ reply' # <<>> => sess' # "down"
        /\ plan' # <<>> => plan'[1].epoch <= epoch'
    BY <1>3 DEF Steady, BoundOnce
  <1> QED
    BY <1>2, <1>5, <1>7, <1>8 DEF BoundOnce

(* What the daemon writes once the connection is bound.                    *)
LEMMA Tells ==
    ASSUME TypeOK
    PROVE  /\ \A i \in Invocations : WriteResult(i) =>
                 \/ downq' = downq /\ ~(attached /\ link /\ ready)
                 \/ attached /\ link /\ ready /\ downq' = downq \o <<Frame("result", i)>>
           /\ \A i \in Invocations : CompleteCancel(i) =>
                 \/ downq' = downq /\ ~(attached /\ link /\ ready)
                 \/ attached /\ link /\ ready /\ downq' = downq \o <<Frame("cancelAck", i)>>
           /\ HostAck =>
                 \/ downq' = downq /\ ~(attached /\ link /\ ready)
                 \/ attached /\ link /\ ready /\ downq' = downq \o <<Frame("acked", Named)>>
  <1>1. downq \o <<>> = downq
    BY Nothing DEF TypeOK
  <1>2. ASSUME NEW i \in Invocations, WriteResult(i)
        PROVE  \/ downq' = downq /\ ~(attached /\ link /\ ready)
               \/ attached /\ link /\ ready /\ downq' = downq \o <<Frame("result", i)>>
    BY <1>1, <1>2 DEF WriteResult, Down
  <1>3. ASSUME NEW i \in Invocations, CompleteCancel(i)
        PROVE  \/ downq' = downq /\ ~(attached /\ link /\ ready)
               \/ attached /\ link /\ ready /\ downq' = downq \o <<Frame("cancelAck", i)>>
    BY <1>1, <1>3 DEF CompleteCancel, Down
  <1>4. ASSUME HostAck
        PROVE  \/ downq' = downq /\ ~(attached /\ link /\ ready)
               \/ attached /\ link /\ ready /\ downq' = downq \o <<Frame("acked", Named)>>
    BY <1>1, <1>4 DEF HostAck, Down
  <1> QED
    BY <1>2, <1>3, <1>4

(* Which steps leave the rebind alone on each of the three queues.         *)
LEMMA Unconcerned ==
    ASSUME TypeOK, FramesRight
    PROVE  /\ \A i \in Invocations :
                 Invoke(i) \/ SendInvoke(i) \/ Cancel(i) \/ Adopt(i) \/ AdoptFails(i) => NoOffer
           /\ ReceiveResult => NoOffer
           /\ DropStale \/ HostInvoke \/ HostCancel \/ HostAck \/ HostRebind => NoneArrives
           /\ \A i \in Invocations : WriteResult(i) \/ CompleteCancel(i) => NoAnswer
           /\ HostAck => NoAnswer
           /\ ReceiveResult \/ ReceiveAcked \/ ReceiveCancelAck \/ ReceiveRebind => NoAnswer
  <1>1. ASSUME NEW i \in Invocations, Invoke(i) \/ SendInvoke(i) \/ Cancel(i) \/ Adopt(i) \/ AdoptFails(i)
        PROVE  NoOffer
    <2>1. upq' = upq \/ \E k \in {"invoke", "cancel", "ack"} : upq' = upq \o <<Frame(k, i)>>
      BY <1>1, Writes
    <2> QED
      BY <2>1, FramesIn DEF NoOffer
  <1>2. ASSUME ReceiveResult PROVE NoOffer
    BY <1>2, WritesAgain, FramesIn DEF NoOffer
  <1>3. ASSUME DropStale \/ HostInvoke \/ HostCancel \/ HostAck \/ HostRebind PROVE NoneArrives
    BY <1>3 DEF NoneArrives, DropStale, HostInvoke, HostCancel, HostAck, HostRebind, Reads
  <1>4. ASSUME NEW i \in Invocations, WriteResult(i) \/ CompleteCancel(i) PROVE NoAnswer
    <2>1. \/ downq' = downq
          \/ ready /\ \E k \in {"result", "cancelAck"} : downq' = downq \o <<Frame(k, i)>>
      BY <1>4, Tells
    <2> QED
      BY <2>1, FramesIn DEF NoAnswer
  <1>5. ASSUME HostAck PROVE NoAnswer
    <2>1. Named \in Invocations
      BY <1>5, Heads, Carried DEF HostAck, Reads, Named
    <2> QED
      BY <1>5, <2>1, Tells, FramesIn DEF NoAnswer
  <1>6. ASSUME ReceiveResult \/ ReceiveAcked \/ ReceiveCancelAck \/ ReceiveRebind PROVE NoAnswer
    BY <1>6 DEF ReceiveResult, ReceiveAcked, ReceiveCancelAck, ReceiveRebind, Reading, NoAnswer
  <1> QED
    BY <1>1, <1>2, <1>3, <1>4, <1>5, <1>6

(* The answer, if there still is a connection for it, starts the queue.    *)
LEMMA Finishes ==
    ASSUME TypeOK, FramesRight, BoundOnce, FinishRebind
    PROVE  \/ ~(attached /\ Planned) /\ downq' = downq /\ ready' = ready
           \/ attached /\ Planned /\ ~link /\ downq = <<>> /\ downq' = <<>> /\ ready'
           \/ /\ attached /\ Planned /\ link /\ downq = <<>> /\ ready' /\ downq' # <<>>
              /\ 1 \in DOMAIN downq' /\ downq'[1] = RebindResult(plan[1].status)
              /\ \A n \in DOMAIN downq' :
                    n = 1 \/ \E i \in Invocations : downq'[n] = Frame("result", i)
  <1>1. plan # <<>> /\ ~ready /\ plan[1].status \in Statuses
    BY PlanFits DEF FinishRebind, BoundOnce
  <1>2. CASE ~(attached /\ Planned)
    BY <1>1, <1>2 DEF FinishRebind, Planned
  <1>3. ASSUME attached, Planned PROVE downq = <<>> /\ ready'
    BY <1>1, <1>3 DEF FinishRebind, Planned, BoundOnce
  <1>4. CASE attached /\ Planned /\ ~link
    BY <1>3, <1>4 DEF FinishRebind, Planned, Down
  <1>5. CASE attached /\ Planned /\ link
    <2> DEFINE S == {j \in DOMAIN plan[1].status \ plan[1].stop : rec[j] = "completed"}
               f == RebindResult(plan[1].status)
               r == SetToSeq({Frame("result", i) : i \in S})
    <2>1. S \in SUBSET Invocations
      BY <1>1, StatusesFit
    <2>2. downq' = downq \o (<<f>> \o r)
      BY <1>5 DEF FinishRebind, Planned, Down, Replay
    <2>3. f \in Frames
      BY <1>1, FramesIn
    <2>4. r \in Seq(Frames) /\ \A n \in DOMAIN r : \E i \in S : r[n] = Frame("result", i)
      BY <2>1, Replayed
    <2>5. downq = <<>> /\ downq \in Seq(Frames) /\ Len(downq) = 0
      BY <1>3, <1>5 DEF TypeOK
    <2> HIDE DEF f, r, S
    <2> DEFINE a == downq \o (<<f>> \o r)
    <2>6. /\ a \in Seq(Frames)
          /\ \A n \in DOMAIN a : \/ n \in DOMAIN downq /\ a[n] = downq[n]
                                 \/ n = Len(downq)+1 /\ a[n] = f
                                 \/ n > Len(downq)+1 /\ \E m \in DOMAIN r : a[n] = r[m]
          /\ Len(downq)+1 \in DOMAIN a /\ a[Len(downq)+1] = f
      BY <2>3, <2>4, <2>5, Answered
    <2>7. downq' = a
      BY <2>2
    <2> HIDE DEF a
    <2>8. 1 \in DOMAIN downq' /\ downq'[1] = f /\ downq' # <<>>
      BY <2>5, <2>6, <2>7
    <2>9. \A n \in DOMAIN downq' : n = 1 \/ \E m \in DOMAIN r : downq'[n] = r[m]
      BY <2>5, <2>6, <2>7
    <2>10. \A n \in DOMAIN downq' : n = 1 \/ \E i \in Invocations : downq'[n] = Frame("result", i)
      BY <2>1, <2>4, <2>9
    <2> QED
      BY <1>3, <1>5, <2>5, <2>8, <2>10 DEF f
  <1> QED
    BY <1>2, <1>4, <1>5

(* Every step but these five leaves the rebind alone.                      *)
RebindStep == Redial \/ SendRebind \/ Pump \/ HostRebind \/ FinishRebind

(* Every other step is steady.                                             *)
LEMMA MostlySteady ==
    ASSUME TypeOK, FramesRight, BoundOnce, [Next]_vars
    PROVE  Steady \/ RebindStep
  <1> USE DEF keys, session, wire, port, work, host
  <1>Same. /\ upq' \in {upq, <<>>} => NoOffer
           /\ UNCHANGED incoming => NoneArrives
           /\ downq' \in {downq, <<>>} => NoAnswer
    BY DEF NoOffer, NoneArrives, NoAnswer
  <1>Invoke. ASSUME NEW i \in Invocations, Invoke(i)
        PROVE  Steady
    BY <1>Invoke, <1>Same, Unconcerned DEF Invoke, Steady, BoundOnce
  <1>SendInvoke. ASSUME NEW i \in Invocations, SendInvoke(i)
        PROVE  Steady
    BY <1>SendInvoke, <1>Same, Unconcerned DEF SendInvoke, Steady, BoundOnce
  <1>Cancel. ASSUME NEW i \in Invocations, Cancel(i)
        PROVE  Steady
    BY <1>Cancel, <1>Same, Unconcerned DEF Cancel, Steady, BoundOnce
  <1>Adopt. ASSUME NEW i \in Invocations, Adopt(i)
        PROVE  Steady
    BY <1>Adopt, <1>Same, Unconcerned DEF Adopt, Steady, BoundOnce
  <1>AdoptFails. ASSUME NEW i \in Invocations, AdoptFails(i)
        PROVE  Steady
    BY <1>AdoptFails, <1>Same, Unconcerned DEF AdoptFails, Steady, BoundOnce
  <1>Retain. ASSUME NEW i \in Invocations, Retain(i)
        PROVE  Steady
    BY <1>Retain, <1>Same DEF Retain, Steady, BoundOnce
  <1>WriteResult. ASSUME NEW i \in Invocations, WriteResult(i)
        PROVE  Steady
    BY <1>WriteResult, <1>Same, Unconcerned DEF WriteResult, Steady, BoundOnce
  <1>TaskEnds. ASSUME NEW i \in Invocations, TaskEnds(i)
        PROVE  Steady
    BY <1>TaskEnds, <1>Same DEF TaskEnds, Release, Live, Steady, BoundOnce
  <1>CompleteCancel. ASSUME NEW i \in Invocations, CompleteCancel(i)
        PROVE  Steady
    BY <1>CompleteCancel, <1>Same, Unconcerned DEF CompleteCancel, Steady, BoundOnce
  <1>ReceiveResult. ASSUME ReceiveResult PROVE Steady
    BY <1>ReceiveResult, <1>Same, Unconcerned DEF ReceiveResult, Steady, BoundOnce
  <1>ReceiveAcked. ASSUME ReceiveAcked PROVE Steady
    BY <1>ReceiveAcked, <1>Same, Unconcerned DEF ReceiveAcked, Steady, BoundOnce
  <1>ReceiveCancelAck. ASSUME ReceiveCancelAck PROVE Steady
    BY <1>ReceiveCancelAck, <1>Same, Unconcerned DEF ReceiveCancelAck, Steady, BoundOnce
  <1>ReceiveRebind. ASSUME ReceiveRebind PROVE Steady
    BY <1>ReceiveRebind, <1>Same, Unconcerned DEF ReceiveRebind, Reading, Writable, Steady,
       BoundOnce
  <1>ReceiveRefuses. ASSUME ReceiveRefuses PROVE Steady
    BY <1>ReceiveRefuses, <1>Same DEF ReceiveRefuses, Reading, Got, CloseSession, Forget,
       Steady, BoundOnce
  <1>Detach. ASSUME Detach PROVE Steady
    BY <1>Detach, <1>Same DEF Detach, CloseSession, Forget, Steady, BoundOnce
  <1>RedialFails. ASSUME RedialFails PROVE Steady
    BY <1>RedialFails, <1>Same DEF RedialFails, CloseConversation, Forget, Steady, BoundOnce
  <1>RebindApplied. ASSUME RebindApplied PROVE Steady
    BY <1>RebindApplied, <1>Same DEF RebindApplied, Forget, Settled, Dropped, Steady, BoundOnce,
       Writable
  <1>RebindRolledBack. ASSUME RebindRolledBack PROVE Steady
    BY <1>RebindRolledBack, <1>Same DEF RebindRolledBack, Forget, Settled, Dropped, Steady,
       BoundOnce
  <1>SessionExpires. ASSUME SessionExpires PROVE Steady
    BY <1>SessionExpires, <1>Same DEF SessionExpires, CloseSession, Forget, Steady, BoundOnce
  <1>DaemonDetach. ASSUME DaemonDetach PROVE Steady
    BY <1>DaemonDetach, <1>Same DEF DaemonDetach, CloseConversation, Steady, BoundOnce
  <1>ConversationExpires. ASSUME ConversationExpires PROVE Steady
    BY <1>ConversationExpires, <1>Same DEF ConversationExpires, CloseConversation, Steady, BoundOnce
  <1>DropStale. ASSUME DropStale PROVE Steady
    BY <1>DropStale, <1>Same, Unconcerned DEF DropStale, Steady, BoundOnce
  <1>HostInvoke. ASSUME HostInvoke PROVE Steady
    BY <1>HostInvoke, <1>Same, Unconcerned DEF HostInvoke, Steady, BoundOnce
  <1>HostCancel. ASSUME HostCancel PROVE Steady
    BY <1>HostCancel, <1>Same, Unconcerned DEF HostCancel, Steady, BoundOnce
  <1>HostAck. ASSUME HostAck PROVE Steady
    BY <1>HostAck, <1>Same, Unconcerned DEF HostAck, Steady, BoundOnce
  <1>HostRefuses. ASSUME HostRefuses PROVE Steady
    BY <1>HostRefuses, <1>Same DEF HostRefuses, CloseConversation, Steady, BoundOnce
  <1>Cut. ASSUME Cut PROVE Steady
    BY <1>Cut, <1>Same DEF Cut, Steady, BoundOnce
  <1>Still. ASSUME UNCHANGED vars PROVE Steady
    BY <1>Still, <1>Same DEF vars, Steady, BoundOnce
  <1> QED
    BY <1>Invoke, <1>SendInvoke, <1>Cancel, <1>Adopt, <1>AdoptFails, <1>Retain, <1>WriteResult,
       <1>TaskEnds, <1>CompleteCancel, <1>ReceiveResult, <1>ReceiveAcked, <1>ReceiveCancelAck,
       <1>ReceiveRebind, <1>ReceiveRefuses, <1>Detach, <1>RedialFails, <1>RebindApplied,
       <1>RebindRolledBack, <1>SessionExpires, <1>DaemonDetach, <1>ConversationExpires,
       <1>DropStale, <1>HostInvoke, <1>HostCancel, <1>HostAck, <1>HostRefuses, <1>Cut, <1>Still
    DEF Next, Progress, Ask, Call, Run, ReadLoop, Dial, HostLoop, RebindStep

(* Every step keeps the connection bound once.                             *)
LEMMA BoundKept ==
    ASSUME TypeOK, FramesRight, BoundOnce, [Next]_vars
    PROVE  BoundOnce'
  <1> USE DEF keys, session, wire, port, work, host
  <1>Steady. ASSUME Steady PROVE BoundOnce'
    BY <1>Steady, SteadyBound
  <1>Redial. CASE Redial
    <2>1. /\ upq' = <<>> /\ downq' = <<>> /\ reply' = <<>> /\ ~ready' /\ attached' /\ epoch' = epoch + 1
          /\ incoming' = incoming /\ plan' = plan /\ sess' = "attached"
      BY <1>Redial DEF Redial, BoundOnce
    <2>2. \A n \in DOMAIN incoming : incoming[n][1] \in Nat /\ incoming[n][1] <= epoch
      BY DEF BoundOnce, TypeOK
    <2>3. epoch \in Nat /\ (plan # <<>> => plan[1].epoch \in Nat /\ plan[1].epoch <= epoch)
      BY PlanFits DEF BoundOnce, TypeOK
    <2>4. \A n \in DOMAIN incoming' : ~Current(n)' /\ incoming'[n][1] <= epoch'
      BY <2>1, <2>2, <2>3 DEF Current
    <2>5. ~Planned' /\ (plan' # <<>> => plan'[1].epoch <= epoch') /\ ~Read' /\ ~Asked'
      BY <2>1, <2>3, <2>4 DEF Planned, Read, Asked
    <2> QED
      BY <2>1, <2>4, <2>5 DEF BoundOnce, Writable
  <1>SendRebind. CASE SendRebind
    <2>0. /\ UNCHANGED <<reply, link, downq, epoch, attached, ready, incoming, plan>>
          /\ sess = "attached" /\ sess' = "rebinding"
      BY <1>SendRebind DEF SendRebind
    <2>1. CASE upq' = upq
      BY <2>0, <2>1, <1>Steady DEF Steady, BoundOnce, Writable, NoOffer, NoneArrives, NoAnswer
    <2>2. CASE upq' = upq \o <<Rebind(known, flagged \cap known)>>
      <3> DEFINE f == Rebind(known, flagged \cap known)
      <3>1. f \in Frames /\ upq \in Seq(Frames)
        BY Offer DEF TypeOK
      <3>2. upq' = upq \o <<f>>
        BY <2>2
      <3> HIDE DEF f
      <3>3. /\ DOMAIN upq' = DOMAIN upq \cup {Len(upq)+1}
            /\ \A k \in DOMAIN upq : upq'[k] = upq[k]
        BY <3>1, <3>2, Pushed
      <3>4. attached' => \A n \in DOMAIN upq' : IsRebind(upq'[n]) => n = Len(upq)+1
        BY <2>0, <3>3 DEF BoundOnce, Asked
      <3>5. (Read' <=> Read) /\ (Planned' <=> Planned)
        BY <2>0 DEF Read, Current, Planned
      <3> QED
        BY <2>0, <3>4, <3>5 DEF BoundOnce, Writable, Current
    <2> QED
      BY <1>SendRebind, <2>1, <2>2, Writes
  <1>Pump. CASE Pump
    <2>0. /\ UNCHANGED <<reply, link, downq, epoch, attached, ready, sess, plan>> /\ attached
      BY <1>Pump DEF Pump
    <2> DEFINE N == Len(incoming)+1
    <2>1. /\ upq # <<>> /\ 1 \in DOMAIN upq
          /\ DOMAIN incoming' = DOMAIN incoming \cup {N}
          /\ \A n \in DOMAIN incoming : incoming'[n] = incoming[n]
          /\ incoming'[N] = <<epoch, upq[1]>>
          /\ \A n \in DOMAIN upq' : n \in Nat \ {0} /\ n+1 \in DOMAIN upq /\ upq'[n] = upq[n+1]
      BY <1>Pump, Pumped, Heads
    <2> HIDE DEF N
    <2>2. \A n \in DOMAIN incoming' : incoming'[n][1] <= epoch'
      <3>1. epoch <= epoch
        BY DEF TypeOK
      <3> QED
        BY <2>0, <2>1, <3>1 DEF BoundOnce
    <2>3. \A m, n \in DOMAIN upq' : IsRebind(upq'[m]) /\ IsRebind(upq'[n]) => m = n
      <3>1. ASSUME NEW m \in DOMAIN upq', NEW n \in DOMAIN upq', IsRebind(upq'[m]), IsRebind(upq'[n])
            PROVE  m = n
        <4>1. m+1 = n+1
          BY <2>0, <2>1, <3>1 DEF BoundOnce
        <4> QED
          BY <2>1, <4>1
      <3> QED
        BY <3>1
    <2>4. Asked' => Asked
      BY <2>1 DEF Asked
    <2>5. Planned' <=> Planned
      BY <2>0 DEF Planned
    <2>6. CASE IsRebind(upq[1])
      <3>1. Asked /\ ~Read /\ ~Planned /\ ~ready /\ sess # "attached"
        BY <2>0, <2>1, <2>6 DEF BoundOnce, Asked
      <3>2. ~Asked'
        <4>1. \A n \in DOMAIN upq' : n+1 # 1
          BY <2>1
        <4> QED
          BY <2>0, <2>1, <2>6, <4>1 DEF BoundOnce, Asked
      <3>3. \A n \in DOMAIN incoming' : Current(n)' /\ IsRebind(incoming'[n][2]) => n = N
        BY <2>0, <2>1, <3>1 DEF Read, Current
      <3> QED
        BY <2>0, <2>2, <2>3, <2>5, <3>1, <3>2, <3>3 DEF BoundOnce
    <2>7. CASE ~IsRebind(upq[1])
      <3>1. \A n \in DOMAIN incoming' :
              Current(n)' /\ IsRebind(incoming'[n][2]) =>
                n \in DOMAIN incoming /\ Current(n) /\ IsRebind(incoming[n][2])
        BY <2>0, <2>1, <2>7 DEF Current
      <3>2. Read' => Read
        BY <3>1 DEF Read
      <3>3. \A m, n \in DOMAIN incoming' :
              Current(m)' /\ Current(n)' /\ IsRebind(incoming'[m][2]) /\ IsRebind(incoming'[n][2]) => m = n
        BY <2>0, <3>1 DEF BoundOnce
      <3> QED
        BY <2>0, <2>2, <2>3, <2>4, <2>5, <3>2, <3>3 DEF BoundOnce
    <2> QED
      BY <2>6, <2>7
  <1>HostRebind. CASE HostRebind
    <2>0. /\ UNCHANGED <<reply, link, upq, downq, epoch, attached, ready, sess>>
          /\ plan' # <<>> /\ plan'[1].epoch = epoch /\ incoming' = Tail(incoming)
          /\ incoming # <<>> /\ 1 \in DOMAIN incoming /\ Current(1) /\ IsRebind(incoming[1][2])
      BY <1>HostRebind, Heads DEF HostRebind, Reads, Current, IsRebind
    <2>1. Read
      BY <2>0 DEF Read
    <2>2. ~ready /\ (attached => ~Asked /\ sess # "attached")
      BY <2>1 DEF BoundOnce
    <2>3. \A n \in DOMAIN incoming' :
             n \in Nat \ {0} /\ n+1 \in DOMAIN incoming /\ incoming'[n] = incoming[n+1]
      BY <1>HostRebind, <2>0, Popped, SteadyHost, Unconcerned
    <2>4. \A n \in DOMAIN incoming' : incoming'[n][1] <= epoch'
      BY <2>0, <2>3 DEF BoundOnce
    <2>5. ASSUME attached, NEW n \in DOMAIN incoming' PROVE ~(Current(n)' /\ IsRebind(incoming'[n][2]))
      <3>1. n+1 \in DOMAIN incoming /\ n+1 # 1 /\ incoming'[n] = incoming[n+1]
        BY <2>3
      <3> QED
        BY <2>0, <2>5, <3>1 DEF BoundOnce, Current
    <2>6. attached => ~Read'
      BY <2>5 DEF Read
    <2>7. Asked' <=> Asked
      BY <2>0 DEF Asked
    <2>8. plan'[1].epoch <= epoch'
      BY <2>0 DEF TypeOK
    <2> QED
      BY <2>0, <2>2, <2>4, <2>5, <2>6, <2>7, <2>8 DEF BoundOnce
  <1>FinishRebind. CASE FinishRebind
    <2>0. /\ UNCHANGED <<reply, link, upq, epoch, attached, incoming, sess>>
          /\ plan # <<>> /\ plan' = <<>> /\ ~ready
      BY <1>FinishRebind DEF FinishRebind, BoundOnce
    <2>1. ~Planned' /\ (Asked' <=> Asked) /\ (Read' <=> Read)
      BY <2>0 DEF Planned, Asked, Read, Current
    <2>2. CASE ~(attached /\ Planned) /\ downq' = downq /\ ready' = ready
      BY <2>0, <2>1, <2>2 DEF BoundOnce, Current
    <2>3. CASE attached /\ Planned /\ ~link /\ downq = <<>> /\ downq' = <<>> /\ ready'
      BY <2>0, <2>1, <2>3 DEF BoundOnce, Current
    <2>4. CASE /\ attached /\ Planned /\ link /\ downq = <<>> /\ ready' /\ downq' # <<>>
               /\ 1 \in DOMAIN downq' /\ downq'[1] = RebindResult(plan[1].status)
               /\ \A n \in DOMAIN downq' :
                     n = 1 \/ \E i \in Invocations : downq'[n] = Frame("result", i)
      <3>1. \A n \in DOMAIN downq' : downq'[n].kind = "rebindResult" => n = 1
        BY <2>4, FramesIn
      <3> QED
        BY <2>0, <2>1, <2>4, <3>1 DEF BoundOnce, Current
    <2> QED
      BY <1>FinishRebind, <2>2, <2>3, <2>4, Finishes
  <1> QED
    BY <1>Steady, <1>Redial, <1>SendRebind, <1>Pump, <1>HostRebind, <1>FinishRebind,
       MostlySteady DEF RebindStep

-----------------------------------------------------------------------------
(* What is reported missing is gone.                                       *)

(* An acknowledgement is due only for a result that was being adopted, and *)
(* not while the answer to a rebind waits to be applied; a result is       *)
(* adopted only when its frame is read.                                    *)
Receipts ==
    /\ \A i \in Invocations :
          eng'[i] = "acking" => eng[i] = "acking" \/ (eng[i] = "adopting" /\ reply = <<>>)
    /\ \A i \in Invocations : eng'[i] = "adopting" => eng[i] = "adopting" \/ Reading("result")
    /\ reply' # <<>> => reply' = reply \/ (Answer /\ reply' = <<downq[1].inv>>)

(* Every step keeps to that order.                                         *)
LEMMA ReceiptsInOrder ==
    ASSUME TypeOK, FramesRight, [Next]_vars
    PROVE  Receipts
  <1> USE DEF keys, session
  <1>Invoke. ASSUME reply = <<>>, NEW i \in Invocations, Invoke(i)
        PROVE  Receipts
    BY <1>Invoke DEF Invoke, Up, Receipts, Answer, TypeOK, Ended
  <1>SendInvoke. ASSUME reply = <<>>, NEW i \in Invocations, SendInvoke(i)
        PROVE  Receipts
    BY <1>SendInvoke DEF SendInvoke, Up, Receipts, Answer, TypeOK, Ended
  <1>Cancel. ASSUME reply = <<>>, NEW i \in Invocations, Cancel(i)
        PROVE  Receipts
    BY <1>Cancel DEF Cancel, Up, Receipts, Answer, TypeOK, Ended
  <1>Adopt. ASSUME reply = <<>>, NEW i \in Invocations, Adopt(i)
        PROVE  Receipts
    BY <1>Adopt DEF Adopt, Up, Receipts, Answer, TypeOK, Ended
  <1>AdoptFails. ASSUME reply = <<>>, NEW i \in Invocations, AdoptFails(i)
        PROVE  Receipts
    BY <1>AdoptFails DEF AdoptFails, Up, Forget, Receipts, Answer, TypeOK, Ended
  <1>Retain. ASSUME NEW i \in Invocations, Retain(i)
        PROVE  Receipts
    BY <1>Retain DEF Retain, Receipts, Answer, TypeOK, Ended
  <1>WriteResult. ASSUME NEW i \in Invocations, WriteResult(i)
        PROVE  Receipts
    BY <1>WriteResult DEF WriteResult, Down, Receipts, Answer, TypeOK, Ended
  <1>TaskEnds. ASSUME NEW i \in Invocations, TaskEnds(i)
        PROVE  Receipts
    BY <1>TaskEnds DEF TaskEnds, Release, Live, Receipts, Answer, TypeOK, Ended
  <1>CompleteCancel. ASSUME NEW i \in Invocations, CompleteCancel(i)
        PROVE  Receipts
    BY <1>CompleteCancel DEF CompleteCancel, Release, Down, Live, Receipts, Answer, TypeOK, Ended
  <1>ReceiveResult. CASE ReceiveResult
    BY <1>ReceiveResult DEF ReceiveResult, Reading, Got, Up, Receipts, Answer, TypeOK, Ended
  <1>ReceiveAcked. CASE ReceiveAcked
    BY <1>ReceiveAcked DEF ReceiveAcked, Reading, Got, Forget, Receipts, Answer, TypeOK, Ended
  <1>ReceiveCancelAck. CASE ReceiveCancelAck
    BY <1>ReceiveCancelAck DEF ReceiveCancelAck, Reading, Got, Forget, Receipts, Answer, TypeOK,
       Ended
  <1>ReceiveRebind. CASE ReceiveRebind
    BY <1>ReceiveRebind DEF ReceiveRebind, Reading, Got, Receipts, Answer, TypeOK, Ended
  <1>ReceiveRefuses. CASE ReceiveRefuses
    BY <1>ReceiveRefuses DEF ReceiveRefuses, Reading, Got, CloseSession, Forget, Receipts,
       Answer, TypeOK, Ended
  <1>Detach. CASE Detach
    BY <1>Detach DEF Detach, CloseSession, Forget, Receipts, Answer, TypeOK, Ended
  <1>Redial. CASE Redial
    BY <1>Redial DEF Redial, Receipts, Answer, TypeOK, Ended
  <1>RedialFails. CASE RedialFails
    BY <1>RedialFails DEF RedialFails, CloseConversation, Forget, Receipts, Answer, TypeOK, Ended
  <1>SendRebind. CASE SendRebind
    BY <1>SendRebind DEF SendRebind, Up, Receipts, Answer, TypeOK, Ended
  <1>RebindApplied. CASE RebindApplied
    BY <1>RebindApplied DEF RebindApplied, Forget, Settled, Dropped, Receipts, Answer, TypeOK, Ended
  <1>RebindRolledBack. CASE RebindRolledBack
    BY <1>RebindRolledBack DEF RebindRolledBack, Forget, Settled, Dropped, Receipts, Answer,
       TypeOK, Ended
  <1>SessionExpires. CASE SessionExpires
    BY <1>SessionExpires DEF SessionExpires, CloseSession, Forget, Receipts, Answer, TypeOK, Ended
  <1>Pump. CASE Pump
    BY <1>Pump DEF Pump, Receipts, Answer, TypeOK, Ended
  <1>DaemonDetach. CASE DaemonDetach
    BY <1>DaemonDetach DEF DaemonDetach, CloseConversation, Receipts, Answer, TypeOK, Ended
  <1>ConversationExpires. CASE ConversationExpires
    BY <1>ConversationExpires DEF ConversationExpires, CloseConversation, Receipts, Answer,
       TypeOK, Ended
  <1>DropStale. CASE DropStale
    BY <1>DropStale DEF DropStale, Receipts, Answer, TypeOK, Ended
  <1>HostInvoke. CASE HostInvoke
    BY <1>HostInvoke DEF HostInvoke, Reads, Named, Receipts, Answer, TypeOK, Ended
  <1>HostCancel. CASE HostCancel
    BY <1>HostCancel DEF HostCancel, Reads, Named, Live, Receipts, Answer, TypeOK, Ended
  <1>HostAck. CASE HostAck
    BY <1>HostAck DEF HostAck, Reads, Named, Down, Receipts, Answer, TypeOK, Ended
  <1>HostRebind. CASE HostRebind
    BY <1>HostRebind DEF HostRebind, Reads, Named, Records, Status, Live, Receipts, Answer,
       TypeOK, Ended
  <1>HostRefuses. CASE HostRefuses
    BY <1>HostRefuses DEF HostRefuses, CloseConversation, Receipts, Answer, TypeOK, Ended
  <1>FinishRebind. CASE FinishRebind
    BY <1>FinishRebind DEF FinishRebind, Release, Down, Replay, Receipts, Answer, TypeOK, Ended
  <1>Cut. CASE Cut
    BY <1>Cut DEF Cut, Receipts, Answer, TypeOK, Ended
  <1>Still. CASE UNCHANGED vars
    BY <1>Still DEF vars, Receipts, Answer, TypeOK, Ended
  <1> QED
    BY <1>Invoke, <1>SendInvoke, <1>Cancel, <1>Adopt, <1>AdoptFails, <1>Retain, <1>WriteResult,
       <1>TaskEnds, <1>CompleteCancel, <1>ReceiveResult, <1>ReceiveAcked, <1>ReceiveCancelAck,
       <1>ReceiveRebind, <1>ReceiveRefuses, <1>Detach, <1>Redial, <1>RedialFails, <1>SendRebind,
       <1>RebindApplied, <1>RebindRolledBack, <1>SessionExpires, <1>Pump, <1>DaemonDetach,
       <1>ConversationExpires, <1>DropStale, <1>HostInvoke, <1>HostCancel, <1>HostAck,
       <1>HostRebind, <1>HostRefuses, <1>FinishRebind, <1>Cut, <1>Still
    DEF Next, Progress, Ask, Call, Run, ReadLoop, Dial, HostLoop

(* Every step keeps the missing gone: nothing is adopted between the plan  *)
(* and its answer, and what was let go is not recorded again.              *)
LEMMA MissingKept ==
    ASSUME TypeOK, FramesRight, StartedOnce, Held, BoundOnce, MissingIsGone, [Next]_vars
    PROVE  MissingIsGone'
  <1> USE DEF keys, session, wire, port, work, host
  <1>On. Advance /\ Receipts
    BY WorkGoesOn, ReceiptsInOrder
  <1>Gone. ASSUME NEW st \in Statuses, Gone(st), Unread(st) \/ reply # <<>> PROVE Gone(st)'
    <2>1. ASSUME NEW i \in DOMAIN st, st[i] = "missing", eng'[i] = "acking" PROVE rec'[i] = "none"
      <3>1. i \in Invocations
        BY StatusesFit
      <3>2. eng[i] = "acking"
        BY <1>On, <1>Gone, <2>1, <3>1 DEF Receipts, Unread
      <3>3. rec[i] = "none" /\ task[i] \in Begun
        BY <1>Gone, <2>1, <3>1, <3>2 DEF Gone, Held
      <3> QED
        BY <1>On, <3>1, <3>3 DEF Advance
    <2> QED
      BY <2>1 DEF Gone
  <1>Unread. ASSUME NEW st \in Statuses, Unread(st), ~Reading("result") PROVE Unread(st)'
    BY <1>On, <1>Unread, StatusesFit DEF Receipts, Unread
  <1>Due. attached /\ Planned => plan[1].status \in Statuses /\ ~Reading("result")
    BY PlanFits DEF Planned, BoundOnce, Reading
  <1>Next. Answer => downq[1].inv \in Statuses /\ ~Reading("result")
    BY Heads, Carried DEF Answer, Reading
  <1>Reply. reply' # <<>> => Gone(reply[1])'
    <2>1. CASE reply # <<>> /\ reply' = reply
      <3>1. reply[1] \in Statuses /\ Gone(reply[1])
        BY <2>1 DEF TypeOK, MissingIsGone
      <3>2. \A st \in Statuses : Gone(st) => Gone(st)'
        BY <1>Gone, <2>1
      <3> QED
        BY <2>1, <3>1, <3>2 DEF Gone
    <2>2. CASE Answer /\ reply' = <<downq[1].inv>>
      <3>1. downq[1].inv \in Statuses /\ Gone(downq[1].inv) /\ Unread(downq[1].inv)
        BY <1>Next, <2>2 DEF MissingIsGone
      <3>2. \A st \in Statuses : Gone(st) /\ Unread(st) => Gone(st)'
        BY <1>Gone
      <3> QED
        BY <2>2, <3>1, <3>2 DEF Gone
    <2> QED
      BY <1>On, <2>1, <2>2 DEF Receipts
  <1>Kept. \A st \in Statuses : Gone(st) /\ Unread(st) /\ ~Reading("result") => Gone(st)' /\ Unread(st)'
    BY <1>Gone, <1>Unread
  <1>Plan. ASSUME plan' = plan, attached' /\ Planned' => attached /\ Planned, attached', Planned'
           PROVE  Gone(plan[1].status)' /\ Unread(plan[1].status)'
    <2>1. Gone(plan[1].status) /\ Unread(plan[1].status) /\ plan[1].status \in Statuses /\ ~Reading("result")
      BY <1>Plan, <1>Due DEF MissingIsGone
    <2> QED
      BY <1>Plan, <1>Kept, <2>1 DEF Gone, Unread
  <1>Answer. ASSUME Answer, downq'[1] = downq[1]
             PROVE  Gone(downq[1].inv)' /\ Unread(downq[1].inv)'
    <2>1. Gone(downq[1].inv) /\ Unread(downq[1].inv) /\ downq[1].inv \in Statuses /\ ~Reading("result")
      BY <1>Answer, <1>Next DEF MissingIsGone
    <2> QED
      BY <1>Answer, <1>Kept, <2>1 DEF Gone, Unread
  <1>Steady. CASE Steady
    <2>1. Answer' => Answer /\ downq'[1] = downq[1]
      <3>1. \A n \in DOMAIN downq' : downq'[n].kind = "rebindResult" =>
              n = 1 /\ n \in DOMAIN downq /\ downq'[n] = downq[n]
        BY <1>Steady, SteadyDown DEF Steady, BoundOnce
      <3>2. downq' # <<>> => 1 \in DOMAIN downq'
        BY TypesKept, Popped DEF TypeOK
      <3>3. 1 \in DOMAIN downq => downq # <<>>
        OBVIOUS
      <3> QED
        BY <3>1, <3>2, <3>3 DEF Answer
    <2>2. plan' = plan /\ (attached' /\ Planned' => attached /\ Planned)
      BY <1>Steady DEF Steady, Planned
    <2> QED
      BY <1>Reply, <1>Plan, <1>Answer, <2>1, <2>2 DEF MissingIsGone
  <1>Redial. CASE Redial
    <2>1. ~Planned' /\ ~Answer'
      <3>1. plan # <<>> => plan[1].epoch \in Nat /\ plan[1].epoch <= epoch /\ epoch \in Nat
        BY PlanFits DEF BoundOnce, TypeOK
      <3> QED
        BY <1>Redial, <3>1 DEF Redial, Planned, Answer
    <2> QED
      BY <1>Reply, <2>1 DEF MissingIsGone
  <1>SendRebind. CASE SendRebind
    <2>1. plan' = plan /\ downq' = downq /\ (attached' /\ Planned' => attached /\ Planned) /\ (Answer' => Answer)
      BY <1>SendRebind DEF SendRebind, Planned, Answer
    <2> QED
      BY <1>Reply, <1>Plan, <1>Answer, <2>1 DEF MissingIsGone
  <1>Pump. CASE Pump
    <2>1. plan' = plan /\ downq' = downq /\ (attached' /\ Planned' => attached /\ Planned) /\ (Answer' => Answer)
      BY <1>Pump DEF Pump, Planned, Answer
    <2> QED
      BY <1>Reply, <1>Plan, <1>Answer, <2>1 DEF MissingIsGone
  <1>HostRebind. CASE HostRebind
    <2>1. downq' = downq /\ (Answer' => Answer) /\ eng' = eng /\ rec' = rec
      BY <1>HostRebind DEF HostRebind, Answer
    <2>2. Named \subseteq Invocations /\ plan' # <<>>
          /\ plan'[1].status = [i \in Named |-> Status(i, incoming[1][2].flags)]
      BY <1>HostRebind, Heads, Carried DEF HostRebind, Reads, Named
    <2>3. \A i \in DOMAIN plan'[1].status : plan'[1].status[i] = "missing" => i \in Invocations /\ rec[i] = "none"
      BY <2>2 DEF Status, TypeOK
    <2>4. Gone(plan[1].status)' /\ Unread(plan[1].status)'
      BY <2>1, <2>3 DEF Gone, Unread, Held
    <2> QED
      BY <1>Reply, <1>Answer, <2>1, <2>4 DEF MissingIsGone
  <1>FinishRebind. CASE FinishRebind
    <2>1. ~Planned'
      BY <1>FinishRebind DEF FinishRebind, Planned
    <2>2. CASE downq' = downq \/ downq' = <<>>
      BY <1>Reply, <1>Answer, <2>1, <2>2 DEF MissingIsGone, Answer
    <2>3. CASE attached /\ Planned /\ downq'[1] = RebindResult(plan[1].status)
      <3>1. /\ plan[1].status \in Statuses /\ ~Reading("result")
            /\ Gone(plan[1].status) /\ Unread(plan[1].status)
        BY <1>Due, <2>3 DEF MissingIsGone
      <3>2. downq'[1].inv = plan[1].status
        BY <2>3, <3>1, FramesIn
      <3>3. Gone(downq[1].inv)' /\ Unread(downq[1].inv)'
        BY <1>Kept, <3>1, <3>2 DEF Gone, Unread
      <3> QED
        BY <1>Reply, <2>1, <3>3 DEF MissingIsGone
    <2> QED
      BY <1>FinishRebind, <2>2, <2>3, Finishes
  <1> QED
    BY <1>Steady, <1>Redial, <1>SendRebind, <1>Pump, <1>HostRebind, <1>FinishRebind, MostlySteady
    DEF RebindStep

-----------------------------------------------------------------------------
(* A rebind carries the cancellations that went before it.                 *)

(* Only a cancel frame that the host loop reads starts a cancellation.     *)
CancelRead ==
    \A i \in Invocations : i \in cancelling' => \/ i \in cancelling
                                               \/ /\ incoming # <<>> /\ Current(1) /\ plan = <<>>
                                                  /\ Cancels(incoming[1][2], i)
CancelStops ==
    \A i \in cancelled' : rec'[i] # "none" =>
        i \in cancelling' \/ (plan' # <<>> /\ i \in plan'[1].stop)

(* Every step is of that kind.                                             *)
LEMMA CancelsRead ==
    ASSUME TypeOK, [Next]_vars
    PROVE  CancelRead
  <1> USE DEF host
  <1>Invoke. ASSUME NEW i \in Invocations, Invoke(i)
        PROVE  CancelRead
    BY <1>Invoke DEF Invoke, Up, CancelRead, Current, Cancels, TypeOK
  <1>SendInvoke. ASSUME NEW i \in Invocations, SendInvoke(i)
        PROVE  CancelRead
    BY <1>SendInvoke DEF SendInvoke, Up, CancelRead, Current, Cancels, TypeOK
  <1>Cancel. ASSUME NEW i \in Invocations, Cancel(i)
        PROVE  CancelRead
    BY <1>Cancel DEF Cancel, Up, CancelRead, Current, Cancels, TypeOK
  <1>Adopt. ASSUME NEW i \in Invocations, Adopt(i)
        PROVE  CancelRead
    BY <1>Adopt DEF Adopt, Up, CancelRead, Current, Cancels, TypeOK
  <1>AdoptFails. ASSUME NEW i \in Invocations, AdoptFails(i)
        PROVE  CancelRead
    BY <1>AdoptFails DEF AdoptFails, Up, Forget, CancelRead, Current, Cancels, TypeOK
  <1>Retain. ASSUME NEW i \in Invocations, Retain(i)
        PROVE  CancelRead
    BY <1>Retain DEF Retain, CancelRead, Current, Cancels, TypeOK
  <1>WriteResult. ASSUME NEW i \in Invocations, WriteResult(i)
        PROVE  CancelRead
    BY <1>WriteResult DEF WriteResult, Down, CancelRead, Current, Cancels, TypeOK
  <1>TaskEnds. ASSUME NEW i \in Invocations, TaskEnds(i)
        PROVE  CancelRead
    BY <1>TaskEnds DEF TaskEnds, Release, Live, CancelRead, Current, Cancels, TypeOK
  <1>CompleteCancel. ASSUME NEW i \in Invocations, CompleteCancel(i)
        PROVE  CancelRead
    BY <1>CompleteCancel DEF CompleteCancel, Release, Down, Live, CancelRead, Current, Cancels,
       TypeOK
  <1>ReceiveResult. CASE ReceiveResult
    BY <1>ReceiveResult DEF ReceiveResult, Reading, Got, Up, CancelRead, Current, Cancels, TypeOK
  <1>ReceiveAcked. CASE ReceiveAcked
    BY <1>ReceiveAcked DEF ReceiveAcked, Reading, Got, Forget, CancelRead, Current, Cancels, TypeOK
  <1>ReceiveCancelAck. CASE ReceiveCancelAck
    BY <1>ReceiveCancelAck DEF ReceiveCancelAck, Reading, Got, Forget, CancelRead, Current,
       Cancels, TypeOK
  <1>ReceiveRebind. CASE ReceiveRebind
    BY <1>ReceiveRebind DEF ReceiveRebind, Reading, Got, CancelRead, Current, Cancels, TypeOK
  <1>ReceiveRefuses. CASE ReceiveRefuses
    BY <1>ReceiveRefuses DEF ReceiveRefuses, Reading, Got, CloseSession, Forget, CancelRead,
       Current, Cancels, TypeOK
  <1>Detach. CASE Detach
    BY <1>Detach DEF Detach, CloseSession, Forget, CancelRead, Current, Cancels, TypeOK
  <1>Redial. CASE Redial
    BY <1>Redial DEF Redial, CancelRead, Current, Cancels, TypeOK
  <1>RedialFails. CASE RedialFails
    BY <1>RedialFails DEF RedialFails, CloseConversation, Forget, CancelRead, Current, Cancels,
       TypeOK
  <1>SendRebind. CASE SendRebind
    BY <1>SendRebind DEF SendRebind, Up, CancelRead, Current, Cancels, TypeOK
  <1>RebindApplied. CASE RebindApplied
    BY <1>RebindApplied DEF RebindApplied, Forget, Settled, Dropped, CancelRead, Current,
       Cancels, TypeOK
  <1>RebindRolledBack. CASE RebindRolledBack
    BY <1>RebindRolledBack DEF RebindRolledBack, Forget, Settled, Dropped, CancelRead, Current,
       Cancels, TypeOK
  <1>SessionExpires. CASE SessionExpires
    BY <1>SessionExpires DEF SessionExpires, CloseSession, Forget, CancelRead, Current, Cancels,
       TypeOK
  <1>Pump. CASE Pump
    BY <1>Pump DEF Pump, CancelRead, Current, Cancels, TypeOK
  <1>DaemonDetach. CASE DaemonDetach
    BY <1>DaemonDetach DEF DaemonDetach, CloseConversation, CancelRead, Current, Cancels, TypeOK
  <1>ConversationExpires. CASE ConversationExpires
    BY <1>ConversationExpires DEF ConversationExpires, CloseConversation, CancelRead, Current,
       Cancels, TypeOK
  <1>DropStale. CASE DropStale
    BY <1>DropStale DEF DropStale, CancelRead, Current, Cancels, TypeOK
  <1>HostInvoke. CASE HostInvoke
    BY <1>HostInvoke DEF HostInvoke, Reads, Named, CancelRead, Current, Cancels, TypeOK
  <1>HostCancel. CASE HostCancel
    BY <1>HostCancel DEF HostCancel, Reads, Named, Live, CancelRead, Current, Cancels, TypeOK
  <1>HostAck. CASE HostAck
    BY <1>HostAck DEF HostAck, Reads, Named, Down, CancelRead, Current, Cancels, TypeOK
  <1>HostRebind. CASE HostRebind
    BY <1>HostRebind DEF HostRebind, Reads, Named, Records, Status, Live, CancelRead, Current,
       Cancels, TypeOK
  <1>HostRefuses. CASE HostRefuses
    BY <1>HostRefuses DEF HostRefuses, CloseConversation, CancelRead, Current, Cancels, TypeOK
  <1>FinishRebind. CASE FinishRebind
    BY <1>FinishRebind DEF FinishRebind, Release, Down, Replay, CancelRead, Current, Cancels, TypeOK
  <1>Cut. CASE Cut
    BY <1>Cut DEF Cut, CancelRead, Current, Cancels, TypeOK
  <1>Still. CASE UNCHANGED vars
    BY <1>Still DEF vars, CancelRead, Current, Cancels, TypeOK
  <1> QED
    BY <1>Invoke, <1>SendInvoke, <1>Cancel, <1>Adopt, <1>AdoptFails, <1>Retain, <1>WriteResult,
       <1>TaskEnds, <1>CompleteCancel, <1>ReceiveResult, <1>ReceiveAcked, <1>ReceiveCancelAck,
       <1>ReceiveRebind, <1>ReceiveRefuses, <1>Detach, <1>Redial, <1>RedialFails, <1>SendRebind,
       <1>RebindApplied, <1>RebindRolledBack, <1>SessionExpires, <1>Pump, <1>DaemonDetach,
       <1>ConversationExpires, <1>DropStale, <1>HostInvoke, <1>HostCancel, <1>HostAck,
       <1>HostRebind, <1>HostRefuses, <1>FinishRebind, <1>Cut, <1>Still
    DEF Next, Progress, Ask, Call, Run, ReadLoop, Dial, HostLoop

(* A cancelled invocation with a record is about to lose it.               *)
LEMMA CancelsStop ==
    ASSUME TypeOK, FramesRight, StartedOnce, Held, CancelsFlagged, [Next]_vars
    PROVE  CancelStops
  <1> USE DEF work, host
  <1>Invoke. ASSUME NEW i \in Invocations, Invoke(i)
        PROVE  CancelStops
    BY <1>Invoke DEF Invoke, Up, CancelStops, CancelsFlagged, TypeOK
  <1>SendInvoke. ASSUME NEW i \in Invocations, SendInvoke(i)
        PROVE  CancelStops
    BY <1>SendInvoke DEF SendInvoke, Up, CancelStops, CancelsFlagged, TypeOK
  <1>Cancel. ASSUME NEW i \in Invocations, Cancel(i)
        PROVE  CancelStops
    BY <1>Cancel DEF Cancel, Up, CancelStops, CancelsFlagged, TypeOK
  <1>Adopt. ASSUME NEW i \in Invocations, Adopt(i)
        PROVE  CancelStops
    BY <1>Adopt DEF Adopt, Up, CancelStops, CancelsFlagged, TypeOK
  <1>AdoptFails. ASSUME NEW i \in Invocations, AdoptFails(i)
        PROVE  CancelStops
    BY <1>AdoptFails DEF AdoptFails, Up, Forget, CancelStops, CancelsFlagged, TypeOK
  <1>Retain. ASSUME NEW i \in Invocations, Retain(i)
        PROVE  CancelStops
    BY <1>Retain DEF Retain, CancelStops, CancelsFlagged, TypeOK
  <1>WriteResult. ASSUME NEW i \in Invocations, WriteResult(i)
        PROVE  CancelStops
    BY <1>WriteResult DEF WriteResult, Down, CancelStops, CancelsFlagged, TypeOK
  <1>TaskEnds. ASSUME NEW i \in Invocations, TaskEnds(i)
        PROVE  CancelStops
    BY <1>TaskEnds DEF TaskEnds, Release, Live, CancelStops, CancelsFlagged, TypeOK
  <1>CompleteCancel. ASSUME NEW i \in Invocations, CompleteCancel(i)
        PROVE  CancelStops
    BY <1>CompleteCancel DEF CompleteCancel, Release, Down, Live, CancelStops, CancelsFlagged,
       TypeOK
  <1>ReceiveResult. CASE ReceiveResult
    BY <1>ReceiveResult DEF ReceiveResult, Reading, Got, Up, CancelStops, CancelsFlagged, TypeOK
  <1>ReceiveAcked. CASE ReceiveAcked
    BY <1>ReceiveAcked DEF ReceiveAcked, Reading, Got, Forget, CancelStops, CancelsFlagged, TypeOK
  <1>ReceiveCancelAck. CASE ReceiveCancelAck
    BY <1>ReceiveCancelAck DEF ReceiveCancelAck, Reading, Got, Forget, CancelStops,
       CancelsFlagged, TypeOK
  <1>ReceiveRebind. CASE ReceiveRebind
    BY <1>ReceiveRebind DEF ReceiveRebind, Reading, Got, CancelStops, CancelsFlagged, TypeOK
  <1>ReceiveRefuses. CASE ReceiveRefuses
    BY <1>ReceiveRefuses DEF ReceiveRefuses, Reading, Got, CloseSession, Forget, CancelStops,
       CancelsFlagged, TypeOK
  <1>Detach. CASE Detach
    BY <1>Detach DEF Detach, CloseSession, Forget, CancelStops, CancelsFlagged, TypeOK
  <1>Redial. CASE Redial
    BY <1>Redial DEF Redial, CancelStops, CancelsFlagged, TypeOK
  <1>RedialFails. CASE RedialFails
    BY <1>RedialFails DEF RedialFails, CloseConversation, Forget, CancelStops, CancelsFlagged,
       TypeOK
  <1>SendRebind. CASE SendRebind
    BY <1>SendRebind DEF SendRebind, Up, CancelStops, CancelsFlagged, TypeOK
  <1>RebindApplied. CASE RebindApplied
    BY <1>RebindApplied DEF RebindApplied, Forget, Settled, Dropped, CancelStops,
       CancelsFlagged, TypeOK
  <1>RebindRolledBack. CASE RebindRolledBack
    BY <1>RebindRolledBack DEF RebindRolledBack, Forget, Settled, Dropped, CancelStops,
       CancelsFlagged, TypeOK
  <1>SessionExpires. CASE SessionExpires
    BY <1>SessionExpires DEF SessionExpires, CloseSession, Forget, CancelStops, CancelsFlagged,
       TypeOK
  <1>Pump. CASE Pump
    <2>1. upq # <<>> /\ 1 \in DOMAIN upq /\ upq[1] \in Frames /\ Head(upq) = upq[1]
      BY <1>Pump, Heads DEF Pump
    <2>2. upq[1].kind = "invoke" => upq[1].inv \in Invocations /\ task[upq[1].inv] = "none"
      BY <2>1, Carried DEF StartedOnce, Invokes
    <2>3. \A i \in Invocations : rec'[i] = rec[i] \/ task[i] = "none"
      BY <1>Pump, <2>1, <2>2 DEF Pump, TypeOK
    <2>4. UNCHANGED <<cancelled, cancelling, plan>>
      BY <1>Pump DEF Pump
    <2> QED
      BY <2>3, <2>4 DEF CancelStops, CancelsFlagged, Held, TypeOK
  <1>DaemonDetach. CASE DaemonDetach
    BY <1>DaemonDetach DEF DaemonDetach, CloseConversation, CancelStops, CancelsFlagged, TypeOK
  <1>ConversationExpires. CASE ConversationExpires
    BY <1>ConversationExpires DEF ConversationExpires, CloseConversation, CancelStops,
       CancelsFlagged, TypeOK
  <1>DropStale. CASE DropStale
    BY <1>DropStale DEF DropStale, CancelStops, CancelsFlagged, TypeOK
  <1>HostInvoke. CASE HostInvoke
    BY <1>HostInvoke DEF HostInvoke, Reads, Named, CancelStops, CancelsFlagged, TypeOK
  <1>HostCancel. CASE HostCancel
    BY <1>HostCancel DEF HostCancel, Reads, Named, Live, CancelStops, CancelsFlagged, TypeOK
  <1>HostAck. CASE HostAck
    BY <1>HostAck DEF HostAck, Reads, Named, Down, CancelStops, CancelsFlagged, TypeOK
  <1>HostRebind. CASE HostRebind
    BY <1>HostRebind DEF HostRebind, Reads, Named, Records, Status, Live, CancelStops,
       CancelsFlagged, TypeOK
  <1>HostRefuses. CASE HostRefuses
    BY <1>HostRefuses DEF HostRefuses, CloseConversation, CancelStops, CancelsFlagged, TypeOK
  <1>FinishRebind. CASE FinishRebind
    BY <1>FinishRebind DEF FinishRebind, Release, Down, Replay, CancelStops, CancelsFlagged, TypeOK
  <1>Cut. CASE Cut
    BY <1>Cut DEF Cut, CancelStops, CancelsFlagged, TypeOK
  <1>Still. CASE UNCHANGED vars
    BY <1>Still DEF vars, CancelStops, CancelsFlagged, TypeOK
  <1> QED
    BY <1>Invoke, <1>SendInvoke, <1>Cancel, <1>Adopt, <1>AdoptFails, <1>Retain, <1>WriteResult,
       <1>TaskEnds, <1>CompleteCancel, <1>ReceiveResult, <1>ReceiveAcked, <1>ReceiveCancelAck,
       <1>ReceiveRebind, <1>ReceiveRefuses, <1>Detach, <1>Redial, <1>RedialFails, <1>SendRebind,
       <1>RebindApplied, <1>RebindRolledBack, <1>SessionExpires, <1>Pump, <1>DaemonDetach,
       <1>ConversationExpires, <1>DropStale, <1>HostInvoke, <1>HostCancel, <1>HostAck,
       <1>HostRebind, <1>HostRefuses, <1>FinishRebind, <1>Cut, <1>Still
    DEF Next, Progress, Ask, Call, Run, ReadLoop, Dial, HostLoop

(* What a rebind flags stays flagged, and a new call was never cancelled.  *)
LEMMA FlagsStay ==
    ASSUME TypeOK, FramesRight, Held, Onward
    PROVE  /\ \A f \in Frames : \A i \in Invocations :
                 Flags(f, i) => Flags(f, i)' \/ eng[i] = "new"
           /\ \A i \in Invocations : eng[i] = "new" =>
                 /\ \A n \in DOMAIN upq : UpClear(n, i)
                 /\ \A n \in DOMAIN incoming : HostClear(n, i)
  <1>1. \A f \in Frames : \A i \in Invocations : Flags(f, i) => Flags(f, i)' \/ eng[i] = "new"
    BY DEF Flags, Onward
  <1>2. ASSUME NEW i \in Invocations, eng[i] = "new"
        PROVE  /\ i \notin cancelling
               /\ \A m \in DOMAIN upq : ~Cancels(upq[m], i)
               /\ \A m \in DOMAIN incoming : ~Cancels(incoming[m][2], i)
    BY <1>2 DEF Held, FramesRight, UpRight, Cancels, Lost
  <1>3. /\ \A n \in DOMAIN upq : \A m \in 1 .. n-1 : m \in DOMAIN upq
        /\ \A n \in DOMAIN incoming : \A m \in 1 .. n-1 : m \in DOMAIN incoming
    BY Below DEF TypeOK
  <1> QED
    BY <1>1, <1>2, <1>3 DEF UpClear, HostClear

(* Every step keeps the cancellations flagged.                             *)
LEMMA CancelsKept ==
    ASSUME TypeOK, FramesRight, StartedOnce, Held, BoundOnce, CancelsFlagged, [Next]_vars
    PROVE  CancelsFlagged'
  <1> USE DEF keys, session, wire, port, work, host
  <1>On. Onward /\ CancelRead /\ CancelStops
    BY CallsGoOn, CancelsRead, CancelsStop
  <1>Heads. /\ incoming # <<>> => 1 \in DOMAIN incoming
            /\ \A n \in DOMAIN upq : n \in Nat \ {0} /\ upq[n] \in Frames
            /\ \A n \in DOMAIN incoming : n \in Nat \ {0} /\ incoming[n][2] \in Frames
    BY Heads DEF TypeOK
  (* The rest of a rebind's promise is kept whatever the session forgets.   *)
  <1>Flags. ASSUME NEW f \in Frames, NEW i \in Invocations, Flags(f, i), eng[i] # "new"
            PROVE  Flags(f, i)'
    BY <1>On, <1>Flags, FlagsStay
  <1>Up. ASSUME NEW n \in DOMAIN upq, IsRebind(upq[n]), NEW i \in Invocations
         PROVE  UpClear(n, i) \/ \A f \in Frames : f = upq[n] => Flags(f, i)'
    <2>1. CASE eng[i] = "new"
      BY <2>1, <1>On, FlagsStay
    <2>2. CASE eng[i] # "new" /\ Flags(upq[n], i)
      BY <2>2, <1>Flags
    <2> QED
      BY <1>Up, <2>1, <2>2 DEF CancelsFlagged
  <1>Host. ASSUME NEW n \in DOMAIN incoming, Current(n), IsRebind(incoming[n][2]), NEW i \in Invocations
           PROVE  HostClear(n, i) \/ \A f \in Frames : f = incoming[n][2] => Flags(f, i)'
    <2>1. CASE eng[i] = "new"
      BY <2>1, <1>On, FlagsStay
    <2>2. CASE eng[i] # "new" /\ Flags(incoming[n][2], i)
      BY <2>2, <1>Flags
    <2> QED
      BY <1>Host, <2>1, <2>2 DEF CancelsFlagged
  <1>Planned. ASSUME plan' = plan, Planned' => Planned, Planned'
              PROVE  \A i \in cancelling' \cap known' \cap DOMAIN plan'[1].status :
                        plan'[1].status[i] = "cancelled"
    <2>1. ASSUME NEW i \in Invocations, i \in cancelling', i \in known'
          PROVE  i \in cancelling /\ i \in known
      BY <1>On, <1>Planned, <2>1 DEF CancelRead, Onward, Planned, Held, Lost
    <2>2. plan[1].status \in Statuses
      BY <1>Planned, PlanFits DEF Planned
    <2> QED
      BY <1>Planned, <2>1, <2>2, StatusesFit DEF CancelsFlagged
  <1>Stop. ASSUME plan' = plan \/ plan' = <<>>, plan' # <<>>
           PROVE  \A i \in plan'[1].stop :
                     i \in DOMAIN plan'[1].status /\ plan'[1].status[i] = "cancelled"
    BY <1>Stop DEF CancelsFlagged
  <1>Steady. CASE Steady
    <2>1. epoch' = epoch /\ plan' = plan /\ (Planned' => Planned)
      BY <1>Steady DEF Steady, Planned
    <2>2. \A n \in DOMAIN upq' : IsRebind(upq'[n]) =>
              /\ n \in DOMAIN upq /\ upq'[n] = upq[n]
              /\ \A m \in 1 .. n-1 : m \in DOMAIN upq /\ upq'[m] = upq[m]
      BY <1>Steady, SteadyUp DEF Steady
    <2>3. \/ incoming' = incoming
          \/ /\ incoming # <<>>
             /\ \A n \in DOMAIN incoming' :
                   n \in Nat \ {0} /\ n+1 \in DOMAIN incoming /\ incoming'[n] = incoming[n+1]
      BY <1>Steady, SteadyHost DEF Steady
    <2>4. ASSUME NEW n \in DOMAIN upq', IsRebind(upq'[n]), NEW i \in Invocations
          PROVE  Flags(upq[n], i)' \/ UpClear(n, i)'
      <3>1. ASSUME UpClear(n, i) PROVE UpClear(n, i)'
        <4>1. i \notin cancelling'
          BY <1>On, <1>Heads, <3>1 DEF CancelRead, UpClear
        <4>2. \A m \in 1 .. n-1 : ~Cancels(upq'[m], i)
          BY <2>2, <2>4, <3>1 DEF UpClear
        <4>3. \A m \in DOMAIN incoming' : Current(m)' => ~Cancels(incoming'[m][2], i)
          BY <2>1, <2>3, <3>1 DEF UpClear, Current
        <4> QED
          BY <4>1, <4>2, <4>3 DEF UpClear, Cancels
      <3>2. n \in DOMAIN upq /\ upq'[n] = upq[n] /\ upq[n] \in Frames
        BY <1>Heads, <2>2, <2>4
      <3>3. UpClear(n, i) \/ \A f \in Frames : f = upq[n] => Flags(f, i)'
        BY <1>Up, <2>4, <3>2
      <3> QED
        BY <3>1, <3>2, <3>3 DEF Flags
    <2>5. ASSUME NEW n \in DOMAIN incoming', Current(n)', IsRebind(incoming'[n][2]), NEW i \in Invocations
          PROVE  Flags(incoming[n][2], i)' \/ HostClear(n, i)'
      <3>1. PICK k \in DOMAIN incoming : /\ incoming'[n] = incoming[k] /\ n \in Nat \ {0}
                                         /\ k = (IF incoming' = incoming THEN n ELSE n+1)
        BY <1>Heads, <2>3, <2>5
      <3>2. Current(k) /\ IsRebind(incoming[k][2]) /\ incoming[k][2] \in Frames
        BY <1>Heads, <2>1, <2>5, <3>1 DEF Current
      <3>3. ASSUME HostClear(k, i) PROVE HostClear(n, i)'
        <4>1. i \notin cancelling'
          <5>1. CASE k = 1
            BY <1>On, <3>2, <3>3, <5>1 DEF CancelRead, HostClear, Cancels, IsRebind
          <5>2. CASE k # 1
            BY <1>On, <1>Heads, <3>2, <3>3, <5>2 DEF CancelRead, HostClear
          <5> QED
            BY <5>1, <5>2
        <4>2. \A m \in 1 .. n-1 : Current(m)' => ~Cancels(incoming'[m][2], i)
          <5>1. CASE incoming' = incoming
            BY <2>1, <3>1, <3>3, <5>1 DEF HostClear, Current
          <5>2. CASE incoming' # incoming
            <6>1. ASSUME NEW m \in 1 .. n-1
                  PROVE  m \in DOMAIN incoming' /\ m+1 \in 1 .. k-1 /\ incoming'[m] = incoming[m+1]
              <7>1. m \in DOMAIN incoming'
                BY TypesKept, Below DEF TypeOK
              <7> QED
                BY <2>3, <3>1, <5>2, <7>1
            <6> QED
              BY <2>1, <3>3, <6>1 DEF HostClear, Current
          <5> QED
            BY <5>1, <5>2
        <4> QED
          BY <4>1, <4>2 DEF HostClear, Cancels
      <3>4. HostClear(k, i) \/ \A f \in Frames : f = incoming[k][2] => Flags(f, i)'
        BY <1>Host, <3>2
      <3> QED
        BY <3>1, <3>2, <3>3, <3>4 DEF Flags
    <2>6. Planned' => \A i \in cancelling' \cap known' \cap DOMAIN plan'[1].status :
                         plan'[1].status[i] = "cancelled"
      BY <1>Planned, <2>1
    <2>7. plan' # <<>> => \A i \in plan'[1].stop :
                             i \in DOMAIN plan'[1].status /\ plan'[1].status[i] = "cancelled"
      BY <1>Stop, <2>1
    <2> QED
      BY <1>On, <2>4, <2>5, <2>6, <2>7 DEF CancelsFlagged, CancelStops
  <1>Redial. CASE Redial
    <2>1. \A n \in DOMAIN incoming : incoming[n][1] \in Nat /\ incoming[n][1] <= epoch
      BY DEF BoundOnce, TypeOK
    <2>2. epoch \in Nat /\ (plan # <<>> => plan[1].epoch \in Nat /\ plan[1].epoch <= epoch)
      BY PlanFits DEF BoundOnce, TypeOK
    <2>3. /\ upq' = <<>> /\ epoch' = epoch + 1 /\ incoming' = incoming /\ plan' = plan
      BY <1>Redial DEF Redial
    <2>4. \A n \in DOMAIN incoming' : ~Current(n)'
      BY <2>1, <2>2, <2>3 DEF Current
    <2>5. ~Planned'
      BY <2>2, <2>3 DEF Planned
    <2> QED
      BY <1>On, <1>Stop, <2>3, <2>4, <2>5 DEF CancelsFlagged, CancelStops
  <1>SendRebind. CASE SendRebind
    <2>0. /\ UNCHANGED <<known, flagged, reply, link, downq, epoch, attached, ready, incoming, plan, cancelling>>
          /\ sess' = "rebinding"
      BY <1>SendRebind DEF SendRebind
    <2>1. CASE upq' = upq
      <3>1. Steady
        BY <2>0, <2>1 DEF Steady, BoundOnce, NoOffer, NoneArrives, NoAnswer, Writable
      <3> QED
        BY <1>Steady, <3>1
    <2>2. CASE upq' = upq \o <<Rebind(known, flagged \cap known)>>
      <3> DEFINE f == Rebind(known, flagged \cap known)
      <3>1. f \in Frames /\ upq \in Seq(Frames) /\ f.inv = known /\ f.flags = flagged \cap known
        BY Offer DEF TypeOK
      <3>2. upq' = upq \o <<f>>
        BY <2>2
      <3> HIDE DEF f
      <3>3. /\ DOMAIN upq' = DOMAIN upq \cup {Len(upq)+1} /\ DOMAIN upq = 1 .. Len(upq) /\ Len(upq) \in Nat
            /\ \A k \in DOMAIN upq : upq'[k] = upq[k]
            /\ upq'[Len(upq)+1] = f
        BY <3>1, <3>2, Pushed
      <3>4. ASSUME NEW n \in DOMAIN upq', IsRebind(upq'[n]), NEW i \in Invocations
            PROVE  Flags(upq[n], i)' \/ UpClear(n, i)'
        <4>1. CASE n \in DOMAIN upq
          <5>1. ASSUME UpClear(n, i) PROVE UpClear(n, i)'
            <6>1. \A m \in 1 .. n-1 : m \in DOMAIN upq /\ upq'[m] = upq[m]
              BY <3>3, <4>1
            <6> QED
              BY <2>0, <5>1, <6>1 DEF UpClear, Current
          <5>2. upq'[n] = upq[n] /\ upq[n] \in Frames
            BY <1>Heads, <3>3, <4>1
          <5>3. UpClear(n, i) \/ \A g \in Frames : g = upq[n] => Flags(g, i)'
            BY <1>Up, <3>4, <4>1, <5>2
          <5> QED
            BY <5>1, <5>2, <5>3 DEF Flags
        <4>2. CASE n = Len(upq)+1 /\ i \in known /\ i \notin flagged
          <5>1. /\ i \notin cancelling
                /\ \A m \in DOMAIN upq : ~Cancels(upq[m], i)
                /\ \A m \in DOMAIN incoming : ~Cancels(incoming[m][2], i)
            BY <4>2 DEF Held, FramesRight, UpRight, Cancels
          <5>2. \A m \in 1 .. n-1 : m \in DOMAIN upq /\ upq'[m] = upq[m]
            BY <3>3, <4>2
          <5> QED
            BY <2>0, <5>1, <5>2 DEF UpClear
        <4>3. CASE n = Len(upq)+1 /\ ~(i \in known /\ i \notin flagged)
          BY <2>0, <3>1, <3>3, <4>3 DEF Flags
        <4> QED
          BY <3>3, <4>1, <4>2, <4>3
      <3>5. ASSUME NEW n \in DOMAIN incoming', Current(n)', IsRebind(incoming'[n][2]), NEW i \in Invocations
            PROVE  Flags(incoming[n][2], i)' \/ HostClear(n, i)'
        BY <2>0, <3>5 DEF CancelsFlagged, Flags, HostClear, Current
      <3>6. Planned' <=> Planned
        BY <2>0 DEF Planned
      <3> QED
        BY <1>On, <1>Planned, <1>Stop, <2>0, <3>4, <3>5, <3>6 DEF CancelsFlagged, CancelStops
    <2> QED
      BY <1>SendRebind, <2>1, <2>2, Writes
  <1>Pump. CASE Pump
    <2>0. UNCHANGED <<known, epoch, plan, cancelling>>
      BY <1>Pump DEF Pump
    <2> DEFINE N == Len(incoming)+1
    <2>1. /\ upq # <<>> /\ upq[1] \in Frames /\ 1 \in DOMAIN upq
          /\ DOMAIN incoming' = DOMAIN incoming \cup {N}
          /\ DOMAIN incoming = 1 .. N-1 /\ N \in Nat \ {0}
          /\ \A n \in DOMAIN incoming : incoming'[n] = incoming[n]
          /\ incoming'[N] = <<epoch, upq[1]>>
          /\ \A n \in DOMAIN upq' : n \in Nat \ {0} /\ n+1 \in DOMAIN upq /\ upq'[n] = upq[n+1]
      BY <1>Pump, Pumped, Heads
    <2> HIDE DEF N
    <2>2. ASSUME NEW n \in DOMAIN upq', IsRebind(upq'[n]), NEW i \in Invocations
          PROVE  Flags(upq[n], i)' \/ UpClear(n, i)'
      <3>1. n+1 \in DOMAIN upq /\ upq'[n] = upq[n+1] /\ n \in Nat \ {0} /\ upq[n+1] \in Frames
        BY <1>Heads, <2>1
      <3>2. ASSUME UpClear(n+1, i) PROVE UpClear(n, i)'
        <4>1. ~Cancels(upq[1], i)
          BY <3>1, <3>2 DEF UpClear
        <4>2. \A m \in 1 .. n-1 : m+1 \in 1 .. (n+1)-1 /\ upq'[m] = upq[m+1]
          <5>1. ASSUME NEW m \in 1 .. n-1 PROVE m \in DOMAIN upq'
            BY TypesKept, Below DEF TypeOK
          <5> QED
            BY <2>1, <3>1, <5>1
        <4>3. \A m \in 1 .. n-1 : ~Cancels(upq'[m], i)
          BY <3>2, <4>2 DEF UpClear
        <4>4. \A m \in DOMAIN incoming' : Current(m)' => ~Cancels(incoming'[m][2], i)
          BY <2>0, <2>1, <3>2, <4>1 DEF UpClear, Current
        <4> QED
          BY <2>0, <3>2, <4>3, <4>4 DEF UpClear
      <3>3. UpClear(n+1, i) \/ \A f \in Frames : f = upq[n+1] => Flags(f, i)'
        BY <1>Up, <2>2, <3>1
      <3> QED
        BY <3>1, <3>2, <3>3 DEF Flags
    <2>3. ASSUME NEW n \in DOMAIN incoming', Current(n)', IsRebind(incoming'[n][2]), NEW i \in Invocations
          PROVE  Flags(incoming[n][2], i)' \/ HostClear(n, i)'
      <3>1. CASE n \in DOMAIN incoming
        <4>1. incoming'[n] = incoming[n] /\ Current(n) /\ IsRebind(incoming[n][2]) /\ incoming[n][2] \in Frames
          BY <1>Heads, <2>0, <2>1, <2>3, <3>1 DEF Current
        <4>2. \A m \in 1 .. n-1 : incoming'[m] = incoming[m]
          BY <2>1, <3>1
        <4>3. HostClear(n, i) => HostClear(n, i)'
          BY <2>0, <4>2 DEF HostClear, Current
        <4>4. HostClear(n, i) \/ \A f \in Frames : f = incoming[n][2] => Flags(f, i)'
          BY <1>Host, <3>1, <4>1
        <4> QED
          BY <4>1, <4>3, <4>4 DEF Flags
      <3>2. CASE n = N
        <4>1. incoming'[n] = <<epoch, upq[1]>> /\ IsRebind(upq[1])
          BY <2>1, <2>3, <3>2
        <4>2. \A m \in 1 .. n-1 : m \in DOMAIN incoming /\ incoming'[m] = incoming[m]
          BY <2>1, <3>2
        <4>3. UpClear(1, i) => HostClear(n, i)'
          BY <2>0, <4>2 DEF UpClear, HostClear, Current
        <4>4. UpClear(1, i) \/ \A f \in Frames : f = upq[1] => Flags(f, i)'
          BY <1>Up, <2>1, <4>1
        <4> QED
          BY <2>1, <4>1, <4>3, <4>4 DEF Flags
      <3> QED
        BY <2>1, <3>1, <3>2
    <2>4. Planned' <=> Planned
      BY <2>0 DEF Planned
    <2> QED
      BY <1>On, <1>Planned, <1>Stop, <2>0, <2>2, <2>3, <2>4 DEF CancelsFlagged, CancelStops
  <1>HostRebind. CASE HostRebind
    <2> DEFINE flags == incoming[1][2].flags
    <2>0. /\ UNCHANGED <<upq, known, epoch, cancelling, rec>>
          /\ incoming # <<>> /\ 1 \in DOMAIN incoming /\ Current(1) /\ IsRebind(incoming[1][2])
          /\ plan' # <<>> /\ plan'[1].stop = flags \cap Records /\ Records \subseteq Named
          /\ plan'[1].status = [i \in Named |-> Status(i, flags)]
      BY <1>HostRebind, Heads DEF HostRebind, Reads, Current, IsRebind
    <2>1. Named \subseteq Invocations
      BY <1>HostRebind, Heads, Carried DEF HostRebind, Reads, Named
    <2>2. \A i \in cancelling' \cap known' \cap DOMAIN plan'[1].status : plan'[1].status[i] = "cancelled"
      <3>1. ASSUME NEW i \in Named, i \in cancelling, i \in known PROVE i \in flags
        <4>1. i \in Invocations /\ ~HostClear(1, i)
          BY <2>1, <3>1 DEF HostClear
        <4>2. Flags(incoming[1][2], i)
          BY <2>0, <4>1 DEF CancelsFlagged
        <4> QED
          BY <3>1, <4>2 DEF Flags, Named
      <3> QED
        BY <2>0, <3>1 DEF Status
    <2>3. \A i \in plan'[1].stop : i \in DOMAIN plan'[1].status /\ plan'[1].status[i] = "cancelled"
      BY <2>0 DEF Status
    <2>4. \A n \in DOMAIN incoming' :
             n \in Nat \ {0} /\ n+1 \in DOMAIN incoming /\ incoming'[n] = incoming[n+1]
      <3>1. incoming' = Tail(incoming) /\ incoming \in Seq(Nat \X Frames)
        BY <1>HostRebind DEF HostRebind, TypeOK
      <3> QED
        BY <2>0, <3>1, Popped
    <2>5. ASSUME NEW n \in DOMAIN upq', IsRebind(upq'[n]), NEW i \in Invocations
          PROVE  Flags(upq[n], i)' \/ UpClear(n, i)'
      <3>1. \A m \in DOMAIN incoming' : Current(m)' => Current(m+1)
        BY <2>0, <2>4 DEF Current
      <3>2. UpClear(n, i) => UpClear(n, i)'
        BY <2>0, <2>4, <3>1 DEF UpClear
      <3> QED
        BY <2>0, <2>5, <3>2 DEF CancelsFlagged, Flags
    <2>6. ASSUME NEW n \in DOMAIN incoming', Current(n)', IsRebind(incoming'[n][2]), NEW i \in Invocations
          PROVE  Flags(incoming[n][2], i)' \/ HostClear(n, i)'
      <3>1. /\ n+1 \in DOMAIN incoming /\ incoming'[n] = incoming[n+1] /\ n \in Nat \ {0}
            /\ Current(n+1) /\ IsRebind(incoming[n+1][2])
        BY <2>0, <2>4, <2>6 DEF Current
      <3>2. \A m \in 1 .. n-1 : m \in DOMAIN incoming'
        BY TypesKept, Below DEF TypeOK
      <3>3. \A m \in 1 .. n-1 : m+1 \in 1 .. (n+1)-1 /\ incoming'[m] = incoming[m+1]
        BY <2>4, <3>1, <3>2
      <3>4. HostClear(n+1, i) => HostClear(n, i)'
        BY <2>0, <3>3 DEF HostClear, Current
      <3>5. Flags(incoming[n+1][2], i) \/ HostClear(n+1, i)
        BY <3>1 DEF CancelsFlagged
      <3> QED
        BY <2>0, <3>1, <3>4, <3>5 DEF Flags
    <2> QED
      BY <1>On, <2>2, <2>3, <2>5, <2>6 DEF CancelsFlagged, CancelStops
  <1>FinishRebind. CASE FinishRebind
    <2>0. UNCHANGED <<upq, incoming, known, epoch, cancelling>> /\ plan' = <<>> /\ ~Planned'
      BY <1>FinishRebind DEF FinishRebind, Planned
    <2>1. ASSUME NEW n \in DOMAIN upq', IsRebind(upq'[n]), NEW i \in Invocations
          PROVE  Flags(upq[n], i)' \/ UpClear(n, i)'
      BY <2>0, <2>1 DEF CancelsFlagged, Flags, UpClear, Current
    <2>2. ASSUME NEW n \in DOMAIN incoming', Current(n)', IsRebind(incoming'[n][2]), NEW i \in Invocations
          PROVE  Flags(incoming[n][2], i)' \/ HostClear(n, i)'
      BY <2>0, <2>2 DEF CancelsFlagged, Flags, HostClear, Current
    <2> QED
      BY <1>On, <2>0, <2>1, <2>2 DEF CancelsFlagged, CancelStops
  <1> QED
    BY <1>Steady, <1>Redial, <1>SendRebind, <1>Pump, <1>HostRebind, <1>FinishRebind, MostlySteady
    DEF RebindStep

-----------------------------------------------------------------------------
(* What the engine waits for is covered.                                   *)

(* What may happen to the queues and the records while the connection is   *)
(* open.                                                                   *)
Flows ==
    /\ Open /\ epoch' = epoch
    /\ Pump \/ upq' = upq \/ \E f \in Frames : upq' = upq \o <<f>>
    /\ Pump \/ NoneArrives
    /\ \A i \in Invocations :
          incoming # <<>> /\ incoming' # incoming /\ Current(1) /\ Cancels(incoming[1][2], i)
             => Pump \/ i \in cancelling'
    /\ \/ FinishRebind \/ downq' = downq
       \/ \E f \in Frames : downq' = downq \o <<f>>
       \/ downq # <<>> /\ downq' = Tail(downq) /\ \A i \in known' : ~Reports(downq[1], i)
    /\ \A i \in Invocations : rec[i] # "none" /\ rec'[i] = "none" =>
          \/ HostAck /\ i = Named
          \/ FinishRebind /\ i \in plan[1].stop
          \/ TaskEnds(i) /\ i \in cancelled
          \/ CompleteCancel(i)
    /\ \A i \in cancelling : i \in cancelling' \/ CompleteCancel(i)

(* Every step but a dial is of that kind.                                  *)
LEMMA FlowsOn ==
    ASSUME TypeOK, FramesRight, StartedOnce, BoundOnce, [Next]_vars, ~Redial, Open'
    PROVE  Flows
  <1> USE DEF keys, session, wire, port, work, host, Open
  <1>Up. ASSUME \/ \E i \in Invocations :
                     Invoke(i) \/ SendInvoke(i) \/ Cancel(i) \/ Adopt(i) \/ AdoptFails(i)
                \/ ReceiveResult \/ SendRebind
         PROVE  upq' = upq \/ \E f \in Frames : upq' = upq \o <<f>>
    <2>1. ASSUME NEW i \in Invocations,
                 Invoke(i) \/ SendInvoke(i) \/ Cancel(i) \/ Adopt(i) \/ AdoptFails(i)
          PROVE  upq' = upq \/ \E f \in Frames : upq' = upq \o <<f>>
      <3>1. upq' = upq \/ \E k \in {"invoke", "cancel", "ack"} : upq' = upq \o <<Frame(k, i)>>
        BY <2>1, Writes
      <3> QED
        BY <3>1, FramesIn
    <2>2. ASSUME ReceiveResult PROVE upq' = upq \/ \E f \in Frames : upq' = upq \o <<f>>
      BY <2>2, WritesAgain, FramesIn
    <2>3. ASSUME SendRebind PROVE upq' = upq \/ \E f \in Frames : upq' = upq \o <<f>>
      BY <2>3, Writes, Offer
    <2> QED
      BY <1>Up, <2>1, <2>2, <2>3
  <1>Down. ASSUME \/ \E i \in Invocations : WriteResult(i) \/ CompleteCancel(i)
                  \/ HostAck
           PROVE  downq' = downq \/ \E f \in Frames : downq' = downq \o <<f>>
    <2>1. ASSUME NEW i \in Invocations, WriteResult(i) \/ CompleteCancel(i)
          PROVE  downq' = downq \/ \E f \in Frames : downq' = downq \o <<f>>
      <3>1. downq' = downq \/ \E k \in {"result", "cancelAck"} : downq' = downq \o <<Frame(k, i)>>
        BY <2>1, Tells
      <3> QED
        BY <3>1, FramesIn
    <2>2. ASSUME HostAck PROVE downq' = downq \/ \E f \in Frames : downq' = downq \o <<f>>
      <3>1. Named \in Invocations
        BY <2>2, Heads, Carried DEF HostAck, Reads, Named
      <3> QED
        BY <2>2, <3>1, Tells, FramesIn
    <2> QED
      BY <1>Down, <2>1, <2>2
  <1>Host. DropStale \/ HostInvoke \/ HostCancel \/ HostAck \/ HostRebind => NoneArrives
    BY Unconcerned
  <1>Heads. downq # <<>> => Head(downq) = downq[1]
    BY Heads
  <1>Invoke. ASSUME NEW i \in Invocations, Invoke(i)
        PROVE  Flows
    BY <1>Invoke, <1>Up DEF Invoke, Flows, NoneArrives, TypeOK
  <1>SendInvoke. ASSUME NEW i \in Invocations, SendInvoke(i)
        PROVE  Flows
    BY <1>SendInvoke, <1>Up DEF SendInvoke, Flows, NoneArrives, TypeOK
  <1>Cancel. ASSUME NEW i \in Invocations, Cancel(i)
        PROVE  Flows
    BY <1>Cancel, <1>Up DEF Cancel, Flows, NoneArrives, TypeOK
  <1>Adopt. ASSUME NEW i \in Invocations, Adopt(i)
        PROVE  Flows
    BY <1>Adopt, <1>Up DEF Adopt, Flows, NoneArrives, TypeOK
  <1>AdoptFails. ASSUME NEW i \in Invocations, AdoptFails(i)
        PROVE  Flows
    BY <1>AdoptFails, <1>Up DEF AdoptFails, Forget, Flows, NoneArrives, TypeOK
  <1>Retain. ASSUME NEW i \in Invocations, Retain(i)
        PROVE  Flows
    BY <1>Retain DEF Retain, Flows, NoneArrives, TypeOK
  <1>WriteResult. ASSUME NEW i \in Invocations, WriteResult(i)
        PROVE  Flows
    BY <1>WriteResult, <1>Down DEF WriteResult, Flows, NoneArrives, TypeOK
  <1>TaskEnds. ASSUME NEW i \in Invocations, TaskEnds(i)
        PROVE  Flows
    BY <1>TaskEnds DEF TaskEnds, Release, Live, Flows, NoneArrives, TypeOK
  <1>CompleteCancel. ASSUME NEW i \in Invocations, CompleteCancel(i)
        PROVE  Flows
    BY <1>CompleteCancel, <1>Down DEF CompleteCancel, Release, Flows, NoneArrives, TypeOK
  <1>ReceiveResult. CASE ReceiveResult
    BY <1>ReceiveResult, <1>Up, <1>Heads DEF ReceiveResult, Reading, Reports, Flows,
       NoneArrives, TypeOK
  <1>ReceiveAcked. CASE ReceiveAcked
    BY <1>ReceiveAcked, <1>Heads DEF ReceiveAcked, Reading, Got, Forget, Reports, Flows,
       NoneArrives, TypeOK
  <1>ReceiveCancelAck. CASE ReceiveCancelAck
    BY <1>ReceiveCancelAck, <1>Heads DEF ReceiveCancelAck, Reading, Got, Forget, Reports, Flows,
       NoneArrives, TypeOK
  <1>ReceiveRebind. CASE ReceiveRebind
    BY <1>ReceiveRebind, <1>Heads DEF ReceiveRebind, Reading, Got, Reports, Flows, NoneArrives,
       TypeOK
  <1>ReceiveRefuses. CASE ReceiveRefuses
    BY <1>ReceiveRefuses DEF ReceiveRefuses, Reading, Got, CloseSession, Forget, Flows,
       NoneArrives, TypeOK
  <1>Detach. CASE Detach
    BY <1>Detach DEF Detach, CloseSession, Forget, Flows, NoneArrives, TypeOK
  <1>RedialFails. CASE RedialFails
    BY <1>RedialFails DEF RedialFails, CloseConversation, Forget, Flows, NoneArrives, TypeOK
  <1>SendRebind. CASE SendRebind
    BY <1>SendRebind, <1>Up DEF SendRebind, Flows, NoneArrives, TypeOK
  <1>RebindApplied. CASE RebindApplied
    BY <1>RebindApplied DEF RebindApplied, Forget, Settled, Dropped, Flows, NoneArrives, TypeOK
  <1>RebindRolledBack. CASE RebindRolledBack
    BY <1>RebindRolledBack DEF RebindRolledBack, Forget, Settled, Dropped, Flows, NoneArrives,
       TypeOK
  <1>SessionExpires. CASE SessionExpires
    BY <1>SessionExpires DEF SessionExpires, CloseSession, Forget, Flows, NoneArrives, TypeOK
  <1>Pump. CASE Pump
    BY <1>Pump DEF Pump, Flows, NoneArrives, TypeOK
  <1>DaemonDetach. CASE DaemonDetach
    BY <1>DaemonDetach DEF DaemonDetach, CloseConversation, Flows, NoneArrives, TypeOK
  <1>ConversationExpires. CASE ConversationExpires
    BY <1>ConversationExpires DEF ConversationExpires, CloseConversation, Flows, NoneArrives, TypeOK
  <1>DropStale. CASE DropStale
    BY <1>DropStale, <1>Host DEF DropStale, Flows, Current, TypeOK
  <1>HostInvoke. CASE HostInvoke
    BY <1>HostInvoke, <1>Host DEF HostInvoke, Reads, Cancels, Flows, TypeOK
  <1>HostCancel. CASE HostCancel
    BY <1>HostCancel, <1>Host DEF HostCancel, Reads, Named, Cancels, Flows, TypeOK
  <1>HostAck. CASE HostAck
    BY <1>HostAck, <1>Host, <1>Down DEF HostAck, Reads, Cancels, Flows, TypeOK
  <1>HostRebind. CASE HostRebind
    BY <1>HostRebind, <1>Host DEF HostRebind, Reads, Cancels, Flows, TypeOK
  <1>HostRefuses. CASE HostRefuses
    BY <1>HostRefuses DEF HostRefuses, CloseConversation, Flows, NoneArrives, TypeOK
  <1>FinishRebind. CASE FinishRebind
    BY <1>FinishRebind DEF FinishRebind, Release, Down, Replay, Flows, NoneArrives, TypeOK
  <1>Cut. CASE Cut
    BY <1>Cut DEF Cut, Flows, NoneArrives, TypeOK
  <1>Still. CASE UNCHANGED vars
    BY <1>Still DEF vars, Flows, NoneArrives, TypeOK
  <1> QED
    BY <1>Invoke, <1>SendInvoke, <1>Cancel, <1>Adopt, <1>AdoptFails, <1>Retain, <1>WriteResult,
       <1>TaskEnds, <1>CompleteCancel, <1>ReceiveResult, <1>ReceiveAcked, <1>ReceiveCancelAck,
       <1>ReceiveRebind, <1>ReceiveRefuses, <1>Detach, <1>RedialFails, <1>SendRebind,
       <1>RebindApplied, <1>RebindRolledBack, <1>SessionExpires, <1>Pump, <1>DaemonDetach,
       <1>ConversationExpires, <1>DropStale, <1>HostInvoke, <1>HostCancel, <1>HostAck,
       <1>HostRebind, <1>HostRefuses, <1>FinishRebind, <1>Cut, <1>Still
    DEF Next, Progress, Ask, Call, Run, ReadLoop, Dial, HostLoop

(* A call that starts to wait, or is cancelled before it did, has written  *)
(* a frame.                                                                *)
Enters ==
    \A i \in Invocations :
        i \in known' /\ eng'[i] # "sending" /\ (i \notin known \/ eng[i] = "sending") =>
            \E k \in {"invoke", "cancel"} : upq' = upq \o <<Frame(k, i)>>

(* Every step is of that kind.                                             *)
LEMMA EntersOpen ==
    ASSUME TypeOK, BoundOnce, [Next]_vars, Open, Open'
    PROVE  Enters
  <1> USE DEF keys, session, wire, port, work, host, Open
  <1>Link. sess \in Writable
    BY DEF BoundOnce
  <1>Invoke. ASSUME NEW i \in Invocations, Invoke(i)
        PROVE  Enters
    BY <1>Invoke, <1>Link DEF Invoke, Up, Enters, TypeOK
  <1>SendInvoke. ASSUME NEW i \in Invocations, SendInvoke(i)
        PROVE  Enters
    BY <1>SendInvoke, <1>Link DEF SendInvoke, Up, Enters, TypeOK
  <1>Cancel. ASSUME NEW i \in Invocations, Cancel(i)
        PROVE  Enters
    BY <1>Cancel, <1>Link DEF Cancel, Up, Enters, TypeOK
  <1>Adopt. ASSUME NEW i \in Invocations, Adopt(i)
        PROVE  Enters
    BY <1>Adopt, <1>Link DEF Adopt, Up, Enters, TypeOK
  <1>AdoptFails. ASSUME NEW i \in Invocations, AdoptFails(i)
        PROVE  Enters
    BY <1>AdoptFails, <1>Link DEF AdoptFails, Up, Forget, Enters, TypeOK
  <1>Retain. ASSUME NEW i \in Invocations, Retain(i)
        PROVE  Enters
    BY <1>Retain, <1>Link DEF Retain, Enters, TypeOK
  <1>WriteResult. ASSUME NEW i \in Invocations, WriteResult(i)
        PROVE  Enters
    BY <1>WriteResult, <1>Link DEF WriteResult, Down, Enters, TypeOK
  <1>TaskEnds. ASSUME NEW i \in Invocations, TaskEnds(i)
        PROVE  Enters
    BY <1>TaskEnds, <1>Link DEF TaskEnds, Release, Live, Enters, TypeOK
  <1>CompleteCancel. ASSUME NEW i \in Invocations, CompleteCancel(i)
        PROVE  Enters
    BY <1>CompleteCancel, <1>Link DEF CompleteCancel, Release, Down, Live, Enters, TypeOK
  <1>ReceiveResult. CASE ReceiveResult
    BY <1>ReceiveResult, <1>Link DEF ReceiveResult, Reading, Got, Up, Enters, TypeOK
  <1>ReceiveAcked. CASE ReceiveAcked
    BY <1>ReceiveAcked, <1>Link DEF ReceiveAcked, Reading, Got, Forget, Enters, TypeOK
  <1>ReceiveCancelAck. CASE ReceiveCancelAck
    BY <1>ReceiveCancelAck, <1>Link DEF ReceiveCancelAck, Reading, Got, Forget, Enters, TypeOK
  <1>ReceiveRebind. CASE ReceiveRebind
    BY <1>ReceiveRebind, <1>Link DEF ReceiveRebind, Reading, Got, Enters, TypeOK
  <1>ReceiveRefuses. CASE ReceiveRefuses
    BY <1>ReceiveRefuses, <1>Link DEF ReceiveRefuses, Reading, Got, CloseSession, Forget,
       Enters, TypeOK
  <1>Detach. CASE Detach
    BY <1>Detach, <1>Link DEF Detach, CloseSession, Forget, Enters, TypeOK
  <1>Redial. CASE Redial
    BY <1>Redial, <1>Link DEF Redial, Enters, TypeOK
  <1>RedialFails. CASE RedialFails
    BY <1>RedialFails, <1>Link DEF RedialFails, CloseConversation, Forget, Enters, TypeOK
  <1>SendRebind. CASE SendRebind
    BY <1>SendRebind, <1>Link DEF SendRebind, Up, Enters, TypeOK
  <1>RebindApplied. CASE RebindApplied
    BY <1>RebindApplied, <1>Link DEF RebindApplied, Forget, Settled, Dropped, Enters, TypeOK
  <1>RebindRolledBack. CASE RebindRolledBack
    BY <1>RebindRolledBack, <1>Link DEF RebindRolledBack, Forget, Settled, Dropped, Enters, TypeOK
  <1>SessionExpires. CASE SessionExpires
    BY <1>SessionExpires, <1>Link DEF SessionExpires, CloseSession, Forget, Enters, TypeOK
  <1>Pump. CASE Pump
    BY <1>Pump, <1>Link DEF Pump, Enters, TypeOK
  <1>DaemonDetach. CASE DaemonDetach
    BY <1>DaemonDetach, <1>Link DEF DaemonDetach, CloseConversation, Enters, TypeOK
  <1>ConversationExpires. CASE ConversationExpires
    BY <1>ConversationExpires, <1>Link DEF ConversationExpires, CloseConversation, Enters, TypeOK
  <1>DropStale. CASE DropStale
    BY <1>DropStale, <1>Link DEF DropStale, Enters, TypeOK
  <1>HostInvoke. CASE HostInvoke
    BY <1>HostInvoke, <1>Link DEF HostInvoke, Reads, Named, Enters, TypeOK
  <1>HostCancel. CASE HostCancel
    BY <1>HostCancel, <1>Link DEF HostCancel, Reads, Named, Live, Enters, TypeOK
  <1>HostAck. CASE HostAck
    BY <1>HostAck, <1>Link DEF HostAck, Reads, Named, Down, Enters, TypeOK
  <1>HostRebind. CASE HostRebind
    BY <1>HostRebind, <1>Link DEF HostRebind, Reads, Named, Records, Status, Live, Enters, TypeOK
  <1>HostRefuses. CASE HostRefuses
    BY <1>HostRefuses, <1>Link DEF HostRefuses, CloseConversation, Enters, TypeOK
  <1>FinishRebind. CASE FinishRebind
    BY <1>FinishRebind, <1>Link DEF FinishRebind, Release, Down, Replay, Enters, TypeOK
  <1>Cut. CASE Cut
    BY <1>Cut, <1>Link DEF Cut, Enters, TypeOK
  <1>Still. CASE UNCHANGED vars
    BY <1>Still DEF vars, Enters, TypeOK
  <1> QED
    BY <1>Invoke, <1>SendInvoke, <1>Cancel, <1>Adopt, <1>AdoptFails, <1>Retain, <1>WriteResult,
       <1>TaskEnds, <1>CompleteCancel, <1>ReceiveResult, <1>ReceiveAcked, <1>ReceiveCancelAck,
       <1>ReceiveRebind, <1>ReceiveRefuses, <1>Detach, <1>Redial, <1>RedialFails, <1>SendRebind,
       <1>RebindApplied, <1>RebindRolledBack, <1>SessionExpires, <1>Pump, <1>DaemonDetach,
       <1>ConversationExpires, <1>DropStale, <1>HostInvoke, <1>HostCancel, <1>HostAck,
       <1>HostRebind, <1>HostRefuses, <1>FinishRebind, <1>Cut, <1>Still
    DEF Next, Progress, Ask, Call, Run, ReadLoop, Dial, HostLoop

(* Which frames still cover an invocation after a step.                    *)
LEMMA QueuesCover ==
    ASSUME TypeOK, NEW i \in Invocations
    PROVE  /\ UpCovers(i) /\ (upq' = upq \/ \E f \in Frames : upq' = upq \o <<f>>) => UpCovers(i)'
           /\ HostCovers(i) /\ NoneArrives /\ epoch' = epoch =>
                 \/ HostCovers(i)'
                 \/ /\ incoming # <<>> /\ incoming' # incoming
                    /\ Current(1) /\ Cancels(incoming[1][2], i)
           /\ DownCovers(i) /\ (downq' = downq \/ \E f \in Frames : downq' = downq \o <<f>>) => DownCovers(i)'
           /\ DownCovers(i) /\ downq # <<>> /\ downq' = Tail(downq) =>
                 DownCovers(i)' \/ Reports(downq[1], i)
  <1>0. upq \in Seq(Frames) /\ downq \in Seq(Frames)
    BY DEF TypeOK
  <1>1. ASSUME UpCovers(i), NEW f \in Frames, upq' = upq \o <<f>> PROVE UpCovers(i)'
    <2>1. /\ DOMAIN upq' = DOMAIN upq \cup {Len(upq)+1}
          /\ \A k \in DOMAIN upq : upq'[k] = upq[k]
      BY <1>0, <1>1, Pushed
    <2> QED
      BY <1>1, <2>1 DEF UpCovers
  <1>2. ASSUME HostCovers(i), NoneArrives, epoch' = epoch
        PROVE  \/ HostCovers(i)'
               \/ /\ incoming # <<>> /\ incoming' # incoming
                  /\ Current(1) /\ Cancels(incoming[1][2], i)
    <2>1. PICK n \in DOMAIN incoming : Current(n) /\ Cancels(incoming[n][2], i)
      BY <1>2 DEF HostCovers
    <2>2. CASE incoming' = incoming
      BY <1>2, <2>1, <2>2 DEF HostCovers, Current
    <2>3. CASE n = 1 /\ incoming' # incoming
      BY <1>2, <2>1, <2>3 DEF NoneArrives
    <2>4. CASE n # 1 /\ incoming' # incoming
      BY <1>2, <2>1, <2>4, SteadyHost DEF HostCovers, Current
    <2> QED
      BY <2>2, <2>3, <2>4
  <1>3. ASSUME DownCovers(i), NEW f \in Frames, downq' = downq \o <<f>> PROVE DownCovers(i)'
    <2>1. /\ DOMAIN downq' = DOMAIN downq \cup {Len(downq)+1}
          /\ \A k \in DOMAIN downq : downq'[k] = downq[k]
      BY <1>0, <1>3, Pushed
    <2> QED
      BY <1>3, <2>1 DEF DownCovers
  <1>4. ASSUME DownCovers(i), downq # <<>>, downq' = Tail(downq)
        PROVE  DownCovers(i)' \/ Reports(downq[1], i)
    <2>1. \A n \in DOMAIN downq : n # 1 => n-1 \in DOMAIN downq' /\ downq'[n-1] = downq[n]
      BY <1>0, <1>4, Popped
    <2> QED
      BY <1>4, <2>1 DEF DownCovers
  <1>5. (UpCovers(i) /\ upq' = upq => UpCovers(i)') /\ (DownCovers(i) /\ downq' = downq => DownCovers(i)')
    BY DEF UpCovers, DownCovers
  <1> QED
    BY <1>1, <1>2, <1>3, <1>4, <1>5

(* An invocation that is covered stays so, unless the session forgets it:  *)
(* a record is let go only with a frame that says so, or in a rebind that  *)
(* reports the invocation cancelled.                                       *)
LEMMA CoverKept ==
    ASSUME TypeOK, FramesRight, StartedOnce, Held, BoundOnce, CancelsFlagged,
           [Next]_vars, ~Redial, Open',
           NEW i \in Invocations, i \in known, i \in known', Covered(i),
           \/ ready
           \/ Planned /\ i \in DOMAIN plan[1].status /\ plan[1].status[i] # "cancelled"
    PROVE  Covered(i)'
  <1>On. Flows
    BY FlowsOn
  <1>Stop. plan # <<>> => i \notin plan[1].stop
    BY DEF BoundOnce, CancelsFlagged
  <1>Complete. ASSUME CompleteCancel(i) PROVE Covered(i)'
    <2>1. ready
      BY <1>Complete DEF CompleteCancel, CancelsFlagged
    <2>2. downq' = downq \o <<Frame("cancelAck", i)>>
      BY <1>Complete, <1>On, <2>1, Tells DEF Flows, Open
    <2> DEFINE f == Frame("cancelAck", i)
    <2>3. f \in Frames /\ Reports(f, i) /\ downq' = downq \o <<f>> /\ downq \in Seq(Frames)
      BY <2>2, FramesIn DEF Reports, TypeOK
    <2> HIDE DEF f
    <2>4. Len(downq)+1 \in DOMAIN downq' /\ downq'[Len(downq)+1] = f
      BY <2>3, Pushed
    <2> QED
      BY <2>3, <2>4 DEF Covered, DownCovers
  <1>Ack. ASSUME HostAck, i = Named PROVE Covered(i)'
    <2>1. ready
      BY <1>Ack DEF HostAck, Reads, Planned
    <2>2. downq' = downq \o <<Frame("acked", i)>>
      BY <1>Ack, <1>On, <2>1, Tells DEF Flows, Open
    <2> DEFINE f == Frame("acked", i)
    <2>3. f \in Frames /\ Reports(f, i) /\ downq' = downq \o <<f>> /\ downq \in Seq(Frames)
      BY <2>2, FramesIn DEF Reports, TypeOK
    <2> HIDE DEF f
    <2>4. Len(downq)+1 \in DOMAIN downq' /\ downq'[Len(downq)+1] = f
      BY <2>3, Pushed
    <2> QED
      BY <2>3, <2>4 DEF Covered, DownCovers
  <1>Rec. CASE rec[i] # "none" /\ rec'[i] = "none"
    <2>1. CASE TaskEnds(i) /\ i \in cancelled
      <3>1. i \in cancelling
        BY <1>Rec, <1>Stop, <2>1 DEF CancelsFlagged
      <3> QED
        BY <2>1, <3>1 DEF TaskEnds, Covered
    <2> QED
      BY <1>Rec, <1>On, <1>Complete, <1>Ack, <1>Stop, <2>1 DEF Flows, FinishRebind
  <1>Cancelling. CASE i \in cancelling
    BY <1>Cancelling, <1>On, <1>Complete DEF Flows, Covered
  <1>Up. CASE UpCovers(i)
    <2>1. CASE Pump
      <3>1. /\ upq # <<>> /\ upq[1] \in Frames /\ Head(upq) = upq[1]
            /\ Len(incoming)+1 \in DOMAIN incoming'
            /\ incoming'[Len(incoming)+1] = <<epoch, upq[1]>>
            /\ \A n \in DOMAIN upq : n # 1 => n-1 \in DOMAIN upq' /\ upq'[n-1] = upq[n]
        BY <2>1, Pumped, Heads
      <3>2. PICK n \in DOMAIN upq : Invokes(upq[n], i) \/ Cancels(upq[n], i)
        BY <1>Up DEF UpCovers
      <3>3. CASE n # 1
        BY <3>1, <3>2, <3>3 DEF Covered, UpCovers
      <3>4. CASE n = 1 /\ Invokes(upq[1], i)
        BY <2>1, <3>1, <3>4 DEF Pump, Invokes, Covered, TypeOK
      <3>5. CASE n = 1 /\ Cancels(upq[1], i)
        BY <1>On, <3>1, <3>5 DEF Flows, Covered, HostCovers, Current
      <3> QED
        BY <3>2, <3>3, <3>4, <3>5
    <2> QED
      BY <1>Up, <1>On, <2>1, QueuesCover DEF Flows, Covered
  <1>Host. CASE HostCovers(i)
    <2>1. CASE Pump
      <3>1. /\ DOMAIN incoming' = DOMAIN incoming \cup {Len(incoming)+1}
            /\ \A n \in DOMAIN incoming : incoming'[n] = incoming[n]
        BY <2>1, Pumped
      <3> QED
        BY <1>Host, <1>On, <3>1 DEF Flows, Covered, HostCovers, Current
    <2>2. CASE ~Pump
      <3>1. \/ HostCovers(i)'
            \/ /\ incoming # <<>> /\ incoming' # incoming
               /\ Current(1) /\ Cancels(incoming[1][2], i)
        BY <1>Host, <1>On, <2>2, QueuesCover DEF Flows
      <3> QED
        BY <1>On, <2>2, <3>1 DEF Flows, Covered
    <2> QED
      BY <2>1, <2>2
  <1>Down. CASE DownCovers(i)
    <2>1. CASE FinishRebind
      <3>1. downq # <<>>
        BY <1>Down DEF DownCovers
      <3>2. downq' = downq
        BY <2>1, <3>1, Finishes
      <3> QED
        BY <1>Down, <3>2 DEF Covered, DownCovers
    <2>2. CASE downq # <<>> /\ downq' = Tail(downq) /\ \A j \in known' : ~Reports(downq[1], j)
      BY <1>Down, <2>2, QueuesCover DEF Covered
    <2> QED
      BY <1>Down, <1>On, <2>1, <2>2, QueuesCover DEF Flows, Covered
  <1>Kept. CASE rec'[i] # "none"
    BY <1>Kept DEF Covered
  <1> QED
    BY <1>Rec, <1>Cancelling, <1>Up, <1>Host, <1>Down, <1>Kept DEF Covered

(* A session comes up only with the answer to its rebind, and stays bound. *)
ComesUp ==
    /\ sess' = "up" => sess = "up" \/ RebindApplied
    /\ ready /\ attached' => ready' \/ Redial

(* Every step is of that kind.                                             *)
LEMMA UpOnlyBound ==
    ASSUME TypeOK, [Next]_vars
    PROVE  ComesUp
  <1> USE DEF session, port
  <1>Invoke. ASSUME NEW i \in Invocations, Invoke(i)
        PROVE  ComesUp
    BY <1>Invoke DEF Invoke, Up, ComesUp, TypeOK
  <1>SendInvoke. ASSUME NEW i \in Invocations, SendInvoke(i)
        PROVE  ComesUp
    BY <1>SendInvoke DEF SendInvoke, Up, ComesUp, TypeOK
  <1>Cancel. ASSUME NEW i \in Invocations, Cancel(i)
        PROVE  ComesUp
    BY <1>Cancel DEF Cancel, Up, ComesUp, TypeOK
  <1>Adopt. ASSUME NEW i \in Invocations, Adopt(i)
        PROVE  ComesUp
    BY <1>Adopt DEF Adopt, Up, ComesUp, TypeOK
  <1>AdoptFails. ASSUME NEW i \in Invocations, AdoptFails(i)
        PROVE  ComesUp
    BY <1>AdoptFails DEF AdoptFails, Up, Forget, ComesUp, TypeOK
  <1>Retain. ASSUME NEW i \in Invocations, Retain(i)
        PROVE  ComesUp
    BY <1>Retain DEF Retain, ComesUp, TypeOK
  <1>WriteResult. ASSUME NEW i \in Invocations, WriteResult(i)
        PROVE  ComesUp
    BY <1>WriteResult DEF WriteResult, Down, ComesUp, TypeOK
  <1>TaskEnds. ASSUME NEW i \in Invocations, TaskEnds(i)
        PROVE  ComesUp
    BY <1>TaskEnds DEF TaskEnds, Release, Live, ComesUp, TypeOK
  <1>CompleteCancel. ASSUME NEW i \in Invocations, CompleteCancel(i)
        PROVE  ComesUp
    BY <1>CompleteCancel DEF CompleteCancel, Release, Down, Live, ComesUp, TypeOK
  <1>ReceiveResult. CASE ReceiveResult
    BY <1>ReceiveResult DEF ReceiveResult, Reading, Got, Up, ComesUp, TypeOK
  <1>ReceiveAcked. CASE ReceiveAcked
    BY <1>ReceiveAcked DEF ReceiveAcked, Reading, Got, Forget, ComesUp, TypeOK
  <1>ReceiveCancelAck. CASE ReceiveCancelAck
    BY <1>ReceiveCancelAck DEF ReceiveCancelAck, Reading, Got, Forget, ComesUp, TypeOK
  <1>ReceiveRebind. CASE ReceiveRebind
    BY <1>ReceiveRebind DEF ReceiveRebind, Reading, Got, ComesUp, TypeOK
  <1>ReceiveRefuses. CASE ReceiveRefuses
    BY <1>ReceiveRefuses DEF ReceiveRefuses, Reading, Got, CloseSession, Forget, ComesUp, TypeOK
  <1>Detach. CASE Detach
    BY <1>Detach DEF Detach, CloseSession, Forget, ComesUp, TypeOK
  <1>Redial. CASE Redial
    BY <1>Redial DEF Redial, ComesUp, TypeOK
  <1>RedialFails. CASE RedialFails
    BY <1>RedialFails DEF RedialFails, CloseConversation, Forget, ComesUp, TypeOK
  <1>SendRebind. CASE SendRebind
    BY <1>SendRebind DEF SendRebind, Up, ComesUp, TypeOK
  <1>RebindApplied. CASE RebindApplied
    BY <1>RebindApplied DEF RebindApplied, Forget, Settled, Dropped, ComesUp, TypeOK
  <1>RebindRolledBack. CASE RebindRolledBack
    BY <1>RebindRolledBack DEF RebindRolledBack, Forget, Settled, Dropped, ComesUp, TypeOK
  <1>SessionExpires. CASE SessionExpires
    BY <1>SessionExpires DEF SessionExpires, CloseSession, Forget, ComesUp, TypeOK
  <1>Pump. CASE Pump
    BY <1>Pump DEF Pump, ComesUp, TypeOK
  <1>DaemonDetach. CASE DaemonDetach
    BY <1>DaemonDetach DEF DaemonDetach, CloseConversation, ComesUp, TypeOK
  <1>ConversationExpires. CASE ConversationExpires
    BY <1>ConversationExpires DEF ConversationExpires, CloseConversation, ComesUp, TypeOK
  <1>DropStale. CASE DropStale
    BY <1>DropStale DEF DropStale, ComesUp, TypeOK
  <1>HostInvoke. CASE HostInvoke
    BY <1>HostInvoke DEF HostInvoke, Reads, Named, ComesUp, TypeOK
  <1>HostCancel. CASE HostCancel
    BY <1>HostCancel DEF HostCancel, Reads, Named, Live, ComesUp, TypeOK
  <1>HostAck. CASE HostAck
    BY <1>HostAck DEF HostAck, Reads, Named, Down, ComesUp, TypeOK
  <1>HostRebind. CASE HostRebind
    BY <1>HostRebind DEF HostRebind, Reads, Named, Records, Status, Live, ComesUp, TypeOK
  <1>HostRefuses. CASE HostRefuses
    BY <1>HostRefuses DEF HostRefuses, CloseConversation, ComesUp, TypeOK
  <1>FinishRebind. CASE FinishRebind
    BY <1>FinishRebind DEF FinishRebind, Release, Down, Replay, ComesUp, TypeOK
  <1>Cut. CASE Cut
    BY <1>Cut DEF Cut, ComesUp, TypeOK
  <1>Still. CASE UNCHANGED vars
    BY <1>Still DEF vars, ComesUp, TypeOK
  <1> QED
    BY <1>Invoke, <1>SendInvoke, <1>Cancel, <1>Adopt, <1>AdoptFails, <1>Retain, <1>WriteResult,
       <1>TaskEnds, <1>CompleteCancel, <1>ReceiveResult, <1>ReceiveAcked, <1>ReceiveCancelAck,
       <1>ReceiveRebind, <1>ReceiveRefuses, <1>Detach, <1>Redial, <1>RedialFails, <1>SendRebind,
       <1>RebindApplied, <1>RebindRolledBack, <1>SessionExpires, <1>Pump, <1>DaemonDetach,
       <1>ConversationExpires, <1>DropStale, <1>HostInvoke, <1>HostCancel, <1>HostAck,
       <1>HostRebind, <1>HostRefuses, <1>FinishRebind, <1>Cut, <1>Still
    DEF Next, Progress, Ask, Call, Run, ReadLoop, Dial, HostLoop

(* Every step keeps what the engine waits for covered.                     *)
LEMMA AwaitedKept ==
    ASSUME TypeOK, FramesRight, StartedOnce, Held, BoundOnce, CancelsFlagged, AwaitedCovered, [Next]_vars
    PROVE  AwaitedCovered'
  <1> USE DEF keys, session, wire, port, work, host
  <1>Redial. CASE Redial
    <2>1. plan # <<>> => plan[1].epoch \in Nat /\ plan[1].epoch <= epoch /\ epoch \in Nat
      BY PlanFits DEF BoundOnce, TypeOK
    <2>2. sess' # "up" /\ ~Planned' /\ ~Answer' /\ reply' = <<>>
      BY <1>Redial, <2>1 DEF Redial, Planned, Answer, BoundOnce
    <2> QED
      BY <2>2 DEF AwaitedCovered
  <1>Open. CASE ~Redial /\ Open'
    <2>1. /\ Open /\ Enters /\ Flows /\ ComesUp /\ Receipts
      BY <1>Open, FlowsOn, EntersOpen, UpOnlyBound, ReceiptsInOrder DEF Flows
    <2>2. ASSUME NEW i \in Invocations, i \in known', eng'[i] # "sending", i \notin known \/ eng[i] = "sending"
          PROVE  Covered(i)'
      <3>1. PICK k \in {"invoke", "cancel"} : upq' = upq \o <<Frame(k, i)>>
        BY <2>1, <2>2 DEF Enters
      <3> DEFINE f == Frame(k, i)
      <3>2. /\ f \in Frames /\ (Invokes(f, i) \/ Cancels(f, i)) /\ upq' = upq \o <<f>> /\ upq \in Seq(Frames)
        BY <3>1, FramesIn DEF Invokes, Cancels, TypeOK
      <3> HIDE DEF f
      <3>3. Len(upq)+1 \in DOMAIN upq' /\ upq'[Len(upq)+1] = f
        BY <3>2, Pushed
      <3> QED
        BY <3>2, <3>3 DEF Covered, UpCovers
    <2>3. ASSUME NEW i \in Invocations, i \in known', eng'[i] # "sending",
                 i \in known /\ eng[i] # "sending" => Covered(i),
                 \/ ready
                 \/ Planned /\ i \in DOMAIN plan[1].status /\ plan[1].status[i] # "cancelled"
          PROVE  Covered(i)'
      <3>1. CASE i \in known /\ eng[i] # "sending"
        BY <1>Open, <2>3, <3>1, CoverKept
      <3> QED
        BY <2>2, <2>3, <3>1
    <2>4. ASSUME NEW st \in Statuses, Bound(st), ready \/ (Planned /\ st = plan[1].status)
          PROVE  Bound(st)'
      <3>1. DOMAIN st \subseteq Invocations
        BY StatusesFit
      <3>2. ASSUME NEW i \in DOMAIN st, i \in known', st[i] \in {"running", "completed"}, eng'[i] # "sending"
            PROVE  Covered(i)'
        <4>1. i \in known /\ eng[i] # "sending" => Covered(i)
          BY <2>4, <3>2 DEF Bound
        <4> QED
          BY <2>3, <2>4, <3>1, <3>2, <4>1
      <3> QED
        BY <3>2 DEF Bound
    <2>5. /\ Answer => ready /\ downq[1].inv \in Statuses
          /\ reply # <<>> => ready /\ reply[1] \in Statuses
          /\ plan # <<>> => plan[1].status \in Statuses
      <3>1. Answer => ready /\ downq[1].inv \in Statuses
        BY <2>1, Heads, Carried DEF Open, BoundOnce, Answer
      <3>2. reply # <<>> => ready /\ reply[1] \in Statuses
        BY <2>1 DEF Open, BoundOnce, TypeOK
      <3> QED
        BY <3>1, <3>2, PlanFits
    <2>6. \A st \in Statuses : Bound(st) /\ (ready \/ (Planned /\ st = plan[1].status)) => Bound(st)'
      BY <2>4
    <2>Up. sess' = "up" => ready' /\ \A i \in known' : eng'[i] # "sending" => Covered(i)'
      <3>1. CASE sess = "up"
        <4>1. ready /\ \A i \in known : eng[i] # "sending" => Covered(i)
          BY <2>1, <3>1 DEF AwaitedCovered
        <4>2. ready'
          BY <1>Open, <2>1, <4>1 DEF ComesUp, Open
        <4>3. known' \subseteq Invocations
          BY TypesKept DEF TypeOK
        <4> QED
          BY <2>3, <4>1, <4>2, <4>3
      <3>2. CASE RebindApplied
        <4>1. reply # <<>> /\ ready /\ reply[1] \in Statuses /\ Bound(reply[1]) /\ DOMAIN reply[1] = known
          BY <2>1, <2>5, <3>2 DEF AwaitedCovered, RebindApplied
        <4>2. ready'
          BY <1>Open, <2>1, <4>1 DEF ComesUp, Open
        <4>3. ASSUME NEW i \in known', eng'[i] # "sending" PROVE Covered(i)'
          <5>1. i \in known /\ i \in Invocations /\ i \notin Dropped(reply[1]) /\ eng'[i] = eng[i]
            BY <3>2, <4>3 DEF RebindApplied, Forget, TypeOK
          <5>2. reply[1][i] \in {"running", "completed"}
            BY <4>1, <5>1, StatusesFit DEF Dropped
          <5>3. Covered(i)
            BY <4>1, <4>3, <5>1, <5>2 DEF Bound
          <5> QED
            BY <2>3, <4>1, <4>3, <5>1, <5>3
        <4> QED
          BY <4>2, <4>3
      <3> QED
        BY <2>1, <3>1, <3>2 DEF ComesUp
    <2>Reply. reply' # <<>> => Bound(reply[1])'
      <3>1. CASE reply # <<>> /\ reply' = reply
        BY <2>1, <2>5, <2>6, <3>1 DEF AwaitedCovered, Bound
      <3>2. CASE Answer /\ reply' = <<downq[1].inv>>
        <4>1. downq[1].inv \in Statuses /\ Bound(downq[1].inv) /\ ready /\ reply'[1] = downq[1].inv
          BY <2>1, <2>5, <3>2 DEF AwaitedCovered
        <4> QED
          BY <2>6, <4>1 DEF Bound
      <3> QED
        BY <2>1, <3>1, <3>2 DEF Receipts
    <2>Plan. ASSUME plan' = plan, Planned' => Planned, Planned' PROVE Bound(plan[1].status)'
      <3>1. Bound(plan[1].status) /\ plan[1].status \in Statuses
        BY <2>1, <2>5, <2>Plan DEF AwaitedCovered, Planned
      <3> QED
        BY <2>6, <2>Plan, <3>1 DEF Bound
    <2>Answer. ASSUME Answer, downq'[1] = downq[1] PROVE Bound(downq[1].inv)'
      <3>1. Bound(downq[1].inv) /\ downq[1].inv \in Statuses /\ ready
        BY <2>1, <2>5, <2>Answer DEF AwaitedCovered
      <3> QED
        BY <2>6, <2>Answer, <3>1 DEF Bound
    <2>Steady. CASE Steady
      <3>1. Answer' => Answer /\ downq'[1] = downq[1]
        <4>1. \A n \in DOMAIN downq' : downq'[n].kind = "rebindResult" =>
                n = 1 /\ n \in DOMAIN downq /\ downq'[n] = downq[n]
          BY <2>Steady, SteadyDown DEF Steady, BoundOnce
        <4>2. downq' # <<>> => 1 \in DOMAIN downq'
          BY TypesKept, Popped DEF TypeOK
        <4>3. 1 \in DOMAIN downq => downq # <<>>
          OBVIOUS
        <4> QED
          BY <4>1, <4>2, <4>3 DEF Answer
      <3>2. plan' = plan /\ (Planned' => Planned)
        BY <2>Steady DEF Steady, Planned
      <3> QED
        BY <2>Up, <2>Reply, <2>Plan, <2>Answer, <3>1, <3>2 DEF AwaitedCovered
    <2>SendRebind. CASE SendRebind \/ Pump
      <3>1. plan' = plan /\ downq' = downq /\ (Planned' => Planned) /\ (Answer' => Answer)
        BY <2>SendRebind DEF SendRebind, Pump, Planned, Answer
      <3> QED
        BY <2>Up, <2>Reply, <2>Plan, <2>Answer, <3>1 DEF AwaitedCovered
    <2>HostRebind. CASE HostRebind
      <3>1. downq' = downq /\ (Answer' => Answer) /\ rec' = rec
        BY <2>HostRebind DEF HostRebind, Answer
      <3>2. plan'[1].status = [i \in Named |-> Status(i, incoming[1][2].flags)]
        BY <2>HostRebind DEF HostRebind
      <3>3. \A i \in DOMAIN plan'[1].status :
               plan'[1].status[i] \in {"running", "completed"} => rec'[i] # "none"
        BY <3>1, <3>2 DEF Status
      <3>4. Bound(plan[1].status)'
        BY <3>3 DEF Bound, Covered
      <3> QED
        BY <2>Up, <2>Reply, <2>Answer, <3>1, <3>4 DEF AwaitedCovered
    <2>FinishRebind. CASE FinishRebind
      <3>1. ~Planned'
        BY <2>FinishRebind DEF FinishRebind, Planned
      <3>2. CASE downq' = downq \/ downq' = <<>>
        BY <2>Up, <2>Reply, <2>Answer, <3>1, <3>2 DEF AwaitedCovered, Answer
      <3>3. CASE Planned /\ downq'[1] = RebindResult(plan[1].status)
        <4>1. plan[1].status \in Statuses /\ Bound(plan[1].status)
          BY <2>1, <2>5, <3>3 DEF AwaitedCovered, Planned
        <4>2. downq'[1].inv = plan[1].status
          BY <3>3, <4>1, FramesIn
        <4>3. Bound(downq[1].inv)'
          BY <2>6, <3>3, <4>1, <4>2 DEF Bound
        <4> QED
          BY <2>Up, <2>Reply, <3>1, <4>3 DEF AwaitedCovered
      <3> QED
        BY <2>FinishRebind, <3>2, <3>3, Finishes
    <2> QED
      BY <1>Open, <2>Steady, <2>SendRebind, <2>HostRebind, <2>FinishRebind, MostlySteady DEF
         RebindStep
  <1> QED
    BY <1>Redial, <1>Open DEF AwaitedCovered

-----------------------------------------------------------------------------
(* The theorems.                                                           *)

(* The invariant holds of a fresh conversation.                            *)
LEMMA ConvInit == Init => ConvInv
  <1> SUFFICES ASSUME Init PROVE ConvInv
    OBVIOUS
  <1>1. TypeOK
    BY DEF Init, TypeOK, FlagTypes, Writable, Ended
  <1>2. upq = <<>> /\ downq = <<>> /\ incoming = <<>> /\ reply = <<>> /\ plan = <<>>
    BY DEF Init
  <1>3. FramesRight /\ StartedOnce
    BY <1>2 DEF Init, FramesRight, StartedOnce
  <1>4. Held
    BY <1>2 DEF Init, Held
  <1>5. BoundOnce /\ MissingIsGone
    BY <1>2 DEF Init, BoundOnce, MissingIsGone, Asked, Read, Planned, Answer, Writable
  <1>6. CancelsFlagged /\ AwaitedCovered
    BY <1>2 DEF Init, CancelsFlagged, AwaitedCovered, Planned, Answer
  <1> QED
    BY <1>1, <1>3, <1>4, <1>5, <1>6 DEF ConvInv

(* Every step keeps the invariant.                                         *)
LEMMA ConvStep == ConvInv /\ [Next]_vars => ConvInv'
  BY TypesKept, FramesKept, StartsKept, HeldKept, BoundKept, MissingKept, CancelsKept, AwaitedKept
  DEF ConvInv

(* The inductive invariant holds in every reachable state.                 *)
THEOREM ConvInvariant == Spec => []ConvInv
  BY ConvInit, ConvStep, PTL DEF Spec

(* Receipt alone never releases a result: whatever breaks, replays and     *)
(* reconnections come between, the daemon holds the resources of a result  *)
(* for as long as the engine adopts it.                                    *)
THEOREM HeldUntilAdoption == Spec => []HoldUntilAdopted
  <1>1. ConvInv => HoldUntilAdopted
    BY DEF ConvInv, Held, HoldUntilAdopted
  <1> QED
    BY <1>1, ConvInvariant, PTL

(* A call that returned had its invocation run exactly once, and the       *)
(* daemon has let go of its record and its resources.                      *)
THEOREM ReturnsRelease == Spec => []ReturnedIsReleased
  <1>1. ConvInv => ReturnedIsReleased
    BY DEF ConvInv, Held, StartedOnce, ReturnedIsReleased, Begun
  <1> QED
    BY <1>1, ConvInvariant, PTL

(* The rebind brings the two sides back in step: when nothing is under way *)
(* on a bound connection, the daemon has a record of every invocation the  *)
(* engine waits for.                                                       *)
THEOREM RecordsStayInStep == Spec => []RecordsInStep
  <1>1. ASSUME ConvInv, Quiet PROVE {i \in known : eng[i] # "sending"} \subseteq Records
    <2>1. ASSUME NEW i \in known, eng[i] # "sending" PROVE rec[i] # "none"
      BY <1>1, <2>1 DEF ConvInv, AwaitedCovered, Open, Quiet, Covered, UpCovers, HostCovers,
         DownCovers
    <2> QED
      BY <1>1, <2>1 DEF ConvInv, TypeOK, Records
  <1>2. ConvInv => RecordsInStep
    BY <1>1 DEF ConvInv, RecordsInStep, AwaitedIsRecorded
  <1> QED
    BY <1>2, ConvInvariant, PTL

(* No break, replay or repeated frame makes the daemon run an invocation a *)
(* second time.                                                            *)
THEOREM StartsAtMostOnce == Spec => [](\A i \in Invocations : runs[i] <= 1)
  <1>1. ConvInv => \A i \in Invocations : runs[i] <= 1
    BY DEF ConvInv, StartedOnce
  <1> QED
    BY <1>1, ConvInvariant, PTL

(* The daemon cancels no invocation whose caller still waits for it: a     *)
(* cancel frame or a rebind that arrives late names only calls given up.   *)
THEOREM StopsOnlyGivenUp ==
    Spec => [](\A i \in cancelled \cup cancelling : eng[i] \in {"cancelled", "failed"})
  <1>1. ConvInv => \A i \in cancelled \cup cancelling : eng[i] \in {"cancelled", "failed"}
    BY DEF ConvInv, Held, Lost
  <1> QED
    BY <1>1, ConvInvariant, PTL

=============================================================================
