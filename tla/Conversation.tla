---------------------------- MODULE Conversation ----------------------------
(***************************************************************************)
(* A resumable worker conversation: the engine's session (session.py) and  *)
(* the daemon's conversation and host loop (resume.py, host.py), joined by *)
(* a socket that may break.  The daemon keeps a record of every invocation *)
(* it was sent and holds the resources of a result until the engine has    *)
(* adopted it; after a reconnection the two sides compare what they know   *)
(* (rebind) and completed results are sent again.                          *)
(*                                                                         *)
(* Control frames other than the ones named here (memory, events, run      *)
(* control, blobs) are left out; so is invokeAccepted, which only sets an  *)
(* event that nothing waits for, and which a session that no longer knows  *)
(* the invocation refuses as it does the result or the acknowledgement     *)
(* that follows.  A dial is one step: until the daemon's hello arrives the *)
(* session only writes, as it may in "attached".                           *)
(***************************************************************************)
EXTENDS Naturals, Sequences, FiniteSets, SequencesExt

CONSTANTS
    Invocations,  \* invocation identities of the session
    Transfers,    \* the ones that carry payloads the daemon lacks
    Impatient,    \* the ones whose caller may give up
    MaxCuts       \* bound: how often the socket breaks

ASSUME ConversationAssumption ==
    /\ Transfers \subseteq Invocations /\ Impatient \subseteq Invocations /\ MaxCuts \in Nat
    /\ IsFiniteSet(Invocations)

VARIABLES
    eng,        \* invoke(): where the call of each invocation stands
    known,      \* _invocation_keys
    received,   \* _received_results
    ackReady,   \* _result_ack_ready
    flagged,    \* _cancelled_invocations
    sess,       \* up, attached, rebinding, down, closed; refused: a BoundaryError
    reply,      \* _rebind_future's result, not yet applied
    link,       \* is the socket whole
    upq, downq, \* frames in the socket, to the daemon and to the engine
    conv,       \* open, closed; refused: a BoundaryError ended the host loop
    epoch,      \* _owner_epoch
    attached,   \* _physical_writer
    ready,      \* _rebind_ready
    incoming,   \* _incoming: frames with the epoch of their socket
    rec,        \* _records
    task,       \* run_invocation: none, running, writing, sent, gone
    cancelled,  \* invocations whose cancellation event is set
    cancelling, \* complete_cancel tasks
    refs,       \* inflight_result_refs
    plan,       \* a rebind waiting for cancelled tasks, <<>> or <<response>>
    runs,       \* how often an invocation was started
    cuts        \* how often the socket broke

keys == <<eng, known, received, ackReady, flagged>>
session == <<sess, reply>>
wire == <<link, upq, downq>>
port == <<epoch, attached, ready>>
work == <<task, cancelled, runs>>
host == <<rec, cancelling, refs, plan>>
vars == <<keys, session, wire, port, incoming, conv, work, host, cuts>>

Writable == {"up", "attached", "rebinding"}
Ended == {"returned", "failed", "cancelled"}

Frame(k, i) == [kind |-> k, inv |-> i]
Rebind(S, C) == [kind |-> "rebind", inv |-> S, flags |-> C]
RebindResult(st) == [kind |-> "rebindResult", inv |-> st]

Init ==
    /\ eng = [i \in Invocations |-> "new"]
    /\ known = {} /\ received = {} /\ ackReady = {} /\ flagged = {}
    /\ sess = "up" /\ reply = <<>>
    /\ link = TRUE /\ upq = <<>> /\ downq = <<>>
    /\ conv = "open" /\ epoch = 1 /\ attached = TRUE /\ ready = TRUE /\ incoming = <<>>
    /\ rec = [i \in Invocations |-> "none"]
    /\ task = [i \in Invocations |-> "none"]
    /\ cancelled = {} /\ cancelling = {} /\ refs = {} /\ plan = <<>>
    /\ runs = [i \in Invocations |-> 0]
    /\ cuts = 0

(* A write on a broken socket is lost.                                     *)
Up(fs) == upq' = IF sess \in Writable /\ link THEN upq \o fs ELSE upq
Down(fs) == downq' = IF attached /\ link THEN downq \o fs ELSE downq

(* _forget_invocation *)
Forget(S) ==
    /\ known' = known \ S
    /\ received' = received \ S
    /\ ackReady' = ackReady \ S
    /\ flagged' = flagged \ S

(* close: every pending future and acknowledgement fails.                  *)
CloseSession(how) ==
    /\ sess' = how /\ reply' = <<>> /\ link' = FALSE /\ downq' = <<>>
    /\ eng' = [i \in Invocations |-> IF eng[i] = "new" \/ eng[i] \in Ended THEN eng[i] ELSE "failed"]
    /\ Forget(known)

-----------------------------------------------------------------------------
(* invoke: the key is registered first; an invocation whose payloads the   *)
(* daemon lacks transfers them before its frame is sent.                   *)

Invoke(i) ==
    /\ eng[i] = "new" /\ sess \in Writable
    /\ known' = known \cup {i}
    /\ \/ i \in Transfers /\ eng' = [eng EXCEPT ![i] = "sending"] /\ Up(<<>>)
       \/ i \notin Transfers /\ eng' = [eng EXCEPT ![i] = "waiting"] /\ Up(<<Frame("invoke", i)>>)
    /\ UNCHANGED <<received, ackReady, flagged, session, link, downq, port, incoming, conv, work, host, cuts>>

SendInvoke(i) ==
    /\ eng[i] = "sending"
    /\ eng' = [eng EXCEPT ![i] = IF i \in known THEN "waiting" ELSE "failed"]
    /\ Up(<<Frame("invoke", i)>>)
    /\ UNCHANGED <<known, received, ackReady, flagged, session, link, downq, port, incoming, conv, work, host, cuts>>

Cancel(i) ==
    /\ i \in Impatient /\ eng[i] \in {"sending", "waiting", "adopting", "acking"}
    /\ eng' = [eng EXCEPT ![i] = "cancelled"]
    /\ flagged' = flagged \cup {i}
    /\ Up(<<Frame("cancel", i)>>)
    /\ UNCHANGED <<known, received, ackReady, session, link, downq, port, incoming, conv, work, host, cuts>>

(* The outputs are decoded and captured; only then is the result           *)
(* acknowledged.                                                           *)
Adopt(i) ==
    /\ eng[i] = "adopting" /\ i \in known
    /\ eng' = [eng EXCEPT ![i] = "acking"]
    /\ ackReady' = ackReady \cup {i}
    /\ Up(<<Frame("ack", i)>>)
    /\ UNCHANGED <<known, received, flagged, session, link, downq, port, incoming, conv, work, host, cuts>>

AdoptFails(i) ==
    /\ eng[i] = "adopting"
    /\ eng' = [eng EXCEPT ![i] = "failed"]
    /\ Up(<<Frame("cancel", i)>>)
    /\ Forget({i})
    /\ UNCHANGED <<session, link, downq, port, incoming, conv, work, host, cuts>>

-----------------------------------------------------------------------------
(* The session's read loop.                                                *)

Reading(k) == sess \in Writable /\ downq # <<>> /\ Head(downq).kind = k
Got == Head(downq).inv

(* Fault: a replay is acknowledged while its adoption runs.                *)
AckAnyReplay ==
    /\ Reading("result") /\ Got \in known
    /\ downq' = Tail(downq)
    /\ received' = received \cup {Got}
    /\ eng' = IF eng[Got] = "waiting" THEN [eng EXCEPT ![Got] = "adopting"] ELSE eng
    /\ Up(IF Got \in received THEN <<Frame("ack", Got)>> ELSE <<>>)
    /\ UNCHANGED <<known, ackReady, flagged, session, link, port, incoming, conv, work, host, cuts>>

(* The first result wakes the caller; a replayed one is acknowledged again *)
(* if its adoption is over, and ignored while it runs.                     *)
ReceiveResult ==
    /\ Reading("result") /\ Got \in known
    /\ downq' = Tail(downq)
    /\ received' = received \cup {Got}
    /\ eng' = IF eng[Got] = "waiting" THEN [eng EXCEPT ![Got] = "adopting"] ELSE eng
    /\ Up(IF Got \in ackReady THEN <<Frame("ack", Got)>> ELSE <<>>)
    /\ UNCHANGED <<known, ackReady, flagged, session, link, port, incoming, conv, work, host, cuts>>

ReceiveAcked ==
    /\ Reading("acked") /\ Got \in ackReady
    /\ downq' = Tail(downq)
    /\ eng' = IF eng[Got] = "acking" THEN [eng EXCEPT ![Got] = "returned"] ELSE eng
    /\ Forget({Got})
    /\ UNCHANGED <<session, link, upq, port, incoming, conv, work, host, cuts>>

ReceiveCancelAck ==
    /\ Reading("cancelAck") /\ Got \in known
    /\ downq' = Tail(downq)
    /\ Forget({Got})
    /\ UNCHANGED <<eng, session, link, upq, port, incoming, conv, work, host, cuts>>

ReceiveRebind ==
    /\ Reading("rebindResult")
    /\ downq' = Tail(downq)
    /\ reply' = <<Got>>
    /\ UNCHANGED <<keys, sess, link, upq, port, incoming, conv, work, host, cuts>>

(* A frame that names no invocation is a BoundaryError: the session closes *)
(* and does not reconnect.                                                 *)
ReceiveRefuses ==
    /\ \/ Reading("result") /\ Got \notin known
       \/ Reading("acked") /\ Got \notin ackReady
       \/ Reading("cancelAck") /\ Got \notin known
    /\ CloseSession("refused")
    /\ UNCHANGED <<upq, port, incoming, conv, work, host, cuts>>

SendRebind ==
    /\ sess = "attached"
    /\ sess' = "rebinding"
    /\ Up(<<Rebind(known, flagged \cap known)>>)
    /\ UNCHANGED <<keys, reply, link, downq, port, incoming, conv, work, host, cuts>>

Dropped(st) == {i \in DOMAIN st : st[i] \in {"missing", "cancelled"}}

(* A result that was received and is no longer known to the daemon was     *)
(* acknowledged; any other missing invocation failed.                      *)
Settled(st, i) ==
    CASE eng[i] = "acking" /\ st[i] = "missing" -> "returned"
      [] eng[i] = "waiting" -> "failed"
      [] OTHER -> eng[i]

RebindApplied ==
    /\ reply # <<>> /\ DOMAIN reply[1] = known
    /\ eng' = [i \in Invocations |-> IF i \in Dropped(reply[1]) THEN Settled(reply[1], i) ELSE eng[i]]
    /\ Forget(Dropped(reply[1]))
    /\ sess' = "up" /\ reply' = <<>>
    /\ UNCHANGED <<wire, port, incoming, conv, work, host, cuts>>

(* The response does not fit what the session knows by now: the dial is    *)
(* rolled back, after the statuses read so far were applied.               *)
RebindRolledBack ==
    /\ reply # <<>> /\ DOMAIN reply[1] # known
    /\ \E S \in SUBSET (Dropped(reply[1]) \cap known) :
        /\ DOMAIN reply[1] \subseteq known => S = Dropped(reply[1])
        /\ eng' = [i \in Invocations |-> IF i \in S THEN Settled(reply[1], i) ELSE eng[i]]
        /\ Forget(S)
    /\ link' = FALSE /\ reply' = <<>>
    /\ UNCHANGED <<sess, upq, downq, port, incoming, conv, work, host, cuts>>

(* _detach_for_resume at the end of the stream; payload transfers fail.    *)
Detach ==
    /\ sess \in Writable /\ ~link /\ reply = <<>>
    /\ \/ known = {} /\ CloseSession("closed")
       \/ /\ known # {}
          /\ sess' = "down" /\ downq' = <<>>
          /\ eng' = [i \in Invocations |->
                        IF eng[i] = "sending" THEN (IF i \in known THEN "waiting" ELSE "failed")
                        ELSE eng[i]]
          /\ UNCHANGED <<known, received, ackReady, flagged, reply, link>>
    /\ UNCHANGED <<upq, port, incoming, conv, work, host, cuts>>

Records == {i \in Invocations : rec[i] # "none"}

(* attach: the new socket takes the conversation over.                     *)
Redial ==
    /\ sess = "down" /\ conv = "open" /\ (attached \/ Records # {})
    /\ sess' = "attached"
    /\ link' = TRUE /\ upq' = <<>> /\ downq' = <<>>
    /\ epoch' = epoch + 1 /\ attached' = TRUE /\ ready' = FALSE
    /\ UNCHANGED <<keys, reply, incoming, conv, work, host, cuts>>

-----------------------------------------------------------------------------
(* The daemon.                                                             *)

(* The end of the host loop cancels every invocation and waits for it.     *)
CloseConversation(how) ==
    /\ conv' = how /\ attached' = FALSE /\ ready' = FALSE /\ link' = FALSE
    /\ task' = [i \in Invocations |-> IF task[i] = "none" THEN "none" ELSE "gone"]

(* Nothing to resume: the conversation is closed and a new session starts. *)
RedialFails ==
    /\ sess = "down" /\ (conv # "open" \/ (~attached /\ Records = {}))
    /\ CloseConversation(IF conv = "open" THEN "closed" ELSE conv)
    /\ sess' = "closed"
    /\ eng' = [i \in Invocations |-> IF eng[i] = "new" \/ eng[i] \in Ended THEN eng[i] ELSE "failed"]
    /\ Forget(known)
    /\ UNCHANGED <<reply, upq, downq, epoch, incoming, cancelled, runs, host, cuts>>

SessionExpires ==
    /\ sess = "down"
    /\ CloseSession("closed")
    /\ UNCHANGED <<upq, port, incoming, conv, work, host, cuts>>

ConversationExpires ==
    /\ conv = "open" /\ ~attached
    /\ CloseConversation("closed")
    /\ UNCHANGED <<keys, session, upq, downq, epoch, incoming, cancelled, runs, host, cuts>>

(* _pump: an invocation has a record before the host loop sees its frame.  *)
Pump ==
    /\ conv = "open" /\ attached /\ upq # <<>>
    /\ upq' = Tail(upq)
    /\ incoming' = Append(incoming, <<epoch, Head(upq)>>)
    /\ rec' = IF Head(upq).kind = "invoke" THEN [rec EXCEPT ![Head(upq).inv] = "running"] ELSE rec
    /\ UNCHANGED <<keys, session, link, downq, port, conv, work, cancelling, refs, plan, cuts>>

DaemonDetach ==
    /\ conv = "open" /\ attached /\ ~link
    /\ upq' = <<>>
    /\ IF Records = {}
         THEN CloseConversation("closed")
         ELSE attached' = FALSE /\ ready' = FALSE /\ UNCHANGED <<conv, link, task>>
    /\ UNCHANGED <<keys, session, downq, epoch, incoming, cancelled, runs, host, cuts>>

-----------------------------------------------------------------------------
(* The host loop.                                                          *)

Reads(k) ==
    /\ conv = "open" /\ plan = <<>>
    /\ incoming # <<>> /\ incoming[1][1] = epoch /\ incoming[1][2].kind = k
Named == incoming[1][2].inv

(* read: a frame of a replaced socket is dropped.  An invoke that Pump has *)
(* recorded and that is dropped here keeps its record and gets no task:    *)
(* every rebind reports it running until it is cancelled.                  *)
DropStale ==
    /\ conv = "open" /\ plan = <<>>
    /\ incoming # <<>> /\ incoming[1][1] # epoch
    /\ incoming' = Tail(incoming)
    /\ UNCHANGED <<keys, session, wire, port, conv, work, host, cuts>>

HostInvoke ==
    /\ Reads("invoke")
    /\ incoming' = Tail(incoming)
    /\ task' = [task EXCEPT ![Named] = "running"]
    /\ runs' = [runs EXCEPT ![Named] = @ + 1]
    /\ UNCHANGED <<keys, session, wire, port, conv, cancelled, host, cuts>>

Live(i) == task[i] \in {"running", "writing", "sent"}
Writing == {i \in Invocations : task[i] = "writing"}

HostCancel ==
    /\ Reads("cancel") /\ rec[Named] # "none"
    /\ incoming' = Tail(incoming)
    /\ cancelled' = IF Live(Named) THEN cancelled \cup {Named} ELSE cancelled
    /\ cancelling' = cancelling \cup {Named}
    /\ UNCHANGED <<keys, session, wire, port, conv, task, runs, rec, refs, plan, cuts>>

(* Fault: the record outlives its acknowledgement.                         *)
AckKeepsRecord ==
    /\ Reads("ack") /\ rec[Named] = "completed" /\ Writing = {}
    /\ incoming' = Tail(incoming)
    /\ Down(IF ready THEN <<Frame("acked", Named)>> ELSE <<>>)
    /\ UNCHANGED <<keys, session, link, upq, port, conv, work, host, cuts>>

(* The locks are fair: a result that waits for them is written first.      *)
HostAck ==
    /\ Reads("ack") /\ rec[Named] = "completed" /\ Writing = {}
    /\ incoming' = Tail(incoming)
    /\ rec' = [rec EXCEPT ![Named] = "none"]
    /\ refs' = refs \ {Named}
    /\ Down(IF ready THEN <<Frame("acked", Named)>> ELSE <<>>)
    /\ UNCHANGED <<keys, session, link, upq, port, conv, work, cancelling, plan, cuts>>

(* Fault: an unknown invocation is said to run.                            *)
NeverMissing(i, flags) ==
    IF i \in flags THEN "cancelled" ELSE IF rec[i] = "none" THEN "running" ELSE rec[i]

Status(i, flags) ==
    IF i \in flags THEN "cancelled" ELSE IF rec[i] = "none" THEN "missing" ELSE rec[i]

(* Fault: the cancellations in a rebind are not applied.                   *)
RebindIgnoresFlags ==
    /\ Reads("rebind") /\ Records \subseteq Named
    /\ incoming' = Tail(incoming)
    /\ plan' = <<[epoch |-> epoch, stop |-> {},
                  status |-> [i \in Named |-> Status(i, {})]]>>
    /\ UNCHANGED <<keys, session, wire, port, conv, work, rec, cancelling, refs, cuts>>

(* plan_rebind, and the tasks of the cancelled invocations are told.       *)
HostRebind ==
    /\ Reads("rebind") /\ Records \subseteq Named
    /\ incoming' = Tail(incoming)
    /\ LET flags == incoming[1][2].flags IN
        /\ plan' = <<[epoch |-> epoch, stop |-> flags \cap Records,
                      status |-> [i \in Named |-> Status(i, flags)]]>>
        /\ cancelled' = cancelled \cup {i \in flags \cap Records : Live(i)}
    /\ UNCHANGED <<keys, session, wire, port, conv, task, runs, rec, cancelling, refs, cuts>>

(* A BoundaryError ends the host loop, and the conversation with it.       *)
HostRefuses ==
    /\ \/ Reads("cancel") /\ rec[Named] = "none"
       \/ Reads("ack") /\ rec[Named] # "completed"
       \/ Reads("rebind") /\ ~(Records \subseteq Named)
    /\ CloseConversation("refused")
    /\ UNCHANGED <<keys, session, upq, downq, epoch, incoming, cancelled, runs, host, cuts>>

Release(S) ==
    /\ rec' = [i \in Invocations |-> IF i \in S THEN "none" ELSE rec[i]]
    /\ refs' = refs \ S

(* Fault: completed results are not sent again.                            *)
NoReplay == <<>>

(* complete_rebind: the response and every completed result of a rebound   *)
(* invocation, unless the socket was replaced or lost meanwhile.           *)
Replay ==
    SetToSeq({Frame("result", i) : i \in {j \in DOMAIN plan[1].status \ plan[1].stop : rec[j] = "completed"}})

FinishRebind ==
    /\ conv = "open" /\ plan # <<>>
    /\ \A i \in plan[1].stop : ~Live(i)
    /\ Release(plan[1].stop)
    /\ IF attached /\ plan[1].epoch = epoch
         THEN /\ Down(<<RebindResult(plan[1].status)>> \o Replay)
              /\ ready' = TRUE
         ELSE UNCHANGED <<downq, ready>>
    /\ plan' = <<>>
    /\ UNCHANGED <<keys, session, link, upq, epoch, attached, incoming, conv, work, cancelling, cuts>>

-----------------------------------------------------------------------------
(* run_invocation and complete_cancel.                                     *)

(* The result is retained before its frame is written.                     *)
Retain(i) ==
    /\ conv = "open" /\ task[i] = "running" /\ i \notin cancelled
    /\ task' = [task EXCEPT ![i] = "writing"]
    /\ rec' = [rec EXCEPT ![i] = "completed"]
    /\ refs' = refs \cup {i}
    /\ UNCHANGED <<keys, session, wire, port, incoming, conv, cancelled, runs, cancelling, plan, cuts>>

WriteResult(i) ==
    /\ conv = "open" /\ task[i] = "writing"
    /\ task' = [task EXCEPT ![i] = "sent"]
    /\ Down(IF ready THEN <<Frame("result", i)>> ELSE <<>>)
    /\ UNCHANGED <<keys, session, link, upq, port, incoming, conv, cancelled, runs, host, cuts>>

TaskEnds(i) ==
    /\ conv = "open"
    /\ task[i] = "sent" \/ (Live(i) /\ i \in cancelled)
    /\ task' = [task EXCEPT ![i] = "gone"]
    /\ Release(IF i \in cancelled THEN {i} ELSE {})
    /\ UNCHANGED <<keys, session, wire, port, incoming, conv, cancelled, runs, cancelling, plan, cuts>>

CompleteCancel(i) ==
    /\ conv = "open" /\ i \in cancelling /\ ~Live(i) /\ Writing = {}
    /\ cancelling' = cancelling \ {i}
    /\ Release({i})
    /\ Down(IF ready THEN <<Frame("cancelAck", i)>> ELSE <<>>)
    /\ UNCHANGED <<keys, session, link, upq, port, incoming, conv, work, plan, cuts>>

Cut ==
    /\ link /\ cuts < MaxCuts
    /\ link' = FALSE
    /\ cuts' = cuts + 1
    /\ UNCHANGED <<keys, session, upq, downq, port, incoming, conv, work, host>>

-----------------------------------------------------------------------------
ReadLoop ==
    ReceiveResult \/ ReceiveAcked \/ ReceiveCancelAck \/ ReceiveRebind \/ ReceiveRefuses
Dial == Detach \/ Redial \/ RedialFails \/ SendRebind \/ RebindApplied \/ RebindRolledBack
HostLoop ==
    \/ DropStale \/ HostInvoke \/ HostCancel \/ HostAck
    \/ HostRebind \/ HostRefuses \/ FinishRebind
(* The task of rebind runs before the callers woken after it.              *)
Ask(i) == reply = <<>> /\ (Invoke(i) \/ Cancel(i))
Call(i) == reply = <<>> /\ (SendInvoke(i) \/ Adopt(i) \/ AdoptFails(i))
Run(i) == Retain(i) \/ WriteResult(i) \/ TaskEnds(i)

(* Everything but new calls, cancels and breaks.                           *)
Progress ==
    \/ \E i \in Invocations : Call(i) \/ Run(i) \/ CompleteCancel(i)
    \/ ReadLoop \/ Dial \/ SessionExpires
    \/ Pump \/ DaemonDetach \/ ConversationExpires \/ HostLoop

Next == Progress \/ Cut \/ \E i \in Invocations : Ask(i)

Spec == Init /\ [][Next]_vars

(* Both processes keep running, node code returns, and the grace timers of *)
(* both sides run out; no break and no cancel has to happen.  No behaviour *)
(* takes progress steps forever, so their weak fairness taken together is  *)
(* enough.                                                                 *)
FairSpec == Spec /\ WF_vars(Progress)

-----------------------------------------------------------------------------
Statuses ==
    UNION {[S -> {"running", "completed", "missing", "cancelled"}] : S \in SUBSET Invocations}
Frames ==
    [kind : {"invoke", "cancel", "ack", "result", "acked", "cancelAck"}, inv : Invocations]
        \cup [kind : {"rebind"}, inv : SUBSET Invocations, flags : SUBSET Invocations]
        \cup [kind : {"rebindResult"}, inv : Statuses]
Plans == [epoch : Nat, stop : SUBSET Invocations, status : Statuses]

(* Every variable holds what the code can store in it.                     *)
FlagTypes == link \in BOOLEAN /\ attached \in BOOLEAN /\ ready \in BOOLEAN
TypeOK ==
    /\ FlagTypes
    /\ eng \in [Invocations -> {"new", "sending", "waiting", "adopting", "acking"} \cup Ended]
    /\ known \subseteq Invocations /\ received \subseteq Invocations
    /\ ackReady \subseteq Invocations /\ flagged \subseteq Invocations
    /\ sess \in Writable \cup {"down", "closed", "refused"}
    /\ upq \in Seq(Frames) /\ downq \in Seq(Frames) /\ incoming \in Seq(Nat \X Frames)
    /\ conv \in {"open", "closed", "refused"} /\ epoch \in Nat /\ cuts \in 0..MaxCuts
    /\ rec \in [Invocations -> {"none", "running", "completed"}]
    /\ task \in [Invocations -> {"none", "running", "writing", "sent", "gone"}]
    /\ cancelled \subseteq Invocations /\ cancelling \subseteq Invocations /\ refs \subseteq Invocations
    /\ runs \in [Invocations -> Nat]
    /\ reply \in Seq(Statuses) /\ Len(reply) <= 1 /\ plan \in Seq(Plans) /\ Len(plan) <= 1

(* "Receipt alone cannot release the producer's hold while adoption runs": *)
(* replays, retries and reconnections included, the daemon holds the       *)
(* resources of a result for as long as the engine is adopting it.         *)
HoldUntilAdopted ==
    \A i \in Invocations : eng[i] = "adopting" /\ conv = "open" => i \in refs

(* An invocation that returned was run exactly once, and the daemon has    *)
(* let go of its record and of its resources.                              *)
ReturnedIsReleased ==
    \A i \in Invocations :
        eng[i] = "returned" => runs[i] = 1 /\ (conv = "open" => rec[i] = "none" /\ i \notin refs)

(* When nothing is under way on a bound connection, the daemon has a       *)
(* record of every invocation the engine waits for: what a break lost was  *)
(* found out by the rebind.  A record is not yet a task (see DropStale).   *)
Quiet ==
    /\ sess = "up" /\ conv = "open" /\ link /\ attached
    /\ upq = <<>> /\ downq = <<>> /\ incoming = <<>> /\ plan = <<>> /\ cancelling = {}
AwaitedIsRecorded ==
    Quiet => {i \in known : eng[i] # "sending"} \subseteq Records

(* The two sides agree on what is under way.                               *)
RecordsInStep == TypeOK /\ AwaitedIsRecorded

(* "Cancellation intent survives the gap": once its call was cancelled, an *)
(* invocation stops running on the daemon and its resources are let go,    *)
(* even if the cancel frame was lost.                                      *)
CancelSettles ==
    \A i \in Invocations :
        (eng[i] = "cancelled") ~> (conv # "open" \/ (~Live(i) /\ rec[i] = "none" /\ i \notin refs))

(* A call whose invocation the daemon started ends.  One whose invoke was  *)
(* dropped as stale waits until it is cancelled or the session ends.       *)
StartedCallEnds ==
    \A i \in Invocations : (runs[i] > 0) ~> (eng[i] \in Ended)

(* "A missing record ... or malformed rebind fails the invocation": a      *)
(* frame about one invocation ends neither the conversation nor the        *)
(* session, and so leaves the other invocations alone.                     *)
NoRefusal == conv # "refused" /\ sess # "refused"

=============================================================================
