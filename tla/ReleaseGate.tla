----------------------------- MODULE ReleaseGate -----------------------------
(***************************************************************************)
(* How a resident object of a worker process is handed to the engine by    *)
(* reference, and how it is taken away again under memory pressure.        *)
(*                                                                         *)
(* The child (dinkster_workers/host.py with the pool of                    *)
(* dinkster_memory/resident.py) owns the residents.  The parent's session  *)
(* (session.py) decodes results that name them, the engine pins them for   *)
(* the lifetime of a run (pins.py, engine.py), and the memory relay        *)
(* (relay.py) releases them in two phases: the child proposes, the parent  *)
(* invalidates its cache and condemns, the child drops what was not used   *)
(* since, the parent absolves what was refused.  Frames travel in order in *)
(* each direction; every await is a place where anything else may happen.  *)
(*                                                                         *)
(* A run of the model invokes one node, whose result names one resident,   *)
(* and a shed makes one release; so what a frame carries is kept under the *)
(* run or the shed the frame is about.  The worker does not die and the    *)
(* connection is not resumable.                                            *)
(***************************************************************************)
EXTENDS Integers, Sequences, FiniteSets

CONSTANTS
    Runs,       \* runs, with the one invocation each of them makes
    Sheds,      \* ram-lane sheds, each of them one two-phase release
    MaxRes,     \* bound: how many residents are ever admitted
    Artifacts,  \* whether results carry saved-artifact candidates
    None

Res == 1 .. MaxRes

ASSUME GateAssumption ==
    /\ MaxRes \in Nat
    /\ Artifacts \in BOOLEAN
    /\ None \notin Res
    /\ Runs \cap Sheds = {}

VARIABLES
    \* The parent: engine and session.
    pc,          \* pc[n]: where run n stands
    ref,         \* ref[n]: the reference it has in hand
    pinned,      \* pinned[n]: the engine's pin on it, until the run ends
    handoff,     \* handoff[n]: the session's pin on it, while it is adopted
    putting,     \* putting[n]: its result is on the way into the cache
    cached,      \* residents that a cache entry refers to
    condemned,   \* ResourcePins._condemned
    \* The parent: the relay.
    shed,        \* shed[s]: where _shed_release stands
    staked,      \* staked[s]: what it has condemned
    \* The wire, each way.
    toChild, toParent,
    \* The child.
    exec,        \* exec[n]: the task of n's invocation
    object,      \* object[n]: the resident its result names
    hold,        \* hold[n]: inflight_result_refs
    job,         \* job[s]: the task that serves a query or a commit of s
    offer,       \* offer[s]: the use-clock tokens of what was proposed
    wanted,      \* wanted[s]: what the commit may drop
    freed,       \* freed[s]: what it dropped
    alive,       \* residents in the pool
    used,        \* used[r]: last_used of r, counted per resident
    nextRes

runVars == <<pc, ref, pinned, handoff, putting>>
wireVars == <<toChild, toParent>>
execVars == <<exec, object, hold>>
taskVars == <<job, offer, wanted, freed>>
poolVars == <<alive, used, nextRes>>
childVars == <<execVars, taskVars, poolVars>>
parentVars == <<runVars, cached, condemned, shed, staked>>
vars == <<parentVars, wireVars, childVars>>

Frame == [kind : {"invoke", "result", "resultAck", "cancel", "query",
                  "candidates", "commit", "released"},
          of : Runs \cup Sheds]

F(k, x) == [kind |-> k, of |-> x]

TypeOK ==
    /\ pc \in [Runs -> {"idle", "looking", "invoking", "answered", "adopting",
                        "acked", "vetting", "holding", "refused", "ended"}]
    /\ ref \in [Runs -> Res \cup {None}]
    /\ pinned \in [Runs -> BOOLEAN]
    /\ handoff \in [Runs -> BOOLEAN]
    /\ putting \in [Runs -> BOOLEAN]
    /\ cached \subseteq Res
    /\ condemned \subseteq Res
    /\ shed \in [Sheds -> {"idle", "query", "gate", "commit", "absolve",
                           "over", "lost"}]
    /\ staked \in [Sheds -> SUBSET Res]
    /\ toChild \in Seq(Frame) /\ toParent \in Seq(Frame)
    /\ exec \in [Runs -> {"none", "started", "working", "encoded", "over"}]
    /\ object \in [Runs -> Res \cup {None}]
    /\ hold \in [Runs -> Res \cup {None}]
    /\ job \in [Sheds -> {"none", "query", "commit"}]
    /\ offer \in [Sheds -> [Res -> Nat]]
    /\ wanted \in [Sheds -> SUBSET Res]
    /\ freed \in [Sheds -> SUBSET Res]
    /\ alive \subseteq Res
    /\ used \in [Res -> Nat]
    /\ nextRes \in 1 .. MaxRes + 1

-----------------------------------------------------------------------------
Init ==
    /\ pc = [n \in Runs |-> "idle"]
    /\ ref = [n \in Runs |-> None]
    /\ pinned = [n \in Runs |-> FALSE]
    /\ handoff = [n \in Runs |-> FALSE]
    /\ putting = [n \in Runs |-> FALSE]
    /\ cached = {} /\ condemned = {}
    /\ shed = [s \in Sheds |-> "idle"]
    /\ staked = [s \in Sheds |-> {}]
    /\ toChild = <<>> /\ toParent = <<>>
    /\ exec = [n \in Runs |-> "none"]
    /\ object = [n \in Runs |-> None]
    /\ hold = [n \in Runs |-> None]
    /\ job = [s \in Sheds |-> "none"]
    /\ offer = [s \in Sheds |-> [r \in Res |-> 0]]
    /\ wanted = [s \in Sheds |-> {}]
    /\ freed = [s \in Sheds |-> {}]
    /\ alive = {}
    /\ used = [r \in Res |-> 0]
    /\ nextRes = 1

(* ResourcePins.pinned: some run or some decoding invocation refers to r.  *)
Pinned(r) == \E n \in Runs : ref[n] = r /\ (pinned[n] \/ handoff[n])

(* held_resource_ids: what results in flight refer to.                     *)
Held == {hold[n] : n \in Runs}

(* The next frame in a direction is k, about x.                            *)
NextIs(wire, k, x) == wire # <<>> /\ Head(wire) = F(k, x)

-----------------------------------------------------------------------------
(* The engine's run and the session's invoke.                              *)

(* The cache answers with a reference; get() may suspend before it does.   *)
LookupHit(n, r) ==
    /\ pc[n] = "idle"
    /\ r \in cached
    /\ pc' = [pc EXCEPT ![n] = "looking"]
    /\ ref' = [ref EXCEPT ![n] = r]
    /\ UNCHANGED <<pinned, handoff, putting, cached, condemned, shed, staked,
                   wireVars, childVars>>

(* A miss: the node is invoked.                                            *)
LookupMiss(n) ==
    /\ pc[n] = "idle"
    /\ pc' = [pc EXCEPT ![n] = "invoking"]
    /\ toChild' = Append(toChild, F("invoke", n))
    /\ UNCHANGED <<ref, pinned, handoff, putting, cached, condemned, shed,
                   staked, toParent, childVars>>

(* _pin_outputs on a hit: pinned for the run, or a stale read that counts  *)
(* as a miss.                                                              *)
PinHit(n) ==
    /\ pc[n] = "looking"
    /\ IF ref[n] \in condemned
       THEN /\ pc' = [pc EXCEPT ![n] = "invoking"]
            /\ ref' = [ref EXCEPT ![n] = None]
            /\ toChild' = Append(toChild, F("invoke", n))
            /\ UNCHANGED pinned
       ELSE /\ pc' = [pc EXCEPT ![n] = "holding"]
            /\ pinned' = [pinned EXCEPT ![n] = TRUE]
            /\ UNCHANGED <<ref, toChild>>
    /\ UNCHANGED <<handoff, putting, cached, condemned, shed, staked, toParent,
                   childVars>>

(* The read loop meets a result.  An invocation that was given up is no    *)
(* longer in _pending and its result is dropped.                           *)
ReadResult(n) ==
    /\ NextIs(toParent, "result", n)
    /\ toParent' = Tail(toParent)
    /\ IF pc[n] = "invoking"
       THEN /\ pc' = [pc EXCEPT ![n] = "answered"]
            /\ ref' = [ref EXCEPT ![n] = object[n]]
       ELSE UNCHANGED <<pc, ref>>
    /\ UNCHANGED <<pinned, handoff, putting, cached, condemned, shed, staked,
                   toChild, childVars>>

(* invoke resumes: an error is acknowledged and ends the run; a result is  *)
(* decoded, and its reference gets a handoff pin unless it is condemned.   *)
Decode(n) ==
    /\ pc[n] = "answered"
    /\ IF ref[n] = None
       THEN /\ pc' = [pc EXCEPT ![n] = "ended"]
            /\ toChild' = Append(toChild, F("resultAck", n))
            /\ UNCHANGED handoff
       ELSE /\ pc' = [pc EXCEPT ![n] = "adopting"]
            /\ handoff' = [handoff EXCEPT ![n] = ref[n] \notin condemned]
            /\ UNCHANGED toChild
    /\ UNCHANGED <<ref, pinned, putting, cached, condemned, shed, staked,
                   toParent, childVars>>

(* The adoption task is done and the resultAck goes out.                   *)
SendAck(n) ==
    /\ pc[n] = "adopting"
    /\ pc' = [pc EXCEPT ![n] = "acked"]
    /\ toChild' = Append(toChild, F("resultAck", n))
    /\ UNCHANGED <<ref, pinned, handoff, putting, cached, condemned, shed,
                   staked, toParent, childVars>>

(* The engine pins a fresh result; a refusal fails the node.               *)
PinFresh(n) ==
    IF ref[n] \in condemned
    THEN /\ pc' = [pc EXCEPT ![n] = "refused"]
         /\ UNCHANGED <<pinned, putting>>
    ELSE /\ pc' = [pc EXCEPT ![n] = "holding"]
         /\ pinned' = [pinned EXCEPT ![n] = TRUE]
         /\ putting' = [putting EXCEPT ![n] = TRUE]

(* The ack is out: the handoff pin is dropped, and invoke returns to the   *)
(* engine at once unless artifact candidates have to be vetted first.      *)
Settle(n) ==
    /\ pc[n] = "acked"
    /\ handoff' = [handoff EXCEPT ![n] = FALSE]
    /\ IF Artifacts
       THEN /\ pc' = [pc EXCEPT ![n] = "vetting"]
            /\ UNCHANGED <<pinned, putting>>
       ELSE PinFresh(n)
    /\ UNCHANGED <<ref, cached, condemned, shed, staked, wireVars, childVars>>

Vetted(n) ==
    /\ pc[n] = "vetting"
    /\ PinFresh(n)
    /\ UNCHANGED <<ref, handoff, cached, condemned, shed, staked, wireVars,
                   childVars>>

(* The run is cancelled, or adopting the result fails, while the           *)
(* invocation is open: the handoff pin goes and a cancel frame is sent.    *)
Abandon(n) ==
    /\ pc[n] \in {"invoking", "answered", "adopting", "acked"}
    /\ pc' = [pc EXCEPT ![n] = "ended"]
    /\ handoff' = [handoff EXCEPT ![n] = FALSE]
    /\ toChild' = Append(toChild, F("cancel", n))
    /\ UNCHANGED <<ref, pinned, putting, cached, condemned, shed, staked,
                   toParent, childVars>>

(* cache.put, within the run.                                              *)
Put(n) ==
    /\ pc[n] = "holding"
    /\ putting[n]
    /\ putting' = [putting EXCEPT ![n] = FALSE]
    /\ cached' = cached \cup {ref[n]}
    /\ UNCHANGED <<pc, ref, pinned, handoff, condemned, shed, staked, wireVars,
                   childVars>>

(* The run is over, or is cancelled outside invoke; its pins are undone.   *)
EndRun(n) ==
    /\ pc[n] \in {"looking", "vetting", "holding", "refused"}
    /\ pc' = [pc EXCEPT ![n] = "ended"]
    /\ pinned' = [pinned EXCEPT ![n] = FALSE]
    /\ putting' = [putting EXCEPT ![n] = FALSE]
    /\ UNCHANGED <<ref, handoff, cached, condemned, shed, staked, wireVars,
                   childVars>>

(* The cache evicts on its own account.                                    *)
Evict(r) ==
    /\ r \in cached
    /\ cached' = cached \ {r}
    /\ UNCHANGED <<runVars, condemned, shed, staked, wireVars, childVars>>

-----------------------------------------------------------------------------
(* The relay's _shed_release.                                              *)

StartShed(s) ==
    /\ shed[s] = "idle"
    /\ shed' = [shed EXCEPT ![s] = "query"]
    /\ toChild' = Append(toChild, F("query", s))
    /\ UNCHANGED <<runVars, cached, condemned, staked, toParent, childVars>>

(* on_release_reply: the reply finds its round trip, or nobody.            *)
ReadReply(s, k, from, to) ==
    /\ NextIs(toParent, k, s)
    /\ toParent' = Tail(toParent)
    /\ shed' = [shed EXCEPT ![s] = IF @ = from THEN to ELSE @]
    /\ UNCHANGED <<runVars, cached, condemned, staked, toChild, childVars>>

(* The gate, over the proposed residents without a pause: invalidate the   *)
(* cache (which raises for the members of bad), condemn what is not pinned *)
(* and not condemned by another release, commit what is left.              *)
Proposed(s) == {r \in Res : offer[s][r] > 0}

(* Fault: what another release has condemned is taken as well.             *)
GateTakesCondemned(s, bad) == {r \in Proposed(s) \ bad : ~Pinned(r)}
GateTakes(s, bad) == {r \in Proposed(s) \ bad : r \notin condemned /\ ~Pinned(r)}

Gate(s, bad) ==
    /\ shed[s] = "gate"
    /\ bad \subseteq Proposed(s)
    /\ cached' = cached \ (Proposed(s) \ bad)
    /\ condemned' = condemned \cup GateTakes(s, bad)
    /\ staked' = [staked EXCEPT ![s] = GateTakes(s, bad)]
    /\ IF GateTakes(s, bad) = {}
       THEN /\ shed' = [shed EXCEPT ![s] = "over"]
            /\ UNCHANGED toChild
       ELSE /\ shed' = [shed EXCEPT ![s] = "commit"]
            /\ toChild' = Append(toChild, F("commit", s))
    /\ UNCHANGED <<runVars, toParent, childVars>>

(* Fault: nothing is absolved.                                             *)
AbsolveNothing(s) ==
    /\ shed[s] = "absolve"
    /\ shed' = [shed EXCEPT ![s] = "over"]
    /\ UNCHANGED <<runVars, cached, condemned, staked, wireVars, childVars>>

(* The child's answer to the commit: what it refused is absolved.          *)
Absolve(s) ==
    /\ shed[s] = "absolve"
    /\ shed' = [shed EXCEPT ![s] = "over"]
    /\ condemned' = condemned \ (staked[s] \ freed[s])
    /\ UNCHANGED <<runVars, cached, staked, wireVars, childVars>>

(* A round trip times out or is cancelled.  What was condemned stays so.   *)
GiveUp(s) ==
    /\ shed[s] \in {"query", "gate", "commit", "absolve"}
    /\ shed' = [shed EXCEPT ![s] = "lost"]
    /\ UNCHANGED <<runVars, cached, condemned, staked, wireVars, childVars>>

-----------------------------------------------------------------------------
(* The child's read loop.                                                  *)

ReadInvoke(n) ==
    /\ NextIs(toChild, "invoke", n)
    /\ toChild' = Tail(toChild)
    /\ exec' = [exec EXCEPT ![n] = "started"]
    /\ UNCHANGED <<parentVars, toParent, object, hold, taskVars, poolVars>>

ReadAck(n) ==
    /\ NextIs(toChild, "resultAck", n)
    /\ toChild' = Tail(toChild)
    /\ hold' = [hold EXCEPT ![n] = None]
    /\ UNCHANGED <<parentVars, toParent, exec, object, taskVars, poolVars>>

(* cancel: the task is cancelled.  The hold goes only when that interrupts *)
(* the transfer of the blobs the encoded result refers to.                 *)
ReadCancel(n) ==
    /\ NextIs(toChild, "cancel", n)
    /\ toChild' = Tail(toChild)
    /\ exec' = [exec EXCEPT ![n] = "over"]
    /\ \/ UNCHANGED hold
       \/ exec[n] = "encoded" /\ hold' = [hold EXCEPT ![n] = None]
    /\ UNCHANGED <<parentVars, toParent, object, taskVars, poolVars>>

ReadQuery(s) ==
    /\ NextIs(toChild, "query", s)
    /\ toChild' = Tail(toChild)
    /\ job' = [job EXCEPT ![s] = "query"]
    /\ UNCHANGED <<parentVars, toParent, execVars, offer, wanted, freed,
                   poolVars>>

(* snapshot_commit_candidates, before the next frame is read.              *)
ReadCommit(s) ==
    /\ NextIs(toChild, "commit", s)
    /\ toChild' = Tail(toChild)
    /\ job' = [job EXCEPT ![s] = "commit"]
    /\ wanted' = [wanted EXCEPT ![s] = staked[s] \ Held]
    /\ UNCHANGED <<parentVars, toParent, execVars, offer, freed, poolVars>>

-----------------------------------------------------------------------------
(* The child's tasks.                                                      *)

(* rid_for and get: r is entered in the pool unless it is there, and its   *)
(* use clock moves.                                                        *)
Touch(r) ==
    /\ r \in alive \/ r = nextRes
    /\ r \in Res
    /\ alive' = alive \cup {r}
    /\ nextRes' = IF r = nextRes THEN nextRes + 1 ELSE nextRes
    /\ used' = [used EXCEPT ![r] = @ + 1]

(* The node obtains a resident, loaded before or loaded now.               *)
Obtain(n, r) ==
    /\ exec[n] = "started"
    /\ exec' = [exec EXCEPT ![n] = "working"]
    /\ object' = [object EXCEPT ![n] = r]
    /\ Touch(r)
    /\ UNCHANGED <<parentVars, wireVars, hold, taskVars>>

(* The result is encoded: the object's resident is named, under a new id   *)
(* if the old one was released meanwhile, and the hold is registered.      *)
Encode(n, r) ==
    /\ exec[n] = "working"
    /\ r = IF object[n] \in alive THEN object[n] ELSE nextRes
    /\ exec' = [exec EXCEPT ![n] = "encoded"]
    /\ object' = [object EXCEPT ![n] = r]
    /\ hold' = [hold EXCEPT ![n] = r]
    /\ Touch(r)
    /\ UNCHANGED <<parentVars, wireVars, taskVars>>

SendResult(n) ==
    /\ exec[n] = "encoded"
    /\ exec' = [exec EXCEPT ![n] = "over"]
    /\ toParent' = Append(toParent, F("result", n))
    /\ UNCHANGED <<parentVars, toChild, object, hold, taskVars, poolVars>>

(* The node fails; the result names nothing.  Failures between encoding    *)
(* and sending drop the hold first.                                        *)
SendError(n) ==
    /\ exec[n] \in {"started", "working", "encoded"}
    /\ exec' = [exec EXCEPT ![n] = "over"]
    /\ object' = [object EXCEPT ![n] = None]
    /\ hold' = [hold EXCEPT ![n] = None]
    /\ toParent' = Append(toParent, F("result", n))
    /\ UNCHANGED <<parentVars, toChild, taskVars, poolVars>>

(* Fault: no reply when there is nothing to propose.                       *)
RunQuerySilent(s, picks) ==
    /\ job[s] = "query"
    /\ picks \subseteq alive \ Held
    /\ job' = [job EXCEPT ![s] = "none"]
    /\ offer' = [offer EXCEPT ![s] =
                   [r \in Res |-> IF r \in picks THEN used[r] ELSE 0]]
    /\ toParent' = IF picks = {} THEN toParent
                   ELSE Append(toParent, F("candidates", s))
    /\ UNCHANGED <<parentVars, toChild, execVars, wanted, freed, poolVars>>

(* run_release_query: some residents that no result in flight refers to,   *)
(* with their tokens.                                                      *)
RunQuery(s, picks) ==
    /\ job[s] = "query"
    /\ picks \subseteq alive \ Held
    /\ job' = [job EXCEPT ![s] = "none"]
    /\ offer' = [offer EXCEPT ![s] =
                   [r \in Res |-> IF r \in picks THEN used[r] ELSE 0]]
    /\ toParent' = Append(toParent, F("candidates", s))
    /\ UNCHANGED <<parentVars, toChild, execVars, wanted, freed, poolVars>>

(* run_release_commit: the pool drops what is still as it was proposed,    *)
(* unless something of its own refuses.                                    *)
UnusedOrNot(s) == wanted[s] \cap alive
Unused(s) == {r \in wanted[s] \cap alive : used[r] = offer[s][r]}

RunCommit(s, gone) ==
    /\ job[s] = "commit"
    /\ gone \subseteq Unused(s)
    /\ job' = [job EXCEPT ![s] = "none"]
    /\ freed' = [freed EXCEPT ![s] = gone]
    /\ alive' = alive \ gone
    /\ toParent' = Append(toParent, F("released", s))
    /\ UNCHANGED <<parentVars, toChild, execVars, offer, wanted, used, nextRes>>

-----------------------------------------------------------------------------
RunStep(n) ==
    \/ \E r \in Res : LookupHit(n, r)
    \/ LookupMiss(n)
    \/ PinHit(n)
    \/ ReadResult(n)
    \/ Decode(n)
    \/ SendAck(n)
    \/ Settle(n)
    \/ Vetted(n)
    \/ Abandon(n)
    \/ Put(n)
    \/ EndRun(n)

ShedStep(s) ==
    \/ StartShed(s)
    \/ ReadReply(s, "candidates", "query", "gate")
    \/ \E bad \in SUBSET Res : Gate(s, bad)
    \/ ReadReply(s, "released", "commit", "absolve")
    \/ Absolve(s)
    \/ GiveUp(s)

ChildRun(n) ==
    \/ ReadInvoke(n)
    \/ ReadAck(n)
    \/ ReadCancel(n)
    \/ \E r \in Res : Obtain(n, r)
    \/ \E r \in Res : Encode(n, r)
    \/ SendResult(n)
    \/ SendError(n)

ChildShed(s) ==
    \/ ReadQuery(s)
    \/ \E picks \in SUBSET Res : RunQuery(s, picks)
    \/ ReadCommit(s)
    \/ \E gone \in SUBSET Res : RunCommit(s, gone)

Next ==
    \/ \E n \in Runs : RunStep(n) \/ ChildRun(n)
    \/ \E s \in Sheds : ShedStep(s) \/ ChildShed(s)
    \/ \E r \in Res : Evict(r)

Spec == Init /\ [][Next]_vars

(* Both read loops and every task run on; what is not promised is that a   *)
(* run looks something up, that a shed starts, times out or that anything  *)
(* is cancelled.  A node's own work is assumed to end.  Runs and sheds are *)
(* used once, so no behaviour takes such steps forever, and their weak     *)
(* fairness taken together is enough.                                      *)
RunProgress(n) ==
    PinHit(n) \/ ReadResult(n) \/ Decode(n) \/ SendAck(n) \/ Settle(n) \/ Vetted(n) \/ ChildRun(n)

ShedProgress(s) ==
    \/ ReadReply(s, "candidates", "query", "gate")
    \/ \E bad \in SUBSET Res : Gate(s, bad)
    \/ ReadReply(s, "released", "commit", "absolve")
    \/ Absolve(s)
    \/ ChildShed(s)

Progress == (\E n \in Runs : RunProgress(n)) \/ (\E s \in Sheds : ShedProgress(s))

FairSpec == Spec /\ WF_vars(Progress)

-----------------------------------------------------------------------------
(* What must hold.                                                         *)

(* Whatever a live run or a decoding invocation has pinned is still in the *)
(* child's pool: no release, late, timed out, refused or concurrent with   *)
(* another, drops it, so no stub dangles (relay.py, "nothing can slip in   *)
(* between this check and the child's drop").                              *)
PinnedIsResident ==
    \A n \in Runs : pinned[n] \/ handoff[n] => ref[n] \in alive

(* A cache entry never refers to a resident that has been released or is   *)
(* being released: invalidation comes before condemnation, and a put can   *)
(* not bring back an entry that was invalidated.                           *)
CachedIsResident == cached \subseteq alive \ condemned

(* What a result in flight refers to is not dropped before the parent has  *)
(* acknowledged it, although a commit may have been read before the result *)
(* was encoded (host.py, "the in-flight half of the gate").                *)
HeldIsResident == \A n \in Runs : hold[n] # None => hold[n] \in alive

(* A condemnation is never leaked: a resident that is condemned and still  *)
(* alive is staked on a release under way, or on one that timed out, whose *)
(* outcome is unknown.  Otherwise every later use of it would recompute.   *)
CondemnedForAReason ==
    \A r \in condemned \cap alive :
        \E s \in Sheds : r \in staked[s] /\ shed[s] \in {"commit", "absolve", "lost"}

(* A released resident stays condemned, whatever other releases absolve:   *)
(* ids are not reused, so a stale reference is refused for ever (pins.py,  *)
(* "that tombstone is permanent").                                         *)
Tombstones ==
    \A r \in Res : r < nextRes /\ r \notin alive => r \in condemned

(* A shed comes to an end by the exchange of frames alone, without its     *)
(* timeout: neither side waits for the other.                              *)
ShedsEnd == \A s \in Sheds : shed[s] = "query" ~> shed[s] \in {"over", "lost"}

(* Every invocation is answered, whatever releases are under way.          *)
InvocationsEnd ==
    \A n \in Runs : pc[n] = "invoking" ~> pc[n] \in {"holding", "refused", "ended"}

(* Neither side waits for the other: a release and the invocations that    *)
(* cross it all end.                                                       *)
GateSettles == ShedsEnd /\ InvocationsEnd

-----------------------------------------------------------------------------
(* The inductive invariant.                                                *)

(* A frame k about x is somewhere on the wire.                             *)
Has(wire, k, x) == \E i \in 1 .. Len(wire) : wire[i] = F(k, x)

(* It is there at most once.                                               *)
Once(wire, k, x) ==
    \A i, j \in 1 .. Len(wire) :
        wire[i] = F(k, x) /\ wire[j] = F(k, x) => i = j

(* The child may still drop what shed s has staked.                        *)
Dropping(s) == Has(toChild, "commit", s) \/ job[s] = "commit"

Staking == {"commit", "absolve", "lost"}

(* Only residents that exist are referred to, and tokens are never ahead   *)
(* of the use clock.                                                       *)
Known ==
    /\ \A n \in Runs : /\ ref[n] # None => ref[n] < nextRes
                       /\ object[n] # None => object[n] < nextRes
    /\ \A r \in alive \cup condemned : r < nextRes
    /\ \A s \in Sheds : \A r \in staked[s] : r < nextRes
    /\ \A r \in Res : used[r] > 0 => r < nextRes
    /\ \A s \in Sheds, r \in Res : offer[s][r] <= used[r]

(* Which pins a run may have, by where it stands.                          *)
PinPhases ==
    \A n \in Runs :
        /\ pc[n] \in {"looking", "adopting", "acked", "vetting", "holding"}
             => ref[n] # None
        /\ pinned[n] => pc[n] = "holding"
        /\ putting[n] => pinned[n]
        /\ handoff[n] => pc[n] \in {"adopting", "acked"}

(* A pin and a condemnation exclude each other.                            *)
PinsLive == \A n \in Runs : pinned[n] \/ handoff[n] => ref[n] \notin condemned

(* A commit is sent once, and answered once, for what is staked on it.     *)
CommitOnce ==
    \A s \in Sheds :
        /\ shed[s] \in {"idle", "query", "gate"} =>
              staked[s] = {} /\ ~Dropping(s) /\ ~Has(toParent, "released", s)
        /\ Dropping(s) => /\ shed[s] \in {"commit", "lost"}
                          /\ freed[s] = {}
                          /\ ~Has(toParent, "released", s)
        /\ Has(toChild, "commit", s) => job[s] # "commit"
        /\ Once(toChild, "commit", s)

(* What a release has staked is condemned, for itself alone, and in the    *)
(* pool until the release drops it.                                        *)
Stakes ==
    /\ \A s \in Sheds :
        /\ freed[s] \subseteq staked[s] /\ freed[s] \cap alive = {}
        /\ shed[s] \in Staking => /\ staked[s] \subseteq condemned
                                  /\ staked[s] \ freed[s] \subseteq alive
        /\ job[s] = "commit" =>
              /\ wanted[s] \subseteq staked[s]
              /\ \A r \in wanted[s] : r \in Held => offer[s][r] < used[r]
    /\ \A s, t \in Sheds :
        s # t /\ shed[s] \in Staking /\ shed[t] \in Staking
          => staked[s] \cap staked[t] = {}

GateInv ==
    /\ TypeOK /\ Known /\ PinPhases /\ PinsLive /\ CommitOnce /\ Stakes
    /\ Tombstones /\ CachedIsResident /\ HeldIsResident /\ CondemnedForAReason
=============================================================================
