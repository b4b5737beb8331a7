----------------------------- MODULE LeaseBroker -----------------------------
(***************************************************************************)
(* Memory leases for peers (dinkster_memory/leases.py): a reservation of   *)
(* the governor, held by a task until it is released, cancelled or past    *)
(* its term.                                                               *)
(*                                                                         *)
(* An action is what runs between two awaits.  A lease stands for one call *)
(* of acquire, with the task it creates and the future it waits on.  The   *)
(* governor is seen from here only: admission is granted, is refused, or   *)
(* is still undecided.  Time is counted in steps; a lease's term is over   *)
(* when the clock has reached its expires_at.                              *)
(***************************************************************************)
EXTENDS Integers

CONSTANTS
    Leases,   \* calls of acquire
    Ttls,     \* the ttl values callers ask for
    MaxTtl,   \* max_ttl
    MaxClock  \* bound: how far time goes

ASSUME LeaseAssumption ==
    /\ MaxTtl \in Nat \ {0}
    /\ MaxClock \in Nat
    /\ Ttls \subseteq Nat \ {0}

VARIABLES
    answer,    \* answer[l]: what the caller of acquire has, or waits for
    task,      \* task[l]: how far hold() has come
    stop,      \* stop[l]: task.cancel() has been called
    released,  \* released[l]: the event a release sets
    expires,   \* expires[l]: lease.expires_at
    timer,     \* timer[l]: when the sleep of hold() ends
    held,      \* _held
    leased,    \* leases with a reservation at the governor
    phase,     \* "open", "closing" or "closed"
    clock

callVars == <<answer, task, stop>>
termVars == <<released, expires, timer>>
leaseVars == <<callVars, termVars, held, leased, phase, clock>>

LeaseTypeOK ==
    /\ answer \in [Leases -> {"none", "waiting", "lease", "error", "gone"}]
    /\ task \in [Leases -> {"none", "created", "admission", "holding", "done"}]
    /\ stop \in [Leases -> BOOLEAN]
    /\ released \in [Leases -> BOOLEAN]
    /\ expires \in [Leases -> 0 .. MaxClock]
    /\ timer \in [Leases -> 0 .. MaxClock]
    /\ held \subseteq Leases
    /\ leased \subseteq Leases
    /\ phase \in {"open", "closing", "closed"}
    /\ clock \in 0 .. MaxClock

LeaseInit ==
    /\ answer = [l \in Leases |-> "none"]
    /\ task = [l \in Leases |-> "none"]
    /\ stop = [l \in Leases |-> FALSE]
    /\ released = [l \in Leases |-> FALSE]
    /\ expires = [l \in Leases |-> 0]
    /\ timer = [l \in Leases |-> 0]
    /\ held = {} /\ leased = {}
    /\ phase = "open"
    /\ clock = 0

(* clamp_ttl.  Terms that end beyond the model's time are left out.        *)
Clamp(ttl) == IF ttl > MaxTtl THEN MaxTtl ELSE ttl

TimeLeft == clock + MaxTtl <= MaxClock

-----------------------------------------------------------------------------
(* Calls.                                                                  *)

(* acquire creates the task and waits for its answer.                      *)
Acquire(l) ==
    /\ phase = "open"
    /\ task[l] = "none"
    /\ task' = [task EXCEPT ![l] = "created"]
    /\ answer' = [answer EXCEPT ![l] = "waiting"]
    /\ UNCHANGED <<stop, termVars, held, leased, phase, clock>>

(* The caller of acquire is cancelled, and with it the future.             *)
AcquireCut(l) ==
    /\ answer[l] = "waiting"
    /\ answer' = [answer EXCEPT ![l] = "gone"]
    /\ UNCHANGED <<task, stop, termVars, held, leased, phase, clock>>

(* release of a lease that is held; then it waits for the task.            *)
Release(l) ==
    /\ l \in held
    /\ released' = [released EXCEPT ![l] = TRUE]
    /\ UNCHANGED <<callVars, expires, timer, held, leased, phase, clock>>

(* The caller of release is cancelled while it waits, and the task with it.*)
ReleaseCut(l) ==
    /\ l \in held
    /\ released[l]
    /\ stop' = [stop EXCEPT ![l] = TRUE]
    /\ UNCHANGED <<answer, task, termVars, held, leased, phase, clock>>

(* renew: a lease past its term is a miss, even before its task notices.   *)
Renew(l, ttl) ==
    /\ l \in held
    /\ expires[l] > clock
    /\ TimeLeft
    /\ expires' = [expires EXCEPT ![l] = clock + Clamp(ttl)]
    /\ UNCHANGED <<callVars, released, timer, held, leased, phase, clock>>

(* Fault: the tasks still in admission are left alone.                     *)
CloseHeldOnly ==
    /\ phase = "open"
    /\ phase' = "closing"
    /\ released' = [l \in Leases |-> released[l] \/ l \in held]
    /\ UNCHANGED <<callVars, expires, timer, held, leased, clock>>

(* close, up to its await: what is held is released, every other task is   *)
(* cancelled.                                                              *)
Close ==
    /\ phase = "open"
    /\ phase' = "closing"
    /\ released' = [l \in Leases |-> released[l] \/ l \in held]
    /\ stop' = [l \in Leases |->
                  stop[l] \/ (task[l] \in {"created", "admission"} /\ l \notin held)]
    /\ UNCHANGED <<answer, task, expires, timer, held, leased, clock>>

(* The tasks are over.                                                     *)
CloseDone ==
    /\ phase = "closing"
    /\ \A l \in Leases : task[l] \in {"none", "done"}
    /\ phase' = "closed"
    /\ UNCHANGED <<callVars, termVars, held, leased, clock>>

-----------------------------------------------------------------------------
(* The task of a lease.                                                    *)

(* hold() begins and the governor does not answer at once.                 *)
EnterAdmission(l) ==
    /\ task[l] = "created" /\ ~stop[l]
    /\ task' = [task EXCEPT ![l] = "admission"]
    /\ UNCHANGED <<answer, stop, termVars, held, leased, phase, clock>>

(* The reservation is granted.  In a closed broker, or when the caller has *)
(* gone (resolving its future raises), it is handed straight back;         *)
(* otherwise the lease's term begins now.                                  *)
Grant(l, ttl) ==
    /\ task[l] \in {"created", "admission"} /\ ~stop[l]
    /\ TimeLeft
    /\ IF phase = "open" /\ answer[l] = "waiting"
       THEN /\ task' = [task EXCEPT ![l] = "holding"]
            /\ answer' = [answer EXCEPT ![l] = "lease"]
            /\ expires' = [expires EXCEPT ![l] = clock + Clamp(ttl)]
            /\ timer' = [timer EXCEPT ![l] = clock + Clamp(ttl)]
            /\ held' = held \cup {l}
            /\ leased' = leased \cup {l}
       ELSE /\ task' = [task EXCEPT ![l] = "done"]
            /\ answer' = [answer EXCEPT ![l] = IF @ = "waiting" THEN "error" ELSE @]
            /\ UNCHANGED <<expires, timer, held, leased>>
    /\ UNCHANGED <<stop, released, phase, clock>>

(* The governor refuses, and the refusal is relayed.                       *)
Deny(l) ==
    /\ task[l] \in {"created", "admission"} /\ ~stop[l]
    /\ task' = [task EXCEPT ![l] = "done"]
    /\ answer' = [answer EXCEPT ![l] = IF @ = "waiting" THEN "error" ELSE @]
    /\ UNCHANGED <<stop, termVars, held, leased, phase, clock>>

(* Fault: the entry of a cancelled holder stays in _held.                  *)
CancelledKeepsEntry(l) ==
    /\ stop[l] /\ task[l] \in {"created", "admission", "holding"}
    /\ task' = [task EXCEPT ![l] = "done"]
    /\ stop' = [stop EXCEPT ![l] = FALSE]
    /\ answer' = [answer EXCEPT ![l] =
                    IF @ = "waiting" /\ task[l] # "created" THEN "error" ELSE @]
    /\ leased' = leased \ {l}
    /\ UNCHANGED <<termVars, held, phase, clock>>

(* A cancelled task takes its next step.  If it would have been its first, *)
(* hold() is never entered and tells nobody.                               *)
Cancelled(l) ==
    /\ stop[l] /\ task[l] \in {"created", "admission", "holding"}
    /\ task' = [task EXCEPT ![l] = "done"]
    /\ stop' = [stop EXCEPT ![l] = FALSE]
    /\ answer' = [answer EXCEPT ![l] =
                    IF @ = "waiting" /\ task[l] # "created" THEN "error" ELSE @]
    /\ held' = held \ {l}
    /\ leased' = leased \ {l}
    /\ UNCHANGED <<termVars, phase, clock>>

(* Faults: the timer alone ends the lease; only the event does.            *)
OverByTimer(l) == released[l] \/ timer[l] <= clock
OverByEvent(l) == released[l]

(* The loop of hold() ends on a release, or past the term as it stands now.*)
Over(l) == released[l] \/ expires[l] <= clock

(* The sleep of hold() is over, by the event or by its timer: the lease is *)
(* given back, unless it was renewed meanwhile and sleeps on.              *)
HolderWakes(l) ==
    /\ task[l] = "holding" /\ ~stop[l]
    /\ released[l] \/ timer[l] <= clock
    /\ IF Over(l)
       THEN /\ task' = [task EXCEPT ![l] = "done"]
            /\ held' = held \ {l}
            /\ leased' = leased \ {l}
            /\ UNCHANGED timer
       ELSE /\ timer' = [timer EXCEPT ![l] = expires[l]]
            /\ UNCHANGED <<task, held, leased>>
    /\ UNCHANGED <<answer, stop, released, expires, phase, clock>>

Tick ==
    /\ clock < MaxClock
    /\ clock' = clock + 1
    /\ UNCHANGED <<callVars, termVars, held, leased, phase>>

LeaseNext ==
    \/ \E l \in Leases :
          \/ Acquire(l) \/ AcquireCut(l)
          \/ Release(l) \/ ReleaseCut(l)
          \/ \E ttl \in Ttls : Renew(l, ttl)
          \/ EnterAdmission(l)
          \/ \E ttl \in Ttls : Grant(l, ttl)
          \/ Deny(l)
          \/ Cancelled(l)
          \/ HolderWakes(l)
    \/ Close
    \/ CloseDone
    \/ Tick

LeaseSpec == LeaseInit /\ [][LeaseNext]_leaseVars

(* The loop runs every task that is ready, and time passes.                *)
LeaseFairness ==
    /\ WF_leaseVars(Tick)
    /\ WF_leaseVars(CloseDone)
    /\ \A l \in Leases : /\ WF_leaseVars(Cancelled(l))
                         /\ WF_leaseVars(HolderWakes(l))

LeaseFairSpec == LeaseSpec /\ LeaseFairness

-----------------------------------------------------------------------------
(* What must hold.                                                         *)

(* Memory is reserved for exactly the leases that can be released, renewed *)
(* or seen by leases(): neither a caller that went away, a cancelled       *)
(* release nor a close in the middle of admission leaks a reservation.     *)
NothingLeaks ==
    /\ held = leased
    /\ held = {l \in Leases : task[l] = "holding"}

(* "No single request can pin memory indefinitely": no term reaches        *)
(* further than max_ttl from now, however often it was renewed.            *)
TermBounded == \A l \in held : expires[l] <= clock + MaxTtl

(* A lease is taken from its holder only after its term, as renewed, or on *)
(* a release (close included): an old timer does not end a renewed lease.  *)
LivesItsTerm ==
    [][\A l \in held \ held' : expires[l] <= clock \/ released[l]]_leaseVars

(* Once close() has returned nothing is reserved and no task is left.      *)
ClosedIsEmpty ==
    phase = "closed" =>
        leased = {} /\ \A l \in Leases : task[l] \in {"none", "done"}

(* "Silence is release": a lease ends, and its memory flows back, unless   *)
(* it is renewed for ever (which the model's time excludes).               *)
SilenceIsRelease == \A l \in Leases : l \in leased ~> l \notin leased

(* close() ends even if the governor never decides on what is waiting.     *)
BrokerCloses == phase = "closing" ~> phase = "closed"

-----------------------------------------------------------------------------
(* The inductive invariant.  A holder is cancelled only by a release that  *)
(* was cut short, so its event is set; close cancels none of them.         *)
HolderCutByRelease ==
    \A l \in Leases : stop[l] /\ task[l] = "holding" => released[l]

LeaseInv ==
    /\ LeaseTypeOK /\ NothingLeaks /\ TermBounded /\ ClosedIsEmpty /\ HolderCutByRelease
=============================================================================
