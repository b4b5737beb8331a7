---------------------------- MODULE SingleFlight ----------------------------
(***************************************************************************)
(* How the engine computes a node (engine.py: _run_node, _admission;       *)
(* run_control.py: InvocationLease).  Runs that need the same result share *)
(* one computation; its owner looks into the cache, takes its admission    *)
(* lanes and the global slot, invokes the worker and stores the result.  A *)
(* node with an execution context uses no cache, and gives its permits     *)
(* back while it waits for another node of its run.                        *)
(*                                                                         *)
(* Results are not represented: whether one can be used (a valid entry, a  *)
(* live owner, pins granted) is a choice.                                  *)
(***************************************************************************)
EXTENDS Naturals, Sequences, FiniteSets, FiniteSetsExt, SequencesExt

CONSTANTS
    Callers,     \* evaluations of a node by a run
    Key,         \* the cache key of each caller's node
    Occupies,    \* the lanes it occupies, in the order they were declared
    WaitsFor,    \* for each node with an execution context, the node it awaits
    Slots,       \* max_concurrency
    None,        \* stands for no caller
    MaxCancels, MaxFails, MaxStale  \* bounds on what may go wrong

ASSUME FlightAssumption ==
    /\ DOMAIN Key = Callers /\ None \notin Callers
    /\ Occupies \in [Callers -> Seq(Nat \ {0})]
    /\ DOMAIN WaitsFor \subseteq Callers
    /\ \A c \in DOMAIN WaitsFor : WaitsFor[c] \in Callers
    \* a key names the node's schema, and so tells if it has a context
    /\ \A c, d \in Callers : Key[c] = Key[d] => (c \in DOMAIN WaitsFor <=> d \in DOMAIN WaitsFor)
    /\ Slots \in Nat \ {0}
    /\ {MaxCancels, MaxFails, MaxStale} \subseteq Nat

VARIABLES
    at,        \* where each caller stands
    on,        \* the owner whose future a waiter awaits
    future,    \* the future of each owner
    inflight,  \* _inflight: the owner of each key's computation
    stored,    \* the keys the cache holds
    held,      \* the permits a caller holds: lanes, and the global slot
    late,      \* a lease that is re-acquired for an invocation that is over
    waited,    \* the awaited value has arrived
    runs,      \* invocations per key
    excuses,   \* what made a further invocation of a key necessary
    bounds     \* how often each bounded event happened

flight == <<on, future, inflight>>
permits == <<held, late>>
counts == <<runs, excuses>>
vars == <<at, flight, stored, permits, waited, counts, bounds>>

Keys == {Key[c] : c \in Callers}
Cached(c) == c \notin DOMAIN WaitsFor
Ended == {"done", "failed", "cancelled"}
Slot == 0

Init ==
    /\ at = [c \in Callers |-> "start"]
    /\ on = [c \in Callers |-> None]
    /\ future = [c \in Callers |-> "none"]
    /\ inflight = [k \in Keys |-> None]
    /\ stored = {}
    /\ held = [c \in Callers |-> {}] /\ late = {} /\ waited = {}
    /\ runs = [k \in Keys |-> 0] /\ excuses = [k \in Keys |-> 0]
    /\ bounds = [cancels |-> 0, fails |-> 0, stale |-> 0]

Goto(c, phase) == at' = [at EXCEPT ![c] = phase]
Excuse(c) == excuses' = [excuses EXCEPT ![Key[c]] = @ + 1]
Stale(c) ==
    /\ bounds.stale < MaxStale
    /\ bounds' = [bounds EXCEPT !.stale = @ + 1]
    /\ Excuse(c)

(* The end of an owner: its future is resolved and, in the same step of    *)
(* the event loop, leaves _inflight.                                       *)
Resolve(c, how) ==
    /\ future' = [future EXCEPT ![c] = how]
    /\ inflight' = IF inflight[Key[c]] = c THEN [inflight EXCEPT ![Key[c]] = None] ELSE inflight

-----------------------------------------------------------------------------
(* Permits.                                                                *)

Lanes(c) == ToSet(Occupies[c])
Permits(c) == Lanes(c) \cup {Slot}

(* Fault: lanes are taken in the order they were declared.                 *)
NextDeclared(c) ==
    IF Lanes(c) \subseteq held[c] THEN Slot
    ELSE Occupies[c][Min({n \in DOMAIN Occupies[c] : Occupies[c][n] \notin held[c]})]

(* _occupancy and _admission: lanes in the order of their names, then the  *)
(* global slot.                                                            *)
NextPermit(c) ==
    IF Lanes(c) \subseteq held[c] THEN Slot ELSE Min(Lanes(c) \ held[c])

Capacity(p) == IF p = Slot THEN Slots ELSE 1
Free(p) == Cardinality({c \in Callers : p \in held[c]}) < Capacity(p)
Release(c) == held' = [held EXCEPT ![c] = {}]

Acquiring(c) == at[c] \in {"admit", "resume"} \/ c \in late

Acquire(c) ==
    /\ Acquiring(c) /\ held[c] # Permits(c)
    /\ Free(NextPermit(c))
    /\ held' = [held EXCEPT ![c] = @ \cup {NextPermit(c)}]
    /\ UNCHANGED <<at, flight, stored, late, waited, counts, bounds>>

Admitted(c) ==
    /\ at[c] = "admit" /\ held[c] = Permits(c)
    /\ Goto(c, "invoke")
    /\ runs' = [runs EXCEPT ![Key[c]] = @ + 1]
    /\ UNCHANGED <<flight, stored, permits, waited, excuses, bounds>>

-----------------------------------------------------------------------------
(* The flight.                                                             *)

(* Fault: a computation under way is not joined.                           *)
IgnoreFlight(c) ==
    /\ at[c] = "start"
    /\ Goto(c, IF Cached(c) THEN "lookup" ELSE "admit")
    /\ future' = [future EXCEPT ![c] = "pending"]
    /\ inflight' = IF Cached(c) THEN [inflight EXCEPT ![Key[c]] = c] ELSE inflight
    /\ UNCHANGED <<on, stored, permits, waited, counts, bounds>>

Join(c) ==
    /\ at[c] = "start" /\ Cached(c) /\ inflight[Key[c]] # None
    /\ Goto(c, "waiting")
    /\ on' = [on EXCEPT ![c] = inflight[Key[c]]]
    /\ UNCHANGED <<future, inflight, stored, permits, waited, counts, bounds>>

Own(c) ==
    /\ at[c] = "start" /\ (Cached(c) => inflight[Key[c]] = None)
    /\ Goto(c, IF Cached(c) THEN "lookup" ELSE "admit")
    /\ future' = [future EXCEPT ![c] = "pending"]
    /\ inflight' = IF Cached(c) THEN [inflight EXCEPT ![Key[c]] = c] ELSE inflight
    /\ UNCHANGED <<on, stored, permits, waited, counts, bounds>>

(* A waiter resumes.  A result it cannot use, and the death of the owner's *)
(* run, send it round again; the failure of the computation is its own.    *)
Coalesce(c) ==
    /\ at[c] = "waiting" /\ future[on[c]] = "result"
    /\ \/ Goto(c, "done") /\ UNCHANGED <<excuses, bounds>>
       \/ Goto(c, "start") /\ Stale(c)
    /\ UNCHANGED <<flight, stored, permits, waited, runs>>

ShareFailure(c) ==
    /\ at[c] = "waiting" /\ future[on[c]] = "failed"
    /\ Goto(c, "failed")
    /\ UNCHANGED <<flight, stored, permits, waited, counts, bounds>>

(* Fault: the owner's cancellation is the waiters' too.                    *)
DieWithOwner(c) ==
    /\ at[c] = "waiting" /\ future[on[c]] = "cancelled"
    /\ Goto(c, "cancelled")
    /\ UNCHANGED <<flight, stored, permits, waited, counts, bounds>>

OwnerDied(c) ==
    /\ at[c] = "waiting" /\ future[on[c]] = "cancelled"
    /\ Goto(c, "start")
    /\ UNCHANGED <<flight, stored, permits, waited, counts, bounds>>

Lookup(c) ==
    /\ at[c] = "lookup"
    /\ \/ Key[c] \in stored /\ Goto(c, "hit") /\ UNCHANGED <<excuses, bounds>>
       \/ Key[c] \notin stored /\ Goto(c, "admit") /\ UNCHANGED <<excuses, bounds>>
       \/ Key[c] \in stored /\ Goto(c, "admit") /\ Stale(c)
    /\ UNCHANGED <<flight, stored, permits, waited, runs>>

Hit(c) ==
    /\ at[c] = "hit"
    /\ Goto(c, "done")
    /\ Resolve(c, "result")
    /\ UNCHANGED <<on, stored, permits, waited, counts, bounds>>

(* The worker returned: the permits are given back before the outputs are  *)
(* published and stored.                                                   *)
Return(c) ==
    /\ at[c] = "invoke" /\ (Cached(c) \/ c \in waited)
    /\ Goto(c, "publish")
    /\ Release(c)
    /\ UNCHANGED <<flight, stored, late, waited, counts, bounds>>

(* Fault: the result is not stored.                                        *)
PutNothing(c) ==
    /\ at[c] = "publish" /\ Cached(c)
    /\ Goto(c, "stored")
    /\ UNCHANGED <<flight, stored, permits, waited, counts, bounds>>

Put(c) ==
    /\ at[c] = "publish" /\ Cached(c)
    /\ Goto(c, "stored")
    /\ stored' = stored \cup {Key[c]}
    /\ UNCHANGED <<flight, permits, waited, counts, bounds>>

Finish(c) ==
    /\ at[c] = IF Cached(c) THEN "stored" ELSE "publish"
    /\ Goto(c, "done")
    /\ Resolve(c, "result")
    /\ UNCHANGED <<on, stored, permits, waited, counts, bounds>>

(* InvocationLease.__aexit__ gives back what was acquired so far, except   *)
(* for a lease that another task is taking again (_resume) and that is not *)
(* cancelled with the invocation.                                          *)
Leave(c) ==
    \/ Release(c) /\ UNCHANGED late
    \/ at[c] = "resume" /\ late' = late \cup {c} /\ UNCHANGED held

(* The cache cannot be read; an error of the node or the death of its      *)
(* worker, also while the node waits for another one; a refused pin, a     *)
(* failed expansion or publication.                                        *)
Fail(c) ==
    /\ at[c] \in {"lookup", "hit", "invoke", "suspended", "resume", "publish"}
    /\ bounds.fails < MaxFails
    /\ bounds' = [bounds EXCEPT !.fails = @ + 1]
    /\ Goto(c, "failed")
    /\ Resolve(c, "failed")
    /\ Leave(c)
    /\ Excuse(c)
    /\ UNCHANGED <<on, stored, waited, runs>>

(* The caller's run is cancelled.                                          *)
Cancel(c) ==
    /\ at[c] \notin Ended \cup {"start"} /\ bounds.cancels < MaxCancels
    /\ bounds' = [bounds EXCEPT !.cancels = @ + 1]
    /\ Goto(c, "cancelled")
    /\ IF at[c] = "waiting" THEN UNCHANGED <<future, inflight>> ELSE Resolve(c, "cancelled")
    /\ Leave(c)
    /\ Excuse(c)
    /\ UNCHANGED <<on, stored, waited, runs>>

-----------------------------------------------------------------------------
(* InvocationLease.wait                                                    *)

Suspend(c) ==
    /\ at[c] = "invoke" /\ ~Cached(c) /\ c \notin waited
    /\ Goto(c, "suspended")
    /\ Release(c)
    /\ UNCHANGED <<flight, stored, late, waited, counts, bounds>>

(* The awaited node ended, well or not: the permits are taken again.       *)
Arrive(c) ==
    /\ at[c] = "suspended" /\ at[WaitsFor[c]] \in Ended
    /\ Goto(c, "resume")
    /\ UNCHANGED <<flight, stored, permits, waited, counts, bounds>>

Resumed(c) ==
    /\ at[c] = "resume" /\ held[c] = Permits(c)
    /\ Goto(c, "invoke")
    /\ waited' = waited \cup {c}
    /\ UNCHANGED <<flight, stored, permits, counts, bounds>>

(* Fault: a lease resumed too late is kept.                                *)
LateKept(c) ==
    /\ c \in late /\ held[c] = Permits(c)
    /\ late' = late \ {c}
    /\ UNCHANGED <<at, flight, stored, held, waited, counts, bounds>>

(* The invocation ended meanwhile: the lease is given up again.            *)
LateReleased(c) ==
    /\ c \in late /\ held[c] = Permits(c)
    /\ Release(c)
    /\ late' = late \ {c}
    /\ UNCHANGED <<at, flight, stored, waited, counts, bounds>>

-----------------------------------------------------------------------------
Step(c) ==
    \/ Join(c) \/ Own(c) \/ Coalesce(c) \/ ShareFailure(c) \/ OwnerDied(c)
    \/ Lookup(c) \/ Hit(c) \/ Acquire(c) \/ Admitted(c) \/ Return(c) \/ Put(c) \/ Finish(c)
    \/ Suspend(c) \/ Arrive(c) \/ Resumed(c) \/ LateReleased(c)

Next == \E c \in Callers : Step(c) \/ Fail(c) \/ Cancel(c)

Spec == Init /\ [][Next]_vars

(* The event loop runs and workers return; no behaviour takes steps        *)
(* forever.                                                                *)
FairSpec == Spec /\ WF_vars(\E c \in Callers : Step(c))

-----------------------------------------------------------------------------
(* Every variable holds what the code can store in it.                     *)
TypeOK ==
    /\ at \in [Callers -> Ended \cup {"start", "waiting", "lookup", "hit", "admit", "invoke",
                                      "publish", "stored", "suspended", "resume"}]
    /\ on \in [Callers -> Callers \cup {None}]
    /\ future \in [Callers -> {"none", "pending", "result", "failed", "cancelled"}]
    /\ inflight \in [Keys -> Callers \cup {None}]
    /\ stored \subseteq Keys /\ late \subseteq Callers /\ waited \subseteq Callers
    /\ held \in [Callers -> SUBSET Nat] /\ \A c \in Callers : held[c] \subseteq Permits(c)
    /\ runs \in [Keys -> Nat] /\ excuses \in [Keys -> Nat]
    /\ bounds \in [cancels : 0..MaxCancels, fails : 0..MaxFails, stale : 0..MaxStale]

(* Whoever is cancelled and whoever takes over, at most one caller at a    *)
(* time computes a key, and it is the one the others join.                 *)
Computing == {"lookup", "hit", "admit", "invoke", "publish", "stored"}
OneFlight ==
    \A c \in Callers : Cached(c) /\ at[c] \in Computing => inflight[Key[c]] = c

(* Work is repeated only for a reason: a cancelled run, a failure, or a    *)
(* result that could no longer be used.                                    *)
NoNeedlessRun ==
    \A k \in {Key[c] : c \in {d \in Callers : Cached(d)}} : runs[k] <= 1 + excuses[k]

(* "cancelling THIS run must not cancel the owner's computation", nor the  *)
(* other way round: as many callers end cancelled as runs were cancelled.  *)
OthersSurvive ==
    Cardinality({c \in Callers : at[c] = "cancelled"}) = bounds.cancels

(* Every exit gives every permit back, the one that races with the         *)
(* resumption of a lease included.                                         *)
PermitsReturned ==
    \A c \in Callers : at[c] \in Ended /\ c \notin late => held[c] = {}

(* "a node blocked on a scarce permit is not sitting on a global slot that *)
(* a runnable node needs".                                                 *)
SlotLast ==
    \A c \in Callers : Slot \in held[c] => Lanes(c) \subseteq held[c]

(* Lanes and slots: what is taken, in which order, and that it comes back. *)
PermitsInStep == TypeOK /\ PermitsReturned /\ SlotLast

(* No order of acquisitions, waits, cancels and failures leaves a caller   *)
(* stuck.                                                                  *)
EveryCallEnds == <>(\A c \in Callers : at[c] \in Ended)

=============================================================================
