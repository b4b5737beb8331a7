------------------------------ MODULE EventHub ------------------------------
(***************************************************************************)
(* What a client learns of a job (app.py, events.py): every event gets the *)
(* job's next sequence number and goes to the job's replay buffer          *)
(* (_JobReplay) and to the subscriptions of the hub (Subscription), both   *)
(* softly bounded; a socket pumps its subscription, and a client that lost *)
(* its socket asks for what follows the last event it has.                 *)
(*                                                                         *)
(* An event is its place in the log of everything published; the sequence  *)
(* numbers of a job grow with it, so a buffer is a set of places.  Events  *)
(* that belong to no job, previews and authority are left out.             *)
(***************************************************************************)
EXTENDS Naturals, Sequences, FiniteSets

CONSTANTS
    Runs,           \* run ids; each is one attempt at a job
    Subscribers,    \* sockets
    Watches,        \* the runs a socket's client filter lets through
    ReplayLimit,    \* JOB_EVENT_BUFFER
    Buffer,         \* DEFAULT_BUFFER
    MaxEvents       \* bound: how many events are ever published

ASSUME HubAssumption ==
    /\ Watches \in [Subscribers -> SUBSET Runs]
    /\ ReplayLimit \in Nat /\ Buffer \in Nat /\ MaxEvents \in Nat

VARIABLES
    log,      \* everything published: the run and the kind of each event
    known,    \* the runs of the jobs the queue still holds
    replay,   \* _JobReplay._events of each run
    floor,    \* _JobReplay.floor
    sub,      \* none, open, or closed and being drained
    from,     \* how much had been published when the socket subscribed
    buf,      \* Subscription._events
    head,     \* the last event the pump took
    skipped,  \* what it took and did not send
    up        \* the hub has not been closed

vars == <<log, known, replay, floor, sub, from, buf, head, skipped, up>>

(* A job_state event is never shed; engine events are, except failures.    *)
Kinds == {"state", "final", "chatter"}
Event == [run : Runs, kind : Kinds]

Place == Len(log) + 1
Of(r) == {i \in DOMAIN log : log[i].run = r}
Over(r) == \E i \in Of(r) : log[i].kind = "final"
Droppable(i) == log[i].kind = "chatter"

Init ==
    /\ log = <<>> /\ known = {}
    /\ replay = [r \in Runs |-> {}] /\ floor = [r \in Runs |-> 0]
    /\ sub = [s \in Subscribers |-> "none"] /\ from = [s \in Subscribers |-> 0]
    /\ buf = [s \in Subscribers |-> {}] /\ head = [s \in Subscribers |-> 0]
    /\ skipped = [s \in Subscribers |-> {}]
    /\ up = TRUE

-----------------------------------------------------------------------------
(* The two buffers.  A full one makes room by dropping its oldest chatter; *)
(* if it has none, new chatter is dropped and anything else is kept over   *)
(* the bound.                                                              *)

Chatter(S) == {i \in S : Droppable(i)}
Oldest(S) == {i \in S : \A j \in S : i <= j}
Full(S, limit) == Cardinality(S) >= limit

(* Fault: the oldest event is evicted, whatever it is.                     *)
OldestAny(S, limit) == IF Full(S, limit) THEN Oldest(S) ELSE {}

Evicted(S, limit) == IF Full(S, limit) THEN Oldest(Chatter(S)) ELSE {}

Shed(S, limit, kind) == Full(S, limit) /\ Chatter(S) = {} /\ kind = "chatter"

Pushed(S, limit, kind) ==
    IF Shed(S, limit, kind) THEN S ELSE (S \ Evicted(S, limit)) \cup {Place}

Higher(a, b) == IF a >= b THEN a ELSE b

(* Fault: the floor ignores an event that was not kept.                    *)
EvictedOnly(r, kind) ==
    IF Evicted(replay[r], ReplayLimit) # {}
    THEN Higher(floor[r], CHOOSE i \in Evicted(replay[r], ReplayLimit) : TRUE)
    ELSE floor[r]

(* The floor is the highest sequence number that was dropped.              *)
Floor(r, kind) ==
    IF Shed(replay[r], ReplayLimit, kind) THEN Higher(floor[r], Place)
    ELSE IF Evicted(replay[r], ReplayLimit) # {}
    THEN Higher(floor[r], CHOOSE i \in Evicted(replay[r], ReplayLimit) : TRUE)
    ELSE floor[r]

-----------------------------------------------------------------------------
(* _publish_job_event, after the queue dropped the jobs of gone: a key was *)
(* resubmitted or the history is over its limit, which happens right       *)
(* before a transition is announced.                                       *)
Publish(r, kind, gone) ==
    /\ up /\ ~Over(r) /\ Len(log) < MaxEvents
    /\ r \notin known => Of(r) = {} /\ kind = "state"
    /\ gone \subseteq {q \in known : Over(q)}
    /\ gone # {} => r \notin known \/ kind = "final"
    /\ log' = Append(log, [run |-> r, kind |-> kind])
    /\ known' = (known \cup {r}) \ gone
    /\ replay' = [q \in Runs |-> IF q = r THEN Pushed(replay[r], ReplayLimit, kind)
                                 ELSE IF q \in gone THEN {} ELSE replay[q]]
    /\ floor' = [q \in Runs |-> IF q = r THEN Floor(r, kind) ELSE IF q \in gone THEN 0 ELSE floor[q]]
    /\ buf' = [s \in Subscribers |->
                IF sub[s] = "open" /\ r \in Watches[s] THEN Pushed(buf[s], Buffer, kind) ELSE buf[s]]
    /\ UNCHANGED <<sub, from, head, skipped, up>>

-----------------------------------------------------------------------------
(* handle_events                                                           *)

Subscribe(s) ==
    /\ sub[s] = "none" /\ up
    /\ sub' = [sub EXCEPT ![s] = "open"]
    /\ from' = [from EXCEPT ![s] = Len(log)]
    /\ UNCHANGED <<log, known, replay, floor, buf, head, skipped, up>>

(* The pump takes the next event, and sends it if its job can still be     *)
(* found and seen.                                                         *)
Get(s) ==
    \E i \in Oldest(buf[s]) :
        /\ buf' = [buf EXCEPT ![s] = @ \ {i}]
        /\ head' = [head EXCEPT ![s] = i]
        /\ skipped' = IF log[i].run \in known THEN skipped
                      ELSE [skipped EXCEPT ![s] = @ \cup {i}]
        /\ UNCHANGED <<log, known, replay, floor, sub, from, up>>

(* The socket ended: the pump is cancelled, what is buffered is gone.      *)
Unsubscribe(s) ==
    /\ sub[s] # "none"
    /\ sub' = [sub EXCEPT ![s] = "none"]
    /\ from' = [from EXCEPT ![s] = 0]
    /\ buf' = [buf EXCEPT ![s] = {}]
    /\ head' = [head EXCEPT ![s] = 0]
    /\ skipped' = [skipped EXCEPT ![s] = {}]
    /\ UNCHANGED <<log, known, replay, floor, up>>

(* Shutdown, after the queue was closed.                                   *)
Close ==
    /\ up /\ \A r \in known : Over(r)
    /\ up' = FALSE
    /\ sub' = [s \in Subscribers |-> IF sub[s] = "open" THEN "closed" ELSE sub[s]]
    /\ UNCHANGED <<log, known, replay, floor, from, buf, head, skipped>>

-----------------------------------------------------------------------------
Next ==
    \/ \E r \in Runs, kind \in Kinds, gone \in SUBSET Runs : Publish(r, kind, gone)
    \/ \E s \in Subscribers : Subscribe(s) \/ Get(s) \/ Unsubscribe(s)
    \/ Close

Spec == Init /\ [][Next]_vars

-----------------------------------------------------------------------------
(* Every variable holds what the code can store in it.                     *)
TypeOK ==
    /\ log \in Seq(Event) /\ known \subseteq Runs
    /\ replay \in [Runs -> SUBSET DOMAIN log]
    /\ floor \in [Runs -> 0..Len(log)]
    /\ sub \in [Subscribers -> {"none", "open", "closed"}]
    /\ from \in [Subscribers -> 0..Len(log)]
    /\ buf \in [Subscribers -> SUBSET DOMAIN log]
    /\ head \in [Subscribers -> 0..Len(log)]
    /\ skipped \in [Subscribers -> SUBSET DOMAIN log]
    /\ up \in BOOLEAN

(* after(): a client that asks for what follows the last event it has, and *)
(* is not told to resynchronise, gets all of it, whatever was evicted.     *)
ReplayComplete ==
    \A r \in known : \A seq \in 0..Len(log) :
        seq >= floor[r] => {i \in replay[r] : i > seq} = {i \in Of(r) : i > seq}

(* push(), "terminal events must not silently disappear": however slow a   *)
(* socket is and however small its buffer, it gets every event since it    *)
(* subscribed that is not chatter, in order; only those of a run the queue *)
(* has forgotten meanwhile are passed over.                                *)
ProtectedDelivered ==
    \A s \in Subscribers : sub[s] # "none" =>
        /\ \A i \in DOMAIN log :
            i > from[s] /\ log[i].run \in Watches[s] /\ ~Droppable(i) => i \in buf[s] \/ i <= head[s]
        /\ \A i \in buf[s] : i > head[s]
        /\ \A i \in skipped[s] : log[i].run \notin known

(* The bound of a buffer bends for the events that are not chatter only.   *)
BoundOnlyBends ==
    /\ \A s \in Subscribers : Cardinality(buf[s]) > Buffer => Chatter(buf[s]) = {}
    /\ \A r \in Runs : Cardinality(replay[r]) > ReplayLimit => Chatter(replay[r]) = {}

=============================================================================
