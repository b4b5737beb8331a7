--------------------------- MODULE MemoryGovernor ---------------------------
(***************************************************************************)
(* Admission of memory reservations: dinkster_memory/governor.py, and the  *)
(* service over it (reservations.py) that reserves on several residency    *)
(* classes, one after the other.                                           *)
(*                                                                         *)
(* An action is what runs between two awaits.  _cond is never held across  *)
(* an await other than its own wait, so one pass of _admit's loop, and a   *)
(* release with its notify_all, are atomic.  Going from one class to the   *)
(* next does not yield in the code; here others may run in between, which  *)
(* only adds behaviours.                                                   *)
(*                                                                         *)
(* What consumers hold is kept as one total per class.  A shed walks over  *)
(* the list object self._shedders was bound to when it began:              *)
(* registration sorts into that object, unregistration binds a new one.    *)
(***************************************************************************)
EXTENDS Integers, Sequences, FiniteSets, SequencesExt

CONSTANTS
    Requests,   \* calls of the reservation service
    NumClasses, \* residency classes, numbered in the order of their names
    Ram,        \* the class "ram"
    Sizes,      \* bytes a request may ask for
    Limits,     \* budgets that may be set
    Consumers,  \* shedders
    Priority,   \* Priority[c]: when c is asked; lower is earlier
    MaxFoot,    \* bound: bytes consumers hold on a class
    None        \* no budget, no consumer

Classes == 1 .. NumClasses

ASSUME GovernorAssumption ==
    /\ NumClasses \in Nat /\ Ram \in Classes
    /\ Sizes \subseteq Nat /\ Limits \subseteq Nat
    /\ Priority \in [Consumers -> Int]
    /\ MaxFoot \in Nat
    /\ None \notin Nat /\ None \notin Consumers

VARIABLES
    pc,        \* pc[q]: where the request is
    need,      \* need[q]: bytes per class, duplicates merged
    granted,   \* granted[q]: classes q has a reservation on
    reserved,  \* _reserved
    budget,    \* _budgets
    foot,      \* foot[d]: what the registered consumers hold on d
    shedders,  \* _shedders
    walk,      \* walk[q]: the shed q is in
    due        \* due[q]: consumers q's shed met at its beginning, still
               \* registered and not asked yet (observation only)

shedVars == <<shedders, walk, due>>
vars == <<pc, need, granted, reserved, budget, foot, shedVars>>

NoWalk == [list |-> <<>>, at |-> 0, rest |-> 0, pressure |-> FALSE,
           shared |-> FALSE, cur |-> None]

Walks == [list : Seq(Consumers), at : Nat, rest : Int, pressure : BOOLEAN,
          shared : BOOLEAN, cur : Consumers \cup {None}]

TypeOK ==
    /\ pc \in [Requests -> {"idle", "entering", "shedding", "waiting", "woken",
                            "holding", "over"}]
    /\ need \in [Requests -> UNION {[S -> Sizes] : S \in SUBSET Classes}]
    /\ granted \in [Requests -> SUBSET Classes]
    /\ reserved \in [Classes -> Int]
    /\ budget \in [Classes -> Limits \cup {None}]
    /\ foot \in [Classes -> 0 .. MaxFoot]
    /\ shedders \in Seq(Consumers)
    /\ walk \in [Requests -> Walks]
    /\ due \in [Requests -> SUBSET Consumers]

Init ==
    /\ pc = [q \in Requests |-> "idle"]
    /\ need = [q \in Requests |-> [d \in {} |-> 0]]
    /\ granted = [q \in Requests |-> {}]
    /\ reserved = [d \in Classes |-> 0]
    /\ budget \in [Classes -> Limits \cup {None}]
    /\ foot = [d \in Classes |-> 0]
    /\ shedders = <<>>
    /\ walk = [q \in Requests |-> NoWalk]
    /\ due = [q \in Requests |-> {}]

-----------------------------------------------------------------------------
(* The score of a request.                                                 *)

(* The class q is being admitted to: sorted(merged).                       *)
Class(q) ==
    LET left == DOMAIN need[q] \ granted[q]
    IN  CHOOSE d \in left : \A e \in left : d <= e

Bytes(q) == need[q][Class(q)]

TooBig(q) == budget[Class(q)] # None /\ Bytes(q) > budget[Class(q)]

(* _fits, when consumers hold f.                                           *)
Fits(q, f) ==
    budget[Class(q)] # None =>
        reserved[Class(q)] + f[Class(q)] + Bytes(q) <= budget[Class(q)]

Shortfall(q, f, live) ==
    LET declared == IF Fits(q, f) THEN 0
                    ELSE reserved[Class(q)] + f[Class(q)] + Bytes(q) - budget[Class(q)]
    IN  IF declared > live THEN declared ELSE live

-----------------------------------------------------------------------------
(* How a pass of _admit ends.                                              *)

(* notify_all                                                              *)
Woken(p) == IF p = "waiting" THEN "woken" ELSE p

(* Fault: nobody is notified.                                              *)
ReleasesQuietly(q) ==
    /\ granted' = [granted EXCEPT ![q] = {}]
    /\ pc' = [p \in Requests |-> IF p = q THEN "over" ELSE pc[p]]
    /\ reserved' = [d \in Classes |->
                      IF d \in granted[q] THEN reserved[d] - need[q][d] ELSE reserved[d]]

(* The exit stack unwinds: every reservation of q is released, and each    *)
(* release notifies all waiters, whatever they wait for.                   *)
Releases(q) ==
    /\ granted' = [granted EXCEPT ![q] = {}]
    /\ pc' = [p \in Requests |->
                IF p = q THEN "over"
                ELSE IF granted[q] # {} THEN Woken(pc[p]) ELSE pc[p]]
    /\ reserved' = [d \in Classes |->
                      IF d \in granted[q] THEN reserved[d] - need[q][d] ELSE reserved[d]]

(* The request ends, by an exception or because its body has.              *)
Leave(q) ==
    /\ Releases(q)
    /\ walk' = [walk EXCEPT ![q] = NoWalk]
    /\ due' = [due EXCEPT ![q] = {}]

(* _record, and on to the next class.                                      *)
Record(q) ==
    LET d == Class(q)
        all == granted[q] \cup {d} = DOMAIN need[q]
    IN  /\ reserved' = [reserved EXCEPT ![d] = @ + need[q][d]]
        /\ granted' = [granted EXCEPT ![q] = @ \cup {d}]
        /\ pc' = [pc EXCEPT ![q] = IF all THEN "holding" ELSE "entering"]
        /\ walk' = [walk EXCEPT ![q] = NoWalk]
        /\ due' = [due EXCEPT ![q] = {}]

(* _cond.wait()                                                            *)
Sleep(q) ==
    /\ pc' = [pc EXCEPT ![q] = "waiting"]
    /\ walk' = [walk EXCEPT ![q] = NoWalk]
    /\ due' = [due EXCEPT ![q] = {}]
    /\ UNCHANGED <<granted, reserved>>

(* shed() is called and asks the first consumer.                           *)
BeginShed(q, bytes, pressure) ==
    /\ pc' = [pc EXCEPT ![q] = "shedding"]
    /\ walk' = [walk EXCEPT ![q] =
                  [list |-> shedders, at |-> 1, rest |-> bytes, pressure |-> pressure,
                   shared |-> TRUE, cur |-> shedders[1]]]
    /\ due' = [due EXCEPT ![q] = ToSet(shedders) \ {shedders[1]}]
    /\ UNCHANGED <<granted, reserved>>

(* Fault: a request waits although nothing is reserved.                    *)
HopelessNever(q) == FALSE

(* Nothing is reserved, so nothing will ever release.                      *)
Hopeless(q) == reserved[Class(q)] = 0

(* The pass after a shed.                                                  *)
Settle(q, f, late) ==
    \/ TooBig(q) /\ Leave(q)
    \/ ~TooBig(q) /\ Fits(q, f) /\ Record(q)
    \/ ~TooBig(q) /\ ~Fits(q, f) /\ (Hopeless(q) \/ late) /\ Leave(q)
    \/ ~TooBig(q) /\ ~Fits(q, f) /\ ~Hopeless(q) /\ ~late /\ Sleep(q)

(* A pass before one.                                                      *)
Score(q, f, late) ==
    LET sheds == ~TooBig(q) /\ ~Fits(q, f) /\ ~late /\ shedders # <<>>
    IN  \/ sheds /\ BeginShed(q, Shortfall(q, f, 0), TRUE)
        \/ ~sheds /\ Settle(q, f, late)

(* Fault: a shed that freed enough is taken as room for this request.      *)
AfterShedTrusts(q, f, late) ==
    IF walk[q].pressure /\ foot # f THEN Record(q) ELSE Settle(q, f, late)

(* A shed for the declared budget is not repeated before a release; one    *)
(* for live pressure alone does not count.                                 *)
AfterShed(q, f, late) ==
    IF walk[q].pressure THEN Settle(q, f, late) ELSE Score(q, f, late)

-----------------------------------------------------------------------------
(* Requests.                                                               *)

(* reserve() of the service: n is the merged plan.                         *)
Begin(q, n) ==
    /\ pc[q] = "idle"
    /\ pc' = [pc EXCEPT ![q] = "entering"]
    /\ need' = [need EXCEPT ![q] = n]
    /\ UNCHANGED <<granted, reserved, budget, foot, shedVars>>

(* _live_ram_shortfall may report live bytes.                              *)
MayPress(q, live) ==
    \/ live = 0
    \/ /\ Class(q) = Ram /\ live <= Bytes(q) /\ ~TooBig(q)
       /\ shedders # <<>> /\ foot[Ram] > 0

(* _admit on the next class, up to its first await.                        *)
Enter(q, live) ==
    /\ pc[q] = "entering"
    /\ MayPress(q, live)
    /\ \/ live = 0 /\ Score(q, foot, FALSE)
       \/ live > 0 /\ BeginShed(q, Shortfall(q, foot, live), ~Fits(q, foot))
    /\ UNCHANGED <<need, budget, foot, shedders>>

(* The consumer asked has freed some bytes: the next one, if more is       *)
(* needed and the list goes on, or the end of the shed.                    *)
ShedStep(q, freed, late) ==
    LET w == walk[q]
        f == [foot EXCEPT ![Class(q)] = @ - freed]
        more == w.rest > freed /\ w.at < Len(w.list)
        next == w.list[w.at + 1]
    IN  /\ pc[q] = "shedding"
        /\ freed <= foot[Class(q)]
        /\ foot' = f
        /\ \/ /\ more
              /\ walk' = [walk EXCEPT ![q].at = w.at + 1, ![q].rest = w.rest - freed,
                                      ![q].cur = next]
              /\ due' = [due EXCEPT ![q] = @ \ {next}]
              /\ UNCHANGED <<pc, granted, reserved>>
           \/ ~more /\ AfterShed(q, f, late)
        /\ UNCHANGED <<need, budget, shedders>>

(* The shed raises, or its time is up (late): fatal under budget pressure  *)
(* only.                                                                   *)
ShedBreaks(q, late) ==
    /\ pc[q] = "shedding"
    /\ IF walk[q].pressure THEN Leave(q) ELSE Score(q, foot, late)
    /\ UNCHANGED <<need, budget, foot, shedders>>

(* A waiter was notified: rescore.                                         *)
Wake(q, late) ==
    /\ pc[q] = "woken"
    /\ Score(q, foot, late)
    /\ UNCHANGED <<need, budget, foot, shedders>>

(* The caller is cancelled, or the wait times out, a wakeup under way      *)
(* notwithstanding.                                                        *)
Abort(q) ==
    /\ pc[q] \in {"shedding", "waiting", "woken"}
    /\ Leave(q)
    /\ UNCHANGED <<need, budget, foot, shedders>>

(* The body of the reservation ends.                                       *)
Finish(q) ==
    /\ pc[q] = "holding"
    /\ Leave(q)
    /\ UNCHANGED <<need, budget, foot, shedders>>

-----------------------------------------------------------------------------
(* Settings and consumers.                                                 *)

SetBudget(d, limit) ==
    /\ budget' = [budget EXCEPT ![d] = limit]
    /\ UNCHANGED <<pc, need, granted, reserved, foot, shedVars>>

(* A consumer takes or gives back memory on its own: a put, an eviction,   *)
(* a trim.  It asks nobody and notifies nobody.                            *)
ConsumerChanges(d, bytes) ==
    /\ shedders # <<>>
    /\ foot' = [foot EXCEPT ![d] = bytes]
    /\ UNCHANGED <<pc, need, granted, reserved, budget, shedVars>>

(* append and sort in place: walks over this list object see it.           *)
Register(c) ==
    LET pos == 1 + Cardinality({i \in DOMAIN shedders : Priority[shedders[i]] <= Priority[c]})
        new == InsertAt(shedders, pos, c)
    IN  /\ c \notin ToSet(shedders)
        /\ shedders' = new
        /\ walk' = [q \in Requests |->
                      IF walk[q].shared THEN [walk[q] EXCEPT !.list = new] ELSE walk[q]]
        /\ UNCHANGED <<pc, need, granted, reserved, budget, foot, due>>

(* Fault: the entry is removed from the list others walk over.             *)
UnregisterInPlace(i, f) ==
    /\ shedders' = RemoveAt(shedders, i)
    /\ shedders' = <<>> => f = [d \in Classes |-> 0]
    /\ \A d \in Classes : f[d] <= foot[d]
    /\ foot' = f
    /\ walk' = [q \in Requests |->
                  IF walk[q].shared THEN [walk[q] EXCEPT !.list = shedders'] ELSE walk[q]]
    /\ due' = [q \in Requests |-> due[q] \ {shedders[i]}]
    /\ UNCHANGED <<pc, need, granted, reserved, budget>>

(* A new list without the consumer at i, and without what it held: f       *)
(* remains.                                                                *)
Unregister(i, f) ==
    /\ shedders' = RemoveAt(shedders, i)
    /\ shedders' = <<>> => f = [d \in Classes |-> 0]
    /\ \A d \in Classes : f[d] <= foot[d]
    /\ foot' = f
    /\ walk' = [q \in Requests |-> [walk[q] EXCEPT !.shared = FALSE]]
    /\ due' = [q \in Requests |-> due[q] \ {shedders[i]}]
    /\ UNCHANGED <<pc, need, granted, reserved, budget>>

Plans == UNION {[S -> Sizes] : S \in (SUBSET Classes) \ {{}}}

Next ==
    \/ \E q \in Requests :
          \/ \E n \in Plans : Begin(q, n)
          \/ \E live \in Sizes \cup {0} : Enter(q, live)
          \/ \E freed \in 0 .. MaxFoot, late \in BOOLEAN : ShedStep(q, freed, late)
          \/ \E late \in BOOLEAN : ShedBreaks(q, late) \/ Wake(q, late)
          \/ Abort(q)
          \/ Finish(q)
    \/ \E d \in Classes, limit \in Limits : SetBudget(d, limit)
    \/ \E d \in Classes, bytes \in 0 .. MaxFoot : ConsumerChanges(d, bytes)
    \/ \E c \in Consumers : Register(c)
    \/ \E i \in DOMAIN shedders, f \in [Classes -> 0 .. MaxFoot] : Unregister(i, f)

Spec == Init /\ [][Next]_vars

(* The loop runs what is ready, consumers answer, and bodies end.          *)
Fairness ==
    \A q \in Requests :
        /\ WF_vars(\E live \in Sizes \cup {0} : Enter(q, live))
        /\ WF_vars(\E freed \in 0 .. MaxFoot, late \in BOOLEAN : ShedStep(q, freed, late))
        /\ WF_vars(\E late \in BOOLEAN : Wake(q, late))
        /\ WF_vars(Finish(q))

FairSpec == Spec /\ Fairness

-----------------------------------------------------------------------------
(* What must hold.                                                         *)

(* _reserved is the sum of the reservations that exist, however requests   *)
(* end.                                                                    *)
ReservedIsSum ==
    \A d \in Classes :
        reserved[d] = MapThenSumSet(LAMBDA q : need[q][d],
                                    {q \in Requests : d \in granted[q]})

(* A request waits only while another one holds bytes on its class, so a   *)
(* release that wakes it is still to come: "waiting would hang" otherwise. *)
WaitsForSomeone ==
    \A q \in Requests : pc[q] = "waiting" =>
        \E p \in Requests \ {q} : Class(q) \in granted[p] /\ need[p][Class(q)] > 0

(* The accounts are right, and nobody waits for nothing.                   *)
AccountsInStep == ReservedIsSum /\ WaitsForSomeone

(* Requests on several classes never wait for each other in a circle: as   *)
(* long as one waits, one of them moves or holds.                          *)
SomebodyMoves ==
    (\E q \in Requests : pc[q] = "waiting") =>
        \E p \in Requests : pc[p] \in {"entering", "shedding", "woken", "holding"}

(* A shed asks every consumer that is registered throughout it, although   *)
(* the list it walks over changes under it.                                *)
SkipsNobody ==
    \A q \in Requests : pc[q] = "shedding" =>
        \A c \in due[q] : \E i \in DOMAIN walk[q].list :
            i > walk[q].at /\ walk[q].list[i] = c

(* A reservation is recorded only if it fits the declared budget at that   *)
(* moment, with whatever others reserved or consumers took during a shed.  *)
StepFits ==
    \A d \in Classes : reserved'[d] > reserved[d] /\ budget[d] # None =>
        reserved'[d] + foot'[d] <= budget[d]

GrantsFit == [][StepFits]_vars

(* Every request is admitted or refused, without the help of a timeout.    *)
AdmissionDecides ==
    \A q \in Requests :
        pc[q] \in {"entering", "shedding", "waiting", "woken"} ~>
        pc[q] \in {"holding", "over"}

-----------------------------------------------------------------------------
(* The inductive invariant.  A request holds what it needs from the lowest *)
(* class on, and nothing before it begins or after it has ended; a walk    *)
(* over the shared list sees the list as it is.                            *)
Orderly ==
    \A q \in Requests :
        /\ granted[q] \subseteq DOMAIN need[q]
        /\ \A d \in granted[q], e \in DOMAIN need[q] \ granted[q] : d < e
        /\ pc[q] \in {"idle", "over"} => granted[q] = {}
        /\ pc[q] \in {"entering", "shedding", "waiting", "woken"} =>
              granted[q] # DOMAIN need[q]

SharedList ==
    \A q \in Requests : walk[q].shared => walk[q].list = shedders

GovernorInv == TypeOK /\ Orderly /\ SharedList /\ SkipsNobody
=============================================================================
