------------------------- MODULE SingleFlightProofs -------------------------
(***************************************************************************)
(* What holds of shared computations and their permits, for any callers,   *)
(* keys, lanes, slots and number of faults.                                *)
(*                                                                         *)
(* NoNeedlessRun is not inductive: that a key ran once more than it had    *)
(* reason to is right only while the result is on its way or stored, so    *)
(* RunsExcused says that a caller about to invoke the worker still has a   *)
(* run to its credit, and that so has a key whose result is neither.       *)
(* PermitsReturned needs to know where a permit can be held, and SlotLast  *)
(* follows from the order in which lanes are taken.                        *)
(***************************************************************************)
EXTENDS SingleFlight, FiniteSetTheorems, NaturalsInduction, WellFoundedInduction, TLAPS

USE FlightAssumption

(* The keys whose results are cached, and the callers working on one.      *)
CachedKeys == {Key[c] : c \in {d \in Callers : Cached(d)}}
Underway(k) == \E c \in Callers : Key[c] = k /\ at[c] \in {"invoke", "publish"}

(* Only a node with an execution context gives its permits up meanwhile.   *)
OnlyContextsSuspend ==
    \A c \in Callers : at[c] \in {"suspended", "resume"} => ~Cached(c)

RunsExcused ==
    /\ \A c \in Callers : Cached(c) /\ at[c] = "admit" => runs[Key[c]] <= excuses[Key[c]]
    /\ \A k \in CachedKeys : k \notin stored /\ ~Underway(k) => runs[k] <= excuses[k]

(* Lanes are taken in their order and the slot last: whoever lacks a lane  *)
(* holds only lanes before it.                                             *)
LanesInOrder ==
    \A c \in Callers : \A q \in held[c], p \in Lanes(c) \ held[c] : q # Slot /\ q < p

PermitsPlaced ==
    /\ \A c \in Callers : held[c] # {} => at[c] \in {"admit", "invoke", "resume"} \/ c \in late
    /\ \A c \in late : at[c] \in {"failed", "cancelled"}

CancelsCounted ==
    IsFiniteSet({c \in Callers : at[c] = "cancelled"}) /\ OthersSurvive

FlightInv ==
    /\ TypeOK /\ OneFlight /\ OnlyContextsSuspend /\ RunsExcused /\ NoNeedlessRun
    /\ LanesInOrder /\ PermitsPlaced /\ CancelsCounted

(* A non-empty set of lanes has a first one.                               *)
LEMMA FirstLane ==
    ASSUME NEW S \in SUBSET Nat, S # {}
    PROVE  Min(S) \in S /\ \A n \in S : Min(S) <= n
  <1>1. PICK m \in S : \A n \in S : ~(<<n, m>> \in OpToRel(<, Nat))
    BY NatLessThanWellFounded, WFMin
  <1>2. \A n \in S : m <= n
    <2> SUFFICES ASSUME NEW n \in S PROVE m <= n
      OBVIOUS
    <2>1. m \in Nat /\ n \in Nat /\ ~(n < m)
      BY <1>1 DEF OpToRel
    <2> QED
      BY <2>1
  <1> QED
    BY <1>2 DEF Min

(* Lanes have names of their own, none of which is the slot's.             *)
LEMMA LanesAreNumbers ==
    ASSUME NEW c \in Callers
    PROVE  Lanes(c) \subseteq Nat \ {0} /\ Permits(c) \subseteq Nat
  <1>1. Occupies[c] \in Seq(Nat \ {0})
    OBVIOUS
  <1> QED
    BY <1>1 DEF Lanes, Permits, Slot, ToSet

(* The permit a caller asks for is one it may take and does not hold.      *)
LEMMA NextIsMissing ==
    ASSUME TypeOK, LanesInOrder, NEW c \in Callers, held[c] # Permits(c)
    PROVE  /\ NextPermit(c) \in Permits(c) \ held[c]
           /\ NextPermit(c) = Slot => Lanes(c) \subseteq held[c]
           /\ NextPermit(c) # Slot =>
                /\ NextPermit(c) \in Lanes(c) \ held[c]
                /\ \A p \in Lanes(c) \ held[c] : NextPermit(c) <= p
  <1>1. held[c] \subseteq Permits(c)
    BY DEF TypeOK
  <1>2. CASE Lanes(c) \subseteq held[c]
    BY <1>1, <1>2 DEF NextPermit, Permits
  <1>3. CASE ~(Lanes(c) \subseteq held[c])
    <2> DEFINE S == Lanes(c) \ held[c]
    <2>1. S \in SUBSET Nat /\ S # {}
      BY <1>3, LanesAreNumbers
    <2>2. NextPermit(c) = Min(S)
      BY <1>3 DEF NextPermit
    <2> HIDE DEF S
    <2>3. NextPermit(c) \in S /\ \A p \in S : NextPermit(c) <= p
      BY <2>1, <2>2, FirstLane
    <2> QED
      BY <2>3, LanesAreNumbers DEF Permits, Slot, S
  <1> QED
    BY <1>2, <1>3

(* All callers of a key are cached, or none is.                            *)
LEMMA KeysAreKinds ==
    /\ \A c \in Callers : Key[c] \in Keys
    /\ CachedKeys \subseteq Keys
    /\ \A c \in Callers : Key[c] \in CachedKeys <=> Cached(c)
  BY DEF Keys, CachedKeys, Cached

(* What goes wrong is counted, and excuses one more run of the key.        *)
Counted == [cancels : 0..MaxCancels, fails : 0..MaxFails, stale : 0..MaxStale]

LEMMA FaultsCounted ==
    ASSUME TypeOK, NEW c \in Callers, Excuse(c)
    PROVE  /\ excuses' \in [Keys -> Nat] /\ excuses'[Key[c]] = excuses[Key[c]] + 1
           /\ \A k \in Keys : excuses[k] <= excuses'[k]
           /\ Stale(c) => bounds' \in Counted /\ bounds'.cancels = bounds.cancels
           /\ Fail(c) => bounds' \in Counted /\ bounds'.cancels = bounds.cancels
           /\ Cancel(c) => bounds' \in Counted /\ bounds'.cancels = bounds.cancels + 1
  <1> USE DEF TypeOK, Counted
  <1>1. excuses' \in [Keys -> Nat] /\ excuses'[Key[c]] = excuses[Key[c]] + 1
    BY KeysAreKinds DEF Excuse
  <1>2. \A k \in Keys : excuses[k] <= excuses'[k]
    BY KeysAreKinds DEF Excuse
  <1>n. /\ MaxCancels \in Nat /\ MaxFails \in Nat /\ MaxStale \in Nat
        /\ bounds.cancels \in 0..MaxCancels /\ bounds.fails \in 0..MaxFails
        /\ bounds.stale \in 0..MaxStale
        /\ bounds = [cancels |-> bounds.cancels, fails |-> bounds.fails, stale |-> bounds.stale]
    OBVIOUS
  <1>3. ASSUME Stale(c) PROVE bounds' \in Counted /\ bounds'.cancels = bounds.cancels
    <2>1. bounds' = [bounds EXCEPT !.stale = @ + 1] /\ bounds.stale < MaxStale
      BY <1>3 DEF Stale
    <2>2. bounds.stale + 1 \in 0..MaxStale
      BY <1>n, <2>1
    <2> QED
      BY <1>n, <2>1, <2>2
  <1>4. ASSUME Fail(c) PROVE bounds' \in Counted /\ bounds'.cancels = bounds.cancels
    <2>1. bounds' = [bounds EXCEPT !.fails = @ + 1] /\ bounds.fails < MaxFails
      BY <1>4 DEF Fail
    <2>2. bounds.fails + 1 \in 0..MaxFails
      BY <1>n, <2>1
    <2> QED
      BY <1>n, <2>1, <2>2
  <1>5. ASSUME Cancel(c) PROVE bounds' \in Counted /\ bounds'.cancels = bounds.cancels + 1
    <2>1. bounds' = [bounds EXCEPT !.cancels = @ + 1] /\ bounds.cancels < MaxCancels
      BY <1>5 DEF Cancel
    <2>2. bounds.cancels + 1 \in 0..MaxCancels
      BY <1>n, <2>1
    <2> QED
      BY <1>n, <2>1, <2>2
  <1> QED
    BY <1>1, <1>2, <1>3, <1>4, <1>5

(* Every step keeps the types.                                             *)
LEMMA TypesKept ==
    ASSUME FlightInv, NEW c \in Callers, Step(c) \/ Fail(c) \/ Cancel(c)
    PROVE  TypeOK'
  <1> USE KeysAreKinds DEF FlightInv, TypeOK, flight, permits, counts, Goto, Ended
  <1>1. CASE Join(c)
    BY <1>1 DEF Join
  <1>2. CASE Own(c)
    BY <1>2 DEF Own
  <1>3. CASE Coalesce(c)
    <2>1. CASE Goto(c, "done") /\ UNCHANGED <<excuses, bounds>>
      BY <1>3, <2>1 DEF Coalesce, Counted
    <2>2. CASE Goto(c, "start") /\ Stale(c)
      BY <1>3, <2>2, FaultsCounted DEF Coalesce, Counted, Stale
    <2> QED
      BY <1>3, <2>1, <2>2 DEF Coalesce, Counted
  <1>4. CASE ShareFailure(c)
    BY <1>4 DEF ShareFailure
  <1>5. CASE OwnerDied(c)
    BY <1>5 DEF OwnerDied
  <1>6. CASE Lookup(c)
    <2>1. UNCHANGED <<flight, stored, permits, waited, runs>>
          /\ (Goto(c, "hit") \/ Goto(c, "admit"))
      BY <1>6 DEF Lookup
    <2>2. bounds' \in Counted /\ excuses' \in [Keys -> Nat]
      BY <1>6, FaultsCounted DEF Lookup, Stale, Counted
    <2> QED
      BY <2>1, <2>2 DEF Counted
  <1>7. CASE Hit(c)
    BY <1>7 DEF Hit, Resolve
  <1>8. CASE Acquire(c)
    BY <1>8, NextIsMissing, LanesAreNumbers DEF Acquire
  <1>9. CASE Admitted(c)
    BY <1>9 DEF Admitted
  <1>10. CASE Return(c)
    BY <1>10 DEF Return, Release
  <1>11. CASE Put(c)
    BY <1>11 DEF Put
  <1>12. CASE Finish(c)
    BY <1>12 DEF Finish, Resolve
  <1>13. CASE Suspend(c)
    BY <1>13 DEF Suspend, Release
  <1>14. CASE Arrive(c)
    BY <1>14 DEF Arrive
  <1>15. CASE Resumed(c)
    BY <1>15 DEF Resumed
  <1>16. CASE LateReleased(c)
    BY <1>16 DEF LateReleased, Release
  <1>leave. ASSUME Leave(c)
            PROVE  /\ held' \in [Callers -> SUBSET Nat] /\ late' \subseteq Callers
                   /\ \A d \in Callers : held'[d] \subseteq Permits(d)
    <2>1. CASE Release(c) /\ UNCHANGED late
      BY <2>1 DEF Release
    <2>2. CASE late' = late \cup {c} /\ UNCHANGED held
      BY <2>2
    <2> QED
      BY <1>leave, <2>1, <2>2 DEF Leave
  <1>17. CASE Fail(c)
    <2>1. /\ Excuse(c) /\ bounds' \in Counted /\ Leave(c)
          /\ Goto(c, "failed") /\ UNCHANGED <<on, stored, waited, runs>> /\ Resolve(c, "failed")
      BY <1>17, FaultsCounted DEF Fail
    <2> QED
      BY <2>1, <1>leave, FaultsCounted DEF Counted, Resolve
  <1>18. CASE Cancel(c)
    <2>1. /\ excuses' \in [Keys -> Nat] /\ bounds' \in Counted
          /\ Goto(c, "cancelled") /\ UNCHANGED <<on, stored, waited, runs>>
      BY <1>18, FaultsCounted DEF Cancel
    <2>2. UNCHANGED <<future, inflight>> \/ Resolve(c, "cancelled")
      BY <1>18 DEF Cancel
    <2>3. Leave(c)
      BY <1>18 DEF Cancel
    <2>4. /\ future' \in [Callers -> {"none", "pending", "result", "failed", "cancelled"}]
          /\ inflight' \in [Keys -> Callers \cup {None}]
      <3>1. CASE UNCHANGED <<future, inflight>>
        BY <3>1
      <3>2. CASE Resolve(c, "cancelled")
        BY <3>2 DEF Resolve
      <3> QED
        BY <2>2, <3>1, <3>2
    <2> QED
      BY <2>1, <2>3, <2>4, <1>leave DEF Counted
  <1> QED
    BY <1>1, <1>2, <1>3, <1>4, <1>5, <1>6, <1>7, <1>8, <1>9, <1>10, <1>11, <1>12, <1>13, <1>14, <1>15, <1>16, <1>17, <1>18 DEF Step

(* Every step keeps one flight per key.                                    *)
LEMMA FlightKept ==
    ASSUME FlightInv, NEW c \in Callers, Step(c) \/ Fail(c) \/ Cancel(c)
    PROVE  OneFlight' /\ OnlyContextsSuspend'
  <1> USE KeysAreKinds DEF FlightInv, TypeOK, OneFlight, OnlyContextsSuspend, Computing, flight, permits, counts, Goto, Ended, Cached
  <1>away. ASSUME NEW phase \in {"start", "done", "failed", "cancelled"}, Goto(c, phase),
                  \/ UNCHANGED inflight
                  \/ inflight' = IF inflight[Key[c]] = c THEN [inflight EXCEPT ![Key[c]] = None]
                                                         ELSE inflight
           PROVE  OneFlight' /\ OnlyContextsSuspend'
    <2>1. \A d \in Callers : d = c \/ at'[d] = at[d]
      BY <1>away
    <2>2. at'[c] \notin Computing \cup {"suspended", "resume"}
      BY <1>away
    <2>3. \A d \in Callers : inflight[Key[d]] = d /\ d # c => inflight'[Key[d]] = d
      BY <1>away
    <2> QED
      BY <2>1, <2>2, <2>3
  <1>1. CASE Join(c)
    BY <1>1 DEF Join
  <1>2. CASE Own(c)
    <2>1. CASE Cached(c)
      BY <1>2, <2>1 DEF Own
    <2>2. CASE ~Cached(c)
      BY <1>2, <2>2 DEF Own
    <2> QED
      BY <2>1, <2>2
  <1>3. CASE Coalesce(c)
    <2>1. UNCHANGED inflight /\ (Goto(c, "done") \/ Goto(c, "start"))
      BY <1>3 DEF Coalesce
    <2> QED
      BY <2>1, <1>away
  <1>4. CASE ShareFailure(c)
    BY <1>4, <1>away DEF ShareFailure
  <1>5. CASE OwnerDied(c)
    BY <1>5, <1>away DEF OwnerDied
  <1>6. CASE Lookup(c)
    BY <1>6 DEF Lookup, Stale, Excuse
  <1>7. CASE Hit(c)
    BY <1>7 DEF Hit, Resolve
  <1>8. CASE Acquire(c)
    BY <1>8 DEF Acquire
  <1>9. CASE Admitted(c)
    BY <1>9 DEF Admitted
  <1>10. CASE Return(c)
    BY <1>10 DEF Return, Release
  <1>11. CASE Put(c)
    BY <1>11 DEF Put
  <1>12. CASE Finish(c)
    BY <1>12 DEF Finish, Resolve
  <1>13. CASE Suspend(c)
    BY <1>13 DEF Suspend, Release
  <1>14. CASE Arrive(c)
    BY <1>14 DEF Arrive
  <1>15. CASE Resumed(c)
    BY <1>15 DEF Resumed
  <1>16. CASE LateReleased(c)
    BY <1>16 DEF LateReleased, Release
  <1>17. CASE Fail(c)
    <2>1. Goto(c, "failed") /\ Resolve(c, "failed")
      BY <1>17 DEF Fail
    <2> QED
      BY <2>1, <1>away DEF Resolve
  <1>18. CASE Cancel(c)
    <2>1. Goto(c, "cancelled")
      BY <1>18 DEF Cancel
    <2>2. UNCHANGED inflight \/ Resolve(c, "cancelled")
      BY <1>18 DEF Cancel
    <2> QED
      BY <2>1, <2>2, <1>away DEF Resolve
  <1> QED
    BY <1>1, <1>2, <1>3, <1>4, <1>5, <1>6, <1>7, <1>8, <1>9, <1>10, <1>11, <1>12, <1>13, <1>14, <1>15, <1>16, <1>17, <1>18 DEF Step

(* A caller alone computes its key.                                        *)
LEMMA Alone ==
    ASSUME OneFlight, NEW c \in Callers, NEW d \in Callers, Key[c] = Key[d], Cached(c),
           at[c] \in Computing, at[d] \in Computing
    PROVE  c = d
  BY DEF OneFlight, Cached

(* A step after which one more run is excused owes nothing, wherever the   *)
(* caller goes.                                                            *)
LEMMA ExcusedStep ==
    ASSUME FlightInv, NEW c \in Callers, NEW phase, Goto(c, phase), Excuse(c),
           UNCHANGED <<stored, runs>>
    PROVE  RunsExcused' /\ NoNeedlessRun'
  <1> USE KeysAreKinds DEF FlightInv, TypeOK
  <1>1. \A k \in Keys : runs'[k] = runs[k] /\ runs[k] \in Nat /\ excuses[k] \in Nat
    OBVIOUS
  <1>2. /\ \A k \in Keys : excuses'[k] \in Nat /\ excuses[k] <= excuses'[k]
        /\ excuses'[Key[c]] = excuses[Key[c]] + 1
    BY FaultsCounted
  <1>3. \A k \in CachedKeys : runs[k] <= 1 + excuses[k]
    BY DEF NoNeedlessRun, CachedKeys
  <1>a. \A k \in CachedKeys : runs'[k] <= 1 + excuses'[k]
    BY <1>1, <1>2, <1>3
  <1>4. NoNeedlessRun'
    BY <1>a DEF NoNeedlessRun, CachedKeys
  <1>5. Cached(c) => runs'[Key[c]] <= excuses'[Key[c]]
    BY <1>1, <1>2, <1>3
  <1>6. ASSUME NEW d \in Callers, Cached(d), at'[d] = "admit" PROVE runs'[Key[d]] <= excuses'[Key[d]]
    <2>1. CASE Key[d] = Key[c]
      BY <1>5, <1>6, <2>1
    <2>2. CASE Key[d] # Key[c]
      <3>1. at[d] = "admit"
        BY <1>6, <2>2 DEF Goto
      <3> QED
        BY <1>1, <1>2, <1>6, <3>1 DEF RunsExcused
    <2> QED
      BY <2>1, <2>2
  <1>7. ASSUME NEW k \in CachedKeys, k \notin stored', ~Underway(k)' PROVE runs'[k] <= excuses'[k]
    <2>1. CASE k = Key[c]
      BY <1>5, <1>7, <2>1
    <2>2. CASE k # Key[c]
      <3>1. ~Underway(k)
        BY <1>7, <2>2 DEF Goto, Underway
      <3> QED
        BY <1>1, <1>2, <1>7, <3>1 DEF RunsExcused
    <2> QED
      BY <2>1, <2>2
  <1> QED
    BY <1>4, <1>6, <1>7 DEF RunsExcused

(* Nor does one that neither invokes nor is about to, unless it gives up a *)
(* result that is on its way.                                              *)
LEMMA QuietStep ==
    ASSUME FlightInv, NEW c \in Callers, NEW phase, Goto(c, phase), UNCHANGED counts,
           stored \subseteq stored', Cached(c) => phase # "admit",
           Cached(c) /\ at[c] \in {"invoke", "publish"} =>
             phase \in {"invoke", "publish"} \/ Key[c] \in stored'
    PROVE  RunsExcused' /\ NoNeedlessRun'
  <1> USE KeysAreKinds DEF FlightInv, TypeOK, counts
  <1>1. NoNeedlessRun'
    BY DEF NoNeedlessRun
  <1>2. ASSUME NEW d \in Callers, Cached(d), at'[d] = "admit" PROVE runs'[Key[d]] <= excuses'[Key[d]]
    BY <1>2 DEF RunsExcused, Goto
  <1>3. ASSUME NEW k \in CachedKeys, k \notin stored', ~Underway(k)' PROVE ~Underway(k)
    BY <1>3 DEF Underway, Goto
  <1> QED
    BY <1>1, <1>2, <1>3 DEF RunsExcused

(* Every invocation of the worker has been paid for.                       *)
LEMMA RunsKept ==
    ASSUME FlightInv, NEW c \in Callers, Step(c) \/ Fail(c) \/ Cancel(c)
    PROVE  RunsExcused' /\ NoNeedlessRun'
  <1> USE DEF counts
  <1>1. CASE Join(c)
    BY <1>1, QuietStep DEF Join
  <1>2. CASE Own(c)
    <2>1. CASE Cached(c)
      BY <1>2, <2>1, QuietStep DEF Own
    <2>2. CASE ~Cached(c)
      BY <1>2, <2>2, QuietStep DEF Own
    <2> QED
      BY <2>1, <2>2
  <1>3. CASE Coalesce(c)
    <2>1. CASE Goto(c, "done") /\ UNCHANGED <<excuses, bounds>>
      BY <1>3, <2>1, QuietStep DEF Coalesce
    <2>2. CASE Goto(c, "start") /\ Stale(c)
      BY <1>3, <2>2, ExcusedStep DEF Coalesce, Stale
    <2> QED
      BY <1>3, <2>1, <2>2 DEF Coalesce
  <1>4. CASE ShareFailure(c)
    BY <1>4, QuietStep DEF ShareFailure
  <1>5. CASE OwnerDied(c)
    BY <1>5, QuietStep DEF OwnerDied
  <1>6. CASE Lookup(c)
    <2>1. CASE Goto(c, "hit") /\ UNCHANGED <<excuses, bounds>>
      BY <1>6, <2>1, QuietStep DEF Lookup
    <2>2. CASE Key[c] \notin stored /\ Goto(c, "admit") /\ UNCHANGED <<excuses, bounds>>
      <3>1. at[c] = "lookup" /\ UNCHANGED <<stored, runs, excuses>>
        BY <1>6, <2>2 DEF Lookup
      <3>2. Cached(c) => ~Underway(Key[c])
        BY <3>1, Alone DEF FlightInv, Underway, Computing
      <3>3. Cached(c) => runs[Key[c]] <= excuses[Key[c]]
        BY <2>2, <3>2, KeysAreKinds DEF FlightInv, RunsExcused
      <3>4. \A k \in CachedKeys : ~Underway(k)' => ~Underway(k)
        BY <2>2, <3>1 DEF Underway, Goto, FlightInv, TypeOK
      <3>5. NoNeedlessRun'
        BY <3>1 DEF FlightInv, NoNeedlessRun
      <3> QED
        BY <2>2, <3>1, <3>3, <3>4, <3>5 DEF Goto, FlightInv, TypeOK, RunsExcused
    <2>3. CASE Goto(c, "admit") /\ Stale(c)
      BY <1>6, <2>3, ExcusedStep DEF Lookup, Stale
    <2> QED
      BY <1>6, <2>1, <2>2, <2>3 DEF Lookup
  <1>7. CASE Hit(c)
    BY <1>7, QuietStep DEF Hit
  <1>8. CASE Acquire(c)
    BY <1>8 DEF Acquire, FlightInv, RunsExcused, NoNeedlessRun, Underway
  <1>9. CASE Admitted(c)
    <2>1. /\ at[c] = "admit" /\ Goto(c, "invoke") /\ UNCHANGED <<stored, excuses>>
          /\ runs' = [runs EXCEPT ![Key[c]] = @ + 1]
      BY <1>9 DEF Admitted
    <2>2. Key[c] \in Keys /\ runs \in [Keys -> Nat] /\ excuses \in [Keys -> Nat]
      BY KeysAreKinds DEF FlightInv, TypeOK
    <2>3. \A d \in Callers : Cached(d) /\ at'[d] = "admit" => Key[d] # Key[c] /\ at[d] = "admit"
      BY <2>1, Alone DEF Goto, FlightInv, TypeOK, Computing
    <2>4. \A k \in CachedKeys : ~Underway(k)' => k # Key[c] /\ ~Underway(k)
      BY <2>1 DEF Underway, Goto, FlightInv, TypeOK
    <2>5. \A k \in CachedKeys : runs'[k] <= 1 + excuses'[k]
      <3> SUFFICES ASSUME NEW k \in CachedKeys PROVE runs'[k] <= 1 + excuses'[k]
        OBVIOUS
      <3>1. k \in Keys /\ runs[k] <= 1 + excuses[k]
        BY KeysAreKinds DEF FlightInv, NoNeedlessRun, CachedKeys
      <3>2. CASE k = Key[c]
        <4>1. runs[k] <= excuses[k]
          BY <2>1, <3>2, KeysAreKinds DEF FlightInv, RunsExcused
        <4> QED
          BY <2>1, <2>2, <3>2, <4>1
      <3>3. CASE k # Key[c]
        BY <2>1, <2>2, <3>1, <3>3
      <3> QED
        BY <3>2, <3>3
    <2>6. \A k \in Keys : k # Key[c] => runs'[k] = runs[k]
      BY <2>1, <2>2
    <2>7. NoNeedlessRun'
      BY <2>5 DEF NoNeedlessRun, CachedKeys
    <2> QED
      BY <2>1, <2>3, <2>4, <2>6, <2>7, KeysAreKinds DEF FlightInv, RunsExcused
  <1>10. CASE Return(c)
    BY <1>10, QuietStep DEF Return
  <1>11. CASE Put(c)
    BY <1>11, QuietStep DEF Put
  <1>12. CASE Finish(c)
    BY <1>12, QuietStep DEF Finish
  <1>13. CASE Suspend(c)
    BY <1>13, QuietStep DEF Suspend
  <1>14. CASE Arrive(c)
    BY <1>14, QuietStep DEF Arrive
  <1>15. CASE Resumed(c)
    BY <1>15, QuietStep DEF Resumed
  <1>16. CASE LateReleased(c)
    BY <1>16 DEF LateReleased, FlightInv, RunsExcused, NoNeedlessRun, Underway
  <1>17. CASE Fail(c)
    BY <1>17, ExcusedStep DEF Fail
  <1>18. CASE Cancel(c)
    BY <1>18, ExcusedStep DEF Cancel
  <1> QED
    BY <1>1, <1>2, <1>3, <1>4, <1>5, <1>6, <1>7, <1>8, <1>9, <1>10, <1>11, <1>12, <1>13, <1>14, <1>15, <1>16, <1>17, <1>18 DEF Step

(* Every step keeps the permits in order.                                  *)
LEMMA PermitsKept ==
    ASSUME FlightInv, NEW c \in Callers, Step(c) \/ Fail(c) \/ Cancel(c)
    PROVE  LanesInOrder' /\ PermitsPlaced'
  <1> USE DEF FlightInv, TypeOK, LanesInOrder, PermitsPlaced, Lanes, flight, permits, counts, Goto, Ended
  <1>1. CASE Join(c)
    BY <1>1 DEF Join
  <1>2. CASE Own(c)
    BY <1>2 DEF Own
  <1>3. CASE Coalesce(c)
    BY <1>3 DEF Coalesce, Stale, Excuse
  <1>4. CASE ShareFailure(c)
    BY <1>4 DEF ShareFailure
  <1>5. CASE OwnerDied(c)
    BY <1>5 DEF OwnerDied
  <1>6. CASE Lookup(c)
    BY <1>6 DEF Lookup, Stale, Excuse
  <1>7. CASE Hit(c)
    BY <1>7 DEF Hit, Resolve
  <1>8. CASE Acquire(c)
    <2> DEFINE n == NextPermit(c)
    <2>1. /\ held' = [held EXCEPT ![c] = @ \cup {n}]
          /\ UNCHANGED <<at, late>> /\ held[c] # Permits(c) /\ Acquiring(c)
      BY <1>8 DEF Acquire
    <2>2. /\ n \in Permits(c) \ held[c]
          /\ n = Slot => Lanes(c) \subseteq held[c]
          /\ n # Slot => n \in Lanes(c) \ held[c] /\ \A p \in Lanes(c) \ held[c] : n <= p
      BY <2>1, NextIsMissing
    <2>3. Lanes(c) \subseteq Nat \ {0}
      BY LanesAreNumbers
    <2>4. \A q \in held'[c], p \in Lanes(c) \ held'[c] : q # Slot /\ q < p
      <3> HIDE DEF n
      <3>1. held'[c] = held[c] \cup {n}
        BY <2>1
      <3> SUFFICES ASSUME NEW q \in held'[c], NEW p \in Lanes(c) \ held'[c]
                   PROVE  q # Slot /\ q < p
        OBVIOUS
      <3>2. CASE q \in held[c]
        BY <3>1, <3>2
      <3>3. CASE q = n
        BY <2>2, <2>3, <3>1, <3>3
      <3> QED
        BY <3>1, <3>2, <3>3
    <2>5. LanesInOrder'
      BY <2>1, <2>4
    <2> QED
      BY <2>1, <2>5 DEF Acquiring
  <1>9. CASE Admitted(c)
    BY <1>9 DEF Admitted
  <1>10. CASE Return(c)
    BY <1>10 DEF Return, Release
  <1>11. CASE Put(c)
    BY <1>11 DEF Put
  <1>12. CASE Finish(c)
    BY <1>12 DEF Finish, Resolve
  <1>13. CASE Suspend(c)
    BY <1>13 DEF Suspend, Release
  <1>14. CASE Arrive(c)
    BY <1>14 DEF Arrive
  <1>15. CASE Resumed(c)
    BY <1>15 DEF Resumed
  <1>16. CASE LateReleased(c)
    BY <1>16 DEF LateReleased, Release
  <1>leave. ASSUME NEW phase \in {"failed", "cancelled"}, at[c] \notin {"failed", "cancelled"},
                   Goto(c, phase), Leave(c)
            PROVE  LanesInOrder' /\ PermitsPlaced'
    <2>1. CASE Release(c) /\ UNCHANGED late
      <3>1. held' = [held EXCEPT ![c] = {}] /\ UNCHANGED late
        BY <2>1 DEF Release
      <3>2. LanesInOrder'
        BY <3>1
      <3> QED
        BY <1>leave, <3>1, <3>2
    <2>2. CASE late' = late \cup {c} /\ UNCHANGED held
      BY <1>leave, <2>2
    <2> QED
      BY <1>leave, <2>1, <2>2 DEF Leave
  <1>17. CASE Fail(c)
    <2>1. Goto(c, "failed") /\ Leave(c) /\ at[c] \notin {"failed", "cancelled"}
      BY <1>17 DEF Fail
    <2> QED
      BY <2>1, <1>leave
  <1>18. CASE Cancel(c)
    <2>1. Goto(c, "cancelled") /\ Leave(c) /\ at[c] \notin {"failed", "cancelled"}
      BY <1>18 DEF Cancel
    <2> QED
      BY <2>1, <1>leave
  <1> QED
    BY <1>1, <1>2, <1>3, <1>4, <1>5, <1>6, <1>7, <1>8, <1>9, <1>10, <1>11, <1>12, <1>13, <1>14, <1>15, <1>16, <1>17, <1>18 DEF Step

(* Only a cancelled run ends cancelled.                                    *)
LEMMA CancelsKept ==
    ASSUME FlightInv, NEW c \in Callers, Step(c) \/ Fail(c) \/ Cancel(c)
    PROVE  CancelsCounted'
  <1> USE DEF FlightInv, TypeOK, CancelsCounted, OthersSurvive, flight, permits, counts, Goto, Ended
  <1>1. CASE Join(c)
    BY <1>1 DEF Join
  <1>2. CASE Own(c)
    BY <1>2 DEF Own
  <1>3. CASE Coalesce(c)
    <2>1. at[c] # "cancelled" /\ (Goto(c, "done") \/ Goto(c, "start"))
      BY <1>3 DEF Coalesce
    <2>2. {d \in Callers : at'[d] = "cancelled"} = {d \in Callers : at[d] = "cancelled"}
      BY <2>1
    <2>3. bounds'.cancels = bounds.cancels
      BY <1>3, FaultsCounted DEF Coalesce, Stale
    <2> QED
      BY <2>2, <2>3
  <1>4. CASE ShareFailure(c)
    BY <1>4 DEF ShareFailure
  <1>5. CASE OwnerDied(c)
    BY <1>5 DEF OwnerDied
  <1>6. CASE Lookup(c)
    <2>1. at[c] # "cancelled" /\ (Goto(c, "hit") \/ Goto(c, "admit"))
      BY <1>6 DEF Lookup
    <2>2. {d \in Callers : at'[d] = "cancelled"} = {d \in Callers : at[d] = "cancelled"}
      BY <2>1
    <2>3. bounds'.cancels = bounds.cancels
      BY <1>6, FaultsCounted DEF Lookup, Stale
    <2> QED
      BY <2>2, <2>3
  <1>7. CASE Hit(c)
    BY <1>7 DEF Hit, Resolve
  <1>8. CASE Acquire(c)
    BY <1>8 DEF Acquire
  <1>9. CASE Admitted(c)
    BY <1>9 DEF Admitted
  <1>10. CASE Return(c)
    BY <1>10 DEF Return, Release
  <1>11. CASE Put(c)
    BY <1>11 DEF Put
  <1>12. CASE Finish(c)
    BY <1>12 DEF Finish, Resolve
  <1>13. CASE Suspend(c)
    BY <1>13 DEF Suspend, Release
  <1>14. CASE Arrive(c)
    BY <1>14 DEF Arrive
  <1>15. CASE Resumed(c)
    BY <1>15 DEF Resumed
  <1>16. CASE LateReleased(c)
    BY <1>16 DEF LateReleased, Release
  <1>17. CASE Fail(c)
    BY <1>17 DEF Fail, Resolve, Excuse
  <1>18. CASE Cancel(c)
    <2> DEFINE S == {d \in Callers : at[d] = "cancelled"}
    <2>1. c \notin S /\ {d \in Callers : at'[d] = "cancelled"} = S \cup {c}
      BY <1>18 DEF Cancel
    <2>2. bounds'.cancels = bounds.cancels + 1
      BY <1>18, FaultsCounted DEF Cancel
    <2>3. IsFiniteSet(S) /\ Cardinality(S) = bounds.cancels
      OBVIOUS
    <2> HIDE DEF S
    <2>4. IsFiniteSet(S \cup {c}) /\ Cardinality(S \cup {c}) = bounds.cancels + 1
      BY <2>1, <2>3, FS_AddElement
    <2> QED
      BY <2>1, <2>2, <2>4
  <1> QED
    BY <1>1, <1>2, <1>3, <1>4, <1>5, <1>6, <1>7, <1>8, <1>9, <1>10, <1>11, <1>12, <1>13, <1>14, <1>15, <1>16, <1>17, <1>18 DEF Step

(* Nothing has happened yet.                                               *)
LEMMA FlightInit == Init => FlightInv
  <1> SUFFICES ASSUME Init PROVE FlightInv
    OBVIOUS
  <1>n. MaxCancels \in Nat /\ MaxFails \in Nat /\ MaxStale \in Nat
    OBVIOUS
  <1>1. TypeOK
    BY <1>n DEF Init, TypeOK, Ended
  <1>2. OneFlight /\ OnlyContextsSuspend
    BY DEF Init, OneFlight, OnlyContextsSuspend, Computing
  <1>3. RunsExcused /\ NoNeedlessRun
    BY KeysAreKinds DEF Init, RunsExcused, NoNeedlessRun, CachedKeys
  <1>4. LanesInOrder /\ PermitsPlaced
    BY DEF Init, LanesInOrder, PermitsPlaced
  <1>5. CancelsCounted
    <2>1. {c \in Callers : at[c] = "cancelled"} = {}
      BY DEF Init
    <2> QED
      BY <2>1, FS_EmptySet DEF Init, CancelsCounted, OthersSurvive
  <1> QED
    BY <1>1, <1>2, <1>3, <1>4, <1>5 DEF FlightInv

(* The inductive invariant holds of every behaviour.                       *)
THEOREM FlightInvariant == Spec => []FlightInv
  <1>1. FlightInv /\ [Next]_vars => FlightInv'
    <2> SUFFICES ASSUME FlightInv, [Next]_vars PROVE FlightInv'
      OBVIOUS
    <2>1. CASE Next
      <3>1. PICK c \in Callers : Step(c) \/ Fail(c) \/ Cancel(c)
        BY <2>1 DEF Next
      <3> QED
        BY <3>1, TypesKept, FlightKept, RunsKept, PermitsKept, CancelsKept DEF FlightInv
    <2>2. CASE UNCHANGED vars
      BY <2>2 DEF vars, flight, permits, counts, FlightInv, TypeOK, OneFlight, OnlyContextsSuspend,
                  RunsExcused, Underway, NoNeedlessRun, LanesInOrder, PermitsPlaced,
                  CancelsCounted, OthersSurvive
    <2> QED
      BY <2>1, <2>2
  <1> QED
    BY FlightInit, <1>1, PTL DEF Spec

(* Types, and every exit gives every permit back, the slot being taken     *)
(* last.                                                                   *)
THEOREM PermitsStayInStep == Spec => []PermitsInStep
  <1>1. FlightInv => PermitsInStep
    <2> SUFFICES ASSUME FlightInv PROVE PermitsInStep
      OBVIOUS
    <2>1. PermitsReturned
      BY DEF FlightInv, PermitsPlaced, PermitsReturned, Ended
    <2>2. SlotLast
      BY DEF FlightInv, LanesInOrder, SlotLast
    <2> QED
      BY <2>1, <2>2 DEF FlightInv, PermitsInStep
  <1> QED
    BY <1>1, FlightInvariant, PTL

(* At most one caller computes a key, and it is the one that _inflight     *)
(* names.                                                                  *)
THEOREM FlightsAreSingle == Spec => []OneFlight
  <1>1. FlightInv => OneFlight
    BY DEF FlightInv
  <1> QED
    BY <1>1, FlightInvariant, PTL

(* A cached node's worker is invoked once, and once more for every         *)
(* cancellation, failure or unusable result.                               *)
THEOREM RunsHaveReasons == Spec => []NoNeedlessRun
  <1>1. FlightInv => NoNeedlessRun
    BY DEF FlightInv
  <1> QED
    BY <1>1, FlightInvariant, PTL

(* A caller ends cancelled only if its own run was.                        *)
THEOREM CancelsStayApart == Spec => []OthersSurvive
  <1>1. FlightInv => OthersSurvive
    BY DEF FlightInv, CancelsCounted
  <1> QED
    BY <1>1, FlightInvariant, PTL

(* Callers that wait for lanes never wait for each other in a circle: of   *)
(* any of them, one wants a lane that none of the others has.  N bounds    *)
(* the lanes' names.                                                       *)
Wanting == {c \in Callers : ~(Lanes(c) \subseteq held[c])}
NoCircularWait ==
    \A W \in SUBSET Wanting, N \in Nat :
        W # {} /\ (\A c \in W : Lanes(c) \subseteq 0..N) =>
            \E c \in W : \A d \in W : NextPermit(c) \notin held[d]

THEOREM LanesCannotDeadlock == Spec => []NoCircularWait
  <1>1. FlightInv => NoCircularWait
    <2> SUFFICES ASSUME FlightInv, NEW W \in SUBSET Wanting, NEW N \in Nat, W # {},
                        \A c \in W : Lanes(c) \subseteq 0..N
                 PROVE  \E c \in W : \A d \in W : NextPermit(c) \notin held[d]
      BY DEF NoCircularWait
    <2>1. \A c \in W : /\ c \in Callers /\ NextPermit(c) \in Lanes(c) \ held[c]
                       /\ NextPermit(c) \in 1..N
      <3> SUFFICES ASSUME NEW c \in W
                   PROVE  /\ c \in Callers /\ NextPermit(c) \in Lanes(c) \ held[c]
                          /\ NextPermit(c) \in 1..N
        OBVIOUS
      <3>1. c \in Callers /\ held[c] # Permits(c) /\ ~(Lanes(c) \subseteq held[c])
        BY DEF Wanting, Permits
      <3>2. NextPermit(c) \in Lanes(c) \ held[c]
        BY <3>1, NextIsMissing DEF FlightInv
      <3>3. Lanes(c) \subseteq Nat \ {0}
        BY <3>1, LanesAreNumbers
      <3> QED
        BY <3>1, <3>2, <3>3
    <2> DEFINE S == {N - NextPermit(c) : c \in W}
    <2>2. S \in SUBSET Nat /\ S # {}
      BY <2>1
    <2>3. PICK c \in W : \A d \in W : N - NextPermit(c) <= N - NextPermit(d)
      <3> HIDE DEF S
      <3>1. Min(S) \in S /\ \A n \in S : Min(S) <= n
        BY <2>2, FirstLane
      <3>2. PICK c \in W : Min(S) = N - NextPermit(c)
        BY <3>1 DEF S
      <3>3. \A d \in W : N - NextPermit(d) \in S
        BY DEF S
      <3> QED
        BY <3>1, <3>2, <3>3
    <2>4. \A d \in W : NextPermit(d) <= NextPermit(c)
      BY <2>1, <2>3
    <2>5. ASSUME NEW d \in W, NextPermit(c) \in held[d] PROVE FALSE
      <3>1. NextPermit(c) < NextPermit(d)
        BY <2>1, <2>5 DEF FlightInv, LanesInOrder
      <3> QED
        BY <2>1, <2>4, <3>1
    <2> QED
      BY <2>5
  <1> QED
    BY <1>1, FlightInvariant, PTL

=============================================================================
