-------------------------- MODULE ReleaseGateProofs --------------------------
(***************************************************************************)
(* Proofs about ReleaseGate, for any number of runs, sheds and residents.  *)
(***************************************************************************)
EXTENDS ReleaseGate, TLAPS

(* Frames are equal when kind and subject are.                             *)
LEMMA FrameEq ==
    ASSUME NEW k, NEW x, NEW l, NEW y
    PROVE  F(k, x) = F(l, y) <=> k = l /\ x = y
  <1>1. F(k, x).kind = k /\ F(k, x).of = x /\ F(l, y).kind = l /\ F(l, y).of = y
    BY DEF F
  <1> QED
    BY <1>1

(* What appending a frame does to a wire.                                  *)
LEMMA AppendWire ==
    ASSUME NEW w \in Seq(Frame), NEW f \in Frame, NEW k, NEW x
    PROVE  /\ Append(w, f) \in Seq(Frame)
           /\ Has(Append(w, f), k, x) <=> Has(w, k, x) \/ f = F(k, x)
           /\ Once(w, k, x) /\ (f # F(k, x) \/ ~Has(w, k, x))
                => Once(Append(w, f), k, x)
  <1>1. /\ Append(w, f) \in Seq(Frame)
        /\ Len(Append(w, f)) = Len(w) + 1 /\ Len(w) \in Nat
        /\ \A i \in 1 .. Len(w) : Append(w, f)[i] = w[i]
        /\ Append(w, f)[Len(w) + 1] = f
    OBVIOUS
  <1> DEFINE a == Append(w, f)
  <1>2. /\ a \in Seq(Frame) /\ Len(a) = Len(w) + 1 /\ Len(w) \in Nat
        /\ \A i \in 1 .. Len(w) : a[i] = w[i]
        /\ a[Len(w) + 1] = f
    BY <1>1
  <1> HIDE DEF a
  <1>3. Has(a, k, x) <=> Has(w, k, x) \/ f = F(k, x)
    BY <1>2 DEF Has
  <1>4. Once(w, k, x) /\ (f # F(k, x) \/ ~Has(w, k, x)) => Once(a, k, x)
    BY <1>2 DEF Has, Once
  <1> QED
    BY <1>1, <1>3, <1>4 DEF a

(* What reading a frame does to a wire.                                    *)
LEMMA TailWire ==
    ASSUME NEW w \in Seq(Frame), w # <<>>, NEW k, NEW x
    PROVE  /\ Tail(w) \in Seq(Frame)
           /\ Has(Tail(w), k, x) => Has(w, k, x)
           /\ Once(w, k, x) => Once(Tail(w), k, x)
           /\ Once(w, k, x) /\ Head(w) = F(k, x) => ~Has(Tail(w), k, x)
           /\ Head(w) = F(k, x) => Has(w, k, x)
  <1> DEFINE t == Tail(w)
  <1>1. /\ t \in Seq(Frame) /\ Len(w) \in Nat \ {0} /\ Len(t) = Len(w) - 1
        /\ \A i \in 1 .. Len(t) : t[i] = w[i + 1]
        /\ Head(w) = w[1]
    OBVIOUS
  <1> HIDE DEF t
  <1>2. Has(t, k, x) => Has(w, k, x)
    BY <1>1 DEF Has
  <1>3. Once(w, k, x) => Once(t, k, x)
    <2>1. SUFFICES ASSUME Once(w, k, x), NEW i \in 1 .. Len(t), NEW j \in 1 .. Len(t),
                          t[i] = F(k, x), t[j] = F(k, x)
                   PROVE  i = j
      BY DEF Once
    <2>2. i + 1 \in 1 .. Len(w) /\ j + 1 \in 1 .. Len(w)
      BY <1>1
    <2>3. i + 1 = j + 1
      BY <1>1, <2>1, <2>2 DEF Once
    <2> QED
      BY <2>3
  <1>4. Once(w, k, x) /\ Head(w) = F(k, x) => ~Has(t, k, x)
    BY <1>1 DEF Once, Has
  <1>5. Head(w) = F(k, x) => Has(w, k, x)
    BY <1>1 DEF Has
  <1> QED
    BY <1>1, <1>2, <1>3, <1>4, <1>5 DEF t

-----------------------------------------------------------------------------
(* Steps that send no commit and no answer to one.                         *)

CalmChild ==
    /\ toChild' \in Seq(Frame)
    /\ \A s \in Sheds : /\ Has(toChild', "commit", s) => Has(toChild, "commit", s)
                        /\ Once(toChild', "commit", s)

CalmParent ==
    /\ toParent' \in Seq(Frame)
    /\ \A s \in Sheds : Has(toParent', "released", s) => Has(toParent, "released", s)

LEMMA FrameType ==
    ASSUME NEW k \in {"invoke", "result", "resultAck", "cancel", "query",
                      "candidates", "commit", "released"},
           NEW x \in Runs \cup Sheds
    PROVE  F(k, x) \in Frame
  BY DEF F, Frame

LEMMA SendsCalmly ==
    ASSUME GateInv, NEW x \in Runs \cup Sheds,
           NEW k \in {"invoke", "result", "resultAck", "cancel", "query", "candidates"}
    PROVE  /\ toChild' = Append(toChild, F(k, x)) => CalmChild
           /\ toParent' = Append(toParent, F(k, x)) => CalmParent
  <1>1. toChild \in Seq(Frame) /\ toParent \in Seq(Frame) /\ F(k, x) \in Frame
    BY FrameType DEF GateInv, TypeOK
  <1>2. \A s \in Sheds : F(k, x) # F("commit", s) /\ F(k, x) # F("released", s)
    BY FrameEq
  <1>3. \A s \in Sheds : Once(toChild, "commit", s)
    BY DEF GateInv, CommitOnce
  <1>4. ASSUME toChild' = Append(toChild, F(k, x)) PROVE CalmChild
    BY <1>1, <1>2, <1>3, <1>4, AppendWire DEF CalmChild
  <1>5. ASSUME toParent' = Append(toParent, F(k, x)) PROVE CalmParent
    BY <1>1, <1>2, <1>5, AppendWire DEF CalmParent
  <1> QED
    BY <1>4, <1>5

LEMMA ReadsCalmly ==
    ASSUME GateInv
    PROVE  /\ toChild # <<>> /\ toChild' = Tail(toChild) => CalmChild
           /\ toParent # <<>> /\ toParent' = Tail(toParent) => CalmParent
           /\ toChild' = toChild => CalmChild
           /\ toParent' = toParent => CalmParent
  <1>1. toChild \in Seq(Frame) /\ toParent \in Seq(Frame)
    BY DEF GateInv, TypeOK
  <1>2. \A s \in Sheds : Once(toChild, "commit", s)
    BY DEF GateInv, CommitOnce
  <1>3. ASSUME toChild # <<>>, toChild' = Tail(toChild) PROVE CalmChild
    BY <1>1, <1>2, <1>3, TailWire DEF CalmChild
  <1>4. ASSUME toParent # <<>>, toParent' = Tail(toParent) PROVE CalmParent
    BY <1>1, <1>4, TailWire DEF CalmParent
  <1> QED
    BY <1>1, <1>2, <1>3, <1>4 DEF CalmChild, CalmParent

(* Such a step, if it leaves the pins' tombstones, the relay and the child *)
(* alone, keeps what the release protocol rests on.                        *)
LEMMA CalmKeeps ==
    ASSUME GateInv, CalmChild, CalmParent,
           UNCHANGED <<condemned, shed, staked, childVars>>
    PROVE  /\ CommitOnce' /\ Stakes' /\ Tombstones' /\ HeldIsResident'
           /\ CondemnedForAReason'
  <1> USE DEF childVars, execVars, taskVars, poolVars
  <1>1. CommitOnce'
    BY DEF GateInv, CommitOnce, CalmChild, CalmParent, Dropping
  <1>2. Stakes'
    BY DEF GateInv, Stakes, Held
  <1>3. Tombstones' /\ HeldIsResident' /\ CondemnedForAReason'
    BY DEF GateInv, Tombstones, HeldIsResident, CondemnedForAReason
  <1> QED
    BY <1>1, <1>2, <1>3

(* A reference that is not condemned is to a resident in the pool.         *)
LEMMA RefResolves ==
    ASSUME GateInv, NEW n \in Runs, ref[n] # None, ref[n] \notin condemned
    PROVE  ref[n] \in alive
  BY DEF GateInv, TypeOK, Known, Tombstones

LEMMA ExceptType ==
    ASSUME NEW S, NEW T, NEW f \in [S -> T], NEW x \in S, NEW v \in T
    PROVE  [f EXCEPT ![x] = v] \in [S -> T]
  OBVIOUS

LEMMA RunStepInv ==
    ASSUME GateInv, NEW n \in Runs, RunStep(n)
    PROVE  GateInv'
  <1> USE GateAssumption DEF childVars, execVars, taskVars, poolVars, wireVars
  <1>0. TypeOK /\ Known /\ PinPhases /\ PinsLive /\ CachedIsResident
    BY DEF GateInv
  <1>a. toChild' = toChild => CalmChild
    BY ReadsCalmly
  <1>b. toParent' = toParent => CalmParent
    BY ReadsCalmly
  <1>c. \A k \in {"invoke", "resultAck", "cancel"} :
          toChild' = Append(toChild, F(k, n)) => CalmChild
    BY SendsCalmly
  <1>d. CalmChild => toChild' \in Seq(Frame)
    BY DEF CalmChild
  <1>e. CalmParent => toParent' \in Seq(Frame)
    BY DEF CalmParent
  <1>1. ASSUME NEW r \in Res, LookupHit(n, r) PROVE GateInv'
    <2> USE <1>1 DEF LookupHit
    <2>1. CalmChild /\ CalmParent
      BY <1>a, <1>b
    <2>2. TypeOK'
      BY <1>0, <2>1, <1>d, <1>e DEF TypeOK
    <2>3. Known'
      BY <1>0 DEF TypeOK, Known, CachedIsResident
    <2>4. PinPhases' /\ PinsLive' /\ CachedIsResident'
      BY <1>0 DEF TypeOK, PinPhases, PinsLive, CachedIsResident
    <2> QED
      BY <2>1, <2>2, <2>3, <2>4, CalmKeeps DEF GateInv
  <1>2. CASE LookupMiss(n)
    <2> USE <1>2 DEF LookupMiss
    <2>1. CalmChild /\ CalmParent
      BY <1>b, <1>c
    <2>2. TypeOK'
      BY <1>0, <2>1, <1>d, <1>e DEF TypeOK
    <2>3. Known' /\ CachedIsResident'
      BY <1>0 DEF TypeOK, Known, CachedIsResident
    <2>4. PinPhases'
      BY <1>0 DEF TypeOK, PinPhases
    <2>5. PinsLive'
      BY <1>0 DEF TypeOK, PinPhases, PinsLive
    <2> QED
      BY <2>1, <2>2, <2>3, <2>4, <2>5, CalmKeeps DEF GateInv
  <1>3. CASE PinHit(n)
    <2> USE <1>3 DEF PinHit
    <2>1. CalmChild /\ CalmParent
      BY <1>a, <1>b, <1>c
    <2>2. TypeOK'
      <3>1. CASE ref[n] \in condemned
        BY <3>1, <1>0, <2>1, <1>d, <1>e DEF TypeOK
      <3>2. CASE ref[n] \notin condemned
        BY <3>2, <1>0, <2>1, <1>d, <1>e DEF TypeOK
      <3> QED
        BY <3>1, <3>2
    <2>3. Known' /\ CachedIsResident'
      BY <1>0 DEF TypeOK, Known, CachedIsResident
    <2>4. PinPhases'
      BY <1>0 DEF TypeOK, PinPhases
    <2>5. PinsLive'
      BY <1>0 DEF TypeOK, PinPhases, PinsLive
    <2> QED
      BY <2>1, <2>2, <2>3, <2>4, <2>5, CalmKeeps DEF GateInv
  <1>4. CASE ReadResult(n)
    <2> USE <1>4 DEF ReadResult, NextIs
    <2>1. CalmChild /\ CalmParent
      BY <1>a, ReadsCalmly
    <2>2. TypeOK'
      <3>1. CASE pc[n] = "invoking"
        <4>1. object[n] \in Res \cup {None}
          BY <1>0 DEF TypeOK
        <4>2. ref \in [Runs -> Res \cup {None}]
          BY <1>0 DEF TypeOK
        <4>3. ref' = [ref EXCEPT ![n] = object[n]]
          BY <3>1
        <4>4. ref' \in [Runs -> Res \cup {None}]
          BY ONLY <4>1, <4>2, <4>3, ExceptType, n \in Runs
        <4> QED
          BY <3>1, <4>4, <1>0, <2>1, <1>d, <1>e DEF TypeOK
      <3>2. CASE pc[n] # "invoking"
        BY <3>2, <1>0, <2>1, <1>d, <1>e DEF TypeOK
      <3> QED
        BY <3>1, <3>2
    <2>3. Known' /\ CachedIsResident'
      BY <1>0 DEF TypeOK, Known, CachedIsResident
    <2>4. PinPhases'
      BY <1>0 DEF TypeOK, PinPhases
    <2>5. PinsLive'
      BY <1>0 DEF TypeOK, PinPhases, PinsLive
    <2> QED
      BY <2>1, <2>2, <2>3, <2>4, <2>5, CalmKeeps DEF GateInv
  <1>5. CASE Decode(n)
    <2> USE <1>5 DEF Decode
    <2>1. CalmChild /\ CalmParent
      BY <1>a, <1>b, <1>c
    <2>2. TypeOK'
      BY <1>0, <2>1, <1>d, <1>e DEF TypeOK
    <2>3. Known' /\ CachedIsResident'
      BY <1>0 DEF TypeOK, Known, CachedIsResident
    <2>4. PinPhases'
      BY <1>0 DEF TypeOK, PinPhases
    <2>5. PinsLive'
      BY <1>0 DEF TypeOK, PinPhases, PinsLive
    <2> QED
      BY <2>1, <2>2, <2>3, <2>4, <2>5, CalmKeeps DEF GateInv
  <1>6. CASE SendAck(n)
    <2> USE <1>6 DEF SendAck
    <2>1. CalmChild /\ CalmParent
      BY <1>b, <1>c
    <2>2. TypeOK'
      BY <1>0, <2>1, <1>d, <1>e DEF TypeOK
    <2>3. Known' /\ CachedIsResident'
      BY <1>0 DEF TypeOK, Known, CachedIsResident
    <2>4. PinPhases'
      BY <1>0 DEF TypeOK, PinPhases
    <2>5. PinsLive'
      BY <1>0 DEF TypeOK, PinPhases, PinsLive
    <2> QED
      BY <2>1, <2>2, <2>3, <2>4, <2>5, CalmKeeps DEF GateInv
  <1>7. CASE Settle(n)
    <2> USE <1>7 DEF Settle, PinFresh
    <2>1. CalmChild /\ CalmParent
      BY <1>a, <1>b
    <2>2. TypeOK'
      <3>1. CASE Artifacts
        BY <3>1, <1>0, <2>1, <1>d, <1>e DEF TypeOK
      <3>2. CASE ~Artifacts /\ ref[n] \in condemned
        BY <3>2, <1>0, <2>1, <1>d, <1>e DEF TypeOK
      <3>3. CASE ~Artifacts /\ ref[n] \notin condemned
        BY <3>3, <1>0, <2>1, <1>d, <1>e DEF TypeOK
      <3> QED
        BY <3>1, <3>2, <3>3
    <2>3. Known' /\ CachedIsResident'
      BY <1>0 DEF TypeOK, Known, CachedIsResident
    <2>4. PinPhases'
      <3>1. CASE Artifacts
        BY <3>1, <1>0 DEF TypeOK, PinPhases
      <3>2. CASE ~Artifacts /\ ref[n] \in condemned
        BY <3>2, <1>0 DEF TypeOK, PinPhases
      <3>3. CASE ~Artifacts /\ ref[n] \notin condemned
        BY <3>3, <1>0 DEF TypeOK, PinPhases
      <3> QED
        BY <3>1, <3>2, <3>3
    <2>5. PinsLive'
      BY <1>0 DEF TypeOK, PinPhases, PinsLive
    <2> QED
      BY <2>1, <2>2, <2>3, <2>4, <2>5, CalmKeeps DEF GateInv
  <1>8. CASE Vetted(n)
    <2> USE <1>8 DEF Vetted, PinFresh
    <2>1. CalmChild /\ CalmParent
      BY <1>a, <1>b
    <2>2. TypeOK'
      <3>1. CASE ref[n] \in condemned
        BY <3>1, <1>0, <2>1, <1>d, <1>e DEF TypeOK
      <3>2. CASE ref[n] \notin condemned
        BY <3>2, <1>0, <2>1, <1>d, <1>e DEF TypeOK
      <3> QED
        BY <3>1, <3>2
    <2>3. Known' /\ CachedIsResident'
      BY <1>0 DEF TypeOK, Known, CachedIsResident
    <2>4. PinPhases'
      <3>1. CASE ref[n] \in condemned
        <4>1. \A m \in Runs : pc'[m] = IF m = n THEN "refused" ELSE pc[m]
          BY <3>1, <1>0 DEF TypeOK
        <4>2. pinned' = pinned /\ putting' = putting /\ handoff' = handoff /\ ref' = ref
          BY <3>1
        <4> QED
          BY <4>1, <4>2, <1>0 DEF PinPhases
      <3>2. CASE ref[n] \notin condemned
        BY <3>2, <1>0 DEF TypeOK, PinPhases
      <3> QED
        BY <3>1, <3>2
    <2>5. PinsLive'
      BY <1>0 DEF TypeOK, PinPhases, PinsLive
    <2> QED
      BY <2>1, <2>2, <2>3, <2>4, <2>5, CalmKeeps DEF GateInv
  <1>9. CASE Abandon(n)
    <2> USE <1>9 DEF Abandon
    <2>1. CalmChild /\ CalmParent
      BY <1>b, <1>c
    <2>2. TypeOK'
      BY <1>0, <2>1, <1>d, <1>e DEF TypeOK
    <2>3. Known' /\ CachedIsResident'
      BY <1>0 DEF TypeOK, Known, CachedIsResident
    <2>4. PinPhases'
      BY <1>0 DEF TypeOK, PinPhases
    <2>5. PinsLive'
      BY <1>0 DEF TypeOK, PinPhases, PinsLive
    <2> QED
      BY <2>1, <2>2, <2>3, <2>4, <2>5, CalmKeeps DEF GateInv
  <1>10. CASE Put(n)
    <2> USE <1>10 DEF Put
    <2>1. CalmChild /\ CalmParent
      BY <1>a, <1>b
    <2>2. ref[n] \in alive \ condemned
      BY <1>0, RefResolves DEF PinPhases, PinsLive
    <2>3. TypeOK'
      BY <1>0, <2>1, <2>2, <1>d, <1>e DEF TypeOK
    <2>4. Known' /\ PinPhases' /\ PinsLive' /\ CachedIsResident'
      BY <1>0, <2>2 DEF TypeOK, Known, PinPhases, PinsLive, CachedIsResident
    <2> QED
      BY <2>1, <2>3, <2>4, CalmKeeps DEF GateInv
  <1>11. CASE EndRun(n)
    <2> USE <1>11 DEF EndRun
    <2>1. CalmChild /\ CalmParent
      BY <1>a, <1>b
    <2>2. TypeOK'
      BY <1>0, <2>1, <1>d, <1>e DEF TypeOK
    <2>3. Known' /\ CachedIsResident'
      BY <1>0 DEF TypeOK, Known, CachedIsResident
    <2>4. PinPhases'
      BY <1>0 DEF TypeOK, PinPhases
    <2>5. PinsLive'
      BY <1>0 DEF TypeOK, PinPhases, PinsLive
    <2> QED
      BY <2>1, <2>2, <2>3, <2>4, <2>5, CalmKeeps DEF GateInv
  <1> QED
    BY <1>1, <1>2, <1>3, <1>4, <1>5, <1>6, <1>7, <1>8, <1>9, <1>10, <1>11 DEF RunStep

LEMMA EvictInv ==
    ASSUME GateInv, NEW r \in Res, Evict(r)
    PROVE  GateInv'
  <1> USE DEF Evict, runVars, childVars, execVars, taskVars, poolVars, wireVars
  <1>1. CalmChild /\ CalmParent
    BY ReadsCalmly
  <1>2. TypeOK' /\ Known' /\ PinPhases' /\ PinsLive' /\ CachedIsResident'
    BY DEF GateInv, TypeOK, Known, PinPhases, PinsLive, CachedIsResident
  <1> QED
    BY <1>1, <1>2, CalmKeeps DEF GateInv

-----------------------------------------------------------------------------
(* The relay.                                                              *)

(* A step of the relay that neither condemns nor absolves only moves the   *)
(* shed along.                                                             *)
LEMMA ShedMovesInv ==
    ASSUME GateInv, NEW s \in Sheds, NEW to,
           CalmChild, CalmParent,
           UNCHANGED <<runVars, cached, condemned, staked, childVars>>,
           shed' = [shed EXCEPT ![s] = to],
           \/ shed[s] = "idle" /\ to = "query"
           \/ shed[s] = "query" /\ to = "gate"
           \/ shed[s] = "commit" /\ to = "absolve" /\ ~Dropping(s)
           \/ shed[s] \in {"query", "gate", "commit", "absolve"} /\ to = "lost"
           \/ to = shed[s]
    PROVE  GateInv'
  <1> USE DEF runVars, childVars, execVars, taskVars, poolVars
  <1>1. TypeOK'
    BY DEF GateInv, TypeOK, CalmChild, CalmParent
  <1>2. \A t \in Sheds : shed'[t] = IF t = s THEN to ELSE shed[t]
    BY DEF GateInv, TypeOK
  <1>3. Known' /\ PinPhases' /\ PinsLive' /\ Tombstones' /\ CachedIsResident' /\ HeldIsResident'
    BY DEF GateInv, Known, PinPhases, PinsLive, Tombstones, CachedIsResident, HeldIsResident
  <1>4. CommitOnce'
    BY <1>2 DEF GateInv, CommitOnce, CalmChild, CalmParent, Dropping
  <1>5. Stakes'
    BY <1>2 DEF GateInv, Stakes, CommitOnce, Staking, Held
  <1>6. CondemnedForAReason'
    BY <1>2 DEF GateInv, CondemnedForAReason
  <1> QED
    BY <1>1, <1>3, <1>4, <1>5, <1>6 DEF GateInv

LEMMA GateStepInv ==
    ASSUME GateInv, NEW s \in Sheds, NEW bad \in SUBSET Res, Gate(s, bad)
    PROVE  GateInv'
  <1> DEFINE T == GateTakes(s, bad)
  <1> USE DEF Gate, runVars, childVars, execVars, taskVars, poolVars
  <1>0. /\ TypeOK /\ Known /\ PinPhases /\ PinsLive /\ CommitOnce /\ Stakes
        /\ Tombstones /\ CachedIsResident /\ HeldIsResident /\ CondemnedForAReason
    BY DEF GateInv
  <1>1. /\ T \subseteq Proposed(s) \ bad /\ T \subseteq Res
        /\ T \cap condemned = {}
        /\ \A r \in T : ~Pinned(r)
    BY DEF GateTakes, Proposed
  <1>2. T \subseteq alive
    <2> SUFFICES ASSUME NEW r \in T PROVE r \in alive
      OBVIOUS
    <2>1. r \in Res /\ offer[s][r] > 0 /\ offer[s][r] <= used[r]
      BY <1>0, <1>1 DEF Proposed, Known
    <2>2. used[r] > 0
      BY <2>1, <1>0 DEF TypeOK
    <2> QED
      BY <1>0, <1>1, <2>1, <2>2 DEF Known, Tombstones
  <1>3. /\ staked[s] = {} /\ ~Dropping(s) /\ ~Has(toParent, "released", s)
        /\ freed[s] = {}
    BY <1>0 DEF CommitOnce, Stakes
  <1> HIDE DEF T
  <1>4. /\ condemned' = condemned \cup T
        /\ cached' = cached \ (Proposed(s) \ bad)
        /\ \A t \in Sheds : staked'[t] = IF t = s THEN T ELSE staked[t]
        /\ T = {} => shed' = [shed EXCEPT ![s] = "over"] /\ toChild' = toChild
        /\ T # {} => /\ shed' = [shed EXCEPT ![s] = "commit"]
                     /\ toChild' = Append(toChild, F("commit", s))
        /\ staked' = [staked EXCEPT ![s] = T]
    BY <1>0 DEF TypeOK, T
  <1>5. \A t \in Sheds : shed'[t] = IF t = s THEN IF T = {} THEN "over" ELSE "commit"
                                             ELSE shed[t]
    BY <1>4, <1>0 DEF TypeOK
  <1>6. /\ toChild' \in Seq(Frame)
        /\ \A t \in Sheds : /\ t # s /\ Has(toChild', "commit", t) => Has(toChild, "commit", t)
                            /\ T = {} => ~Has(toChild', "commit", s)
                            /\ Once(toChild', "commit", t)
    <2>1. CASE T = {}
      BY <2>1, <1>0, <1>3, <1>4 DEF TypeOK, CommitOnce, Dropping
    <2>2. CASE T # {}
      <3>1. toChild \in Seq(Frame) /\ F("commit", s) \in Frame
        BY <1>0, FrameType DEF TypeOK
      <3>2. \A t \in Sheds : t # s => F("commit", s) # F("commit", t)
        BY FrameEq
      <3>3. ~Has(toChild, "commit", s) /\ \A t \in Sheds : Once(toChild, "commit", t)
        BY <1>0, <1>3 DEF CommitOnce, Dropping
      <3>4. toChild' = Append(toChild, F("commit", s))
        BY <2>2, <1>4
      <3>5. ASSUME NEW t \in Sheds
            PROVE  Has(toChild', "commit", t)
                        <=> Has(toChild, "commit", t) \/ F("commit", s) = F("commit", t)
        BY ONLY <3>1, <3>4, AppendWire
      <3>6. ASSUME NEW t \in Sheds
            PROVE  Once(toChild', "commit", t)
        <4>1. Once(toChild, "commit", t)
                /\ (F("commit", s) # F("commit", t) \/ ~Has(toChild, "commit", t))
          BY <3>2, <3>3, t = s \/ t # s
        <4> QED
          BY ONLY <4>1, <3>1, <3>4, AppendWire
      <3>7. toChild' \in Seq(Frame)
        BY ONLY <3>1, <3>4, AppendWire
      <3> QED
        BY <2>2, <3>2, <3>5, <3>6, <3>7
    <2> QED
      BY <2>1, <2>2
  <1>7. TypeOK'
    BY <1>0, <1>1, <1>4, <1>6 DEF TypeOK
  <1>8. Known' /\ PinPhases' /\ HeldIsResident'
    BY <1>0, <1>2, <1>4 DEF Known, PinPhases, HeldIsResident
  <1>9. PinsLive'
    BY <1>0, <1>1, <1>4 DEF PinsLive, Pinned
  <1>10. Tombstones' /\ CachedIsResident'
    BY <1>0, <1>1, <1>4 DEF Tombstones, CachedIsResident
  <1>11. CommitOnce'
    BY <1>0, <1>3, <1>4, <1>5, <1>6 DEF CommitOnce, Dropping
  <1>12. Stakes'
    <2>1. \A t \in Sheds : shed'[t] \in Staking =>
             staked'[t] \subseteq condemned' /\ staked'[t] \ freed[t] \subseteq alive
      BY <1>0, <1>2, <1>4, <1>5 DEF Stakes, Staking
    <2>2. \A t \in Sheds : freed[t] \subseteq staked'[t]
      BY <1>0, <1>3, <1>4 DEF Stakes
    <2>3. \A t \in Sheds : job[t] = "commit" => wanted[t] \subseteq staked'[t]
      BY <1>0, <1>3, <1>4 DEF Stakes, Dropping
    <2>4. \A t, u \in Sheds :
             t # u /\ shed'[t] \in Staking /\ shed'[u] \in Staking
               => staked'[t] \cap staked'[u] = {}
      BY <1>0, <1>1, <1>4, <1>5 DEF Stakes
    <2> QED
      BY <1>0, <2>1, <2>2, <2>3, <2>4 DEF Stakes, Held
  <1>13. CondemnedForAReason'
    BY <1>0, <1>4, <1>5, <1>3 DEF CondemnedForAReason
  <1> QED
    BY <1>7, <1>8, <1>9, <1>10, <1>11, <1>12, <1>13 DEF GateInv

LEMMA AbsolveInv ==
    ASSUME GateInv, NEW s \in Sheds, Absolve(s)
    PROVE  GateInv'
  <1> USE DEF Absolve, runVars, childVars, execVars, taskVars, poolVars, wireVars
  <1>0. /\ TypeOK /\ Known /\ PinPhases /\ PinsLive /\ CommitOnce /\ Stakes
        /\ Tombstones /\ CachedIsResident /\ HeldIsResident /\ CondemnedForAReason
    BY DEF GateInv
  <1>1. \A t \in Sheds : shed'[t] = IF t = s THEN "over" ELSE shed[t]
    BY <1>0 DEF TypeOK
  <1>2. staked[s] \ freed[s] \subseteq alive
    BY <1>0 DEF Stakes, Staking
  <1>3. TypeOK'
    BY <1>0 DEF TypeOK
  <1>4. Known' /\ PinPhases' /\ PinsLive' /\ CachedIsResident' /\ HeldIsResident'
    BY <1>0 DEF Known, PinPhases, PinsLive, CachedIsResident, HeldIsResident
  <1>5. Tombstones'
    BY <1>0, <1>2 DEF Tombstones
  <1>6. CommitOnce'
    BY <1>0, <1>1 DEF CommitOnce, Dropping
  <1>7. Stakes'
    BY <1>0, <1>1 DEF Stakes, Staking, Held
  <1>8. CondemnedForAReason'
    BY <1>0, <1>1 DEF CondemnedForAReason, Stakes, Staking
  <1> QED
    BY <1>3, <1>4, <1>5, <1>6, <1>7, <1>8 DEF GateInv

LEMMA ShedStepInv ==
    ASSUME GateInv, NEW s \in Sheds, ShedStep(s)
    PROVE  GateInv'
  <1> USE DEF wireVars
  <1>1. CASE StartShed(s)
    <2>1. CalmChild /\ CalmParent
      BY <1>1, SendsCalmly, ReadsCalmly DEF StartShed
    <2> QED
      BY <1>1, <2>1, ShedMovesInv DEF StartShed
  <1>2. CASE ReadReply(s, "candidates", "query", "gate")
    <2>1. CalmChild /\ CalmParent
      BY <1>2, ReadsCalmly DEF ReadReply, NextIs
    <2> QED
      BY <1>2, <2>1, ShedMovesInv DEF ReadReply
  <1>3. CASE \E bad \in SUBSET Res : Gate(s, bad)
    BY <1>3, GateStepInv
  <1>4. CASE ReadReply(s, "released", "commit", "absolve")
    <2>1. CalmChild /\ CalmParent
      BY <1>4, ReadsCalmly DEF ReadReply, NextIs
    <2>2. Has(toParent, "released", s)
      BY <1>4, TailWire DEF ReadReply, NextIs, GateInv, TypeOK
    <2>3. ~Dropping(s)
      BY <2>2 DEF GateInv, CommitOnce
    <2> QED
      BY <1>4, <2>1, <2>3, ShedMovesInv DEF ReadReply
  <1>5. CASE Absolve(s)
    BY <1>5, AbsolveInv
  <1>6. CASE GiveUp(s)
    <2>1. CalmChild /\ CalmParent
      BY <1>6, ReadsCalmly DEF GiveUp
    <2> QED
      BY <1>6, <2>1, ShedMovesInv DEF GiveUp
  <1> QED
    BY <1>1, <1>2, <1>3, <1>4, <1>5, <1>6 DEF ShedStep

-----------------------------------------------------------------------------
(* The child.                                                              *)

(* A step of an invocation's task or of the read loop that takes nothing   *)
(* out of the pool and puts nothing in; references may only go.            *)
LEMMA ExecMovesInv ==
    ASSUME GateInv, CalmChild, CalmParent,
           UNCHANGED <<parentVars, taskVars, poolVars>>,
           exec' \in [Runs -> {"none", "started", "working", "encoded", "over"}],
           object' \in [Runs -> Res \cup {None}],
           hold' \in [Runs -> Res \cup {None}],
           \A m \in Runs : object'[m] \in {object[m], None} /\ hold'[m] \in {hold[m], None}
    PROVE  GateInv'
  <1> USE GateAssumption DEF parentVars, runVars, taskVars, poolVars
  <1>1. TypeOK'
    BY DEF GateInv, TypeOK, CalmChild, CalmParent
  <1>2. Known'
    BY DEF GateInv, Known
  <1>3. PinPhases' /\ PinsLive' /\ Tombstones' /\ CachedIsResident' /\ CondemnedForAReason'
    BY DEF GateInv, PinPhases, PinsLive, Tombstones, CachedIsResident, CondemnedForAReason
  <1>4. HeldIsResident'
    BY DEF GateInv, HeldIsResident
  <1>5. CommitOnce'
    BY DEF GateInv, CommitOnce, CalmChild, CalmParent, Dropping
  <1>6. \A r \in Res : r \in Held' => r \in Held
    BY DEF Held
  <1>7. Stakes'
    BY <1>6 DEF GateInv, TypeOK, Stakes
  <1> QED
    BY <1>1, <1>2, <1>3, <1>4, <1>5, <1>7 DEF GateInv

(* A step of an invocation's task that uses a resident.                    *)
LEMMA TouchInv ==
    ASSUME GateInv, NEW r \in Res, Touch(r),
           UNCHANGED <<parentVars, wireVars, taskVars>>,
           exec' \in [Runs -> {"none", "started", "working", "encoded", "over"}],
           object' \in [Runs -> Res \cup {None}],
           hold' \in [Runs -> Res \cup {None}],
           \A m \in Runs : object'[m] \in {object[m], r} /\ hold'[m] \in {hold[m], r}
    PROVE  GateInv'
  <1> USE GateAssumption DEF parentVars, runVars, taskVars, wireVars
  <1>0. /\ TypeOK /\ Known /\ PinPhases /\ PinsLive /\ CommitOnce /\ Stakes
        /\ Tombstones /\ CachedIsResident /\ HeldIsResident /\ CondemnedForAReason
    BY DEF GateInv
  <1>1. /\ nextRes \in Nat /\ nextRes' \in Nat /\ nextRes <= nextRes'
        /\ r < nextRes' /\ r \in Nat
        /\ nextRes' \in 1 .. MaxRes + 1
        /\ \A q \in Res : q < nextRes' => q < nextRes \/ q = r
        /\ r \in alive \/ r = nextRes
        /\ alive' = alive \cup {r}
    BY <1>0 DEF Touch, TypeOK, Known, Res
  <1>2. \A q \in Res : used'[q] = IF q = r THEN used[q] + 1 ELSE used[q]
    BY <1>0 DEF Touch, TypeOK
  <1>3. used' \in [Res -> Nat]
    BY <1>0 DEF Touch, TypeOK
  <1>4. TypeOK'
    BY <1>0, <1>1, <1>3 DEF TypeOK
  <1>5. Known'
    <2>1. \A n \in Runs : /\ ref'[n] # None => ref'[n] < nextRes'
                          /\ object'[n] # None => object'[n] < nextRes'
      BY <1>0, <1>1 DEF Known, TypeOK, Res
    <2>2. \A q \in alive' \cup condemned' : q < nextRes'
      BY <1>0, <1>1 DEF Known, TypeOK, Res
    <2>3. \A s \in Sheds : \A q \in staked'[s] : q < nextRes'
      BY <1>0, <1>1 DEF Known, TypeOK, Res
    <2>4. \A q \in Res : used'[q] > 0 => q < nextRes'
      BY <1>0, <1>1, <1>2 DEF Known, TypeOK, Res
    <2>5. ASSUME NEW s \in Sheds, NEW q \in Res PROVE offer'[s][q] <= used'[q]
      <3>1. offer[s][q] \in Nat /\ used[q] \in Nat /\ offer[s][q] <= used[q]
        BY <1>0 DEF Known, TypeOK
      <3>2. offer' = offer /\ used'[q] >= used[q] /\ used'[q] \in Nat
        BY <1>2, <3>1
      <3> QED
        BY <3>1, <3>2
    <2> QED
      BY <2>1, <2>2, <2>3, <2>4, <2>5 DEF Known
  <1>6. PinPhases' /\ PinsLive' /\ CachedIsResident' /\ HeldIsResident'
    BY <1>0, <1>1 DEF PinPhases, PinsLive, CachedIsResident, HeldIsResident
  <1>7. Tombstones'
    BY <1>0, <1>1 DEF Tombstones
  <1>8. CommitOnce'
    BY <1>0 DEF CommitOnce, Dropping
  <1>9. r \notin alive => r \notin condemned /\ \A s \in Sheds : r \notin staked[s]
    BY <1>0, <1>1 DEF Known
  <1>10. CondemnedForAReason'
    BY <1>0, <1>1, <1>9 DEF CondemnedForAReason
  <1>11. Stakes'
    <2>1. \A s \in Sheds : freed[s] \subseteq staked[s] /\ freed[s] \cap alive' = {}
      BY <1>0, <1>1, <1>9 DEF Stakes
    <2>2. \A q \in Res : q \in Held' => q \in Held \/ q = r
      BY DEF Held
    <2>3. ASSUME NEW s \in Sheds, job[s] = "commit", NEW q \in wanted[s], q \in Held'
          PROVE  offer[s][q] < used'[q]
      <3>1. q \in Res /\ offer[s][q] \in Nat /\ used[q] \in Nat /\ offer[s][q] <= used[q]
        BY <2>3, <1>0 DEF TypeOK, Known
      <3>2. CASE q = r
        BY <3>1, <3>2, <1>2
      <3>3. CASE q # r
        BY <3>1, <3>3, <2>2, <2>3, <1>2, <1>0 DEF Stakes
      <3> QED
        BY <3>2, <3>3
    <2> QED
      BY <1>0, <1>1, <2>1, <2>3 DEF Stakes
  <1> QED
    BY <1>4, <1>5, <1>6, <1>7, <1>8, <1>10, <1>11 DEF GateInv

LEMMA ChildRunInv ==
    ASSUME GateInv, NEW n \in Runs, ChildRun(n)
    PROVE  GateInv'
  <1> USE GateAssumption DEF wireVars, execVars
  <1>0. /\ exec \in [Runs -> {"none", "started", "working", "encoded", "over"}]
        /\ object \in [Runs -> Res \cup {None}]
        /\ hold \in [Runs -> Res \cup {None}]
    BY DEF GateInv, TypeOK
  <1>1. CASE ReadInvoke(n)
    <2>1. CalmChild /\ CalmParent
      BY <1>1, ReadsCalmly DEF ReadInvoke, NextIs
    <2> QED
      BY <1>0, <1>1, <2>1, ExecMovesInv DEF ReadInvoke
  <1>2. CASE ReadAck(n)
    <2>1. CalmChild /\ CalmParent
      BY <1>2, ReadsCalmly DEF ReadAck, NextIs
    <2> QED
      BY <1>0, <1>2, <2>1, ExecMovesInv DEF ReadAck
  <1>3. CASE ReadCancel(n)
    <2>1. CalmChild /\ CalmParent
      BY <1>3, ReadsCalmly DEF ReadCancel, NextIs
    <2> QED
      BY <1>0, <1>3, <2>1, ExecMovesInv DEF ReadCancel
  <1>4. ASSUME NEW r \in Res, Obtain(n, r) PROVE GateInv'
    BY <1>0, <1>4, TouchInv DEF Obtain
  <1>5. ASSUME NEW r \in Res, Encode(n, r) PROVE GateInv'
    <2>1. /\ exec' \in [Runs -> {"none", "started", "working", "encoded", "over"}]
          /\ object' \in [Runs -> Res \cup {None}]
          /\ hold' \in [Runs -> Res \cup {None}]
          /\ \A m \in Runs : object'[m] \in {object[m], r} /\ hold'[m] \in {hold[m], r}
      BY <1>0, <1>5 DEF Encode
    <2> QED
      BY <1>5, <2>1, TouchInv DEF Encode
  <1>6. CASE SendResult(n)
    <2>1. CalmChild /\ CalmParent
      BY <1>6, SendsCalmly, ReadsCalmly DEF SendResult
    <2> QED
      BY <1>0, <1>6, <2>1, ExecMovesInv DEF SendResult
  <1>7. CASE SendError(n)
    <2>1. CalmChild /\ CalmParent
      BY <1>7, SendsCalmly, ReadsCalmly DEF SendError
    <2> QED
      BY <1>0, <1>7, <2>1, ExecMovesInv DEF SendError
  <1> QED
    BY <1>1, <1>2, <1>3, <1>4, <1>5, <1>6, <1>7 DEF ChildRun

LEMMA QueryInv ==
    ASSUME GateInv, NEW s \in Sheds,
           ReadQuery(s) \/ \E picks \in SUBSET Res : RunQuery(s, picks)
    PROVE  GateInv'
  <1> USE GateAssumption DEF parentVars, runVars, execVars, poolVars
  <1>0. /\ TypeOK /\ Known /\ PinPhases /\ PinsLive /\ CommitOnce /\ Stakes
        /\ Tombstones /\ CachedIsResident /\ HeldIsResident /\ CondemnedForAReason
    BY DEF GateInv
  <1>1. /\ CalmChild /\ CalmParent
        /\ UNCHANGED <<parentVars, execVars, wanted, freed, poolVars>>
    <2>1. CASE ReadQuery(s)
      BY <2>1, ReadsCalmly DEF ReadQuery, NextIs
    <2>2. CASE \E picks \in SUBSET Res : RunQuery(s, picks)
      BY <2>2, ReadsCalmly, SendsCalmly DEF RunQuery
    <2> QED
      BY <2>1, <2>2
  <1>2. /\ \A t \in Sheds : job'[t] = "commit" => t # s /\ job[t] = "commit"
        /\ job' \in [Sheds -> {"none", "query", "commit"}]
    BY <1>0 DEF ReadQuery, RunQuery, TypeOK
  <1>3. /\ offer' \in [Sheds -> [Res -> Nat]]
        /\ \A t \in Sheds : t # s => offer'[t] = offer[t]
        /\ \A r \in Res : offer'[s][r] <= used[r]
    <2>1. CASE ReadQuery(s)
      BY <2>1, <1>0 DEF ReadQuery, TypeOK, Known
    <2>2. ASSUME NEW picks \in SUBSET Res, RunQuery(s, picks)
          PROVE  /\ offer' \in [Sheds -> [Res -> Nat]]
                 /\ \A t \in Sheds : t # s => offer'[t] = offer[t]
                 /\ \A r \in Res : offer'[s][r] <= used[r]
      <3> DEFINE o == [r \in Res |-> IF r \in picks THEN used[r] ELSE 0]
      <3>1. o \in [Res -> Nat] /\ \A r \in Res : o[r] <= used[r]
        BY <1>0 DEF TypeOK
      <3>2. offer' = [offer EXCEPT ![s] = o]
        BY <2>2 DEF RunQuery
      <3> HIDE DEF o
      <3> QED
        BY <3>1, <3>2, <1>0 DEF TypeOK
    <2> QED
      BY <2>1, <2>2
  <1>4. TypeOK'
    BY <1>0, <1>1, <1>2, <1>3 DEF TypeOK, CalmChild, CalmParent
  <1>5. Known'
    BY <1>0, <1>1, <1>3 DEF Known
  <1>6. /\ PinPhases' /\ PinsLive' /\ Tombstones' /\ CachedIsResident'
        /\ HeldIsResident' /\ CondemnedForAReason'
    BY <1>0, <1>1 DEF PinPhases, PinsLive, Tombstones, CachedIsResident,
                      HeldIsResident, CondemnedForAReason
  <1>7. CommitOnce'
    BY <1>0, <1>1, <1>2 DEF CommitOnce, CalmChild, CalmParent, Dropping
  <1>8. Stakes'
    <2>1. Held' = Held
      BY <1>1 DEF Held
    <2>2. ASSUME NEW t \in Sheds, job'[t] = "commit"
          PROVE  /\ wanted'[t] \subseteq staked'[t]
                 /\ \A r \in wanted'[t] : r \in Held' => offer'[t][r] < used'[r]
      BY <2>1, <2>2, <1>0, <1>1, <1>2, <1>3 DEF Stakes
    <2>3. UNCHANGED <<freed, staked, shed, condemned, alive>>
      BY <1>1
    <2> QED
      BY <2>2, <2>3, <1>0 DEF Stakes
  <1> QED
    BY <1>4, <1>5, <1>6, <1>7, <1>8 DEF GateInv

LEMMA ReadCommitInv ==
    ASSUME GateInv, NEW s \in Sheds, ReadCommit(s)
    PROVE  GateInv'
  <1> USE GateAssumption DEF parentVars, runVars, execVars, poolVars
  <1>0. /\ TypeOK /\ Known /\ PinPhases /\ PinsLive /\ CommitOnce /\ Stakes
        /\ Tombstones /\ CachedIsResident /\ HeldIsResident /\ CondemnedForAReason
    BY DEF GateInv
  <1>1. /\ CalmChild /\ CalmParent
        /\ UNCHANGED <<parentVars, execVars, offer, freed, poolVars, toParent>>
        /\ toChild \in Seq(Frame) /\ toChild # <<>> /\ toChild' = Tail(toChild)
        /\ Head(toChild) = F("commit", s)
    BY <1>0, ReadsCalmly DEF ReadCommit, NextIs, TypeOK
  <1>2. Has(toChild, "commit", s) /\ ~Has(toChild', "commit", s)
    BY <1>0, <1>1, TailWire DEF CommitOnce
  <1>3. /\ \A t \in Sheds : job'[t] = IF t = s THEN "commit" ELSE job[t]
        /\ \A t \in Sheds : wanted'[t] = IF t = s THEN staked[s] \ Held ELSE wanted[t]
        /\ job' \in [Sheds -> {"none", "query", "commit"}]
        /\ wanted' \in [Sheds -> SUBSET Res]
    BY <1>0 DEF ReadCommit, TypeOK
  <1>4. TypeOK'
    BY <1>0, <1>1, <1>3 DEF TypeOK, CalmChild, CalmParent
  <1>5. /\ Known' /\ PinPhases' /\ PinsLive' /\ Tombstones' /\ CachedIsResident'
        /\ HeldIsResident' /\ CondemnedForAReason'
    BY <1>0, <1>1 DEF Known, PinPhases, PinsLive, Tombstones, CachedIsResident,
                      HeldIsResident, CondemnedForAReason
  <1>6. CommitOnce'
    BY <1>0, <1>1, <1>2, <1>3 DEF CommitOnce, CalmChild, CalmParent, Dropping
  <1>7. Stakes'
    BY <1>0, <1>1, <1>3 DEF Stakes, Held
  <1> QED
    BY <1>4, <1>5, <1>6, <1>7 DEF GateInv

LEMMA RunCommitInv ==
    ASSUME GateInv, NEW s \in Sheds, NEW gone \in SUBSET Res, RunCommit(s, gone)
    PROVE  GateInv'
  <1> USE GateAssumption DEF parentVars, runVars, execVars
  <1>0. /\ TypeOK /\ Known /\ PinPhases /\ PinsLive /\ CommitOnce /\ Stakes
        /\ Tombstones /\ CachedIsResident /\ HeldIsResident /\ CondemnedForAReason
    BY DEF GateInv
  <1>1. /\ job[s] = "commit"
        /\ UNCHANGED <<parentVars, toChild, execVars, offer, wanted, used, nextRes>>
        /\ alive' = alive \ gone
        /\ toParent' = Append(toParent, F("released", s))
    BY DEF RunCommit
  <1>2. /\ shed[s] \in {"commit", "lost"} /\ freed[s] = {}
        /\ ~Has(toChild, "commit", s)
    BY <1>0, <1>1 DEF CommitOnce, Dropping
  <1>3. gone \subseteq staked[s] /\ gone \subseteq condemned /\ gone \subseteq alive
    BY <1>0, <1>1, <1>2 DEF RunCommit, Unused, Stakes, Staking
  <1>4. \A r \in gone : r \notin Held
    <2> SUFFICES ASSUME NEW r \in gone, r \in Held PROVE FALSE
      OBVIOUS
    <2>1. r \in wanted[s] /\ used[r] = offer[s][r]
      BY DEF RunCommit, Unused
    <2>2. offer[s][r] < used[r] /\ used[r] \in Nat
      BY <1>0, <1>1, <2>1 DEF Stakes, TypeOK
    <2> QED
      BY <2>1, <2>2
  <1>5. /\ \A t \in Sheds : job'[t] = IF t = s THEN "none" ELSE job[t]
        /\ \A t \in Sheds : freed'[t] = IF t = s THEN gone ELSE freed[t]
        /\ job' \in [Sheds -> {"none", "query", "commit"}]
        /\ freed' \in [Sheds -> SUBSET Res]
    BY <1>0 DEF RunCommit, TypeOK
  <1>6. /\ toParent' \in Seq(Frame)
        /\ \A t \in Sheds : t # s => (Has(toParent', "released", t) => Has(toParent, "released", t))
    <2>1. toParent \in Seq(Frame) /\ F("released", s) \in Frame
      BY <1>0, FrameType DEF TypeOK
    <2>2. \A t \in Sheds : t # s => F("released", s) # F("released", t)
      BY FrameEq
    <2> QED
      BY <1>1, <2>1, <2>2, AppendWire
  <1>7. TypeOK'
    BY <1>0, <1>1, <1>5, <1>6 DEF TypeOK
  <1>8. Known' /\ PinPhases' /\ PinsLive'
    BY <1>0, <1>1 DEF Known, PinPhases, PinsLive
  <1>9. Tombstones' /\ CachedIsResident' /\ CondemnedForAReason'
    BY <1>0, <1>1, <1>3 DEF Tombstones, CachedIsResident, CondemnedForAReason
  <1>10. HeldIsResident'
    BY <1>0, <1>1, <1>4 DEF HeldIsResident, Held
  <1>11. CommitOnce'
    BY <1>0, <1>1, <1>2, <1>5, <1>6 DEF CommitOnce, Dropping
  <1>12. Stakes'
    <2>1. \A t \in Sheds : freed'[t] \subseteq staked[t] /\ freed'[t] \cap alive' = {}
      BY <1>0, <1>1, <1>3, <1>5 DEF Stakes
    <2>2. ASSUME NEW t \in Sheds, shed[t] \in Staking
          PROVE  staked[t] \ freed'[t] \subseteq alive'
      <3>1. CASE t = s
        BY <3>1, <2>2, <1>0, <1>1, <1>2, <1>5 DEF Stakes
      <3>2. CASE t # s
        <4>1. staked[t] \cap gone = {}
          BY <3>2, <2>2, <1>0, <1>2, <1>3 DEF Stakes, Staking
        <4> QED
          BY <4>1, <3>2, <2>2, <1>0, <1>1, <1>5 DEF Stakes
      <3> QED
        BY <3>1, <3>2
    <2> QED
      BY <1>0, <1>1, <1>5, <2>1, <2>2 DEF Stakes, Held
  <1> QED
    BY <1>7, <1>8, <1>9, <1>10, <1>11, <1>12 DEF GateInv

-----------------------------------------------------------------------------
LEMMA InitInv == Init => GateInv
  <1> SUFFICES ASSUME Init PROVE GateInv
    OBVIOUS
  <1> USE GateAssumption DEF Init
  <1>1. TypeOK
    BY DEF TypeOK, Res
  <1>2. Known /\ PinPhases /\ PinsLive /\ Stakes
    BY DEF Known, PinPhases, PinsLive, Stakes, Staking, Res
  <1>3. CommitOnce
    BY DEF CommitOnce, Dropping, Has, Once
  <1>4. Tombstones /\ CachedIsResident /\ HeldIsResident /\ CondemnedForAReason
    BY DEF Tombstones, CachedIsResident, HeldIsResident, CondemnedForAReason, Res
  <1> QED
    BY <1>1, <1>2, <1>3, <1>4 DEF GateInv

LEMMA NextInv == GateInv /\ [Next]_vars => GateInv'
  <1> SUFFICES ASSUME GateInv, [Next]_vars PROVE GateInv'
    OBVIOUS
  <1>1. ASSUME NEW n \in Runs, RunStep(n) \/ ChildRun(n) PROVE GateInv'
    BY <1>1, RunStepInv, ChildRunInv
  <1>2. ASSUME NEW s \in Sheds, ShedStep(s) \/ ChildShed(s) PROVE GateInv'
    BY <1>2, ShedStepInv, QueryInv, ReadCommitInv, RunCommitInv DEF ChildShed
  <1>3. ASSUME NEW r \in Res, Evict(r) PROVE GateInv'
    BY <1>3, EvictInv
  <1>4. CASE UNCHANGED vars
    <2>1. UNCHANGED <<parentVars, wireVars, childVars>>
      BY <1>4 DEF vars
    <2>2. CalmChild /\ CalmParent
      BY <2>1, ReadsCalmly DEF wireVars
    <2>3. UNCHANGED <<condemned, shed, staked, childVars>>
      BY <2>1 DEF parentVars
    <2>4. TypeOK' /\ Known' /\ PinPhases' /\ PinsLive' /\ CachedIsResident'
      BY <2>1 DEF GateInv, parentVars, runVars, wireVars, childVars, execVars,
                  taskVars, poolVars, TypeOK, Known, PinPhases, PinsLive,
                  CachedIsResident
    <2> QED
      BY <2>2, <2>3, <2>4, CalmKeeps DEF GateInv
  <1> QED
    BY <1>1, <1>2, <1>3, <1>4 DEF Next

(* The invariant of the release protocol holds throughout.                 *)
THEOREM GateInvariant == Spec => []GateInv
  BY InitInv, NextInv, PTL DEF Spec

(* Both processes and the frames between them keep their types.            *)
THEOREM GateTypes == Spec => []TypeOK
  BY GateInvariant, PTL DEF GateInv

(* Nothing a run or a decoding invocation has pinned is ever dropped, for  *)
(* any number of runs and of releases under way at the same time.          *)
THEOREM PinsProtect == Spec => []PinnedIsResident
  <1>1. GateInv => PinnedIsResident
    BY RefResolves DEF GateInv, PinPhases, PinsLive, PinnedIsResident
  <1> QED
    BY <1>1, GateInvariant, PTL

(* The parent's cache only ever refers to residents that are in the pool   *)
(* and not about to leave it.                                              *)
THEOREM CacheResolves == Spec => []CachedIsResident
  BY GateInvariant, PTL DEF GateInv

(* What a result on the wire refers to stays in the pool until it is       *)
(* acknowledged.                                                           *)
THEOREM HoldsProtect == Spec => []HeldIsResident
  BY GateInvariant, PTL DEF GateInv

(* A refused release gives back every condemnation it made.                *)
THEOREM CondemnationsEnd == Spec => []CondemnedForAReason
  BY GateInvariant, PTL DEF GateInv

(* A released resident can never be pinned again.                          *)
THEOREM TombstonesStand == Spec => []Tombstones
  BY GateInvariant, PTL DEF GateInv
=============================================================================
