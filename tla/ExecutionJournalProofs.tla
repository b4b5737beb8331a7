----------------------- MODULE ExecutionJournalProofs -----------------------
(***************************************************************************)
(* The execution journal for any set of runs, any retention and any bounds *)
(* on events and faults.                                                   *)
(***************************************************************************)
EXTENDS ExecutionJournal, FiniteSetTheorems, WellFoundedInduction, TLAPS

-----------------------------------------------------------------------------
(* Retention.                                                              *)

(* Finish times of runs: positive ones are different, and of the log.      *)
Times(t, n) ==
    /\ t \in [Runs -> 0 .. n]
    /\ \A q, r \in Runs : t[q] = t[r] /\ t[q] > 0 => q = r

Dated(t) == {r \in Runs : t[r] > 0}
Newer(t, r) == {q \in Runs : t[q] > t[r]}

(* Only finitely many runs have a finish time.                             *)
LEMMA DatedFinite ==
    ASSUME NEW n \in Nat, NEW t, Times(t, n)
    PROVE  IsFiniteSet(Dated(t)) /\ Cardinality(Dated(t)) \in Nat
  <1> DEFINE f == [r \in Dated(t) |-> t[r]]
  <1>1. f \in [Dated(t) -> 1 .. n]
    BY SMT DEF Times, Dated
  <1>2. \A q, r \in Dated(t) : f[q] = f[r] => q = r
    BY DEF Times, Dated
  <1>3. f \in Injection(Dated(t), 1 .. n)
    BY <1>1, <1>2 DEF Injection, IsInjective
  <1>4. IsFiniteSet(1 .. n)
    BY FS_Interval
  <1>5. IsFiniteSet(Dated(t))
    BY <1>3, <1>4, FS_Injection
  <1> QED
    BY <1>5, FS_CardinalityType

(* The number of newer runs tells dated runs apart and is less than the    *)
(* number of them.                                                         *)
LEMMA RanksApart ==
    ASSUME NEW n \in Nat, NEW t, Times(t, n)
    PROVE  /\ \A r \in Dated(t) : /\ Cardinality(Newer(t, r)) \in Nat
                                  /\ Cardinality(Newer(t, r)) < Cardinality(Dated(t))
           /\ \A q, r \in Dated(t) : Cardinality(Newer(t, q)) = Cardinality(Newer(t, r)) => q = r
  <1>0. IsFiniteSet(Dated(t)) /\ Cardinality(Dated(t)) \in Nat
    BY DatedFinite
  <1>t. \A r \in Runs : t[r] \in Nat
    BY SMT DEF Times
  <1>1. ASSUME NEW r \in Dated(t)
        PROVE  /\ Newer(t, r) \subseteq Dated(t) /\ r \notin Newer(t, r)
               /\ IsFiniteSet(Newer(t, r)) /\ Cardinality(Newer(t, r)) \in Nat
               /\ Cardinality(Newer(t, r)) < Cardinality(Dated(t))
    <2>1. Newer(t, r) \subseteq Dated(t) /\ r \notin Newer(t, r)
      BY <1>t, SMT DEF Newer, Dated
    <2>2. /\ IsFiniteSet(Newer(t, r))
          /\ Cardinality(Newer(t, r)) <= Cardinality(Dated(t))
          /\ Cardinality(Dated(t)) # Cardinality(Newer(t, r))
      BY <1>0, <2>1, FS_Subset
    <2>3. Cardinality(Newer(t, r)) \in Nat
      BY <2>2, FS_CardinalityType
    <2>4. Cardinality(Newer(t, r)) < Cardinality(Dated(t))
      BY <1>0, <2>2, <2>3, SMT
    <2> QED
      BY <2>1, <2>2, <2>3, <2>4
  <1>2. ASSUME NEW q \in Dated(t), NEW r \in Dated(t), t[q] < t[r]
        PROVE  Cardinality(Newer(t, q)) # Cardinality(Newer(t, r))
    <2>1. Newer(t, r) \subseteq Newer(t, q) /\ r \in Newer(t, q) /\ r \notin Newer(t, r)
      BY <1>2, <1>t, SMT DEF Newer, Dated
    <2>2. IsFiniteSet(Newer(t, q))
      BY <1>1
    <2>3. Newer(t, r) # Newer(t, q)
      BY <2>1
    <2> QED
      BY <2>1, <2>2, <2>3, FS_Subset
  <1>3. ASSUME NEW q \in Dated(t), NEW r \in Dated(t), q # r
        PROVE  t[q] < t[r] \/ t[r] < t[q]
    <2>1. t[q] # t[r] /\ t[q] \in Nat /\ t[r] \in Nat
      BY <1>3, <1>t DEF Times, Dated
    <2> QED
      BY <2>1, SMT
  <1> QED
    BY <1>1, <1>2, <1>3

(* _expire leaves at most keep_runs finished runs, and exactly as many if  *)
(* there were that many.                                                   *)
LEMMA KeptRuns ==
    ASSUME NEW n \in Nat, NEW t, Times(t, n)
    PROVE  LET kept == Dated(t) \ Expired(t)
           IN  /\ Cardinality(kept) <= KeepRuns
               /\ KeepRuns <= Cardinality(Dated(t)) => Cardinality(kept) = KeepRuns
  <1> DEFINE F == Dated(t)
             kept == F \ Expired(t)
             m == Cardinality(F)
             rank(r) == Cardinality(Newer(t, r))
             f == [r \in F |-> rank(r)]
             g == [r \in kept |-> rank(r)]
  <1>k. KeepRuns \in Nat
    BY JournalAssumption
  <1>0. IsFiniteSet(F) /\ m \in Nat
    BY DatedFinite
  <1>1. /\ \A r \in F : rank(r) \in Nat /\ rank(r) < m
        /\ \A q, r \in F : rank(q) = rank(r) => q = r
    BY RanksApart
  <1>2. kept = {r \in F : rank(r) < KeepRuns}
    <2>1. \A r \in F : r \in Expired(t) <=> rank(r) >= KeepRuns
      BY DEF Expired, Dated, Newer
    <2>2. \A r \in F : ~(rank(r) >= KeepRuns) <=> rank(r) < KeepRuns
      BY <1>1, <1>k, SMT
    <2> QED
      BY <2>1, <2>2
  <1> HIDE DEF F, kept, m, rank
  <1>3. g \in Injection(kept, 0 .. KeepRuns - 1)
    <2>1. g \in [kept -> 0 .. KeepRuns - 1]
      BY <1>1, <1>2, <1>k, SMT
    <2>2. \A q, r \in kept : g[q] = g[r] => q = r
      BY <1>1, <1>2
    <2> QED
      BY <2>1, <2>2 DEF Injection, IsInjective
  <1>4. IsFiniteSet(0 .. KeepRuns - 1) /\ Cardinality(0 .. KeepRuns - 1) = KeepRuns
    <2>1. /\ IsFiniteSet(0 .. KeepRuns - 1)
          /\ Cardinality(0 .. KeepRuns - 1) =
                IF 0 > KeepRuns - 1 THEN 0 ELSE KeepRuns - 1 - 0 + 1
      BY <1>k, FS_Interval
    <2> QED
      BY <2>1, <1>k, SMT
  <1>5. /\ Cardinality(kept) <= KeepRuns
        /\ Cardinality(kept) = KeepRuns <=> g \in Surjection(kept, 0 .. KeepRuns - 1)
    BY <1>3, <1>4, FS_Injection
  <1>6. ASSUME KeepRuns <= m PROVE Cardinality(kept) = KeepRuns
    <2>1. f \in Injection(F, 0 .. m - 1)
      <3>1. f \in [F -> 0 .. m - 1]
        BY <1>0, <1>1, SMT
      <3>2. \A q, r \in F : f[q] = f[r] => q = r
        BY <1>1
      <3> QED
        BY <3>1, <3>2 DEF Injection, IsInjective
    <2>2. IsFiniteSet(0 .. m - 1) /\ Cardinality(0 .. m - 1) = m
      <3>1. /\ IsFiniteSet(0 .. m - 1)
            /\ Cardinality(0 .. m - 1) = IF 0 > m - 1 THEN 0 ELSE m - 1 - 0 + 1
        BY <1>0, FS_Interval
      <3> QED
        BY <3>1, <1>0, SMT
    <2>3. f \in Surjection(F, 0 .. m - 1)
      BY <2>1, <2>2, FS_Injection DEF m
    <2>4. \A k \in 0 .. KeepRuns - 1 : \E r \in kept : g[r] = k
      <3> SUFFICES ASSUME NEW k \in 0 .. KeepRuns - 1 PROVE \E r \in kept : g[r] = k
        OBVIOUS
      <3>1. k \in 0 .. m - 1 /\ k < KeepRuns
        BY <1>0, <1>6, <1>k, SMT
      <3>2. PICK r \in F : f[r] = k
        BY <2>3, <3>1 DEF Surjection
      <3>3. rank(r) = k
        BY <3>2
      <3> QED
        BY <1>2, <3>1, <3>3
    <2>5. g \in Surjection(kept, 0 .. KeepRuns - 1)
      <3>1. g \in [kept -> 0 .. KeepRuns - 1]
        BY <1>3 DEF Injection
      <3> QED
        BY <2>4, <3>1 DEF Surjection
    <2> QED
      BY <1>5, <2>5
  <1> QED
    BY <1>5, <1>6 DEF kept, F, m

(* A set of natural numbers that is not empty has a least element.         *)
LEMMA LeastNatural ==
    ASSUME NEW T, T \subseteq Nat, T # {}
    PROVE  \E m \in T : \A k \in T : m <= k
  <1>1. PICK m \in T : \A k \in T : ~(<<k, m>> \in OpToRel(<, Nat))
    BY NatLessThanWellFounded, WFMin
  <1>2. \A k \in T : ~(k < m)
    BY <1>1 DEF OpToRel
  <1> QED
    BY <1>2, SMT

(* Places of the log that are not none have a last one.                    *)
LEMMA LastPlace ==
    ASSUME NEW n \in Nat, NEW T, T \subseteq 0 .. n, T # {}
    PROVE  Max(T) \in T /\ \A k \in T : k <= Max(T)
  <1> DEFINE Mirror == {n - k : k \in T}
  <1>1. Mirror \subseteq Nat /\ Mirror # {}
    <2>1. \A k \in T : n - k \in Nat
      BY SMT
    <2> QED
      BY <2>1, Zenon
  <1>2. PICK x \in Mirror : \A y \in Mirror : x <= y
    BY <1>1, LeastNatural
  <1>3. PICK m \in T : x = n - m
    OBVIOUS
  <1>4. \A k \in T : n - m <= n - k
    BY <1>2, <1>3
  <1>5. \A k \in T : m >= k
    BY <1>4, SMT
  <1>6. Max(T) \in T /\ \A k \in T : Max(T) >= k
    BY <1>5 DEF Max
  <1> QED
    BY <1>6, SMT

(* What a transaction with its retention leaves.                           *)
LEMMA CommitKeeps ==
    ASSUME NEW n \in Nat, NEW t, Times(t, n), NEW rows, Commit(rows, t)
    PROVE  /\ \A r \in Expired(t) : stream'[r] = {} /\ finished'[r] = 0
           /\ \A r \in Runs \ Expired(t) : stream'[r] = rows[r] /\ finished'[r] = t[r]
           /\ Finished' = Dated(t) \ Expired(t)
           /\ Cardinality(Finished') <= KeepRuns
           /\ Expired(t) # {} => Cardinality(Finished') = KeepRuns
           /\ Finished \subseteq Dated(t) /\ Cardinality(Finished) = KeepRuns =>
                 Cardinality(Finished') = KeepRuns
  <1>0. Expired(t) \subseteq Dated(t) /\ Dated(t) \subseteq Runs
    BY DEF Expired, Dated
  <1>1. /\ \A r \in Expired(t) : stream'[r] = {} /\ finished'[r] = 0
        /\ \A r \in Runs \ Expired(t) : stream'[r] = rows[r] /\ finished'[r] = t[r]
    BY <1>0 DEF Commit
  <1>2. Finished' = Dated(t) \ Expired(t)
    <2>1. \A r \in Runs : finished'[r] > 0 <=> t[r] > 0 /\ r \notin Expired(t)
      BY <1>1, SMT
    <2> QED
      BY <2>1 DEF Finished, Dated
  <1>k. KeepRuns \in Nat
    BY JournalAssumption
  <1>3. /\ Cardinality(Finished') <= KeepRuns
        /\ KeepRuns <= Cardinality(Dated(t)) => Cardinality(Finished') = KeepRuns
    BY <1>2, KeptRuns
  <1>4. IsFiniteSet(Dated(t)) /\ Cardinality(Dated(t)) \in Nat
    BY DatedFinite
  <1>5. ASSUME NEW r \in Expired(t) PROVE KeepRuns <= Cardinality(Dated(t))
    <2>1. Cardinality(Newer(t, r)) >= KeepRuns
      BY DEF Expired, Newer
    <2>2. Cardinality(Newer(t, r)) \in Nat /\ Cardinality(Newer(t, r)) < Cardinality(Dated(t))
      BY <1>0, RanksApart
    <2> QED
      BY <1>4, <1>k, <2>1, <2>2, SMT
  <1>6. ASSUME Finished \subseteq Dated(t), Cardinality(Finished) = KeepRuns
        PROVE  KeepRuns <= Cardinality(Dated(t))
    BY <1>4, <1>6, FS_Subset
  <1> QED
    BY <1>1, <1>2, <1>3, <1>5, <1>6

-----------------------------------------------------------------------------
(* What is on its way.                                                     *)

(* The parts of an item.                                                   *)
LEMMA ItemParts ==
    /\ \A r, i : /\ Item(r, i).op = "append" /\ Item(r, i).run = r /\ Item(r, i).at = i
    /\ \A r, i, k : /\ Finalize(r, i, k).op = "finalize" /\ Finalize(r, i, k).run = r
                    /\ Finalize(r, i, k).at = i /\ Finalize(r, i, k).keepers = k
  BY DEF Item, Finalize

(* Places of a log.                                                        *)
LEMMA Places ==
    ASSUME TypeOK
    PROVE  /\ Len(log) \in Nat /\ DOMAIN log = 1 .. Len(log)
           /\ \A r \in Runs : Of(r) \subseteq DOMAIN log
           /\ \A i \in DOMAIN log : i \in Nat /\ i > 0 /\ log[i].run \in Runs /\ log[i].kind \in Kinds
  <1> DEFINE E == [run : Runs, kind : Kinds]
  <1>0. log \in Seq(E)
    BY DEF TypeOK
  <1> HIDE DEF E
  <1>1. Len(log) \in Nat /\ DOMAIN log = 1 .. Len(log) /\ \A i \in DOMAIN log : log[i] \in E
    BY <1>0
  <1>2. \A i \in 1 .. Len(log) : i \in Nat /\ i > 0
    BY <1>1, SMT
  <1> QED
    BY <1>1, <1>2 DEF Of, E

(* A run of which no event is on its way has nothing on its way.           *)
LEMMA NothingFlies ==
    ASSUME ItemsReal, EndsTogether, NEW r \in Runs, InFlight(r) = {},
           NEW x \in pending \cup batch
    PROVE  x.run # r
  <1> SUFFICES ASSUME x.run = r PROVE FALSE
    OBVIOUS
  <1>1. x.at \in Of(r) /\ x.at \notin InFlight(r)
    BY DEF ItemsReal
  <1>2. x # Item(r, x.at)
    BY <1>1 DEF InFlight
  <1>3. x = Finalize(r, x.at, LastProgress(r)) /\ log[x.at].kind = "final"
    BY <1>2 DEF ItemsReal
  <1>4. Item(r, x.at) \in pending \cup batch
    BY <1>1, <1>3 DEF EndsTogether
  <1> QED
    BY <1>1, <1>4 DEF InFlight

(* And one of which nothing is on its way no event.                        *)
LEMMA NoneInFlight ==
    ASSUME NEW r, \A x \in pending \cup batch : x.run # r
    PROVE  InFlight(r) = {}
  BY ItemParts DEF InFlight

(* Once the end of a run is being written nothing of the run is buffered.  *)
LEMMA EndClosesRun ==
    ASSUME TypeOK, ItemsReal, EndIsLast, InOrder,
           NEW x \in batch, x.op = "finalize", NEW y \in pending
    PROVE  y.run # x.run
  <1> SUFFICES ASSUME y.run = x.run PROVE FALSE
    OBVIOUS
  <1>1. x.run \in Runs /\ x.at \in Of(x.run) /\ y.at \in Of(x.run)
    BY DEF ItemsReal
  <1>2. log[x.at].kind = "final"
    BY ItemParts DEF ItemsReal
  <1>3. y.at <= x.at
    BY <1>1, <1>2 DEF EndIsLast
  <1>4. x.at < y.at
    BY DEF InOrder
  <1>5. x.at \in Nat /\ y.at \in Nat
    BY <1>1, Places
  <1> QED
    BY <1>3, <1>4, <1>5, SMT

(* The end of a run in the batch: there is one, and it says all.           *)
LEMMA OneEnd ==
    ASSUME TypeOK, ItemsReal, EndIsLast, DoneIsQuiet, NEW r \in Runs, Ends(r) # {}
    PROVE  \E e \in Of(r) :
              /\ log[e].kind = "final" /\ e > 0
              /\ Ends(r) = {Finalize(r, e, LastProgress(r))}
              /\ finished[r] = 0 /\ FinishedAt(r) = e
  <1>1. PICK x \in Ends(r) : TRUE
    OBVIOUS
  <1>2. ASSUME NEW y \in Ends(r)
        PROVE  /\ y \in batch /\ y.run = r /\ y.at \in Of(r) /\ log[y.at].kind = "final"
               /\ y = Finalize(r, y.at, LastProgress(r))
    <2>1. y \in batch /\ y.run = r /\ y.op = "finalize"
      BY DEF Ends
    <2>2. y # Item(y.run, y.at)
      BY <2>1, ItemParts
    <2> QED
      BY <2>1, <2>2 DEF ItemsReal
  <1> DEFINE e == x.at
  <1>3. e \in Of(r) /\ log[e].kind = "final" /\ x = Finalize(r, e, LastProgress(r))
    BY <1>2
  <1>4. ASSUME NEW y \in Ends(r) PROVE y.at = e
    <2>1. y.at <= e /\ e <= y.at
      BY <1>2, <1>3 DEF EndIsLast
    <2>2. y.at \in Nat /\ e \in Nat
      BY <1>2, <1>3, Places
    <2> QED
      BY <2>1, <2>2, SMT
  <1>5. Ends(r) = {Finalize(r, e, LastProgress(r))}
    <2>1. \A y \in Ends(r) : y = Finalize(r, e, LastProgress(r))
      BY <1>2, <1>4
    <2> QED
      BY <1>3, <2>1
  <1>6. finished[r] = 0
    BY <1>2 DEF DoneIsQuiet
  <1>7. e \in Nat /\ e > 0 /\ e \in 0 .. Len(log) /\ Len(log) \in Nat
    <2>1. e \in DOMAIN log /\ DOMAIN log = 1 .. Len(log) /\ Len(log) \in Nat
      BY <1>3, Places
    <2> QED
      BY <2>1, SMT
  <1>8. {finished[r]} \cup {y.at : y \in Ends(r)} = {0, e}
    BY <1>1, <1>4, <1>6
  <1> HIDE DEF e
  <1>9. Max({0, e}) \in {0, e} /\ \A k \in {0, e} : k <= Max({0, e})
    <2>1. {0, e} \subseteq 0 .. Len(log)
      BY <1>7, SMT
    <2> QED
      BY <1>7, <2>1, LastPlace
  <1>10. Max({0, e}) = e
    BY <1>7, <1>9, SMT
  <1>11. FinishedAt(r) = e
    BY <1>8, <1>10 DEF FinishedAt
  <1> QED
    BY <1>3, <1>5, <1>6, <1>7, <1>11

(* A run whose end is not in the batch keeps its finish time.              *)
LEMMA NoEnd ==
    ASSUME TypeOK, NEW r \in Runs, Ends(r) = {}
    PROVE  FinishedAt(r) = finished[r]
  <1>1. {finished[r]} \cup {y.at : y \in Ends(r)} = {finished[r]}
    OBVIOUS
  <1>2. Max({finished[r]}) = finished[r]
    <2>1. Len(log) \in Nat /\ finished[r] \in 0 .. Len(log)
      BY Places DEF TypeOK
    <2>2. {finished[r]} \subseteq 0 .. Len(log)
      BY <2>1
    <2>3. Max({finished[r]}) \in {finished[r]}
      BY <2>1, <2>2, LastPlace
    <2> QED
      BY <2>3
  <1> QED
    BY <1>1, <1>2 DEF FinishedAt

-----------------------------------------------------------------------------
(* observe.                                                                *)

(* An event is added at the end of the log, and is of one run.             *)
LEMMA ObserveLog ==
    ASSUME TypeOK, NEW r \in Runs, NEW kind \in Kinds, Observe(r, kind)
    PROVE  LET n == Len(log) + 1
           IN  /\ n \in Nat /\ n > 0 /\ n \notin DOMAIN log /\ \A i \in DOMAIN log : i < n
               /\ log' \in Seq([run : Runs, kind : Kinds]) /\ Len(log') = n
               /\ DOMAIN log' = DOMAIN log \cup {n}
               /\ \A i \in DOMAIN log : log'[i] = log[i]
               /\ log'[n].run = r /\ log'[n].kind = kind
               /\ Of(r)' = Of(r) \cup {n}
               /\ \A q \in Runs \ {r} : Of(q)' = Of(q)
  <1> DEFINE n == Len(log) + 1
             ev == [run |-> r, kind |-> kind]
  <1>1. log \in Seq([run : Runs, kind : Kinds]) /\ log' = Append(log, ev)
    BY DEF Observe, TypeOK
  <1>2. ev \in [run : Runs, kind : Kinds] /\ ev.run = r /\ ev.kind = kind
    OBVIOUS
  <1> HIDE DEF ev
  <1>3. /\ n \in Nat /\ n > 0 /\ n \notin DOMAIN log /\ \A i \in DOMAIN log : i < n
        /\ log' \in Seq([run : Runs, kind : Kinds]) /\ Len(log') = n
        /\ \A i \in DOMAIN log : log'[i] = log[i]
        /\ log'[n] = ev
    BY <1>1, <1>2, SMT
  <1>4. DOMAIN log' = DOMAIN log \cup {n}
    <2>1. DOMAIN log = 1 .. Len(log) /\ DOMAIN log' = 1 .. n /\ Len(log) \in Nat
      BY <1>1, <1>3
    <2>2. 1 .. n = (1 .. Len(log)) \cup {n}
      BY <2>1, SMT
    <2> QED
      BY <2>1, <2>2
  <1> HIDE DEF n
  <1>5. Of(r)' = Of(r) \cup {n}
    BY <1>2, <1>3, <1>4 DEF Of
  <1>6. \A q \in Runs \ {r} : Of(q)' = Of(q)
    BY <1>2, <1>3, <1>4 DEF Of
  <1> QED
    BY <1>2, <1>3, <1>4, <1>5, <1>6 DEF n

(* What is known of other runs stays; the run of the event is over with    *)
(* its end only, and a progress becomes its last.                          *)
LEMMA ObserveRuns ==
    ASSUME TypeOK, NEW r \in Runs, NEW kind \in Kinds, Observe(r, kind)
    PROVE  LET n == Len(log) + 1
           IN  /\ \A q \in Runs \ {r} : /\ Over(q)' <=> Over(q)
                                        /\ Progress(q)' = Progress(q)
                                        /\ LastProgress(q)' = LastProgress(q)
               /\ ~Over(r) /\ (Over(r)' <=> kind = "final")
               /\ kind = "progress" => LastProgress(r)' = {n}
               /\ kind # "progress" => LastProgress(r)' = LastProgress(r)
               /\ \A i \in DOMAIN log : Durable(i)' <=> Durable(i)
  <1> DEFINE n == Len(log) + 1
  <1>1. /\ n \in Nat /\ n > 0 /\ n \notin DOMAIN log /\ \A i \in DOMAIN log : i < n
        /\ DOMAIN log' = DOMAIN log \cup {n}
        /\ \A i \in DOMAIN log : log'[i] = log[i]
        /\ log'[n].run = r /\ log'[n].kind = kind
        /\ Of(r)' = Of(r) \cup {n}
        /\ \A q \in Runs \ {r} : Of(q)' = Of(q)
    BY ObserveLog
  <1>p. \A q \in Runs : Of(q) \subseteq DOMAIN log
    BY DEF Of
  <1>q. \A i \in DOMAIN log : i \in Nat
    BY Places
  <1> HIDE DEF n
  <1>2. \A q \in Runs \ {r} : Over(q)' <=> Over(q)
    BY <1>1, <1>p DEF Over
  <1>3. \A q \in Runs \ {r} : Progress(q)' = Progress(q)
    BY <1>1, <1>p DEF Progress
  <1>4. \A q \in Runs \ {r} : LastProgress(q)' = LastProgress(q)
    BY <1>3 DEF LastProgress
  <1>5. ~Over(r)
    BY DEF Observe
  <1>6. Over(r)' <=> kind = "final"
    BY <1>1, <1>5, <1>p DEF Over
  <1>7. ASSUME kind = "progress" PROVE LastProgress(r)' = {n}
    <2>1. Progress(r)' = Progress(r) \cup {n} /\ Progress(r) \subseteq DOMAIN log
      BY <1>1, <1>7, <1>p DEF Progress
    <2>2. \A i \in Progress(r) : i \in Nat /\ i < n
      BY <1>1, <1>q, <2>1
    <2>3. \A i \in Progress(r) : ~(n <= i)
      BY <1>1, <2>2, SMT
    <2>4. \A i \in Progress(r) \cup {n} : i <= n
      BY <1>1, <2>2, SMT
    <2> QED
      BY <2>1, <2>3, <2>4 DEF LastProgress
  <1>8. ASSUME kind # "progress" PROVE LastProgress(r)' = LastProgress(r)
    <2>1. Progress(r)' = Progress(r)
      BY <1>1, <1>8, <1>p DEF Progress
    <2> QED
      BY <2>1 DEF LastProgress
  <1>9. \A i \in DOMAIN log : Durable(i)' <=> Durable(i)
    BY <1>1 DEF Durable
  <1> QED
    BY <1>2, <1>3, <1>4, <1>5, <1>6, <1>7, <1>8, <1>9 DEF n

(* What observe adds to the buffer.                                        *)
LEMMA ObserveItems ==
    ASSUME TypeOK, LastIsKnown, NEW r \in Runs, NEW kind \in Kinds, Observe(r, kind)
    PROVE  LET n == Len(log) + 1
               end == Finalize(r, n, LastProgress(r)')
           IN  \E new :
                 /\ pending' = pending \cup new /\ batch' = batch
                 /\ new \subseteq {Item(r, n), end}
                 /\ kind # "progress" => Item(r, n) \in new
                 /\ end \in new <=> kind = "final"
  <1> DEFINE n == Len(log) + 1
             new == Buffered(r, kind, n)
  <1>1. pending' = pending \cup new /\ batch' = batch /\ r \notin dead
    BY DEF Observe
  <1>2. ~Over(r) /\ (kind # "progress" => LastProgress(r)' = LastProgress(r))
    BY ObserveRuns
  <1>3. last[r] = LastProgress(r)
    BY <1>1, <1>2 DEF LastIsKnown
  <1>4. Item(r, n) # Finalize(r, n, LastProgress(r)')
    BY ItemParts
  <1>5. kind # "progress" => new = {Item(r, n)} \cup
            (IF kind = "final" THEN {Finalize(r, n, LastProgress(r)')} ELSE {})
    BY <1>2, <1>3 DEF Buffered
  <1>6. kind = "progress" => new \subseteq {Item(r, n)}
    BY DEF Buffered
  <1> HIDE DEF new, n
  <1>7. new \subseteq {Item(r, n), Finalize(r, n, LastProgress(r)')}
    BY <1>5, <1>6
  <1>8. kind # "progress" => Item(r, n) \in new
    BY <1>5
  <1>9. Finalize(r, n, LastProgress(r)') \in new <=> kind = "final"
    BY <1>4, <1>5, <1>6
  <1> QED
    BY <1>1, <1>7, <1>8, <1>9 DEF n

(* The events on their way: one more of the run, if it was not dropped.    *)
LEMMA ObserveFlight ==
    ASSUME TypeOK, LastIsKnown, NEW r \in Runs, NEW kind \in Kinds, Observe(r, kind)
    PROVE  LET n == Len(log) + 1
           IN  /\ \A q \in Runs \ {r} : InFlight(q)' = InFlight(q)
               /\ InFlight(r) \subseteq InFlight(r)'
               /\ kind # "progress" => n \in InFlight(r)'
  <1> DEFINE n == Len(log) + 1
  <1>1. /\ n \notin DOMAIN log
        /\ Of(r)' = Of(r) \cup {n} /\ \A q \in Runs \ {r} : Of(q)' = Of(q)
    BY ObserveLog
  <1>2. PICK new :
          /\ pending' = pending \cup new /\ batch' = batch
          /\ new \subseteq {Item(r, n), Finalize(r, n, LastProgress(r)')}
          /\ kind # "progress" => Item(r, n) \in new
    BY ObserveItems
  <1> HIDE DEF n
  <1>3. \A x \in new : x.run = r
    BY <1>2, ItemParts
  <1>4. \A q \in Runs \ {r} : \A i : Item(q, i) \in pending' \cup batch' <=> Item(q, i) \in pending \cup batch
    BY <1>2, <1>3, ItemParts
  <1>5. \A q \in Runs \ {r} : InFlight(q)' = InFlight(q)
    BY <1>1, <1>4 DEF InFlight
  <1>6. InFlight(r) \subseteq InFlight(r)'
    BY <1>1, <1>2 DEF InFlight
  <1>7. kind # "progress" => n \in InFlight(r)'
    BY <1>1, <1>2 DEF InFlight
  <1> QED
    BY <1>5, <1>6, <1>7 DEF n

(* Before its end a run has only events on their way.                      *)
LEMMA OnlyEvents ==
    ASSUME ItemsReal, NEW x \in pending \cup batch, ~Over(x.run)
    PROVE  x = Item(x.run, x.at) /\ x.run \in Runs /\ x.at \in Of(x.run)
  BY DEF ItemsReal, Over

(* observe buffers real events, and an end with its event.                 *)
LEMMA ObserveKeepsItems ==
    ASSUME TypeOK, ItemsReal, EndsTogether, LastIsKnown,
           NEW r \in Runs, NEW kind \in Kinds, Observe(r, kind)
    PROVE  ItemsReal' /\ EndsTogether'
  <1> DEFINE n == Len(log) + 1
             end == Finalize(r, n, LastProgress(r)')
  <1>1. /\ n \notin DOMAIN log /\ \A i \in DOMAIN log : log'[i] = log[i]
        /\ log'[n].kind = kind
        /\ Of(r)' = Of(r) \cup {n} /\ \A q \in Runs \ {r} : Of(q)' = Of(q)
    BY ObserveLog
  <1>2. /\ \A q \in Runs \ {r} : LastProgress(q)' = LastProgress(q)
        /\ ~Over(r)
    BY ObserveRuns
  <1>3. PICK new :
          /\ pending' = pending \cup new /\ batch' = batch
          /\ new \subseteq {Item(r, n), end}
          /\ kind # "progress" => Item(r, n) \in new
          /\ end \in new <=> kind = "final"
    BY ObserveItems
  <1>p. \A q \in Runs : Of(q) \subseteq DOMAIN log
    BY DEF Of
  <1> HIDE DEF n, end
  <1>4. ASSUME NEW x \in pending \cup batch
        PROVE  /\ x.run \in Runs /\ x.at \in Of(x.run)
               /\ x.at \in Of(x.run)' /\ log'[x.at] = log[x.at]
               /\ \/ x = Item(x.run, x.at)
                  \/ x = Finalize(x.run, x.at, LastProgress(x.run)') /\ log'[x.at].kind = "final"
    <2>1. /\ x.run \in Runs /\ x.at \in Of(x.run)
          /\ \/ x = Item(x.run, x.at)
             \/ x = Finalize(x.run, x.at, LastProgress(x.run)) /\ log[x.at].kind = "final"
      BY DEF ItemsReal
    <2>2. x.at \in Of(x.run)' /\ log'[x.at] = log[x.at]
      BY <1>1, <1>p, <2>1
    <2>3. CASE x.run = r
      BY <1>2, <2>1, <2>2, <2>3, OnlyEvents
    <2>4. CASE x.run # r
      BY <1>2, <2>1, <2>2, <2>4
    <2> QED
      BY <2>3, <2>4
  <1>5. ASSUME NEW x \in new
        PROVE  /\ x.run \in Runs /\ x.at \in Of(x.run)'
               /\ \/ x = Item(x.run, x.at)
                  \/ x = Finalize(x.run, x.at, LastProgress(x.run)') /\ log'[x.at].kind = "final"
    <2>1. CASE x = Item(r, n)
      BY <1>1, <2>1, ItemParts
    <2>2. CASE x = end
      BY <1>1, <1>3, <2>2, ItemParts DEF end
    <2> QED
      BY <1>3, <2>1, <2>2
  <1>6. ItemsReal'
    <2>1. \A x \in pending' \cup batch' :
            /\ x.run \in Runs /\ x.at \in Of(x.run)'
            /\ \/ x = Item(x.run, x.at)
               \/ x = Finalize(x.run, x.at, LastProgress(x.run)') /\ log'[x.at].kind = "final"
      BY <1>3, <1>4, <1>5
    <2> QED
      BY <2>1 DEF ItemsReal
  <1>7. EndsTogether'
    <2> SUFFICES ASSUME NEW q \in Runs, NEW i \in Of(q)', log'[i].kind = "final"
                 PROVE  /\ Item(q, i) \in pending' <=> Finalize(q, i, LastProgress(q)') \in pending'
                        /\ Item(q, i) \in batch' <=> Finalize(q, i, LastProgress(q)') \in batch'
      BY DEF EndsTogether
    <2>1. CASE q # r
      <3>1. i \in Of(q) /\ log[i].kind = "final" /\ LastProgress(q)' = LastProgress(q)
        BY <1>1, <1>2, <1>p, <2>1
      <3>2. Item(q, i) \notin new /\ Finalize(q, i, LastProgress(q)') \notin new
        BY <1>3, <2>1, ItemParts DEF end
      <3> QED
        BY <1>3, <3>1, <3>2 DEF EndsTogether
    <2>2. CASE q = r
      <3>1. i = n
        BY <1>1, <1>2, <1>p, <2>2 DEF Over
      <3>2. kind = "final"
        BY <1>1, <3>1
      <3>3. \A x \in pending \cup batch : x.at # n
        BY <1>1, <1>4, <1>p
      <3>4. Item(q, i) \notin batch /\ Finalize(q, i, LastProgress(q)') \notin batch
        BY <3>1, <3>3, ItemParts
      <3>5. Item(q, i) \in pending' /\ Finalize(q, i, LastProgress(q)') \in pending'
        BY <1>3, <2>2, <3>1, <3>2 DEF end
      <3> QED
        BY <1>3, <3>4, <3>5
    <2> QED
      BY <2>1, <2>2
  <1> QED
    BY <1>6, <1>7

(* The end comes last, the buffer is newer than the batch, and the end     *)
(* travels after the rest of its run.                                      *)
LEMMA ObserveKeepsOrder ==
    ASSUME TypeOK, ItemsReal, EndIsLast, InOrder, EndFollows, DoneIsQuiet, FinishedReal, LastIsKnown,
           NEW r \in Runs, NEW kind \in Kinds, Observe(r, kind)
    PROVE  EndIsLast' /\ InOrder' /\ EndFollows' /\ DoneIsQuiet'
  <1> DEFINE n == Len(log) + 1
             end == Finalize(r, n, LastProgress(r)')
  <1>1. /\ n \in Nat /\ n \notin DOMAIN log /\ \A i \in DOMAIN log : i < n
        /\ \A i \in DOMAIN log : log'[i] = log[i]
        /\ log'[n].kind = kind
        /\ Of(r)' = Of(r) \cup {n} /\ \A q \in Runs \ {r} : Of(q)' = Of(q)
    BY ObserveLog
  <1>2. /\ \A q \in Runs \ {r} : Over(q)' <=> Over(q)
        /\ ~Over(r) /\ (Over(r)' <=> kind = "final")
    BY ObserveRuns
  <1>3. PICK new :
          /\ pending' = pending \cup new /\ batch' = batch
          /\ new \subseteq {Item(r, n), end}
          /\ end \in new <=> kind = "final"
    BY ObserveItems
  <1>p. \A q \in Runs : Of(q) \subseteq DOMAIN log
    BY DEF Of
  <1>q. \A i \in DOMAIN log : i \in Nat
    BY Places
  <1>r. \A x \in pending \cup batch : x.run \in Runs /\ x.at \in DOMAIN log
    BY <1>p DEF ItemsReal
  <1>u. finished' = finished /\ dead' = dead /\ r \notin dead
    BY DEF Observe, store
  <1> HIDE DEF n, end
  <1>n. \A x \in new : x.run = r /\ x.at = n
    BY <1>3, ItemParts DEF end
  <1>4. EndIsLast'
    <2> SUFFICES ASSUME NEW q \in Runs, NEW i \in Of(q)', NEW j \in Of(q)', log'[i].kind = "final"
                 PROVE  j <= i
      BY DEF EndIsLast
    <2>1. CASE q # r
      BY <1>1, <1>p, <2>1 DEF EndIsLast
    <2>2. CASE q = r
      <3>1. i = n
        BY <1>1, <1>2, <1>p, <2>2 DEF Over
      <3>2. j = n \/ (j \in DOMAIN log /\ j < n /\ j \in Nat)
        BY <1>1, <1>p, <1>q, <2>2
      <3> QED
        BY <1>1, <3>1, <3>2, SMT
    <2> QED
      BY <2>1, <2>2
  <1>5. InOrder'
    <2>1. \A x \in batch, y \in new : x.at < y.at
      BY <1>1, <1>r, <1>n
    <2> QED
      BY <1>3, <2>1 DEF InOrder
  <1>6. EndFollows'
    <2> SUFFICES ASSUME NEW x \in pending' \cup batch', Over(x.run)'
                 PROVE  \E y \in pending' \cup batch' : y.op = "finalize" /\ y.run = x.run
      BY DEF EndFollows
    <2>1. CASE x.run = r
      <3>1. end \in pending' /\ end.op = "finalize" /\ end.run = r
        BY <1>2, <1>3, <2>1, ItemParts DEF end
      <3> QED
        BY <2>1, <3>1
    <2>2. CASE x.run # r
      <3>1. x \in pending \cup batch
        BY <1>3, <1>n, <2>2
      <3>2. Over(x.run)
        BY <1>2, <1>r, <2>2, <3>1
      <3>3. PICK y \in pending \cup batch : y.op = "finalize" /\ y.run = x.run
        BY <3>1, <3>2 DEF EndFollows
      <3> QED
        BY <1>3, <3>3
    <2> QED
      BY <2>1, <2>2
  <1>7. DoneIsQuiet'
    <2>1. finished[r] = 0
      <3>1. r \notin Finished
        BY <1>2, <1>u DEF FinishedReal
      <3>2. ~(finished[r] > 0)
        BY <3>1 DEF Finished
      <3>3. finished[r] \in 0 .. Len(log) /\ Len(log) \in Nat
        BY Places DEF TypeOK
      <3> QED
        BY <3>2, <3>3, SMT
    <2>2. \A x \in new : finished[x.run] = 0 /\ x.run \notin dead
      BY <1>n, <1>u, <2>1
    <2>3. \A x \in pending' \cup batch' : finished'[x.run] = 0 /\ x.run \notin dead'
      BY <1>3, <1>u, <2>2 DEF DoneIsQuiet
    <2> QED
      BY <2>3 DEF DoneIsQuiet
  <1> QED
    BY <1>4, <1>5, <1>6, <1>7


(* The buffered events, the stored rows and the phases go with the log.    *)
LEMMA ObserveKeepsTypes ==
    ASSUME TypeOK, LastIsKnown, FinishedReal, StreamReal, ClosingInOrder,
           NEW r \in Runs, NEW kind \in Kinds, Observe(r, kind)
    PROVE  TypeOK' /\ LastIsKnown' /\ FinishedReal' /\ StreamReal' /\ ClosingInOrder'
  <1> DEFINE n == Len(log) + 1
             new == CASE kind = "progress" -> {n} [] kind = "final" -> {} [] OTHER -> last[r]
  <1>1. /\ n \in Nat /\ n > 0 /\ n \notin DOMAIN log /\ Len(log') = n
        /\ log' \in Seq([run : Runs, kind : Kinds])
        /\ DOMAIN log' = DOMAIN log \cup {n}
        /\ \A i \in DOMAIN log : log'[i] = log[i]
        /\ Of(r)' = Of(r) \cup {n} /\ \A q \in Runs \ {r} : Of(q)' = Of(q)
    BY ObserveLog
  <1>2. /\ \A q \in Runs \ {r} : (Over(q)' <=> Over(q)) /\ LastProgress(q)' = LastProgress(q)
        /\ ~Over(r) /\ (Over(r)' <=> kind = "final")
        /\ kind = "progress" => LastProgress(r)' = {n}
        /\ kind # "progress" => LastProgress(r)' = LastProgress(r)
        /\ \A i \in DOMAIN log : Durable(i)' <=> Durable(i)
    BY ObserveRuns
  <1>p. \A q \in Runs : Of(q) \subseteq DOMAIN log
    BY DEF Of
  <1>u. /\ last' = [last EXCEPT ![r] = new]
        /\ phase = "up" /\ phase' = "up" /\ stream' = stream /\ finished' = finished
        /\ gap' = gap /\ dead' = dead /\ faults' = faults /\ r \notin dead
    BY DEF Observe, store
  <1>t. /\ last \in [Runs -> SUBSET DOMAIN log]
        /\ \A q \in Runs : last[q] \subseteq Of(q) /\ Cardinality(last[q]) <= 1
        /\ stream \in [Runs -> SUBSET [ev : DOMAIN log, durable : BOOLEAN]]
        /\ finished \in [Runs -> 0 .. Len(log)] /\ Len(log) \in Nat
        /\ gap \subseteq Runs /\ dead \subseteq gap /\ faults \in 0 .. MaxFaults
    BY Places DEF TypeOK
  <1>n. new \subseteq Of(r) \cup {n} /\ Cardinality(new) <= 1
    <2>1. Cardinality({n}) = 1 /\ Cardinality({}) = 0
      BY FS_Singleton, FS_EmptySet
    <2> QED
      BY <1>t, <2>1, SMT
  <1>l. kind = "progress" => new = {n}
    OBVIOUS
  <1>m. kind # "progress" /\ kind # "final" => new = last[r]
    OBVIOUS
  <1>fin. \A k \in 0 .. Len(log) : k \in 0 .. n
    BY <1>t, SMT
  <1> HIDE DEF n, new
  <1>o. last'[r] = new /\ \A q \in Runs \ {r} : last'[q] = last[q]
    BY <1>u, <1>t
  <1>3. TypeOK'
    <2>1. last' \in [Runs -> SUBSET DOMAIN log']
      BY <1>1, <1>n, <1>p, <1>u, <1>t
    <2>2. \A q \in Runs : last'[q] \subseteq Of(q)' /\ Cardinality(last'[q]) <= 1
      BY <1>1, <1>n, <1>o, <1>t
    <2>3. stream' \in [Runs -> SUBSET [ev : DOMAIN log', durable : BOOLEAN]]
      <3>1. \A q \in Runs : stream'[q] \in SUBSET [ev : DOMAIN log', durable : BOOLEAN]
        BY <1>1, <1>t, <1>u
      <3> QED
        BY <1>t, <1>u, <3>1
    <2>4. finished' \in [Runs -> 0 .. Len(log')]
      <3>1. finished' \in [Runs -> 0 .. n]
        BY <1>t, <1>u, <1>fin
      <3> QED
        BY <1>1, <3>1
    <2> QED
      BY <1>1, <1>t, <1>u, <2>1, <2>2, <2>3, <2>4 DEF TypeOK
  <1>4. LastIsKnown'
    <2> SUFFICES ASSUME NEW q \in Runs \ dead, ~Over(q)' PROVE last'[q] = LastProgress(q)'
      BY <1>u DEF LastIsKnown
    <2>1. CASE q # r
      BY <1>2, <1>o, <2>1 DEF LastIsKnown
    <2>2. CASE q = r
      <3>1. last[r] = LastProgress(r)
        BY <1>2, <1>u DEF LastIsKnown
      <3> QED
        BY <1>2, <1>l, <1>m, <1>o, <2>2, <3>1
    <2> QED
      BY <2>1, <2>2
  <1>5. FinishedReal'
    <2>1. Finished' = Finished
      BY <1>u DEF Finished
    <2>2. \A q \in Finished : q # r /\ q \in Runs
      BY <1>2, <1>u DEF FinishedReal, Finished
    <2>3. \A q \in Finished : finished[q] \in Of(q)' /\ (Over(q)' \/ q \in dead)
      BY <1>1, <1>2, <2>2 DEF FinishedReal
    <2> QED
      BY <1>u, <2>1, <2>3 DEF FinishedReal
  <1>6. StreamReal'
    <2> SUFFICES ASSUME NEW q \in Runs, NEW e \in stream[q]
                 PROVE  /\ e.ev \in Of(q)'
                        /\ Durable(e.ev)' => e.durable
                        /\ finished[q] = 0 => (e.durable => Durable(e.ev)')
      BY <1>u DEF StreamReal
    <2>1. /\ e.ev \in Of(q)
          /\ Durable(e.ev) => e.durable
          /\ finished[q] = 0 => (e.durable => Durable(e.ev))
      BY DEF StreamReal
    <2>2. e.ev \in Of(q)' /\ e.ev \in DOMAIN log
      BY <1>1, <1>p, <2>1
    <2>3. log'[e.ev] = log[e.ev]
      BY <1>1, <2>2
    <2>4. Durable(e.ev)' <=> log'[e.ev].kind # "progress"
      BY <1>u DEF Durable
    <2>5. Durable(e.ev)' <=> Durable(e.ev)
      BY <2>3, <2>4 DEF Durable
    <2> QED
      BY <2>1, <2>2, <2>5
  <1>7. ClosingInOrder'
    BY <1>u DEF ClosingInOrder
  <1> QED
    BY <1>3, <1>4, <1>5, <1>6, <1>7

(* A new event disturbs no finished run, and is itself on its way if it is *)
(* a fact.                                                                 *)
LEMMA ObserveKeepsFacts ==
    ASSUME TypeOK, LastIsKnown, FinishedReal, StreamReal, FinishedIsPruned, RetentionBounded,
           DurableKept, NEW r \in Runs, NEW kind \in Kinds, Observe(r, kind)
    PROVE  FinishedIsPruned' /\ RetentionBounded' /\ DurableKept'
  <1> DEFINE n == Len(log) + 1
  <1>1. /\ n \notin DOMAIN log
        /\ \A i \in DOMAIN log : log'[i] = log[i]
        /\ log'[n].kind = kind
        /\ Of(r)' = Of(r) \cup {n} /\ \A q \in Runs \ {r} : Of(q)' = Of(q)
    BY ObserveLog
  <1>2. /\ \A q \in Runs \ {r} : Over(q)' <=> Over(q)
        /\ ~Over(r) /\ (Over(r)' <=> kind = "final")
        /\ \A i \in DOMAIN log : Durable(i)' <=> Durable(i)
    BY ObserveRuns
  <1>3. /\ \A q \in Runs \ {r} : InFlight(q)' = InFlight(q)
        /\ InFlight(r) \subseteq InFlight(r)'
        /\ kind # "progress" => n \in InFlight(r)'
    BY ObserveFlight
  <1>p. \A q \in Runs : Of(q) \subseteq DOMAIN log
    BY DEF Of
  <1>u. /\ phase = "up" /\ phase' = "up" /\ stream' = stream /\ finished' = finished
        /\ gap' = gap /\ dead' = dead /\ r \notin dead
    BY DEF Observe, store
  <1>f. /\ Finished' = Finished
        /\ \A q : (Written(q)' = Written(q)) /\ (Here(q)' <=> Here(q))
    BY <1>u DEF Finished, Written, Here
  <1>g. \A q \in Finished : q # r /\ q \in Runs
    BY <1>2, <1>u DEF FinishedReal, Finished
  <1> HIDE DEF n
  <1>4. FinishedIsPruned'
    <2> SUFFICES ASSUME NEW q \in Finished \ gap
                 PROVE  /\ \A e \in stream[q] : e.durable
                        /\ \A i \in Of(q)' : log'[i].kind = "progress" =>
                             ((\A j \in Of(q)' : log'[j].kind = "progress" => j <= i)
                                  <=> i \in Written(q))
      BY <1>u, <1>f DEF FinishedIsPruned
    <2>1. Of(q)' = Of(q) /\ \A i \in Of(q) : log'[i] = log[i]
      BY <1>1, <1>g, <1>p
    <2> QED
      BY <2>1 DEF FinishedIsPruned
  <1>5. RetentionBounded'
    <2>1. Cardinality(Finished') <= KeepRuns
      BY <1>f DEF RetentionBounded
    <2>2. ASSUME NEW q \in Runs, Here(q)', InFlight(q)' = {},
                 q \in dead' \/ (Over(q)' /\ q \notin gap')
          PROVE  q \in Finished'
      <3>1. q # r
        BY <1>2, <1>3, <1>u, <2>2
      <3>2. Here(q) /\ InFlight(q) = {} /\ (q \in dead \/ (Over(q) /\ q \notin gap))
        BY <1>2, <1>3, <1>u, <1>f, <2>2, <3>1
      <3> QED
        BY <1>f, <3>2 DEF RetentionBounded
    <2> QED
      BY <2>1, <2>2 DEF RetentionBounded
  <1>6. DurableKept'
    <2> SUFFICES ASSUME NEW q \in Runs \ gap, Started(q)'
                 PROVE  \/ {i \in Of(q)' : Durable(i)'} \subseteq Written(q)' \cup InFlight(q)'
                        \/ Retired(q)'
      BY <1>u DEF DurableKept
    <2>d. \A i : Durable(i)' <=> log'[i].kind # "progress"
      BY DEF Durable
    <2>1. CASE q # r
      <3>1. Started(q)
        BY <1>1, <2>1 DEF Started
      <3>2. CASE Retired(q)
        BY <1>2, <1>3, <1>f, <2>1, <3>2 DEF Retired
      <3>3. CASE {i \in Of(q) : Durable(i)} \subseteq Written(q) \cup InFlight(q)
        <4>1. Of(q)' = Of(q) /\ \A i \in Of(q) : log'[i] = log[i]
          BY <1>1, <1>p, <2>1
        <4>2. {i \in Of(q)' : Durable(i)'} = {i \in Of(q) : Durable(i)}
          BY <4>1, <2>d DEF Durable
        <4> QED
          BY <1>3, <1>f, <2>1, <3>3, <4>2
      <3> QED
        BY <3>1, <3>2, <3>3 DEF DurableKept
    <2>2. CASE q = r
      <3>1. {i \in Of(r) : Durable(i)} \subseteq Written(r) \cup InFlight(r)
        BY <1>2, <2>2 DEF DurableKept, Retired, Started
      <3>2. \A i \in Of(r) : log'[i] = log[i]
        BY <1>1, <1>p
      <3>3. {i \in Of(r)' : Durable(i)'} \subseteq {i \in Of(r) : Durable(i)} \cup
               (IF kind # "progress" THEN {n} ELSE {})
        BY <1>1, <3>2, <2>d DEF Durable
      <3> QED
        BY <1>3, <1>f, <2>2, <3>1, <3>3
    <2> QED
      BY <2>1, <2>2
  <1> QED
    BY <1>4, <1>5, <1>6


-----------------------------------------------------------------------------
(* Steps that publish nothing.                                             *)

(* What the log says of a run depends on the log only.                     *)
LEMMA SameLog ==
    ASSUME log' = log
    PROVE  /\ \A r : /\ Of(r)' = Of(r) /\ (Over(r)' <=> Over(r)) /\ (Started(r)' <=> Started(r))
                     /\ Progress(r)' = Progress(r) /\ LastProgress(r)' = LastProgress(r)
           /\ \A i : Durable(i)' <=> Durable(i)
           /\ EndIsLast => EndIsLast'
  <1>1. \A r : Of(r)' = Of(r)
    BY DEF Of
  <1>2. \A r : Progress(r)' = Progress(r)
    BY <1>1 DEF Progress
  <1>3. \A r : LastProgress(r)' = LastProgress(r)
    BY <1>2 DEF LastProgress
  <1>4. \A r : (Over(r)' <=> Over(r)) /\ (Started(r)' <=> Started(r))
    BY <1>1 DEF Over, Started
  <1>5. \A i : Durable(i)' <=> Durable(i)
    BY DEF Durable
  <1>6. EndIsLast => EndIsLast'
    BY <1>1 DEF EndIsLast
  <1> QED
    BY <1>1, <1>2, <1>3, <1>4, <1>5, <1>6

(* flush and close only move what is on its way, or the phase.             *)
LEMMA SameJournal ==
    ASSUME UNCHANGED <<log, last, store, gap, dead, faults>>,
           pending' \cup batch' = pending \cup batch, phase' \in {"up", "closing", "closed"},
           TypeOK, ItemsReal, EndIsLast, EndFollows, DoneIsQuiet, LastIsKnown,
           FinishedReal, StreamReal, FinishedIsPruned, RetentionBounded
    PROVE  /\ TypeOK' /\ ItemsReal' /\ EndIsLast' /\ EndFollows' /\ DoneIsQuiet' /\ LastIsKnown'
           /\ FinishedReal' /\ StreamReal' /\ FinishedIsPruned' /\ RetentionBounded'
           /\ \A r : /\ InFlight(r)' = InFlight(r) /\ Written(r)' = Written(r)
                     /\ Retired(r)' <=> Retired(r)
           /\ Finished' = Finished
  <1>u. /\ log' = log /\ last' = last /\ stream' = stream /\ finished' = finished
        /\ gap' = gap /\ dead' = dead /\ faults' = faults
    BY DEF store
  <1>1. /\ \A r : /\ Of(r)' = Of(r) /\ (Over(r)' <=> Over(r)) /\ (Started(r)' <=> Started(r))
                  /\ LastProgress(r)' = LastProgress(r)
        /\ \A i : Durable(i)' <=> Durable(i)
        /\ EndIsLast'
    BY <1>u, SameLog
  <1>2. \A r : InFlight(r)' = InFlight(r)
    BY <1>1 DEF InFlight
  <1>3. \A r : (Here(r)' <=> Here(r)) /\ Written(r)' = Written(r)
    BY <1>u DEF Here, Written
  <1>4. Finished' = Finished
    BY <1>u DEF Finished
  <1>5. \A r : Retired(r)' <=> Retired(r)
    BY <1>1, <1>2, <1>3, <1>4 DEF Retired
  <1>6. TypeOK'
    BY <1>u, <1>1 DEF TypeOK
  <1>7. ItemsReal'
    <2>1. \A x \in pending' \cup batch' :
            /\ x.run \in Runs /\ x.at \in Of(x.run)
            /\ \/ x = Item(x.run, x.at)
               \/ x = Finalize(x.run, x.at, LastProgress(x.run)) /\ log[x.at].kind = "final"
      BY DEF ItemsReal
    <2> QED
      BY <1>u, <1>1, <2>1 DEF ItemsReal
  <1>8. EndFollows'
    <2>1. \A x \in pending' \cup batch' : Over(x.run) =>
            \E y \in pending' \cup batch' : y.op = "finalize" /\ y.run = x.run
      BY DEF EndFollows
    <2> QED
      BY <1>1, <2>1 DEF EndFollows
  <1>9. DoneIsQuiet'
    <2>1. \A x \in pending' \cup batch' : finished[x.run] = 0 /\ x.run \notin dead
      BY DEF DoneIsQuiet
    <2> QED
      BY <1>u, <2>1 DEF DoneIsQuiet
  <1>10. LastIsKnown'
    BY <1>u, <1>1 DEF LastIsKnown
  <1>11. FinishedReal'
    BY <1>u, <1>1, <1>4 DEF FinishedReal
  <1>12. StreamReal'
    BY <1>u, <1>1 DEF StreamReal
  <1>13. FinishedIsPruned'
    BY <1>u, <1>1, <1>3, <1>4 DEF FinishedIsPruned
  <1>14. RetentionBounded'
    BY <1>u, <1>1, <1>2, <1>3, <1>4 DEF RetentionBounded
  <1> QED
    BY <1>1, <1>2, <1>3, <1>4, <1>5, <1>6, <1>7, <1>8, <1>9, <1>10, <1>11, <1>12, <1>13, <1>14

(* flush starts a batch with all that is buffered.                         *)
LEMMA FlushKeeps ==
    ASSUME JournalInv, Flush
    PROVE  JournalInv'
  <1> USE DEF JournalInv, JournalInStep
  <1>u. /\ batch = {} /\ batch' = pending /\ pending' = {} /\ phase' = phase /\ phase # "closed"
        /\ UNCHANGED <<log, last, store, gap, dead, faults>> /\ log' = log /\ gap' = gap
        /\ dead' = dead
    BY DEF Flush
  <1>t. phase \in {"up", "closing", "closed"}
    BY DEF TypeOK
  <1>1. pending' \cup batch' = pending \cup batch
    BY <1>u
  <1>2. /\ TypeOK' /\ ItemsReal' /\ EndIsLast' /\ EndFollows' /\ DoneIsQuiet' /\ LastIsKnown'
        /\ FinishedReal' /\ StreamReal' /\ FinishedIsPruned' /\ RetentionBounded'
        /\ \A r : /\ InFlight(r)' = InFlight(r) /\ Written(r)' = Written(r)
                  /\ Retired(r)' <=> Retired(r)
        /\ Finished' = Finished
    BY <1>u, <1>t, <1>1, SameJournal
  <1>3. /\ \A r : /\ Of(r)' = Of(r) /\ (Over(r)' <=> Over(r)) /\ (Started(r)' <=> Started(r))
                  /\ LastProgress(r)' = LastProgress(r)
        /\ \A i : Durable(i)' <=> Durable(i)
    BY <1>u, SameLog
  <1>4. EndsTogether'
    <2>1. \A r \in Runs : \A i \in Of(r) : log[i].kind = "final" =>
            (Item(r, i) \in pending <=> Finalize(r, i, LastProgress(r)) \in pending)
      BY DEF EndsTogether
    <2>2. \A r \in Runs : \A i \in Of(r)' : log'[i].kind = "final" =>
            /\ Item(r, i) \in pending' <=> Finalize(r, i, LastProgress(r)') \in pending'
            /\ Item(r, i) \in batch' <=> Finalize(r, i, LastProgress(r)') \in batch'
      BY <1>u, <1>3, <2>1
    <2> QED
      BY <2>2 DEF EndsTogether
  <1>5. InOrder'
    BY <1>u DEF InOrder
  <1>6. ClosingInOrder'
    BY <1>u, <1>3 DEF ClosingInOrder
  <1>7. DurableKept'
    <2>1. \A r \in Runs \ gap : Started(r) =>
            \/ /\ {i \in Of(r) : Durable(i)} \subseteq Written(r) \cup InFlight(r)
               /\ phase = "closed" => r \in Finished
            \/ Retired(r)
      BY DEF DurableKept
    <2>2. \A r : {i \in Of(r)' : Durable(i)'} = {i \in Of(r) : Durable(i)}
      BY <1>3
    <2> QED
      BY <1>u, <1>2, <1>3, <2>1, <2>2 DEF DurableKept
  <1> QED
    BY <1>2, <1>4, <1>5, <1>6, <1>7


(* A step that moves neither the buffer nor the batch nor the store.       *)
LEMMA CloseSteps ==
    ASSUME JournalInv, UNCHANGED <<log, pending, last, batch, store, gap, dead, faults>>,
           \/ phase' = phase
           \/ /\ phase' = "closing" /\ \A r \in Runs : Started(r) => Over(r) \/ r \in dead
           \/ /\ phase = "closing" /\ batch = {} /\ pending = {} /\ phase' = "closed"
    PROVE  JournalInv'
  <1> USE DEF JournalInv, JournalInStep
  <1>u. /\ batch' = batch /\ pending' = pending
        /\ UNCHANGED <<log, last, store, gap, dead, faults>> /\ log' = log /\ gap' = gap
        /\ dead' = dead
    OBVIOUS
  <1>t. phase' \in {"up", "closing", "closed"}
    BY DEF TypeOK
  <1>1. pending' \cup batch' = pending \cup batch
    BY <1>u
  <1>2. /\ TypeOK' /\ ItemsReal' /\ EndIsLast' /\ EndFollows' /\ DoneIsQuiet' /\ LastIsKnown'
        /\ FinishedReal' /\ StreamReal' /\ FinishedIsPruned' /\ RetentionBounded'
        /\ \A r : /\ InFlight(r)' = InFlight(r) /\ Written(r)' = Written(r)
                  /\ Retired(r)' <=> Retired(r)
        /\ Finished' = Finished
    BY <1>u, <1>t, <1>1, SameJournal
  <1>3. /\ \A r : /\ Of(r)' = Of(r) /\ (Over(r)' <=> Over(r)) /\ (Started(r)' <=> Started(r))
                  /\ LastProgress(r)' = LastProgress(r)
        /\ \A i : Durable(i)' <=> Durable(i)
    BY <1>u, SameLog
  <1>4. EndsTogether'
    BY <1>u, <1>3 DEF EndsTogether
  <1>5. InOrder'
    BY <1>u DEF InOrder
  <1>6. ClosingInOrder'
    <2>1. phase' # "up" => \A r \in Runs : Started(r) => Over(r) \/ r \in dead
      BY DEF ClosingInOrder
    <2>2. phase' = "closed" => pending = {} /\ batch = {}
      BY DEF ClosingInOrder
    <2> QED
      BY <1>u, <1>3, <2>1, <2>2 DEF ClosingInOrder
  <1>7. ASSUME NEW r \in Runs \ gap, Started(r), ~Retired(r), phase' = "closed"
        PROVE  r \in Finished
    <2>0. {i \in Of(r) : Durable(i)} \subseteq Written(r) \cup InFlight(r)
      BY <1>7 DEF DurableKept
    <2>1. CASE phase = "closed"
      BY <1>7, <2>1 DEF DurableKept
    <2>2. CASE phase = "closing" /\ batch = {} /\ pending = {}
      <3>1. r \notin dead
        BY DEF TypeOK
      <3>2. Over(r)
        BY <1>7, <2>2, <3>1 DEF ClosingInOrder
      <3>3. PICK i \in Of(r) : log[i].kind = "final"
        BY <3>2 DEF Over
      <3>4. Durable(i)
        BY <3>3 DEF Durable
      <3>5. InFlight(r) = {}
        BY <2>2 DEF InFlight
      <3>6. i \in Written(r)
        BY <2>0, <3>4, <3>5
      <3>7. Here(r)
        BY <3>6 DEF Written, Here
      <3> QED
        BY <3>2, <3>5, <3>7 DEF RetentionBounded
    <2> QED
      BY <1>7, <2>1, <2>2
  <1>8. DurableKept'
    <2>1. \A r \in Runs \ gap : Started(r) =>
            \/ {i \in Of(r) : Durable(i)} \subseteq Written(r) \cup InFlight(r)
            \/ Retired(r)
      BY DEF DurableKept
    <2>2. \A r : {i \in Of(r)' : Durable(i)'} = {i \in Of(r) : Durable(i)}
      BY <1>3
    <2> QED
      BY <1>u, <1>2, <1>3, <1>7, <2>1, <2>2 DEF DurableKept
  <1> QED
    BY <1>2, <1>4, <1>5, <1>6, <1>8

-----------------------------------------------------------------------------
(* _write.                                                                 *)

(* When the batch is gone the buffer keeps what an end needs.              *)
LEMMA BatchGone ==
    ASSUME TypeOK, ItemsReal, EndsTogether, EndIsLast, InOrder, EndFollows,
           log' = log, pending' = pending, batch' = {}
    PROVE  /\ ItemsReal' /\ EndsTogether' /\ EndIsLast' /\ InOrder' /\ EndFollows'
           /\ \A r : InFlight(r)' = {i \in Of(r) : Item(r, i) \in pending}
  <1>1. /\ \A r : /\ Of(r)' = Of(r) /\ (Over(r)' <=> Over(r))
                  /\ LastProgress(r)' = LastProgress(r)
        /\ EndIsLast'
    BY SameLog
  <1>2. ItemsReal'
    <2>1. \A x \in pending :
            /\ x.run \in Runs /\ x.at \in Of(x.run)
            /\ \/ x = Item(x.run, x.at)
               \/ x = Finalize(x.run, x.at, LastProgress(x.run)) /\ log[x.at].kind = "final"
      BY DEF ItemsReal
    <2> QED
      BY <1>1, <2>1 DEF ItemsReal
  <1>3. EndsTogether'
    BY <1>1 DEF EndsTogether
  <1>4. InOrder'
    BY DEF InOrder
  <1>5. EndFollows'
    <2>1. ASSUME NEW x \in pending, Over(x.run)
          PROVE  \E y \in pending : y.op = "finalize" /\ y.run = x.run
      <3>1. PICK y \in pending \cup batch : y.op = "finalize" /\ y.run = x.run
        BY <2>1 DEF EndFollows
      <3>2. y \notin batch
        BY <3>1, EndClosesRun
      <3> QED
        BY <3>1, <3>2
    <2> QED
      BY <1>1, <2>1 DEF EndFollows
  <1>6. \A r : InFlight(r)' = {i \in Of(r) : Item(r, i) \in pending}
    BY <1>1 DEF InFlight
  <1> QED
    BY <1>1, <1>2, <1>3, <1>4, <1>5, <1>6

(* A failed write loses what it had of the runs it names, of no other.     *)
LEMMA WriteFailsKeeps ==
    ASSUME JournalInv, WriteFails
    PROVE  JournalInv'
  <1> USE DEF JournalInv, JournalInStep
  <1>u. /\ batch # {} /\ batch' = {} /\ pending' = pending /\ log' = log /\ last' = last
        /\ phase' = phase /\ stream' = stream /\ finished' = finished
        /\ gap' = gap \cup Named(batch) /\ dead' = dead
        /\ faults < MaxFaults /\ faults' = faults + 1
    BY DEF WriteFails, store
  <1>1. /\ \A r : /\ Of(r)' = Of(r) /\ (Over(r)' <=> Over(r)) /\ (Started(r)' <=> Started(r))
                  /\ LastProgress(r)' = LastProgress(r)
        /\ \A i : Durable(i)' <=> Durable(i)
    BY <1>u, SameLog
  <1>2. /\ ItemsReal' /\ EndsTogether' /\ EndIsLast' /\ InOrder' /\ EndFollows'
        /\ \A r : InFlight(r)' = {i \in Of(r) : Item(r, i) \in pending}
    BY <1>u, BatchGone
  <1>3. \A r : (Here(r)' <=> Here(r)) /\ Written(r)' = Written(r)
    BY <1>u DEF Here, Written
  <1>4. Finished' = Finished
    BY <1>u DEF Finished
  <1>5. ASSUME NEW r, \A x \in batch : x.run # r PROVE InFlight(r)' = InFlight(r)
    <2>1. \A i : Item(r, i) \notin batch
      BY <1>5, ItemParts
    <2> QED
      BY <1>2, <2>1 DEF InFlight
  <1>6. \A r : r \notin Named(batch) => \A x \in batch : x.run # r
    BY DEF Named
  <1>7. TypeOK'
    <2>1. faults' \in 0 .. MaxFaults
      <3>1. faults \in 0 .. MaxFaults /\ MaxFaults \in Nat
        BY JournalAssumption DEF TypeOK
      <3> QED
        BY <1>u, <3>1, SMT
    <2>2. gap' \subseteq Runs /\ dead' \subseteq gap'
      BY <1>u DEF TypeOK, Named, ItemsReal
    <2> QED
      BY <1>u, <1>1, <2>1, <2>2 DEF TypeOK
  <1>8. DoneIsQuiet' /\ LastIsKnown' /\ FinishedReal' /\ StreamReal'
    <2>1. DoneIsQuiet'
      BY <1>u DEF DoneIsQuiet
    <2>2. LastIsKnown'
      BY <1>u, <1>1 DEF LastIsKnown
    <2>3. FinishedReal'
      BY <1>u, <1>1, <1>4 DEF FinishedReal
    <2>4. StreamReal'
      BY <1>u, <1>1 DEF StreamReal
    <2> QED
      BY <2>1, <2>2, <2>3, <2>4
  <1>9. ClosingInOrder'
    BY <1>u, <1>1 DEF ClosingInOrder
  <1>10. FinishedIsPruned'
    BY <1>u, <1>1, <1>3, <1>4 DEF FinishedIsPruned
  <1>11. RetentionBounded'
    <2>1. Cardinality(Finished') <= KeepRuns
      BY <1>4 DEF RetentionBounded
    <2>2. ASSUME NEW r \in Runs, Here(r), InFlight(r)' = {},
                 r \in dead \/ (Over(r) /\ r \notin gap')
          PROVE  r \in Finished
      <3>1. \A x \in batch : x.run # r
        <4>1. CASE r \in dead
          BY <4>1 DEF DoneIsQuiet
        <4>2. CASE r \notin gap'
          BY <1>u, <1>6, <4>2
        <4> QED
          BY <2>2, <4>1, <4>2
      <3>2. InFlight(r) = {}
        BY <1>5, <2>2, <3>1
      <3> QED
        BY <1>u, <2>2, <3>2 DEF RetentionBounded
    <2> QED
      BY <1>u, <1>1, <1>3, <1>4, <2>1, <2>2 DEF RetentionBounded
  <1>12. DurableKept'
    <2> SUFFICES ASSUME NEW r \in Runs \ gap', Started(r)'
                 PROVE  \/ /\ {i \in Of(r)' : Durable(i)'} \subseteq Written(r)' \cup InFlight(r)'
                           /\ phase' = "closed" => r \in Finished'
                        \/ Retired(r)'
      BY DEF DurableKept
    <2>1. InFlight(r)' = InFlight(r)
      BY <1>u, <1>5, <1>6
    <2>2. {i \in Of(r)' : Durable(i)'} = {i \in Of(r) : Durable(i)}
      BY <1>1
    <2>3. Retired(r)' <=> Retired(r)
      BY <1>1, <1>3, <1>4, <2>1 DEF Retired
    <2>4. r \in Runs \ gap /\ Started(r)
      BY <1>u, <1>1
    <2> QED
      BY <1>u, <1>3, <1>4, <2>1, <2>2, <2>3, <2>4 DEF DurableKept
  <1> QED
    BY <1>2, <1>7, <1>8, <1>9, <1>10, <1>11, <1>12


(* What a write makes of each run, before retention.                       *)
WrittenRows == [r \in Runs |-> Pruned(r, Appended(r))]
WrittenTimes == [r \in Runs |-> FinishedAt(r)]

(* The finish times of a write: those of before, and of the ends it has.   *)
LEMMA WriteTimes ==
    ASSUME TypeOK, ItemsReal, EndIsLast, InOrder, DoneIsQuiet, FinishedReal
    PROVE  /\ Times(WrittenTimes, Len(log)) /\ Len(log) \in Nat
           /\ Finished \subseteq Dated(WrittenTimes)
           /\ \A r \in Runs :
                 /\ Ends(r) = {} => WrittenTimes[r] = finished[r]
                 /\ Ends(r) # {} => WrittenTimes[r] > 0 /\ finished[r] = 0
                 /\ WrittenTimes[r] > 0 =>
                       /\ WrittenTimes[r] \in Of(r) /\ (Over(r) \/ r \in dead)
                       /\ \A y \in pending : y.run # r
  <1> DEFINE t == WrittenTimes
  <1>0. Len(log) \in Nat /\ DOMAIN log = 1 .. Len(log) /\ \A r \in Runs : Of(r) \subseteq DOMAIN log
    BY Places
  <1>1. \A r \in Runs : t[r] = FinishedAt(r)
    BY DEF WrittenTimes
  <1>f. \A r \in Runs : finished[r] \in 0 .. Len(log)
    BY DEF TypeOK
  <1>2. ASSUME NEW r \in Runs, Ends(r) = {}
        PROVE  /\ t[r] = finished[r] /\ t[r] \in 0 .. Len(log)
               /\ t[r] > 0 => /\ t[r] \in Of(r) /\ (Over(r) \/ r \in dead)
                              /\ \A y \in pending : y.run # r
    <2>1. t[r] = finished[r]
      BY <1>1, <1>2, NoEnd
    <2>2. ASSUME finished[r] > 0
          PROVE  /\ finished[r] \in Of(r) /\ (Over(r) \/ r \in dead)
                 /\ \A y \in pending : y.run # r
      <3>1. r \in Finished
        BY <2>2 DEF Finished
      <3>2. finished[r] # 0
        BY <1>f, <2>2, SMT
      <3> QED
        BY <3>1, <3>2 DEF FinishedReal, DoneIsQuiet
    <2> QED
      BY <1>f, <2>1, <2>2
  <1>3. ASSUME NEW r \in Runs, Ends(r) # {}
        PROVE  /\ t[r] > 0 /\ finished[r] = 0 /\ t[r] \in 0 .. Len(log)
               /\ t[r] \in Of(r) /\ Over(r) /\ \A y \in pending : y.run # r
    <2>1. PICK e \in Of(r) : /\ log[e].kind = "final" /\ e > 0
                             /\ Ends(r) = {Finalize(r, e, LastProgress(r))}
                             /\ finished[r] = 0 /\ FinishedAt(r) = e
      BY <1>3, OneEnd
    <2>2. PICK x \in batch : x.op = "finalize" /\ x.run = r
      BY <1>3 DEF Ends
    <2>3. \A y \in pending : y.run # r
      BY <2>2, EndClosesRun
    <2>4. Over(r)
      BY <2>1 DEF Over
    <2>5. e \in 1 .. Len(log)
      BY <1>0, <2>1
    <2>6. e \in 0 .. Len(log)
      BY <1>0, <2>5, SMT
    <2> QED
      BY <1>1, <2>1, <2>3, <2>4, <2>6
  <1>4. ASSUME NEW r \in Runs
        PROVE  /\ t[r] \in 0 .. Len(log)
               /\ t[r] > 0 => /\ t[r] \in Of(r) /\ (Over(r) \/ r \in dead)
                              /\ \A y \in pending : y.run # r
    BY <1>2, <1>3
  <1>5. Times(t, Len(log))
    <2>1. t \in [Runs -> 0 .. Len(log)]
      BY <1>4 DEF WrittenTimes
    <2>2. \A q, r \in Runs : t[q] = t[r] /\ t[q] > 0 => q = r
      <3> SUFFICES ASSUME NEW q \in Runs, NEW r \in Runs, t[q] = t[r], t[q] > 0 PROVE q = r
        OBVIOUS
      <3>1. t[q] \in Of(q) /\ t[q] \in Of(r)
        BY <1>4
      <3> QED
        BY <3>1 DEF Of
    <2> QED
      BY <2>1, <2>2 DEF Times
  <1>6. Finished \subseteq Dated(t)
    <2> SUFFICES ASSUME NEW r \in Finished PROVE t[r] > 0 /\ r \in Runs
      BY DEF Dated
    <2>1. r \in Runs /\ finished[r] > 0
      BY DEF Finished
    <2>2. CASE Ends(r) = {}
      BY <1>2, <2>1, <2>2
    <2>3. CASE Ends(r) # {}
      BY <1>3, <2>1, <2>3
    <2> QED
      BY <2>1, <2>2, <2>3
  <1> QED
    BY <1>0, <1>2, <1>3, <1>4, <1>5, <1>6

(* The rows of a run are of its events, and the facts in the batch are     *)
(* among them.                                                             *)
LEMMA WriteRows ==
    ASSUME TypeOK, ItemsReal, EndIsLast, DoneIsQuiet, StreamReal, NEW r \in Runs
    PROVE  /\ (\A x \in batch : x.run # r) => WrittenRows[r] = stream[r]
           /\ \A e \in WrittenRows[r] :
                 /\ e \in [ev : DOMAIN log, durable : BOOLEAN] /\ e.ev \in Of(r)
                 /\ Durable(e.ev) => e.durable
                 /\ Ends(r) # {} => e.durable /\ (Durable(e.ev) \/ e.ev \in LastProgress(r))
                 /\ Ends(r) = {} /\ finished[r] = 0 => (e.durable => Durable(e.ev))
           /\ Ends(r) # {} => \A i \in LastProgress(r) : \E e \in WrittenRows[r] : e.ev = i
           /\ \A i \in Of(r) : Durable(i) /\ (i \in Written(r) \/ Item(r, i) \in batch) =>
                 \E e \in WrittenRows[r] : e.ev = i
  <1> DEFINE fresh == {[ev |-> x.at, durable |-> Durable(x.at)] :
                           x \in {y \in batch : y.op = "append" /\ y.run = r}}
             left == {[ev |-> i, durable |-> TRUE] : i \in UNION {x.keepers : x \in Ends(r)}}
             rows == WrittenRows[r]
  <1>0. Appended(r) = stream[r] \cup fresh
    BY DEF Appended
  <1>1. Ends(r) = {} => rows = stream[r] \cup fresh
    BY <1>0 DEF WrittenRows, Pruned
  <1>2. Ends(r) # {} => rows = {e \in stream[r] \cup fresh : e.durable} \cup left
    BY <1>0 DEF WrittenRows, Pruned
  <1>3. ASSUME NEW e \in fresh
        PROVE  /\ e \in [ev : DOMAIN log, durable : BOOLEAN] /\ e.ev \in Of(r)
               /\ e.durable <=> Durable(e.ev)
    <2>1. PICK x \in batch : x.run = r /\ e = [ev |-> x.at, durable |-> Durable(x.at)]
      OBVIOUS
    <2>2. x.at \in Of(r)
      BY <2>1 DEF ItemsReal
    <2>3. e.ev = x.at /\ (e.durable <=> Durable(x.at))
      BY <2>1
    <2>4. Durable(x.at) \in BOOLEAN
      BY DEF Durable
    <2>5. Of(r) \subseteq DOMAIN log
      BY DEF Of
    <2> QED
      BY <2>1, <2>2, <2>3, <2>4, <2>5
  <1>4. ASSUME NEW e \in stream[r]
        PROVE  /\ e \in [ev : DOMAIN log, durable : BOOLEAN] /\ e.ev \in Of(r)
               /\ Durable(e.ev) => e.durable
               /\ finished[r] = 0 => (e.durable => Durable(e.ev))
    BY DEF TypeOK, StreamReal
  <1>5. ASSUME Ends(r) # {}
        PROVE  left = {[ev |-> i, durable |-> TRUE] : i \in LastProgress(r)} /\ finished[r] = 0
    <2>1. PICK e \in Of(r) : Ends(r) = {Finalize(r, e, LastProgress(r))} /\ finished[r] = 0
      BY <1>5, OneEnd
    <2>2. UNION {x.keepers : x \in Ends(r)} = LastProgress(r)
      BY <2>1, ItemParts
    <2> QED
      BY <2>1, <2>2
  <1>6. LastProgress(r) \subseteq Of(r) /\ Of(r) \subseteq DOMAIN log
    BY DEF LastProgress, Progress, Of
  <1>f. ASSUME NEW i, Item(r, i) \in batch
        PROVE  [ev |-> i, durable |-> Durable(i)] \in fresh
    <2>1. Item(r, i).op = "append" /\ Item(r, i).run = r /\ Item(r, i).at = i
      BY ItemParts
    <2> QED
      BY <1>f, <2>1
  <1>e. (\A x \in batch : x.run # r) => fresh = {} /\ Ends(r) = {}
    BY DEF Ends
  <1> HIDE DEF fresh, left, rows
  <1>7. (\A x \in batch : x.run # r) => rows = stream[r]
    BY <1>1, <1>e
  <1>8. ASSUME NEW e \in rows, Ends(r) = {}
        PROVE  /\ e \in [ev : DOMAIN log, durable : BOOLEAN] /\ e.ev \in Of(r)
               /\ Durable(e.ev) => e.durable
               /\ finished[r] = 0 => (e.durable => Durable(e.ev))
    BY <1>1, <1>3, <1>4, <1>8
  <1>9. ASSUME NEW e \in rows, Ends(r) # {}
        PROVE  /\ e \in [ev : DOMAIN log, durable : BOOLEAN] /\ e.ev \in Of(r)
               /\ e.durable /\ (Durable(e.ev) \/ e.ev \in LastProgress(r))
    <2>1. CASE e \in left
      <3>1. PICK i \in LastProgress(r) : e = [ev |-> i, durable |-> TRUE]
        BY <1>5, <1>9, <2>1
      <3> QED
        BY <1>6, <3>1
    <2>2. CASE e \in stream[r] /\ e.durable
      BY <1>4, <1>5, <1>9, <2>2
    <2>3. CASE e \in fresh /\ e.durable
      BY <1>3, <2>3
    <2> QED
      BY <1>2, <1>9, <2>1, <2>2, <2>3
  <1>10. ASSUME Ends(r) # {}, NEW i \in LastProgress(r) PROVE \E e \in rows : e.ev = i
    <2>1. [ev |-> i, durable |-> TRUE] \in rows
      BY <1>2, <1>5, <1>10
    <2> QED
      BY <2>1
  <1>11. ASSUME NEW i \in Of(r), Durable(i), i \in Written(r) \/ Item(r, i) \in batch
         PROVE  \E e \in rows : e.ev = i
    <2>1. \E e \in stream[r] \cup fresh : e.ev = i /\ e.durable
      <3>1. CASE i \in Written(r)
        BY <1>4, <1>11, <3>1 DEF Written
      <3>2. CASE Item(r, i) \in batch
        <4>1. [ev |-> i, durable |-> Durable(i)] \in fresh
          BY <1>f, <3>2
        <4> QED
          BY <1>11, <4>1
      <3> QED
        BY <1>11, <3>1, <3>2
    <2>2. PICK e \in stream[r] \cup fresh : e.ev = i /\ e.durable
      BY <2>1
    <2>3. e \in rows
      BY <1>1, <1>2, <2>2
    <2> QED
      BY <2>2, <2>3
  <1> QED
    BY <1>7, <1>8, <1>9, <1>10, <1>11 DEF rows


(* No event of a run is buffered only if nothing of it is.                 *)
LEMMA QuietBuffer ==
    ASSUME ItemsReal, EndsTogether, NEW r \in Runs, \A i \in Of(r) : Item(r, i) \notin pending,
           NEW x \in pending
    PROVE  x.run # r
  <1> SUFFICES ASSUME x.run = r PROVE FALSE
    OBVIOUS
  <1>1. x.at \in Of(r)
    BY DEF ItemsReal
  <1>2. x = Finalize(r, x.at, LastProgress(r)) /\ log[x.at].kind = "final"
    BY <1>1 DEF ItemsReal
  <1>3. Item(r, x.at) \in pending
    BY <1>1, <1>2 DEF EndsTogether
  <1> QED
    BY <1>1, <1>3

(* A write lands its batch, prunes the runs that end with it, and retires  *)
(* those beyond the last keep_runs.                                        *)
LEMMA WriteKeeps ==
    ASSUME JournalInv, Write
    PROVE  JournalInv'
  <1> USE DEF JournalInv, JournalInStep
  <1> DEFINE t == WrittenTimes
             rows == WrittenRows
             X == Expired(t)
  <1>u. /\ batch # {} /\ batch' = {} /\ pending' = pending /\ log' = log /\ last' = last
        /\ phase' = phase /\ gap' = gap /\ dead' = dead /\ faults' = faults
        /\ Commit(rows, t)
    BY DEF Write, WrittenTimes, WrittenRows
  <1>1. /\ \A r : /\ Of(r)' = Of(r) /\ (Over(r)' <=> Over(r)) /\ (Started(r)' <=> Started(r))
                  /\ LastProgress(r)' = LastProgress(r)
        /\ \A i : Durable(i)' <=> Durable(i)
    BY <1>u, SameLog
  <1>2. /\ ItemsReal' /\ EndsTogether' /\ EndIsLast' /\ InOrder' /\ EndFollows'
        /\ \A r : InFlight(r)' = {i \in Of(r) : Item(r, i) \in pending}
    BY <1>u, BatchGone
  <1>3. /\ Times(t, Len(log)) /\ Len(log) \in Nat /\ Finished \subseteq Dated(t)
        /\ \A r \in Runs :
              /\ Ends(r) = {} => t[r] = finished[r]
              /\ Ends(r) # {} => t[r] > 0 /\ finished[r] = 0
              /\ t[r] > 0 => /\ t[r] \in Of(r) /\ (Over(r) \/ r \in dead)
                             /\ \A y \in pending : y.run # r
    BY WriteTimes
  <1>4. /\ \A r \in X : stream'[r] = {} /\ finished'[r] = 0
        /\ \A r \in Runs \ X : stream'[r] = rows[r] /\ finished'[r] = t[r]
        /\ Finished' = Dated(t) \ X
        /\ Cardinality(Finished') <= KeepRuns
        /\ X # {} => Cardinality(Finished') = KeepRuns
        /\ Cardinality(Finished) = KeepRuns => Cardinality(Finished') = KeepRuns
    BY <1>3, <1>u, CommitKeeps
  <1>5. \A r \in Runs :
           /\ (\A x \in batch : x.run # r) => rows[r] = stream[r]
           /\ \A e \in rows[r] :
                 /\ e \in [ev : DOMAIN log, durable : BOOLEAN] /\ e.ev \in Of(r)
                 /\ Durable(e.ev) => e.durable
                 /\ Ends(r) # {} => e.durable /\ (Durable(e.ev) \/ e.ev \in LastProgress(r))
                 /\ Ends(r) = {} /\ finished[r] = 0 => (e.durable => Durable(e.ev))
           /\ Ends(r) # {} => \A i \in LastProgress(r) : \E e \in rows[r] : e.ev = i
           /\ \A i \in Of(r) : Durable(i) /\ (i \in Written(r) \/ Item(r, i) \in batch) =>
                 \E e \in rows[r] : e.ev = i
    BY WriteRows
  <1>x. X \subseteq Dated(t) /\ Dated(t) \subseteq Runs /\ \A r \in Dated(t) : t[r] > 0
    BY DEF Expired, Dated
  <1>c. /\ stream' = [r \in Runs |-> IF r \in X THEN {} ELSE rows[r]]
        /\ finished' = [r \in Runs |-> IF r \in X THEN 0 ELSE t[r]]
    BY <1>u DEF Commit
  <1>n. \A r \in Runs : t[r] \in 0 .. Len(log)
    BY <1>3 DEF Times
  <1>w. \A r : (Written(r)' = {e.ev : e \in stream'[r]}) /\ (Here(r)' <=> stream'[r] # {})
    BY DEF Written, Here
  <1> HIDE DEF t, rows, X
  <1>6. TypeOK'
    <2>1. stream' \in [Runs -> SUBSET [ev : DOMAIN log, durable : BOOLEAN]]
      <3>1. \A r \in Runs : rows[r] \in SUBSET [ev : DOMAIN log, durable : BOOLEAN]
        BY <1>5
      <3> QED
        BY <1>c, <3>1
    <2>2. finished' \in [Runs -> 0 .. Len(log)]
      <3>1. 0 \in 0 .. Len(log)
        BY <1>3, SMT
      <3> QED
        BY <1>c, <1>n, <3>1
    <2> QED
      BY <1>u, <1>1, <2>1, <2>2 DEF TypeOK
  <1>7. DoneIsQuiet'
    <2> SUFFICES ASSUME NEW y \in pending PROVE finished'[y.run] = 0 /\ y.run \notin dead
      BY <1>u DEF DoneIsQuiet
    <2>1. y.run \in Runs /\ y.run \notin dead
      BY DEF ItemsReal, DoneIsQuiet
    <2>2. ~(t[y.run] > 0)
      BY <1>3, <2>1
    <2>3. t[y.run] = 0
      BY <1>3, <1>n, <2>1, <2>2, SMT
    <2> QED
      BY <1>4, <2>1, <2>3
  <1>8. LastIsKnown'
    BY <1>u, <1>1 DEF LastIsKnown
  <1>9. FinishedReal'
    <2> SUFFICES ASSUME NEW r \in Finished'
                 PROVE  finished'[r] \in Of(r) /\ (Over(r) \/ r \in dead)
      BY <1>u, <1>1 DEF FinishedReal
    <2>1. r \in Runs \ X /\ t[r] > 0
      BY <1>4, <1>x
    <2> QED
      BY <1>3, <1>4, <2>1
  <1>10. StreamReal'
    <2> SUFFICES ASSUME NEW r \in Runs, NEW e \in stream'[r]
                 PROVE  /\ e.ev \in Of(r)
                        /\ Durable(e.ev) => e.durable
                        /\ finished'[r] = 0 => (e.durable => Durable(e.ev))
      BY <1>1 DEF StreamReal
    <2>1. r \in Runs \ X /\ e \in rows[r] /\ finished'[r] = t[r]
      BY <1>4
    <2>2. t[r] = 0 => Ends(r) = {} /\ finished[r] = 0
      BY <1>3, SMT
    <2> QED
      BY <1>5, <2>1, <2>2
  <1>11. ClosingInOrder'
    BY <1>u, <1>1 DEF ClosingInOrder
  <1>q. ASSUME NEW r \in Runs, finished[r] > 0
        PROVE  (\A x \in batch : x.run # r) /\ Ends(r) = {}
    <2>1. finished[r] # 0
      BY <1>q, SMT
    <2> QED
      BY <2>1 DEF DoneIsQuiet, Ends
  <1>12. FinishedIsPruned'
    <2> SUFFICES ASSUME NEW r \in Finished' \ gap
                 PROVE  /\ \A e \in stream'[r] : e.durable
                        /\ \A i \in Of(r) : log[i].kind = "progress" =>
                             ((\A j \in Of(r) : log[j].kind = "progress" => j <= i)
                                  <=> i \in Written(r)')
      BY <1>u, <1>1 DEF FinishedIsPruned
    <2>1. r \in Runs \ X /\ t[r] > 0 /\ stream'[r] = rows[r]
      BY <1>4, <1>x
    <2>2. CASE Ends(r) = {}
      <3>1. finished[r] > 0
        BY <1>3, <2>1, <2>2
      <3>2. stream'[r] = stream[r] /\ r \in Finished \ gap
        BY <1>5, <1>q, <2>1, <3>1 DEF Finished
      <3>3. Written(r)' = Written(r)
        BY <1>w, <3>2 DEF Written
      <3> QED
        BY <3>2, <3>3 DEF FinishedIsPruned
    <2>3. CASE Ends(r) # {}
      <3>1. \A e \in stream'[r] : e.durable /\ (Durable(e.ev) \/ e.ev \in LastProgress(r))
        BY <1>5, <2>1, <2>3
      <3>2. ASSUME NEW i \in Of(r), log[i].kind = "progress"
            PROVE  i \in LastProgress(r) <=> i \in Written(r)'
        <4>1. ~Durable(i)
          BY <3>2 DEF Durable
        <4>2. i \in LastProgress(r) => i \in Written(r)'
          BY <1>5, <1>w, <2>1, <2>3
        <4>3. i \in Written(r)' => i \in LastProgress(r)
          BY <1>w, <3>1, <4>1
        <4> QED
          BY <4>2, <4>3
      <3>3. ASSUME NEW i \in Of(r), log[i].kind = "progress"
            PROVE  i \in LastProgress(r) <=> \A j \in Of(r) : log[j].kind = "progress" => j <= i
        BY <3>3 DEF LastProgress, Progress
      <3> QED
        BY <3>1, <3>2, <3>3
    <2> QED
      BY <2>2, <2>3
  <1>13. RetentionBounded'
    <2> SUFFICES ASSUME NEW r \in Runs, Here(r)', InFlight(r)' = {},
                        r \in dead \/ (Over(r) /\ r \notin gap)
                 PROVE  r \in Finished'
      BY <1>u, <1>1, <1>4 DEF RetentionBounded
    <2>1. r \in Runs \ X /\ stream'[r] = rows[r] /\ rows[r] # {}
      BY <1>4, <1>w
    <2>2. \A y \in pending : y.run # r
      <3>1. \A i \in Of(r) : Item(r, i) \notin pending
        BY <1>2
      <3> QED
        BY <3>1, QuietBuffer
    <2>3. t[r] > 0
      <3>1. CASE \A x \in batch : x.run # r
        <4>1. InFlight(r) = {}
          BY <2>2, <3>1, NoneInFlight
        <4>2. Here(r)
          BY <1>5, <2>1, <3>1 DEF Here
        <4>3. r \in Finished
          BY <4>1, <4>2 DEF RetentionBounded
        <4> QED
          BY <1>3, <1>x, <4>3
      <3>2. CASE \E x \in batch : x.run = r
        <4>1. PICK x \in batch : x.run = r
          BY <3>2
        <4>2. r \notin dead
          BY <4>1 DEF DoneIsQuiet
        <4>3. Over(x.run)
          BY <4>1, <4>2
        <4>4. PICK y \in pending \cup batch : y.op = "finalize" /\ y.run = x.run
          BY <4>3 DEF EndFollows
        <4>5. y \in Ends(r)
          BY <2>2, <4>1, <4>4 DEF Ends
        <4> QED
          BY <1>3, <4>5
      <3> QED
        BY <3>1, <3>2
    <2> QED
      BY <1>4, <2>1, <2>3 DEF Dated
  <1>14. DurableKept'
    <2> SUFFICES ASSUME NEW r \in Runs \ gap, Started(r)
                 PROVE  \/ /\ {i \in Of(r) : Durable(i)} \subseteq Written(r)' \cup InFlight(r)'
                           /\ phase' = "closed" => r \in Finished'
                        \/ Retired(r)'
      BY <1>u, <1>1 DEF DurableKept
    <2>d. r \notin dead
      BY DEF TypeOK
    <2>1. CASE r \in X
      <3>1. t[r] > 0
        BY <1>x, <2>1
      <3>2. Over(r) /\ \A y \in pending : y.run # r
        BY <1>3, <2>d, <3>1
      <3>3. InFlight(r)' = {}
        BY <1>2, <3>2, ItemParts
      <3>4. ~Here(r)' /\ Cardinality(Finished') = KeepRuns
        BY <1>4, <1>w, <2>1
      <3> QED
        BY <1>1, <3>2, <3>3, <3>4 DEF Retired
    <2>2. CASE Retired(r) /\ r \notin X
      <3>1. InFlight(r) = {} /\ Over(r) /\ stream[r] = {} /\ Cardinality(Finished) = KeepRuns
        BY <2>2 DEF Retired, Here
      <3>2. \A x \in pending \cup batch : x.run # r
        BY <3>1, NothingFlies
      <3>3. rows[r] = {}
        BY <1>5, <3>1, <3>2
      <3>4. ~Here(r)' /\ Cardinality(Finished') = KeepRuns
        BY <1>4, <1>w, <2>2, <3>1, <3>3
      <3>5. InFlight(r)' = {}
        BY <1>2, <3>2, ItemParts
      <3> QED
        BY <1>1, <3>1, <3>4, <3>5 DEF Retired
    <2>3. CASE ~Retired(r) /\ r \notin X
      <3>1. {i \in Of(r) : Durable(i)} \subseteq Written(r) \cup InFlight(r)
        BY <2>3 DEF DurableKept
      <3>2. phase # "closed"
        BY <1>u DEF ClosingInOrder
      <3>3. ASSUME NEW i \in Of(r), Durable(i) PROVE i \in Written(r)' \cup InFlight(r)'
        <4>1. i \in Written(r) \/ Item(r, i) \in batch \/ Item(r, i) \in pending
          BY <3>1, <3>3 DEF InFlight
        <4>2. CASE Item(r, i) \in pending
          BY <1>2, <4>2
        <4>3. CASE i \in Written(r) \/ Item(r, i) \in batch
          <5>1. PICK e \in rows[r] : e.ev = i
            BY <1>5, <3>3, <4>3
          <5> QED
            BY <1>4, <1>w, <2>3, <5>1
        <4> QED
          BY <4>1, <4>2, <4>3
      <3> QED
        BY <1>u, <3>2, <3>3
    <2> QED
      BY <2>1, <2>2, <2>3
  <1> QED
    BY <1>2, <1>6, <1>7, <1>8, <1>9, <1>10, <1>11, <1>12, <1>13, <1>14


-----------------------------------------------------------------------------
(* bootstrap.                                                              *)

AbandonedTimes == [r \in Runs |-> Abandoned(r)]

(* A run the journal has a row of has a finish time after bootstrap.       *)
LEMMA RestartTimes ==
    ASSUME TypeOK, FinishedReal, StreamReal
    PROVE  /\ Times(AbandonedTimes, Len(log)) /\ Len(log) \in Nat
           /\ Finished \subseteq Dated(AbandonedTimes)
           /\ \A r \in Runs :
                 /\ AbandonedTimes[r] > 0 <=> Here(r) \/ finished[r] > 0
                 /\ AbandonedTimes[r] > 0 => AbandonedTimes[r] \in Of(r)
  <1> DEFINE t == AbandonedTimes
  <1>0. Len(log) \in Nat /\ DOMAIN log = 1 .. Len(log) /\ \A r \in Runs : Of(r) \subseteq DOMAIN log
    BY Places
  <1>1. \A r \in Runs : t[r] = Abandoned(r)
    BY DEF AbandonedTimes
  <1>f. \A r \in Runs : finished[r] \in 0 .. Len(log)
    BY DEF TypeOK
  <1>2. ASSUME NEW r \in Runs, Here(r), finished[r] = 0
        PROVE  t[r] > 0 /\ t[r] \in Of(r) /\ t[r] \in 0 .. Len(log)
    <2> DEFINE T == {e.ev : e \in stream[r]}
    <2>1. T \subseteq Of(r) /\ T # {}
      BY <1>2 DEF StreamReal, Here
    <2>2. t[r] = Max(T)
      BY <1>1, <1>2 DEF Abandoned
    <2> HIDE DEF T
    <2>3. T \subseteq 1 .. Len(log)
      BY <1>0, <2>1
    <2>4. T \subseteq 0 .. Len(log)
      BY <1>0, <2>3, SMT
    <2>5. Max(T) \in T
      BY <1>0, <2>1, <2>4, LastPlace
    <2>6. Max(T) \in 1 .. Len(log)
      BY <2>3, <2>5
    <2>7. Max(T) > 0 /\ Max(T) \in 0 .. Len(log)
      BY <1>0, <2>6, SMT
    <2> QED
      BY <2>1, <2>2, <2>5, <2>7
  <1>3. ASSUME NEW r \in Runs, ~(Here(r) /\ finished[r] = 0)
        PROVE  t[r] = finished[r] /\ t[r] \in 0 .. Len(log) /\ (t[r] > 0 => t[r] \in Of(r))
    <2>1. t[r] = finished[r]
      BY <1>1, <1>3 DEF Abandoned
    <2>2. finished[r] > 0 => finished[r] \in Of(r)
      BY DEF FinishedReal, Finished
    <2> QED
      BY <1>f, <2>1, <2>2
  <1>4. ASSUME NEW r \in Runs
        PROVE  t[r] > 0 <=> Here(r) \/ finished[r] > 0
    <2>1. CASE Here(r) /\ finished[r] = 0
      BY <1>2, <2>1
    <2>2. CASE ~(Here(r) /\ finished[r] = 0)
      <3>1. Here(r) => finished[r] > 0
        BY <1>0, <1>f, <2>2, SMT
      <3> QED
        BY <1>3, <2>2, <3>1
    <2> QED
      BY <2>1, <2>2
  <1>5. \A r \in Runs : t[r] \in 0 .. Len(log) /\ (t[r] > 0 => t[r] \in Of(r))
    BY <1>2, <1>3
  <1>6. Times(t, Len(log))
    <2>1. t \in [Runs -> 0 .. Len(log)]
      BY <1>5 DEF AbandonedTimes
    <2>2. \A q, r \in Runs : t[q] = t[r] /\ t[q] > 0 => q = r
      <3> SUFFICES ASSUME NEW q \in Runs, NEW r \in Runs, t[q] = t[r], t[q] > 0 PROVE q = r
        OBVIOUS
      <3>1. t[q] \in Of(q) /\ t[q] \in Of(r)
        BY <1>5
      <3> QED
        BY <3>1 DEF Of
    <2> QED
      BY <2>1, <2>2 DEF Times
  <1>7. Finished \subseteq Dated(t)
    BY <1>4 DEF Finished, Dated
  <1> QED
    BY <1>0, <1>4, <1>5, <1>6, <1>7

(* The runs of the dead process are over; the others are as they were,     *)
(* less what was on its way.                                               *)
LEMMA RestartKeeps ==
    ASSUME JournalInv, Restart
    PROVE  JournalInv'
  <1> USE DEF JournalInv, JournalInStep
  <1> DEFINE t == AbandonedTimes
             X == Expired(t)
  <1>u. /\ batch' = {} /\ pending' = {} /\ log' = log /\ last' = [r \in Runs |-> {}]
        /\ phase' = "up" /\ dead' = dead \cup {r \in Runs : Started(r) /\ ~Over(r)}
        /\ gap' = gap \cup dead' \cup Named(batch \cup pending)
        /\ faults < MaxFaults /\ faults' = faults + 1
        /\ Commit(stream, t)
    BY DEF Restart, AbandonedTimes
  <1>1. /\ \A r : /\ Of(r)' = Of(r) /\ (Over(r)' <=> Over(r)) /\ (Started(r)' <=> Started(r))
                  /\ LastProgress(r)' = LastProgress(r)
        /\ \A i : Durable(i)' <=> Durable(i)
        /\ EndIsLast'
    BY <1>u, SameLog
  <1>3. /\ Times(t, Len(log)) /\ Len(log) \in Nat /\ Finished \subseteq Dated(t)
        /\ \A r \in Runs : /\ t[r] > 0 <=> Here(r) \/ finished[r] > 0
                           /\ t[r] > 0 => t[r] \in Of(r)
    BY RestartTimes
  <1>4. /\ \A r \in X : stream'[r] = {} /\ finished'[r] = 0
        /\ \A r \in Runs \ X : stream'[r] = stream[r] /\ finished'[r] = t[r]
        /\ Finished' = Dated(t) \ X
        /\ Cardinality(Finished') <= KeepRuns
        /\ X # {} => Cardinality(Finished') = KeepRuns
        /\ Cardinality(Finished) = KeepRuns => Cardinality(Finished') = KeepRuns
    BY <1>3, <1>u, CommitKeeps
  <1>x. X \subseteq Dated(t) /\ Dated(t) \subseteq Runs /\ \A r \in Dated(t) : t[r] > 0
    BY DEF Expired, Dated
  <1>c. /\ stream' = [r \in Runs |-> IF r \in X THEN {} ELSE stream[r]]
        /\ finished' = [r \in Runs |-> IF r \in X THEN 0 ELSE t[r]]
    BY <1>u DEF Commit
  <1>n. \A r \in Runs : t[r] \in 0 .. Len(log)
    BY <1>3 DEF Times
  <1>w. \A r : (Written(r)' = {e.ev : e \in stream'[r]}) /\ (Here(r)' <=> stream'[r] # {})
    BY DEF Written, Here
  <1>i. \A r : InFlight(r)' = {}
    BY <1>u DEF InFlight
  <1> HIDE DEF t, X
  <1>g. ASSUME NEW r \in Runs \ gap', Started(r)
        PROVE  /\ r \notin gap /\ Over(r) /\ InFlight(r) = {} /\ r \notin dead'
    <2>1. r \notin gap /\ r \notin dead' /\ r \notin Named(batch \cup pending)
      BY <1>u
    <2>2. Over(r)
      BY <1>g, <1>u, <2>1
    <2>3. \A x \in pending \cup batch : x.run # r
      BY <2>1 DEF Named
    <2> QED
      BY <2>1, <2>2, <2>3, NoneInFlight
  <1>5. ItemsReal' /\ EndsTogether' /\ InOrder' /\ EndFollows' /\ DoneIsQuiet'
    BY <1>u DEF ItemsReal, EndsTogether, InOrder, EndFollows, DoneIsQuiet
  <1>6. TypeOK'
    <2>1. stream' \in [Runs -> SUBSET [ev : DOMAIN log, durable : BOOLEAN]]
      BY <1>c DEF TypeOK
    <2>2. finished' \in [Runs -> 0 .. Len(log)]
      <3>1. 0 \in 0 .. Len(log)
        BY <1>3, SMT
      <3> QED
        BY <1>c, <1>n, <3>1
    <2>3. /\ last' \in [Runs -> SUBSET DOMAIN log]
          /\ \A r \in Runs : last'[r] \subseteq Of(r) /\ Cardinality(last'[r]) <= 1
      <3>1. Cardinality({}) = 0
        BY FS_EmptySet
      <3>2. \A r \in Runs : last'[r] = {}
        BY <1>u
      <3>3. last' \in [Runs -> SUBSET DOMAIN log]
        BY <1>u
      <3>4. \A r \in Runs : last'[r] \subseteq Of(r) /\ Cardinality(last'[r]) <= 1
        BY <3>1, <3>2, SMT
      <3> QED
        BY <3>3, <3>4
    <2>4. faults' \in 0 .. MaxFaults
      <3>1. faults \in 0 .. MaxFaults /\ MaxFaults \in Nat
        BY JournalAssumption DEF TypeOK
      <3> QED
        BY <1>u, <3>1, SMT
    <2>5. gap' \subseteq Runs /\ dead' \subseteq gap'
      <3>1. gap \subseteq Runs /\ dead \subseteq gap
        BY DEF TypeOK
      <3>2. Named(batch \cup pending) \subseteq Runs
        BY DEF Named, ItemsReal
      <3> QED
        BY <1>u, <3>1, <3>2
    <2>6. log \in Seq([run : Runs, kind : Kinds])
      BY DEF TypeOK
    <2> QED
      BY <1>u, <1>1, <2>1, <2>2, <2>3, <2>4, <2>5, <2>6 DEF TypeOK
  <1>8. LastIsKnown'
    <2> SUFFICES ASSUME NEW r \in Runs \ dead', ~Over(r) PROVE last'[r] = LastProgress(r)
      BY <1>1 DEF LastIsKnown
    <2>1. ~Started(r)
      BY <1>u
    <2>2. LastProgress(r) = {}
      BY <2>1 DEF LastProgress, Progress, Started
    <2> QED
      BY <1>u, <2>2
  <1>9. FinishedReal'
    <2> SUFFICES ASSUME NEW r \in Finished'
                 PROVE  finished'[r] \in Of(r) /\ (Over(r) \/ r \in dead')
      BY <1>1 DEF FinishedReal
    <2>1. r \in Runs \ X /\ t[r] > 0
      BY <1>4, <1>x
    <2>2. finished'[r] \in Of(r)
      BY <1>3, <1>4, <2>1
    <2>3. Started(r)
      BY <2>2 DEF Started
    <2> QED
      BY <1>u, <2>1, <2>2, <2>3
  <1>10. StreamReal'
    <2> SUFFICES ASSUME NEW r \in Runs, NEW e \in stream'[r]
                 PROVE  /\ e.ev \in Of(r)
                        /\ Durable(e.ev) => e.durable
                        /\ finished'[r] # 0
      BY <1>1 DEF StreamReal
    <2>1. r \in Runs \ X /\ e \in stream[r] /\ finished'[r] = t[r]
      BY <1>4
    <2>2. t[r] > 0
      BY <1>3, <2>1 DEF Here
    <2>3. t[r] # 0
      BY <2>2, SMT
    <2> QED
      BY <2>1, <2>3 DEF StreamReal
  <1>11. ClosingInOrder'
    BY <1>u DEF ClosingInOrder
  <1>12. FinishedIsPruned'
    <2> SUFFICES ASSUME NEW r \in Finished' \ gap'
                 PROVE  /\ \A e \in stream'[r] : e.durable
                        /\ \A i \in Of(r) : log[i].kind = "progress" =>
                             ((\A j \in Of(r) : log[j].kind = "progress" => j <= i)
                                  <=> i \in Written(r)')
      BY <1>u, <1>1 DEF FinishedIsPruned
    <2>1. r \in Runs \ X /\ t[r] > 0 /\ stream'[r] = stream[r]
      BY <1>4, <1>x
    <2>2. Started(r)
      BY <1>3, <2>1 DEF Started
    <2>3. r \notin gap /\ Over(r) /\ InFlight(r) = {}
      BY <1>g, <2>1, <2>2
    <2>4. r \in Finished
      BY <1>3, <2>1, <2>3 DEF RetentionBounded, Finished
    <2>5. Written(r)' = Written(r)
      BY <1>w, <2>1 DEF Written
    <2> QED
      BY <2>1, <2>3, <2>4, <2>5 DEF FinishedIsPruned
  <1>13. RetentionBounded'
    <2> SUFFICES ASSUME NEW r \in Runs, Here(r)' PROVE r \in Finished'
      BY <1>4 DEF RetentionBounded
    <2>1. r \in Runs \ X /\ Here(r)
      BY <1>4, <1>w DEF Here
    <2>2. t[r] > 0
      BY <1>3, <2>1
    <2> QED
      BY <1>4, <2>1, <2>2 DEF Dated
  <1>14. DurableKept'
    <2> SUFFICES ASSUME NEW r \in Runs \ gap', Started(r)
                 PROVE  \/ {i \in Of(r) : Durable(i)} \subseteq Written(r)' \cup InFlight(r)'
                        \/ Retired(r)'
      BY <1>u, <1>1 DEF DurableKept
    <2>1. r \notin gap /\ Over(r) /\ InFlight(r) = {}
      BY <1>g
    <2>2. CASE r \in X
      <3>1. ~Here(r)' /\ Cardinality(Finished') = KeepRuns
        BY <1>4, <1>w, <2>2
      <3> QED
        BY <1>1, <1>i, <2>1, <3>1 DEF Retired
    <2>3. CASE Retired(r) /\ r \notin X
      <3>1. ~Here(r)' /\ Cardinality(Finished') = KeepRuns
        BY <1>4, <1>w, <2>3 DEF Retired, Here
      <3> QED
        BY <1>1, <1>i, <2>1, <3>1 DEF Retired
    <2>4. CASE ~Retired(r) /\ r \notin X
      <3>1. {i \in Of(r) : Durable(i)} \subseteq Written(r)
        BY <2>1, <2>4 DEF DurableKept
      <3>2. Written(r)' = Written(r)
        BY <1>4, <1>w, <2>4 DEF Written
      <3> QED
        BY <3>1, <3>2
    <2> QED
      BY <2>2, <2>3, <2>4
  <1> QED
    BY <1>1, <1>5, <1>6, <1>8, <1>9, <1>10, <1>11, <1>12, <1>13, <1>14

-----------------------------------------------------------------------------
(* The theorems.                                                           *)

(* An empty journal has nothing to keep.                                   *)
LEMMA InitHolds ==
    ASSUME Init
    PROVE  JournalInv
  <1>1. /\ log = <<>> /\ pending = {} /\ last = [r \in Runs |-> {}] /\ batch = {} /\ phase = "up"
        /\ stream = [r \in Runs |-> {}] /\ finished = [r \in Runs |-> 0]
        /\ gap = {} /\ dead = {} /\ faults = 0
    BY DEF Init
  <1>k. KeepRuns \in Nat /\ MaxFaults \in Nat
    BY JournalAssumption
  <1>c. Cardinality({}) = 0
    BY FS_EmptySet
  <1>2. DOMAIN log = {} /\ Len(log) = 0 /\ log \in Seq([run : Runs, kind : Kinds])
    <2>1. <<>> \in Seq([run : Runs, kind : Kinds]) /\ Len(<<>>) = 0
      OBVIOUS
    <2>2. DOMAIN <<>> = {}
      BY SMT
    <2> QED
      BY <1>1, <2>1, <2>2
  <1>3. \A r : Of(r) = {}
    BY <1>2 DEF Of
  <1>4. \A r : ~Over(r) /\ ~Started(r) /\ LastProgress(r) = {}
    BY <1>3 DEF Over, Started, LastProgress, Progress
  <1>5. Finished = {}
    <2>1. \A r \in Runs : ~(finished[r] > 0)
      BY <1>1, SMT
    <2> QED
      BY <2>1 DEF Finished
  <1>6. TypeOK
    <2>1. finished \in [Runs -> 0 .. Len(log)]
      BY <1>1, <1>2, SMT
    <2>2. \A r \in Runs : last[r] \subseteq Of(r) /\ Cardinality(last[r]) <= 1
      <3>1. \A r \in Runs : last[r] = {}
        BY <1>1
      <3> QED
        BY <1>c, <3>1, SMT
    <2>3. faults \in 0 .. MaxFaults
      BY <1>1, <1>k, SMT
    <2>4. /\ last \in [Runs -> SUBSET DOMAIN log]
          /\ stream \in [Runs -> SUBSET [ev : DOMAIN log, durable : BOOLEAN]]
      BY <1>1
    <2> QED
      BY <1>1, <1>2, <2>1, <2>2, <2>3, <2>4 DEF TypeOK
  <1>7. ItemsReal /\ EndsTogether /\ EndIsLast /\ InOrder /\ EndFollows /\ DoneIsQuiet
    BY <1>1, <1>3 DEF ItemsReal, EndsTogether, EndIsLast, InOrder, EndFollows, DoneIsQuiet
  <1>8. LastIsKnown /\ FinishedReal /\ StreamReal /\ ClosingInOrder
    BY <1>1, <1>4, <1>5 DEF LastIsKnown, FinishedReal, StreamReal, ClosingInOrder
  <1>9. FinishedIsPruned /\ DurableKept
    BY <1>4, <1>5 DEF FinishedIsPruned, DurableKept
  <1>10. RetentionBounded
    <2>1. \A r \in Runs : ~Here(r)
      BY <1>1 DEF Here
    <2>2. Cardinality(Finished) <= KeepRuns
      BY <1>5, <1>c, <1>k, SMT
    <2> QED
      BY <2>1, <2>2 DEF RetentionBounded
  <1> QED
    BY <1>6, <1>7, <1>8, <1>9, <1>10 DEF JournalInv, JournalInStep

(* Every step of the journal keeps the invariant.                          *)
LEMMA StepKeeps ==
    ASSUME JournalInv, [Next]_vars
    PROVE  JournalInv'
  <1>1. CASE \E r \in Runs, kind \in Kinds : Observe(r, kind)
    <2>1. PICK r \in Runs, kind \in Kinds : Observe(r, kind)
      BY <1>1
    <2> USE DEF JournalInv, JournalInStep
    <2>2. ItemsReal' /\ EndsTogether'
      BY <2>1, ObserveKeepsItems
    <2>3. EndIsLast' /\ InOrder' /\ EndFollows' /\ DoneIsQuiet'
      BY <2>1, ObserveKeepsOrder
    <2>4. TypeOK' /\ LastIsKnown' /\ FinishedReal' /\ StreamReal' /\ ClosingInOrder'
      BY <2>1, ObserveKeepsTypes
    <2>5. FinishedIsPruned' /\ RetentionBounded' /\ DurableKept'
      BY <2>1, ObserveKeepsFacts
    <2> QED
      BY <2>2, <2>3, <2>4, <2>5
  <1>2. CASE Flush
    BY <1>2, FlushKeeps
  <1>3. CASE Write
    BY <1>3, WriteKeeps
  <1>4. CASE WriteFails
    BY <1>4, WriteFailsKeeps
  <1>5. CASE Close
    BY <1>5, CloseSteps DEF Close
  <1>6. CASE Closed
    BY <1>6, CloseSteps DEF Closed
  <1>7. CASE Restart
    BY <1>7, RestartKeeps
  <1>8. CASE UNCHANGED vars
    BY <1>8, CloseSteps DEF vars
  <1> QED
    BY <1>1, <1>2, <1>3, <1>4, <1>5, <1>6, <1>7, <1>8 DEF Next

(* The inductive invariant of the journal.                                 *)
THEOREM JournalInvariant == Spec => []JournalInv
  <1>1. Init => JournalInv
    BY InitHolds
  <1>2. JournalInv /\ [Next]_vars => JournalInv'
    BY StepKeeps
  <1> QED
    BY <1>1, <1>2, PTL DEF Spec

(* At most keep_runs ended runs are kept, each as its facts and its last   *)
(* progress, and none that ended or died escapes the count.                *)
THEOREM RetentionHolds == Spec => []JournalInStep
  <1>1. JournalInv => JournalInStep
    BY DEF JournalInv
  <1> QED
    BY <1>1, JournalInvariant, PTL

(* A fact of a run is lost only with a failed write or a dead process, or  *)
(* when the run is retired for newer ones.                                 *)
THEOREM FactsAreKept == Spec => []DurableKept
  <1>1. JournalInv => DurableKept
    BY DEF JournalInv
  <1> QED
    BY <1>1, JournalInvariant, PTL

=============================================================================
