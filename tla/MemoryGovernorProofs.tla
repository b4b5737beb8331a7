------------------------ MODULE MemoryGovernorProofs ------------------------
(***************************************************************************)
(* The memory governor for any number of requests, classes, budgets and    *)
(* consumers, and at the end the lease broker over it.                     *)
(***************************************************************************)
EXTENDS MemoryGovernor, LeaseBroker, FiniteSetTheorems, SequenceTheorems,
        WellFoundedInduction, TLAPS

-----------------------------------------------------------------------------
(* Least and greatest classes.                                             *)

(* A set of natural numbers that is not empty has a least element.         *)
LEMMA LeastNatural ==
    ASSUME NEW T, T \subseteq Nat, T # {}
    PROVE  \E m \in T : \A k \in T : m <= k
  <1>1. \E m \in T : \A k \in T : ~(<<k, m>> \in OpToRel(<, Nat))
    BY NatLessThanWellFounded, WFMin
  <1>2. PICK m \in T : \A k \in T : ~(<<k, m>> \in OpToRel(<, Nat))
    BY <1>1
  <1>3. \A k \in T : ~(k < m)
    BY <1>2 DEF OpToRel
  <1>4. \A k \in T : k \in Nat /\ m \in Nat
    OBVIOUS
  <1> QED
    BY <1>3, <1>4, SMT

(* A set of classes that is not empty has a greatest element.              *)
LEMMA GreatestClass ==
    ASSUME NEW T, T \subseteq Classes, T # {}
    PROVE  \E m \in T : \A k \in T : k <= m
  <1> DEFINE Mirror == {NumClasses - k : k \in T}
  <1> USE GovernorAssumption
  <1>0. \A k \in T : k \in 1 .. NumClasses
    BY DEF Classes
  <1>1. Mirror \subseteq Nat /\ Mirror # {}
    <2>1. \A k \in T : NumClasses - k \in Nat
      BY <1>0, SMT
    <2> QED
      BY <2>1, Zenon
  <1>2. PICK x \in Mirror : \A y \in Mirror : x <= y
    BY <1>1, LeastNatural
  <1>3. PICK m \in T : x = NumClasses - m
    OBVIOUS
  <1>4. \A k \in T : NumClasses - m <= NumClasses - k
    BY <1>2, <1>3
  <1> QED
    BY <1>0, <1>4, SMT

(* A request that is being admitted has a next class: the least it still   *)
(* needs.                                                                  *)
LEMMA NextClass ==
    ASSUME TypeOK, NEW q \in Requests,
           granted[q] \subseteq DOMAIN need[q], granted[q] # DOMAIN need[q]
    PROVE  /\ Class(q) \in DOMAIN need[q] \ granted[q]
           /\ \A e \in DOMAIN need[q] \ granted[q] : Class(q) <= e
           /\ Class(q) \in Classes
           /\ need[q][Class(q)] \in Nat
  <1> DEFINE left == DOMAIN need[q] \ granted[q]
  <1>1. PICK S \in SUBSET Classes : need[q] \in [S -> Sizes]
    BY DEF TypeOK
  <1>2. left \subseteq Nat /\ left # {} /\ left \subseteq Classes
    <2>1. DOMAIN need[q] \subseteq Classes
      BY <1>1
    <2>2. Classes \subseteq Nat
      BY GovernorAssumption, SMT DEF Classes
    <2> QED
      BY <2>1, <2>2
  <1>3. \E d \in left : \A e \in left : d <= e
    BY <1>2, LeastNatural
  <1>4. Class(q) \in left /\ \A e \in left : Class(q) <= e
    BY <1>3 DEF Class
  <1> QED
    BY <1>1, <1>2, <1>4, GovernorAssumption

-----------------------------------------------------------------------------
(* Sums over the holders of a class.                                       *)

(* A set of subsets of a finite set has a smallest member: one with no     *)
(* other member below it.                                                  *)
LEMMA SmallestSubset ==
    ASSUME NEW S, IsFiniteSet(S), NEW C, C \subseteq SUBSET S, C # {}
    PROVE  \E T \in C : \A U \in C : U \subseteq T => U = T
  <1>1. IsWellFoundedOn(StrictSubsetOrdering(S), SUBSET S)
    BY FS_StrictSubsetOrderingWellFounded, FS_FiniteSubsetsOfFinite
  <1>2. PICK T \in C : \A U \in C : ~(<<U, T>> \in StrictSubsetOrdering(S))
    BY <1>1, WFMin
  <1>3. ASSUME NEW U \in C, U \subseteq T, U # T
        PROVE  FALSE
    <2>1. <<U, T>> \in (SUBSET S) \X (SUBSET S)
      OBVIOUS
    <2>2. <<U, T>> \in StrictSubsetOrdering(S)
      BY <1>3, <2>1 DEF StrictSubsetOrdering
    <2> QED
      BY <1>2, <2>2
  <1> QED
    BY <1>3

(* The sum _reserved is compared with.                                     *)
Total(m, d, S) == MapThenSumSet(LAMBDA q : m[q][d], S)

(* The member a fold takes next.                                           *)
First(s) == CHOOSE x \in s : TRUE

(* The function behind the sum.                                            *)
Tally(f, m, d, S) ==
    f = [s \in SUBSET S |-> IF s = {} THEN 0 ELSE m[First(s)][d] + f[s \ {First(s)}]]

(* The sum is what the recursive function says.                            *)
LEMMA TotalByTally ==
    ASSUME NEW m, NEW d, NEW S
    PROVE  Total(m, d, S) = (CHOOSE f : Tally(f, m, d, S))[S]
  BY DEF Total, MapThenSumSet, MapThenFoldSet, Tally, First

(* A tally begins at nothing.                                              *)
LEMMA TallyEmpty ==
    ASSUME NEW m, NEW d, NEW S, NEW f, Tally(f, m, d, S)
    PROVE  f[{}] = 0
  <1>1. {} \in SUBSET S
    OBVIOUS
  <1> QED
    BY <1>1, Zenon DEF Tally

(* A tally goes on by the member that is chosen.                           *)
LEMMA TallyStep ==
    ASSUME NEW m, NEW d, NEW S, NEW f, Tally(f, m, d, S), NEW s \in SUBSET S, s # {}
    PROVE  /\ First(s) \in s
           /\ s \ {First(s)} \in SUBSET S
           /\ f[s] = m[First(s)][d] + f[s \ {First(s)}]
  <1>1. f[s] = IF s = {} THEN 0 ELSE m[First(s)][d] + f[s \ {First(s)}]
    BY Zenon DEF Tally
  <1>2. First(s) \in s
    BY DEF First
  <1> QED
    BY <1>1, <1>2

(* Tallies over different sets, of needs that agree, agree.                *)
LEMMA TalliesAgree ==
    ASSUME NEW m, NEW n, NEW d, NEW S, NEW T, NEW f, NEW g,
           Tally(f, m, d, S), Tally(g, n, d, T),
           NEW U, IsFiniteSet(U), U \subseteq S, U \subseteq T,
           \A x \in U : m[x][d] = n[x][d]
    PROVE  f[U] = g[U]
  <1> DEFINE C == {V \in SUBSET U : f[V] # g[V]}
  <1> SUFFICES ASSUME C # {} PROVE FALSE
    OBVIOUS
  <1>1. PICK V \in C : \A W \in C : W \subseteq V => W = V
    <2>1. C \subseteq SUBSET U
      OBVIOUS
    <2> HIDE DEF C
    <2> QED
      BY <2>1, SmallestSubset
  <1>2. V \in SUBSET S /\ V \in SUBSET T /\ V \in SUBSET U /\ f[V] # g[V]
    OBVIOUS
  <1>3. V # {}
    BY <1>2, TallyEmpty
  <1> DEFINE x == First(V)
             R == V \ {x}
  <1>4. /\ x \in V /\ R \in SUBSET U
        /\ f[V] = m[x][d] + f[R]
        /\ g[V] = n[x][d] + g[R]
    BY <1>2, <1>3, TallyStep
  <1>5. R \subseteq V /\ R # V
    BY <1>4
  <1>6. f[R] = g[R]
    BY <1>1, <1>4, <1>5
  <1>7. m[x][d] = n[x][d]
    BY <1>2, <1>4
  <1> HIDE DEF x, R
  <1> QED
    BY <1>2, <1>4, <1>6, <1>7

(* Every finite set has a tally.                                           *)
LEMMA TallyExists ==
    ASSUME NEW m, NEW d, NEW S, IsFiniteSet(S)
    PROVE  \E f : Tally(f, m, d, S)
  <1> DEFINE Has(T) == \E f : Tally(f, m, d, T)
             C == {T \in SUBSET S : ~Has(T)}
  <1> SUFFICES ASSUME C # {} PROVE FALSE
    OBVIOUS
  <1>1. PICK T \in C : \A W \in C : W \subseteq T => W = T
    <2>1. C \subseteq SUBSET S
      OBVIOUS
    <2> HIDE DEF C
    <2> QED
      BY <2>1, SmallestSubset
  <1>2. T \in SUBSET S /\ IsFiniteSet(T)
    BY FS_Subset
  <1> DEFINE own(s) == CHOOSE f : Tally(f, m, d, s)
             val(s) == own(s)[s]
             below == [s \in SUBSET T |-> val(s)]
             g == [s \in SUBSET T |->
                     IF s = {} THEN 0 ELSE m[First(s)][d] + val(s \ {First(s)})]
  <1>3. \A s \in SUBSET T : s # T => Tally(own(s), m, d, s)
    BY <1>1, <1>2
  <1>4. ASSUME NEW s \in SUBSET T, s # T
        PROVE  g[s] = val(s)
    <2>1. Tally(own(s), m, d, s)
      BY <1>3, <1>4
    <2>2. CASE s = {}
      <3>1. own(s)[s] = 0
        BY <2>1, <2>2, TallyEmpty
      <3> QED
        BY <2>2, <3>1
    <2>3. CASE s # {}
      <3> DEFINE x == First(s)
                 r == s \ {x}
      <3>1. x \in s /\ own(s)[s] = m[x][d] + own(s)[r]
        <4>1. s \in SUBSET s
          OBVIOUS
        <4> HIDE DEF own
        <4> QED
          BY <2>1, <2>3, <4>1, TallyStep
      <3>2. r \in SUBSET T /\ r # T /\ IsFiniteSet(r) /\ r \subseteq s
        BY <1>2, <3>1, FS_Subset
      <3>3. Tally(own(r), m, d, r)
        BY <1>3, <3>2
      <3> HIDE DEF own
      <3>4. own(s)[r] = own(r)[r]
        BY <2>1, <3>2, <3>3, TalliesAgree
      <3>5. g[s] = m[x][d] + val(r)
        BY <2>3
      <3> QED
        BY <3>1, <3>4, <3>5
    <2> QED
      BY <2>2, <2>3
  <1>5. ASSUME NEW s \in SUBSET T, s # {}
        PROVE  val(s \ {First(s)}) = g[s \ {First(s)}]
    <2>1. First(s) \in s
      BY <1>5 DEF First
    <2>2. s \ {First(s)} \in SUBSET T /\ s \ {First(s)} # T
      BY <2>1
    <2> QED
      BY <1>4, <2>2
  <1>6. g = [s \in SUBSET T |-> IF s = {} THEN 0 ELSE m[First(s)][d] + g[s \ {First(s)}]]
    <2> DEFINE h == [s \in SUBSET T |->
                       IF s = {} THEN 0 ELSE m[First(s)][d] + g[s \ {First(s)}]]
    <2>1. \A s \in SUBSET T : g[s] = h[s]
      <3> SUFFICES ASSUME NEW s \in SUBSET T PROVE g[s] = h[s]
        OBVIOUS
      <3>1. g[s] = IF s = {} THEN 0 ELSE m[First(s)][d] + val(s \ {First(s)})
        OBVIOUS
      <3>2. h[s] = IF s = {} THEN 0 ELSE m[First(s)][d] + g[s \ {First(s)}]
        OBVIOUS
      <3> HIDE DEF g, h, val
      <3> QED
        BY <1>5, <3>1, <3>2
    <2>2. DOMAIN g = SUBSET T /\ DOMAIN h = SUBSET T
          /\ g = [s \in DOMAIN g |-> g[s]] /\ h = [s \in DOMAIN h |-> h[s]]
      OBVIOUS
    <2> HIDE DEF g, h
    <2> QED
      BY <2>1, <2>2, Zenon DEF h
  <1>7. Tally(g, m, d, T)
    <2> HIDE DEF g
    <2> QED
      BY <1>6 DEF Tally
  <1>8. Has(T)
    BY <1>7
  <1> QED
    BY <1>8

(* The tally of a finite set gives the sums of its subsets.                *)
LEMMA TallyOfTotal ==
    ASSUME NEW m, NEW d, NEW S, IsFiniteSet(S)
    PROVE  \E f : Tally(f, m, d, S) /\ \A T \in SUBSET S : f[T] = Total(m, d, T)
  <1> DEFINE own(s) == CHOOSE f : Tally(f, m, d, s)
  <1>1. Tally(own(S), m, d, S)
    BY TallyExists
  <1>2. ASSUME NEW T \in SUBSET S PROVE own(S)[T] = Total(m, d, T)
    <2>1. IsFiniteSet(T)
      BY FS_Subset
    <2>2. Tally(own(T), m, d, T)
      BY <2>1, TallyExists
    <2>3. Total(m, d, T) = own(T)[T]
      BY TotalByTally
    <2> HIDE DEF own
    <2> QED
      BY <1>1, <2>1, <2>2, <2>3, TalliesAgree
  <1> QED
    BY <1>1, <1>2

(* The sum over nobody is nothing.                                         *)
LEMMA TotalEmpty ==
    ASSUME NEW m, NEW d
    PROVE  Total(m, d, {}) = 0
  <1>1. PICK f : Tally(f, m, d, {}) /\ \A T \in SUBSET {} : f[T] = Total(m, d, T)
    BY TallyOfTotal, FS_EmptySet
  <1> QED
    BY <1>1, TallyEmpty

(* The sum depends on the needs of its members only.                       *)
LEMMA TotalAgrees ==
    ASSUME NEW m, NEW n, NEW d, NEW S, IsFiniteSet(S),
           \A x \in S : m[x][d] = n[x][d]
    PROVE  Total(m, d, S) = Total(n, d, S)
  <1>1. PICK f : Tally(f, m, d, S) /\ \A T \in SUBSET S : f[T] = Total(m, d, T)
    BY TallyOfTotal
  <1>2. PICK g : Tally(g, n, d, S) /\ \A T \in SUBSET S : g[T] = Total(n, d, T)
    BY TallyOfTotal
  <1>3. f[S] = g[S]
    BY <1>1, <1>2, TalliesAgree
  <1> QED
    BY <1>1, <1>2, <1>3

(* Sums of numbers are numbers, and any member may be taken out.           *)
LEMMA TotalWithout ==
    ASSUME NEW m, NEW d, NEW S, IsFiniteSet(S), \A x \in S : m[x][d] \in Int
    PROVE  /\ Total(m, d, S) \in Int
           /\ \A x \in S : Total(m, d, S) = m[x][d] + Total(m, d, S \ {x})
  <1>1. PICK f : Tally(f, m, d, S) /\ \A T \in SUBSET S : f[T] = Total(m, d, T)
    BY TallyOfTotal
  <1>2. \A T \in SUBSET S : f[T] \in Int
    <2> DEFINE C == {T \in SUBSET S : f[T] \notin Int}
    <2> SUFFICES ASSUME C # {} PROVE FALSE
      OBVIOUS
    <2>1. PICK T \in C : \A W \in C : W \subseteq T => W = T
      <3>1. C \subseteq SUBSET S
        OBVIOUS
      <3> HIDE DEF C
      <3> QED
        BY <3>1, SmallestSubset
    <2>2. T \in SUBSET S /\ f[T] \notin Int
      OBVIOUS
    <2>a. Tally(f, m, d, S)
      BY <1>1
    <2>b. f[{}] = 0 /\ 0 \in Int
      BY <2>a, TallyEmpty
    <2>3. T # {}
      BY <2>b, <2>2
    <2> DEFINE y == First(T)
               R == T \ {y}
    <2>4. y \in T /\ R \in SUBSET S /\ f[T] = m[y][d] + f[R]
      BY <2>a, <2>2, <2>3, TallyStep
    <2>5. R \subseteq T /\ R # T
      BY <2>4
    <2>6. f[R] \in Int
      BY <2>1, <2>4, <2>5
    <2>7. m[y][d] \in Int
      BY <2>2, <2>4
    <2> HIDE DEF y, R
    <2> QED
      BY <2>2, <2>4, <2>6, <2>7, SMT
  <1>3. \A T \in SUBSET S : \A x \in T : f[T] = m[x][d] + f[T \ {x}]
    <2> DEFINE C == {T \in SUBSET S : \E x \in T : f[T] # m[x][d] + f[T \ {x}]}
    <2> SUFFICES ASSUME C # {} PROVE FALSE
      OBVIOUS
    <2>1. PICK T \in C : \A W \in C : W \subseteq T => W = T
      <3>1. C \subseteq SUBSET S
        OBVIOUS
      <3> HIDE DEF C
      <3> QED
        BY <3>1, SmallestSubset
    <2>2. T \in SUBSET S
      OBVIOUS
    <2>3. PICK x \in T : f[T] # m[x][d] + f[T \ {x}]
      OBVIOUS
    <2> DEFINE y == First(T)
               R == T \ {y}
               Q == T \ {x}
               P == R \ {x}
    <2>4. y \in T /\ R \in SUBSET S /\ f[T] = m[y][d] + f[R]
      BY <1>1, <2>2, <2>3, TallyStep
    <2>5. x # y
      BY <2>3, <2>4
    <2>6. R \subseteq T /\ R # T /\ Q \subseteq T /\ Q # T /\ Q \in SUBSET S
          /\ P \in SUBSET S /\ P = Q \ {y} /\ x \in R /\ y \in Q
      BY <2>2, <2>3, <2>4, <2>5
    <2>7. R \notin C /\ Q \notin C
      BY <2>1, <2>6
    <2>8. f[R] = m[x][d] + f[P]
      BY <2>4, <2>6, <2>7
    <2>9. f[Q] = m[y][d] + f[P]
      BY <2>6, <2>7
    <2>10. m[x][d] \in Int /\ m[y][d] \in Int /\ f[P] \in Int /\ f[R] \in Int /\ f[Q] \in Int
      BY <1>2, <2>2, <2>4, <2>6
    <2>11. f[T] # m[x][d] + f[Q]
      BY <2>3
    <2> HIDE DEF y, R, Q, P
    <2> QED
      BY <2>4, <2>8, <2>9, <2>10, <2>11, SMT
  <1>4. \A x \in S : S \ {x} \in SUBSET S
    OBVIOUS
  <1> QED
    BY <1>1, <1>2, <1>3, <1>4

(* Needs of nothing add up to nothing.                                     *)
LEMMA TotalOfNothing ==
    ASSUME NEW m, NEW d, NEW S, IsFiniteSet(S), \A x \in S : m[x][d] = 0
    PROVE  Total(m, d, S) = 0
  <1>1. PICK f : Tally(f, m, d, S) /\ \A T \in SUBSET S : f[T] = Total(m, d, T)
    BY TallyOfTotal
  <1> DEFINE C == {T \in SUBSET S : f[T] # 0}
  <1> SUFFICES ASSUME C # {} PROVE FALSE
    BY <1>1
  <1>2. PICK T \in C : \A W \in C : W \subseteq T => W = T
    <2>1. C \subseteq SUBSET S
      OBVIOUS
    <2> HIDE DEF C
    <2> QED
      BY <2>1, SmallestSubset
  <1>3. T \in SUBSET S /\ f[T] # 0
    OBVIOUS
  <1>4. T # {}
    BY <1>1, <1>3, TallyEmpty
  <1> DEFINE y == First(T)
             R == T \ {y}
  <1>5. y \in T /\ R \in SUBSET S /\ f[T] = m[y][d] + f[R]
    BY <1>1, <1>3, <1>4, TallyStep
  <1>6. R \subseteq T /\ R # T
    BY <1>5
  <1>7. f[R] = 0
    BY <1>2, <1>5, <1>6
  <1>8. m[y][d] = 0
    BY <1>3, <1>5
  <1> HIDE DEF y, R
  <1> QED
    BY <1>3, <1>5, <1>7, <1>8, SMT

-----------------------------------------------------------------------------
(* The list of consumers.                                                  *)

(* Insertion keeps what is there and moves nothing to the left.            *)
LEMMA InsertShifts ==
    ASSUME NEW C, NEW s \in Seq(C), NEW c \in C, NEW k \in 1 .. Len(s) + 1
    PROVE  /\ InsertAt(s, k, c) \in Seq(C)
           /\ \A i \in DOMAIN s : \E j \in DOMAIN InsertAt(s, k, c) :
                 j >= i /\ InsertAt(s, k, c)[j] = s[i]
  <1> DEFINE a == SubSeq(s, 1, k - 1)
             b == SubSeq(s, k, Len(s))
             t == InsertAt(s, k, c)
  <1>1. a \in Seq(C) /\ Len(a) = k - 1 /\ \A i \in 1 .. k - 1 : a[i] = s[i]
    BY SMT
  <1>2. b \in Seq(C) /\ Len(b) = Len(s) - k + 1
        /\ \A i \in 1 .. Len(s) - k + 1 : b[i] = s[k + i - 1]
    BY SMT
  <1> DEFINE ac == a \o <<c>>
  <1>3. t = ac \o b
    BY DEF InsertAt
  <1> HIDE DEF a, b, t
  <1>a. ac \in Seq(C) /\ Len(ac) = k /\ \A i \in 1 .. k - 1 : ac[i] = a[i]
    BY <1>1, SMT
  <1> HIDE DEF ac
  <1>b. /\ t \in Seq(C)
        /\ Len(t) = Len(ac) + Len(b)
        /\ \A i \in 1 .. Len(ac) + Len(b) :
              t[i] = IF i <= Len(ac) THEN ac[i] ELSE b[i - Len(ac)]
    BY <1>a, <1>2, <1>3, ConcatProperties
  <1>4. t \in Seq(C) /\ Len(t) = Len(s) + 1
    BY <1>a, <1>b, <1>2, SMT
  <1>5. \A i \in 1 .. Len(s) : i < k => t[i] = s[i]
    BY <1>1, <1>a, <1>b, <1>2, SMT
  <1>6. \A m \in 1 .. Len(s) + 1 : m > k => t[m] = s[m - 1]
    <2> SUFFICES ASSUME NEW m \in 1 .. Len(s) + 1, m > k PROVE t[m] = s[m - 1]
      OBVIOUS
    <2>1. m \in 1 .. Len(ac) + Len(b) /\ ~(m <= Len(ac))
      BY <1>a, <1>2, SMT
    <2>2. t[m] = b[m - Len(ac)]
      BY <1>b, <2>1, Zenon
    <2>3. m - k \in 1 .. Len(s) - k + 1 /\ k + (m - k) - 1 = m - 1
      BY <2>1, <1>a, <1>2, SMT
    <2>4. b[m - k] = s[k + (m - k) - 1]
      BY <1>2, <2>3, Zenon
    <2> QED
      BY <1>a, <2>2, <2>3, <2>4
  <1>7. \A i \in DOMAIN s : \E j \in DOMAIN t : j >= i /\ t[j] = s[i]
    <2> SUFFICES ASSUME NEW i \in 1 .. Len(s)
                 PROVE  \E j \in 1 .. Len(t) : j >= i /\ t[j] = s[i]
      BY <1>4, SMT
    <2>1. CASE i < k
      BY <2>1, <1>4, <1>5, SMT
    <2>2. CASE i >= k
      <3>1. i + 1 \in 1 .. Len(s) + 1 /\ i + 1 > k /\ (i + 1) - 1 = i
        BY <2>2, SMT
      <3>2. t[i + 1] = s[i]
        BY <1>6, <3>1
      <3> QED
        BY <1>4, <3>1, <3>2, SMT
    <2> QED
      BY <2>1, <2>2, SMT
  <1> QED
    BY <1>4, <1>7 DEF t

(* The place register_shedder sorts a consumer to is in the list.          *)
LEMMA PlaceInList ==
    ASSUME NEW s \in Seq(Consumers), NEW S, S \subseteq DOMAIN s
    PROVE  1 + Cardinality(S) \in 1 .. Len(s) + 1
  <1>1. DOMAIN s = 1 .. Len(s) /\ Len(s) \in Nat
    OBVIOUS
  <1>2. IsFiniteSet(1 .. Len(s)) /\ Cardinality(1 .. Len(s)) = Len(s)
    <2>1. /\ IsFiniteSet(1 .. Len(s))
          /\ Cardinality(1 .. Len(s)) = IF 1 > Len(s) THEN 0 ELSE Len(s) - 1 + 1
      BY <1>1, FS_Interval
    <2> QED
      BY <2>1, <1>1, SMT
  <1>3. S \subseteq 1 .. Len(s)
    BY <1>1
  <1>4. Cardinality(S) \in Nat /\ Cardinality(S) <= Len(s)
    BY <1>2, <1>3, FS_Subset, FS_CardinalityType
  <1> QED
    BY <1>1, <1>4, SMT

-----------------------------------------------------------------------------
(* How a pass of _admit ends.  Each lemma also says that what is newly     *)
(* reserved fits.                                                          *)

Admitting(q) == pc[q] \in {"entering", "shedding", "waiting", "woken"}

Frame ==
    /\ UNCHANGED <<need, budget, shedders>>
    /\ foot' \in [Classes -> 0 .. MaxFoot]

(* The bytes reserved on a class that a request holds are a number.        *)
LEMMA NeedIsNat ==
    ASSUME TypeOK, Orderly, NEW q \in Requests, NEW d \in granted[q]
    PROVE  need[q][d] \in Nat
  <1>1. PICK S \in SUBSET Classes : need[q] \in [S -> Sizes]
    BY DEF TypeOK
  <1>2. d \in S
    BY <1>1 DEF Orderly
  <1> QED
    BY <1>1, <1>2, GovernorAssumption

(* No walk is left behind, so nothing is said of its list.                 *)
LEMMA WalkOver ==
    ASSUME GovernorInv, NEW q \in Requests, UNCHANGED shedders,
           walk' = [walk EXCEPT ![q] = NoWalk], due' = [due EXCEPT ![q] = {}],
           \A p \in Requests \ {q} : pc'[p] = "shedding" => pc[p] = "shedding"
    PROVE  /\ walk' \in [Requests -> Walks]
           /\ due' \in [Requests -> SUBSET Consumers]
           /\ SharedList'
           /\ SkipsNobody'
  <1> USE DEF GovernorInv, TypeOK
  <1>1. NoWalk \in Walks /\ ~NoWalk.shared
    <2>1. <<>> \in Seq(Consumers)
      OBVIOUS
    <2> QED
      BY <2>1 DEF NoWalk, Walks
  <1>2. walk' \in [Requests -> Walks]
    BY <1>1
  <1>3. due' \in [Requests -> SUBSET Consumers]
    OBVIOUS
  <1>4. SharedList'
    BY <1>1 DEF SharedList
  <1>5. SkipsNobody'
    <2> SUFFICES ASSUME NEW p \in Requests, pc'[p] = "shedding", NEW c \in due'[p]
                 PROVE  \E i \in DOMAIN walk'[p].list :
                            i > walk'[p].at /\ walk'[p].list[i] = c
      BY DEF SkipsNobody
    <2>1. p # q
      OBVIOUS
    <2>2. walk'[p] = walk[p] /\ due'[p] = due[p] /\ pc[p] = "shedding"
      BY <2>1
    <2> QED
      BY <2>2 DEF SkipsNobody
  <1> QED
    BY <1>2, <1>3, <1>4, <1>5

(* Leaving releases everything and reserves nothing.                       *)
LEMMA LeaveOK ==
    ASSUME GovernorInv, NEW q \in Requests, Leave(q), Frame
    PROVE  GovernorInv' /\ StepFits
  <1> USE DEF GovernorInv, Leave, Releases, Frame
  <1>1. \A p \in Requests \ {q} : pc'[p] = "shedding" => pc[p] = "shedding"
    BY DEF Woken
  <1>2. /\ walk' \in [Requests -> Walks]
        /\ due' \in [Requests -> SUBSET Consumers]
        /\ SharedList' /\ SkipsNobody'
    BY <1>1, WalkOver
  <1>3. \A d \in Classes : d \in granted[q] => need[q][d] \in Nat
    BY NeedIsNat
  <1>4. reserved' \in [Classes -> Int]
    BY <1>3, SMT DEF TypeOK
  <1>5. pc' \in [Requests -> {"idle", "entering", "shedding", "waiting", "woken",
                              "holding", "over"}]
    BY DEF TypeOK, Woken
  <1>6. granted' \in [Requests -> SUBSET Classes]
    BY DEF TypeOK
  <1>7. TypeOK'
    BY <1>2, <1>4, <1>5, <1>6 DEF TypeOK
  <1>8. Orderly'
    <2> SUFFICES ASSUME NEW p \in Requests
                 PROVE  /\ granted'[p] \subseteq DOMAIN need[p]
                        /\ \A d \in granted'[p], e \in DOMAIN need[p] \ granted'[p] : d < e
                        /\ pc'[p] \in {"idle", "over"} => granted'[p] = {}
                        /\ pc'[p] \in {"entering", "shedding", "waiting", "woken"} =>
                              granted'[p] # DOMAIN need[p]
      BY DEF Orderly
    <2>1. CASE p = q
      BY <2>1 DEF TypeOK
    <2>2. CASE p # q
      <3>1. granted'[p] = granted[p]
        BY <2>2 DEF TypeOK
      <3>2. \/ pc'[p] = pc[p]
            \/ pc[p] = "waiting" /\ pc'[p] = "woken"
        BY <2>2 DEF Woken
      <3> QED
        BY <3>1, <3>2 DEF Orderly
    <2> QED
      BY <2>1, <2>2
  <1>9. StepFits
    BY <1>3, SMT DEF StepFits, TypeOK
  <1> QED
    BY <1>2, <1>7, <1>8, <1>9

(* _record takes the least class left, if it fits.                         *)
LEMMA RecordOK ==
    ASSUME GovernorInv, NEW q \in Requests, Admitting(q), Record(q), Frame,
           Fits(q, foot')
    PROVE  GovernorInv' /\ StepFits
  <1> USE DEF GovernorInv, Frame
  <1> DEFINE d == Class(q)
  <1>1. /\ d \in DOMAIN need[q] \ granted[q]
        /\ \A e \in DOMAIN need[q] \ granted[q] : d <= e
        /\ d \in Classes /\ need[q][d] \in Nat
    BY NextClass DEF Admitting, Orderly
  <1>2. /\ reserved' = [reserved EXCEPT ![d] = @ + need[q][d]]
        /\ granted' = [granted EXCEPT ![q] = @ \cup {d}]
        /\ pc' = [pc EXCEPT ![q] = IF granted[q] \cup {d} = DOMAIN need[q]
                                   THEN "holding" ELSE "entering"]
        /\ walk' = [walk EXCEPT ![q] = NoWalk]
        /\ due' = [due EXCEPT ![q] = {}]
    BY DEF Record
  <1>3. /\ walk' \in [Requests -> Walks]
        /\ due' \in [Requests -> SUBSET Consumers]
        /\ SharedList' /\ SkipsNobody'
    BY <1>2, WalkOver DEF TypeOK
  <1>f. budget[d] # None => reserved[d] + foot'[d] + need[q][d] <= budget[d]
    BY DEF Fits, Bytes
  <1> HIDE DEF d
  <1>4. reserved' \in [Classes -> Int]
    BY <1>1, <1>2, SMT DEF TypeOK
  <1>5. TypeOK'
    BY <1>1, <1>2, <1>3, <1>4 DEF TypeOK
  <1>6. Orderly'
    <2> SUFFICES ASSUME NEW p \in Requests
                 PROVE  /\ granted'[p] \subseteq DOMAIN need[p]
                        /\ \A x \in granted'[p], e \in DOMAIN need[p] \ granted'[p] : x < e
                        /\ pc'[p] \in {"idle", "over"} => granted'[p] = {}
                        /\ pc'[p] \in {"entering", "shedding", "waiting", "woken"} =>
                              granted'[p] # DOMAIN need[p]
      BY DEF Orderly
    <2>1. CASE p # q
      BY <1>2, <2>1 DEF Orderly, TypeOK
    <2>2. CASE p = q
      <3>1. granted'[q] = granted[q] \cup {d}
        BY <1>2 DEF TypeOK
      <3>2. pc'[q] = IF granted[q] \cup {d} = DOMAIN need[q] THEN "holding" ELSE "entering"
        BY <1>2 DEF TypeOK
      <3>3. DOMAIN need[q] \subseteq Nat
        <4>1. DOMAIN need[q] \subseteq Classes
          BY DEF TypeOK
        <4> QED
          BY <4>1, GovernorAssumption, SMT DEF Classes
      <3>4. \A x \in granted[q] \cup {d}, e \in DOMAIN need[q] \ (granted[q] \cup {d}) : x < e
        <4> SUFFICES ASSUME NEW x \in granted[q] \cup {d},
                            NEW e \in DOMAIN need[q] \ (granted[q] \cup {d})
                     PROVE  x < e
          OBVIOUS
        <4>1. CASE x = d
          BY <4>1, <1>1, <3>3, SMT
        <4>2. CASE x \in granted[q]
          BY <4>2 DEF Orderly
        <4> QED
          BY <4>1, <4>2
      <3> QED
        BY <2>2, <1>1, <3>1, <3>2, <3>4 DEF Orderly
    <2> QED
      BY <2>1, <2>2
  <1>7. StepFits
    <2> SUFFICES ASSUME NEW e \in Classes, reserved'[e] > reserved[e], budget[e] # None
                 PROVE  reserved'[e] + foot'[e] <= budget[e]
      BY DEF StepFits
    <2>1. e = d /\ reserved'[e] = reserved[d] + need[q][d]
      BY <1>1, <1>2, SMT DEF TypeOK
    <2>2. budget[d] \in Nat /\ foot'[d] \in Nat /\ reserved[d] \in Int
      <3>1. budget[d] \in Nat
        BY <1>1, <2>1, GovernorAssumption DEF TypeOK
      <3>2. foot'[d] \in 0 .. MaxFoot
        BY <1>1
      <3> QED
        BY <1>1, <3>1, <3>2, GovernorAssumption, SMT DEF TypeOK
    <2> QED
      BY <1>1, <1>f, <2>1, <2>2, SMT
  <1> QED
    BY <1>3, <1>5, <1>6, <1>7

(* Waiting changes no account.                                             *)
LEMMA SleepOK ==
    ASSUME GovernorInv, NEW q \in Requests, Admitting(q), Sleep(q), Frame
    PROVE  GovernorInv' /\ StepFits
  <1> USE DEF GovernorInv, Sleep, Frame
  <1>1. /\ walk' \in [Requests -> Walks]
        /\ due' \in [Requests -> SUBSET Consumers]
        /\ SharedList' /\ SkipsNobody'
    BY WalkOver DEF TypeOK
  <1>2. TypeOK'
    BY <1>1 DEF TypeOK
  <1>3. Orderly'
    BY DEF Orderly, TypeOK, Admitting
  <1>4. StepFits
    BY SMT DEF StepFits, TypeOK
  <1> QED
    BY <1>1, <1>2, <1>3, <1>4

(* A shed begins at the head of the list as it is.                         *)
LEMMA BeginShedOK ==
    ASSUME GovernorInv, NEW q \in Requests, Admitting(q), shedders # <<>>,
           NEW bytes \in Int, NEW pressure \in BOOLEAN,
           BeginShed(q, bytes, pressure), Frame
    PROVE  GovernorInv' /\ StepFits
  <1> USE DEF GovernorInv, Frame
  <1> DEFINE w == [list |-> shedders, at |-> 1, rest |-> bytes, pressure |-> pressure,
                   shared |-> TRUE, cur |-> shedders[1]]
  <1>1. shedders \in Seq(Consumers) /\ shedders[1] \in Consumers
    BY DEF TypeOK
  <1>2. w \in Walks
    BY <1>1 DEF Walks
  <1>3. /\ pc' = [pc EXCEPT ![q] = "shedding"]
        /\ walk' = [walk EXCEPT ![q] = w]
        /\ due' = [due EXCEPT ![q] = ToSet(shedders) \ {shedders[1]}]
        /\ UNCHANGED <<granted, reserved>>
    BY DEF BeginShed
  <1>4. w.list = shedders /\ w.at = 1
    OBVIOUS
  <1> HIDE DEF w
  <1>5. ToSet(shedders) \subseteq Consumers
    BY <1>1 DEF ToSet
  <1>6. TypeOK'
    BY <1>2, <1>3, <1>5 DEF TypeOK
  <1>7. Orderly'
    BY <1>3 DEF Orderly, TypeOK, Admitting
  <1>8. SharedList'
    BY <1>3, <1>4 DEF SharedList, TypeOK
  <1>9. SkipsNobody'
    <2> SUFFICES ASSUME NEW p \in Requests, pc'[p] = "shedding", NEW c \in due'[p]
                 PROVE  \E i \in DOMAIN walk'[p].list :
                            i > walk'[p].at /\ walk'[p].list[i] = c
      BY DEF SkipsNobody
    <2>1. CASE p # q
      BY <1>3, <2>1 DEF SkipsNobody, TypeOK
    <2>2. CASE p = q
      <3>1. walk'[p] = w /\ due'[p] = ToSet(shedders) \ {shedders[1]}
        BY <1>3, <2>2 DEF TypeOK
      <3>2. PICK i \in DOMAIN shedders : shedders[i] = c
        BY <3>1 DEF ToSet
      <3>3. i # 1 /\ DOMAIN shedders = 1 .. Len(shedders) /\ Len(shedders) \in Nat
        BY <1>1, <3>1, <3>2
      <3>4. i > 1
        BY <3>3, SMT
      <3> QED
        BY <1>4, <3>1, <3>2, <3>4
    <2> QED
      BY <2>1, <2>2
  <1>10. StepFits
    BY <1>3, SMT DEF StepFits, TypeOK
  <1> QED
    BY <1>6, <1>7, <1>8, <1>9, <1>10

(* The pass after a shed.                                                  *)
LEMMA SettleOK ==
    ASSUME GovernorInv, NEW q \in Requests, Admitting(q), NEW late,
           Settle(q, foot', late), Frame
    PROVE  GovernorInv' /\ StepFits
  <1>1. CASE Leave(q)
    BY <1>1, LeaveOK
  <1>2. CASE Fits(q, foot') /\ Record(q)
    BY <1>2, RecordOK
  <1>3. CASE Sleep(q)
    BY <1>3, SleepOK
  <1> QED
    BY <1>1, <1>2, <1>3 DEF Settle

(* What is asked of consumers is a number.                                 *)
LEMMA ShortfallIsInt ==
    ASSUME GovernorInv, NEW q \in Requests, Admitting(q), NEW live \in Int,
           foot' \in [Classes -> 0 .. MaxFoot]
    PROVE  Shortfall(q, foot', live) \in Int
  <1>1. Class(q) \in Classes /\ need[q][Class(q)] \in Nat
    BY NextClass DEF GovernorInv, Orderly, Admitting
  <1>2. ~Fits(q, foot') => budget[Class(q)] \in Nat
    BY <1>1, GovernorAssumption DEF Fits, GovernorInv, TypeOK
  <1>3. reserved[Class(q)] \in Int /\ foot'[Class(q)] \in Int
    <2>1. foot'[Class(q)] \in 0 .. MaxFoot
      BY <1>1
    <2> QED
      BY <1>1, <2>1, GovernorAssumption, SMT DEF GovernorInv, TypeOK
  <1>4. CASE Fits(q, foot')
    BY <1>4, SMT DEF Shortfall
  <1>5. CASE ~Fits(q, foot')
    <2>1. reserved[Class(q)] + foot'[Class(q)] + Bytes(q) - budget[Class(q)] \in Int
      BY <1>1, <1>2, <1>3, <1>5, SMT DEF Bytes
    <2> QED
      BY <2>1, <1>5, SMT DEF Shortfall
  <1> QED
    BY <1>4, <1>5

(* The pass before one.                                                    *)
LEMMA ScoreOK ==
    ASSUME GovernorInv, NEW q \in Requests, Admitting(q), NEW late,
           Score(q, foot', late), Frame
    PROVE  GovernorInv' /\ StepFits
  <1>1. CASE shedders # <<>> /\ BeginShed(q, Shortfall(q, foot', 0), TRUE)
    <2>1. PICK bytes : bytes = Shortfall(q, foot', 0)
      OBVIOUS
    <2>2. bytes \in Int
      <3>1. 0 \in Int
        OBVIOUS
      <3> QED
        BY <2>1, <3>1, ShortfallIsInt DEF Frame
    <2>3. BeginShed(q, bytes, TRUE)
      BY <1>1, <2>1
    <2> QED
      BY <1>1, <2>2, <2>3, BeginShedOK
  <1>2. CASE Settle(q, foot', late)
    BY <1>2, SettleOK
  <1> QED
    BY <1>1, <1>2 DEF Score

-----------------------------------------------------------------------------
(* The actions.                                                            *)

(* A request begins with nothing.                                          *)
LEMMA BeginOK ==
    ASSUME GovernorInv, NEW q \in Requests, NEW n \in Plans, Begin(q, n)
    PROVE  GovernorInv' /\ StepFits
  <1> USE DEF GovernorInv, Begin, shedVars
  <1>1. PICK S \in (SUBSET Classes) \ {{}} : n \in [S -> Sizes]
    BY DEF Plans
  <1>2. TypeOK'
    BY <1>1 DEF TypeOK
  <1>3. Orderly'
    <2>1. granted[q] = {} /\ S # {} /\ need'[q] = n /\ DOMAIN n = S
      BY <1>1 DEF Orderly, TypeOK
    <2>2. pc'[q] = "entering" /\ granted' = granted
      BY DEF TypeOK
    <2>3. \A p \in Requests \ {q} : pc'[p] = pc[p] /\ need'[p] = need[p]
      BY DEF TypeOK
    <2> QED
      BY <2>1, <2>2, <2>3 DEF Orderly
  <1>4. SharedList' /\ SkipsNobody'
    <2>1. \A p \in Requests : pc'[p] = "shedding" => pc[p] = "shedding"
      BY DEF TypeOK
    <2>2. walk' = walk /\ due' = due /\ shedders' = shedders
      OBVIOUS
    <2>3. SharedList'
      BY <2>2 DEF SharedList
    <2>4. SkipsNobody'
      BY <2>1, <2>2 DEF SkipsNobody
    <2> QED
      BY <2>3, <2>4
  <1>5. StepFits
    BY SMT DEF StepFits, TypeOK
  <1> QED
    BY <1>2, <1>3, <1>4, <1>5

(* The first pass on a class.                                              *)
LEMMA EnterOK ==
    ASSUME GovernorInv, NEW q \in Requests, NEW live \in Sizes \cup {0}, Enter(q, live)
    PROVE  GovernorInv' /\ StepFits
  <1>1. Admitting(q) /\ Frame /\ foot' = foot
    BY DEF Enter, Admitting, Frame, GovernorInv, TypeOK
  <1>2. CASE live = 0 /\ Score(q, foot, FALSE)
    BY <1>1, <1>2, ScoreOK
  <1>3. CASE live > 0 /\ BeginShed(q, Shortfall(q, foot, live), ~Fits(q, foot))
    <2>1. PICK bytes, pressure : bytes = Shortfall(q, foot', live) /\ pressure = ~Fits(q, foot')
      OBVIOUS
    <2>2. live \in Int
      BY GovernorAssumption, SMT
    <2>3. bytes \in Int
      BY <1>1, <2>1, <2>2, ShortfallIsInt DEF Frame
    <2>4. pressure \in BOOLEAN
      BY <2>1, Zenon
    <2>5. BeginShed(q, bytes, pressure)
      BY <1>1, <1>3, <2>1
    <2>6. shedders # <<>>
      <3>1. live # 0
        BY <1>3, <2>2, SMT
      <3> QED
        BY <3>1 DEF Enter, MayPress
    <2> QED
      BY <1>1, <2>3, <2>4, <2>5, <2>6, BeginShedOK
  <1> QED
    BY <1>2, <1>3 DEF Enter

(* The next consumer asked is the next in the list.                        *)
LEMMA ShedStepOK ==
    ASSUME GovernorInv, NEW q \in Requests, NEW freed \in 0 .. MaxFoot,
           NEW late \in BOOLEAN, ShedStep(q, freed, late)
    PROVE  GovernorInv' /\ StepFits
  <1> DEFINE w == walk[q]
             next == w.list[w.at + 1]
             more == w.rest > freed /\ w.at < Len(w.list)
  <1> USE DEF GovernorInv
  <1>1. Admitting(q)
    BY DEF ShedStep, Admitting
  <1>2. Frame
    <2>1. Class(q) \in Classes
      BY <1>1, NextClass DEF Orderly, Admitting
    <2>2. foot[Class(q)] \in 0 .. MaxFoot /\ freed <= foot[Class(q)]
      BY <2>1 DEF ShedStep, TypeOK
    <2>3. foot[Class(q)] - freed \in 0 .. MaxFoot
      BY <2>2, GovernorAssumption, SMT
    <2>4. foot' = [foot EXCEPT ![Class(q)] = foot[Class(q)] - freed]
      BY DEF ShedStep
    <2> QED
      BY <2>3, <2>4 DEF Frame, ShedStep, TypeOK
  <1>3. CASE more
    <2>1. /\ walk' = [walk EXCEPT ![q].at = w.at + 1, ![q].rest = w.rest - freed,
                                  ![q].cur = next]
          /\ due' = [due EXCEPT ![q] = @ \ {next}]
          /\ UNCHANGED <<pc, granted, reserved, need, shedders, budget>>
      BY <1>3 DEF ShedStep
    <2>2. /\ w \in Walks /\ w.list \in Seq(Consumers) /\ w.at \in Nat /\ w.rest \in Int
          /\ freed \in Int
      BY GovernorAssumption, SMT DEF TypeOK, Walks
    <2>3. w.at + 1 \in DOMAIN w.list /\ next \in Consumers
      BY <1>3, <2>2, SMT
    <2>4. w.at + 1 \in Nat /\ w.rest - freed \in Int
      BY <2>2, SMT
    <2>5. walk' = [walk EXCEPT ![q] = [w EXCEPT !.at = w.at + 1, !.rest = w.rest - freed,
                                                !.cur = next]]
      BY <2>1 DEF TypeOK
    <2>6. [w EXCEPT !.at = w.at + 1, !.rest = w.rest - freed, !.cur = next] \in Walks
      BY <2>2, <2>3, <2>4 DEF Walks
    <2>7. /\ walk'[q].list = w.list /\ walk'[q].shared = w.shared
          /\ walk'[q].at = w.at + 1
          /\ \A p \in Requests \ {q} : walk'[p] = walk[p]
      BY <2>2, <2>5 DEF TypeOK, Walks
    <2>8. TypeOK'
      BY <1>2, <2>1, <2>5, <2>6 DEF TypeOK, Frame
    <2>9. Orderly'
      BY <2>1 DEF Orderly
    <2>10. SharedList'
      BY <2>1, <2>7 DEF SharedList
    <2>11. SkipsNobody'
      <3> SUFFICES ASSUME NEW p \in Requests, pc'[p] = "shedding", NEW c \in due'[p]
                   PROVE  \E i \in DOMAIN walk'[p].list :
                              i > walk'[p].at /\ walk'[p].list[i] = c
        BY DEF SkipsNobody
      <3>1. CASE p # q
        <4>1. walk'[p] = walk[p] /\ due'[p] = due[p] /\ pc[p] = "shedding"
          BY <3>1, <2>1, <2>7 DEF TypeOK
        <4> QED
          BY <4>1 DEF SkipsNobody
      <3>2. CASE p = q
        <4>1. c \in due[q] /\ c # next /\ pc[q] = "shedding"
          BY <3>2, <2>1 DEF TypeOK
        <4>2. PICK i \in DOMAIN w.list : i > w.at /\ w.list[i] = c
          BY <4>1 DEF SkipsNobody
        <4>3. i # w.at + 1
          BY <4>1, <4>2
        <4>4. i \in Nat
          BY <2>2, <4>2
        <4>5. i > w.at + 1
          BY <2>2, <4>2, <4>3, <4>4, SMT
        <4> QED
          BY <3>2, <2>7, <4>2, <4>5
      <3> QED
        BY <3>1, <3>2
    <2>12. StepFits
      BY <2>1, SMT DEF StepFits, TypeOK
    <2> QED
      BY <2>8, <2>9, <2>10, <2>11, <2>12
  <1>4. CASE ~more
    <2>1. AfterShed(q, foot', late)
      BY <1>4 DEF ShedStep
    <2>2. Settle(q, foot', late) \/ Score(q, foot', late)
      BY <2>1 DEF AfterShed
    <2> QED
      BY <1>1, <1>2, <2>2, SettleOK, ScoreOK
  <1> QED
    BY <1>3, <1>4

(* A consumer sorted into the list pushes no one back over a walk.         *)
LEMMA RegisterOK ==
    ASSUME GovernorInv, NEW c \in Consumers, Register(c)
    PROVE  GovernorInv' /\ StepFits
  <1> DEFINE S == {i \in DOMAIN shedders : Priority[shedders[i]] <= Priority[c]}
             pos == 1 + Cardinality(S)
             new == InsertAt(shedders, pos, c)
  <1> USE DEF GovernorInv
  <1>1. shedders \in Seq(Consumers)
    BY DEF TypeOK
  <1>2. pos \in 1 .. Len(shedders) + 1
    BY <1>1, PlaceInList
  <1>3. /\ shedders' = new
        /\ walk' = [q \in Requests |->
                      IF walk[q].shared THEN [walk[q] EXCEPT !.list = new] ELSE walk[q]]
        /\ UNCHANGED <<pc, need, granted, reserved, budget, foot, due>>
    BY DEF Register
  <1> HIDE DEF pos
  <1>4. /\ new \in Seq(Consumers)
        /\ \A i \in DOMAIN shedders : \E j \in DOMAIN new :
              j >= i /\ new[j] = shedders[i]
    BY <1>1, <1>2, InsertShifts
  <1> HIDE DEF new
  <1>5. ASSUME NEW q \in Requests
        PROVE  /\ walk'[q] \in Walks /\ walk'[q].at = walk[q].at
               /\ walk'[q].shared = walk[q].shared
               /\ walk[q].shared => walk'[q].list = new
               /\ ~walk[q].shared => walk'[q].list = walk[q].list
    <2>1. walk[q] \in Walks
      BY DEF TypeOK
    <2>2. walk'[q] = IF walk[q].shared THEN [walk[q] EXCEPT !.list = new] ELSE walk[q]
      BY <1>3
    <2>3. CASE walk[q].shared
      BY <2>1, <2>2, <2>3, <1>4 DEF Walks
    <2>4. CASE ~walk[q].shared
      BY <2>1, <2>2, <2>4 DEF Walks
    <2> QED
      BY <2>3, <2>4
  <1>6. TypeOK'
    <2>1. walk' \in [Requests -> Walks]
      BY <1>3, <1>5
    <2> QED
      BY <2>1, <1>3, <1>4 DEF TypeOK
  <1>7. Orderly'
    BY <1>3 DEF Orderly
  <1>8. SharedList'
    BY <1>3, <1>5 DEF SharedList
  <1>9. SkipsNobody'
    <2> SUFFICES ASSUME NEW q \in Requests, pc[q] = "shedding", NEW k \in due[q]
                 PROVE  \E i \in DOMAIN walk'[q].list :
                            i > walk'[q].at /\ walk'[q].list[i] = k
      BY <1>3 DEF SkipsNobody
    <2>1. PICK i \in DOMAIN walk[q].list : i > walk[q].at /\ walk[q].list[i] = k
      BY DEF SkipsNobody
    <2>2. CASE ~walk[q].shared
      BY <1>5, <2>1, <2>2
    <2>3. CASE walk[q].shared
      <3>1. walk[q].list = shedders
        BY <2>3 DEF SharedList
      <3>2. PICK j \in DOMAIN new : j >= i /\ new[j] = shedders[i]
        BY <2>1, <3>1, <1>4
      <3>3. i \in Nat /\ j \in Nat /\ walk[q].at \in Nat
        BY <1>1, <1>4, <2>1, <3>1, <3>2 DEF TypeOK, Walks
      <3>4. j > walk[q].at
        BY <2>1, <3>2, <3>3, SMT
      <3> QED
        BY <1>5, <2>1, <2>3, <3>1, <3>2, <3>4
    <2> QED
      BY <2>2, <2>3
  <1>10. StepFits
    BY <1>3, SMT DEF StepFits, TypeOK
  <1> QED
    BY <1>6, <1>7, <1>8, <1>9, <1>10

(* Walks keep the list they have.                                          *)
LEMMA UnregisterOK ==
    ASSUME GovernorInv, NEW i \in DOMAIN shedders, NEW f \in [Classes -> 0 .. MaxFoot],
           Unregister(i, f)
    PROVE  GovernorInv' /\ StepFits
  <1> USE DEF GovernorInv
  <1>1. shedders \in Seq(Consumers) /\ i \in 1 .. Len(shedders)
    BY DEF TypeOK
  <1>2. shedders' \in Seq(Consumers)
    <2>1. /\ SubSeq(shedders, 1, i - 1) \in Seq(Consumers)
          /\ SubSeq(shedders, i + 1, Len(shedders)) \in Seq(Consumers)
      BY <1>1, SMT
    <2> QED
      BY <2>1, ConcatProperties DEF Unregister, RemoveAt
  <1>3. ASSUME NEW q \in Requests
        PROVE  /\ walk'[q] \in Walks /\ walk'[q].at = walk[q].at
               /\ walk'[q].list = walk[q].list /\ ~walk'[q].shared
    <2>1. walk[q] \in Walks
      BY DEF TypeOK
    <2>2. walk'[q] = [walk[q] EXCEPT !.shared = FALSE]
      BY DEF Unregister
    <2> QED
      BY <2>1, <2>2 DEF Walks
  <1>4. TypeOK'
    <2>1. walk' \in [Requests -> Walks]
      BY <1>3 DEF Unregister
    <2>2. due' \in [Requests -> SUBSET Consumers]
      BY DEF Unregister, TypeOK
    <2> QED
      BY <1>2, <2>1, <2>2 DEF Unregister, TypeOK
  <1>5. Orderly'
    BY DEF Unregister, Orderly
  <1>6. SharedList'
    BY <1>3 DEF SharedList
  <1>7. SkipsNobody'
    BY <1>3 DEF Unregister, SkipsNobody
  <1>8. StepFits
    BY SMT DEF Unregister, StepFits, TypeOK
  <1> QED
    BY <1>4, <1>5, <1>6, <1>7, <1>8

(* Every step keeps the invariant and reserves only what fits.             *)
LEMMA StepOK ==
    ASSUME GovernorInv, [Next]_vars
    PROVE  GovernorInv' /\ StepFits
  <1> USE DEF GovernorInv
  <1>1. ASSUME NEW q \in Requests, NEW n \in Plans, Begin(q, n)
        PROVE  GovernorInv' /\ StepFits
    BY <1>1, BeginOK
  <1>2. ASSUME NEW q \in Requests, NEW live \in Sizes \cup {0}, Enter(q, live)
        PROVE  GovernorInv' /\ StepFits
    BY <1>2, EnterOK
  <1>3. ASSUME NEW q \in Requests, NEW freed \in 0 .. MaxFoot, NEW late \in BOOLEAN,
               ShedStep(q, freed, late)
        PROVE  GovernorInv' /\ StepFits
    BY <1>3, ShedStepOK
  <1>4. ASSUME NEW q \in Requests, NEW late \in BOOLEAN, ShedBreaks(q, late)
        PROVE  GovernorInv' /\ StepFits
    <2>1. Admitting(q) /\ Frame /\ foot' = foot
      BY <1>4 DEF ShedBreaks, Admitting, Frame, TypeOK
    <2>2. Leave(q) \/ Score(q, foot', late)
      BY <1>4, <2>1 DEF ShedBreaks
    <2> QED
      BY <2>1, <2>2, LeaveOK, ScoreOK
  <1>5. ASSUME NEW q \in Requests, NEW late \in BOOLEAN, Wake(q, late)
        PROVE  GovernorInv' /\ StepFits
    <2>1. Admitting(q) /\ Frame /\ Score(q, foot', late)
      BY <1>5 DEF Wake, Admitting, Frame, TypeOK
    <2> QED
      BY <2>1, ScoreOK
  <1>6. ASSUME NEW q \in Requests, Abort(q) \/ Finish(q)
        PROVE  GovernorInv' /\ StepFits
    <2>1. Leave(q) /\ Frame
      BY <1>6 DEF Abort, Finish, Frame, TypeOK
    <2> QED
      BY <2>1, LeaveOK
  <1>7. ASSUME NEW d \in Classes, NEW limit \in Limits, SetBudget(d, limit)
        PROVE  GovernorInv' /\ StepFits
    <2>1. TypeOK'
      BY <1>7 DEF SetBudget, TypeOK, shedVars
    <2>2. Orderly' /\ SharedList' /\ SkipsNobody'
      BY <1>7 DEF SetBudget, Orderly, SharedList, SkipsNobody, shedVars
    <2>3. StepFits
      BY <1>7, SMT DEF SetBudget, StepFits, TypeOK
    <2> QED
      BY <2>1, <2>2, <2>3
  <1>8. ASSUME NEW d \in Classes, NEW bytes \in 0 .. MaxFoot, ConsumerChanges(d, bytes)
        PROVE  GovernorInv' /\ StepFits
    <2>1. TypeOK'
      BY <1>8 DEF ConsumerChanges, TypeOK, shedVars
    <2>2. Orderly' /\ SharedList' /\ SkipsNobody'
      BY <1>8 DEF ConsumerChanges, Orderly, SharedList, SkipsNobody, shedVars
    <2>3. StepFits
      BY <1>8, SMT DEF ConsumerChanges, StepFits, TypeOK
    <2> QED
      BY <2>1, <2>2, <2>3
  <1>9. ASSUME NEW c \in Consumers, Register(c)
        PROVE  GovernorInv' /\ StepFits
    BY <1>9, RegisterOK
  <1>10. ASSUME NEW i \in DOMAIN shedders, NEW f \in [Classes -> 0 .. MaxFoot],
                Unregister(i, f)
         PROVE  GovernorInv' /\ StepFits
    BY <1>10, UnregisterOK
  <1>11. CASE UNCHANGED vars
    <2>1. TypeOK'
      BY <1>11 DEF vars, TypeOK, shedVars
    <2>2. Orderly' /\ SharedList' /\ SkipsNobody'
      BY <1>11 DEF vars, Orderly, SharedList, SkipsNobody, shedVars
    <2>3. StepFits
      BY <1>11, SMT DEF vars, StepFits, TypeOK
    <2> QED
      BY <2>1, <2>2, <2>3
  <1> HIDE DEF GovernorInv
  <1> QED
    BY <1>1, <1>2, <1>3, <1>4, <1>5, <1>6, <1>7, <1>8, <1>9, <1>10, <1>11 DEF Next

-----------------------------------------------------------------------------
(* The accounts.                                                           *)

Holders(d) == {q \in Requests : d \in granted[q]}

(* At any moment finitely many requests hold a class, and what they hold   *)
(* adds up to what is reserved.                                            *)
Accounted ==
    \A d \in Classes : /\ IsFiniteSet(Holders(d))
                       /\ reserved[d] = Total(need, d, Holders(d))

AccountInv == GovernorInv /\ Accounted /\ WaitsForSomeone

(* A request that nothing happens to stays at its class.                   *)
LEMMA ClassStays ==
    ASSUME NEW q, need'[q] = need[q], granted'[q] = granted[q]
    PROVE  Class(q)' = Class(q)
  BY DEF Class

(* What a step means for the accounts: it releases all a request holds,    *)
(* records one class, lets a request wait that has somebody to wait for,   *)
(* begins a request, or leaves the accounts and the waiters alone.         *)
LEMMA AccountSteps ==
    ASSUME GovernorInv, [Next]_vars
    PROVE  \/ \E q \in Requests : Leave(q) /\ UNCHANGED need
           \/ \E q \in Requests : Admitting(q) /\ Record(q) /\ UNCHANGED need
           \/ \E q \in Requests : /\ Admitting(q) /\ ~Hopeless(q)
                                  /\ Sleep(q) /\ UNCHANGED need
           \/ \E q \in Requests, n \in Plans : Begin(q, n)
           \/ /\ UNCHANGED <<need, granted, reserved>>
              /\ \A q \in Requests : pc'[q] = "waiting" => pc[q] = "waiting"
  <1> DEFINE Goal ==
               \/ \E q \in Requests : Leave(q) /\ UNCHANGED need
               \/ \E q \in Requests : Admitting(q) /\ Record(q) /\ UNCHANGED need
               \/ \E q \in Requests : /\ Admitting(q) /\ ~Hopeless(q)
                                      /\ Sleep(q) /\ UNCHANGED need
               \/ \E q \in Requests, n \in Plans : Begin(q, n)
               \/ /\ UNCHANGED <<need, granted, reserved>>
                  /\ \A q \in Requests : pc'[q] = "waiting" => pc[q] = "waiting"
  <1>0. ASSUME NEW q \in Requests, UNCHANGED need, UNCHANGED <<granted, reserved>>,
               pc' = [pc EXCEPT ![q] = "shedding"]
        PROVE  Goal
    <2>1. \A p \in Requests : pc'[p] = "waiting" => pc[p] = "waiting"
      BY <1>0 DEF GovernorInv, TypeOK
    <2> QED
      BY <1>0, <2>1
  <1>a. ASSUME NEW q \in Requests, NEW f, NEW late, Admitting(q), UNCHANGED need,
               Settle(q, f, late)
        PROVE  Goal
    BY <1>a DEF Settle
  <1>b. ASSUME NEW q \in Requests, NEW f, NEW late, Admitting(q), UNCHANGED need,
               Score(q, f, late)
        PROVE  Goal
    <2>1. CASE Settle(q, f, late)
      BY <1>a, <1>b, <2>1
    <2>2. CASE BeginShed(q, Shortfall(q, f, 0), TRUE)
      BY <1>0, <1>b, <2>2 DEF BeginShed
    <2> QED
      BY <1>b, <2>1, <2>2 DEF Score
  <1>1. ASSUME NEW q \in Requests, NEW n \in Plans, Begin(q, n) PROVE Goal
    BY <1>1
  <1>2. ASSUME NEW q \in Requests, NEW live \in Sizes \cup {0}, Enter(q, live) PROVE Goal
    <2>1. Admitting(q) /\ UNCHANGED need
      BY <1>2 DEF Enter, Admitting
    <2>2. CASE Score(q, foot, FALSE)
      BY <1>b, <2>1, <2>2
    <2>3. CASE BeginShed(q, Shortfall(q, foot, live), ~Fits(q, foot))
      BY <1>0, <2>1, <2>3 DEF BeginShed
    <2> QED
      BY <1>2, <2>2, <2>3 DEF Enter
  <1>3. ASSUME NEW q \in Requests, NEW freed \in 0 .. MaxFoot, NEW late \in BOOLEAN,
               ShedStep(q, freed, late)
        PROVE  Goal
    <2> DEFINE f == [foot EXCEPT ![Class(q)] = @ - freed]
    <2>1. Admitting(q) /\ UNCHANGED need
      BY <1>3 DEF ShedStep, Admitting
    <2>2. CASE UNCHANGED <<pc, granted, reserved>>
      BY <2>1, <2>2
    <2>3. CASE AfterShed(q, f, late)
      <3>1. Settle(q, f, late) \/ Score(q, f, late)
        BY <2>3 DEF AfterShed
      <3> HIDE DEF f
      <3> QED
        BY <1>a, <1>b, <2>1, <3>1
    <2> QED
      BY <1>3, <2>2, <2>3 DEF ShedStep
  <1>4. ASSUME NEW q \in Requests, NEW late \in BOOLEAN, ShedBreaks(q, late) PROVE Goal
    <2>1. Admitting(q) /\ UNCHANGED need
      BY <1>4 DEF ShedBreaks, Admitting
    <2>2. Leave(q) \/ Score(q, foot, late)
      BY <1>4 DEF ShedBreaks
    <2> QED
      BY <1>b, <2>1, <2>2
  <1>5. ASSUME NEW q \in Requests, NEW late \in BOOLEAN, Wake(q, late) PROVE Goal
    <2>1. Admitting(q) /\ UNCHANGED need /\ Score(q, foot, late)
      BY <1>5 DEF Wake, Admitting
    <2> QED
      BY <1>b, <2>1
  <1>6. ASSUME NEW q \in Requests, Abort(q) \/ Finish(q) PROVE Goal
    BY <1>6 DEF Abort, Finish
  <1>7. ASSUME UNCHANGED <<pc, need, granted, reserved>> PROVE Goal
    BY <1>7
  <1>8. ASSUME NEW d \in Classes, NEW limit \in Limits, SetBudget(d, limit) PROVE Goal
    BY <1>7, <1>8 DEF SetBudget
  <1>9. ASSUME NEW d \in Classes, NEW bytes \in 0 .. MaxFoot, ConsumerChanges(d, bytes)
        PROVE  Goal
    BY <1>7, <1>9 DEF ConsumerChanges
  <1>10. ASSUME NEW c \in Consumers, Register(c) PROVE Goal
    BY <1>7, <1>10 DEF Register
  <1>11. ASSUME NEW i \in DOMAIN shedders, NEW f \in [Classes -> 0 .. MaxFoot],
                Unregister(i, f)
         PROVE  Goal
    BY <1>7, <1>11 DEF Unregister
  <1>12. CASE UNCHANGED vars
    BY <1>7, <1>12 DEF vars
  <1>13. CASE Next
    <2>1. CASE \E q \in Requests :
                  \/ \E n \in Plans : Begin(q, n)
                  \/ \E live \in Sizes \cup {0} : Enter(q, live)
                  \/ \E freed \in 0 .. MaxFoot, late \in BOOLEAN : ShedStep(q, freed, late)
                  \/ \E late \in BOOLEAN : ShedBreaks(q, late) \/ Wake(q, late)
                  \/ Abort(q)
                  \/ Finish(q)
      BY <1>1, <1>2, <1>3, <1>4, <1>5, <1>6, <2>1
    <2> QED
      BY <1>8, <1>9, <1>10, <1>11, <1>13, <2>1 DEF Next
  <1> QED
    BY <1>12, <1>13

(* Releases take out of the sum what they take out of _reserved, and wake  *)
(* every waiter if they take anything.                                     *)
LEMMA LeaveAccounts ==
    ASSUME AccountInv, NEW q \in Requests, Leave(q), UNCHANGED need
    PROVE  Accounted' /\ WaitsForSomeone'
  <1> USE DEF AccountInv, GovernorInv, Leave, Releases
  <1>1. granted'[q] = {} /\ \A p \in Requests \ {q} : granted'[p] = granted[p]
    BY DEF TypeOK
  <1>2. Accounted'
    <2> SUFFICES ASSUME NEW d \in Classes
                 PROVE  /\ IsFiniteSet(Holders(d)')
                        /\ reserved'[d] = Total(need, d, Holders(d)')
      BY DEF Accounted
    <2>1. Holders(d)' = Holders(d) \ {q}
      BY <1>1 DEF Holders
    <2>2. IsFiniteSet(Holders(d)) /\ reserved[d] = Total(need, d, Holders(d))
      BY DEF Accounted
    <2>3. IsFiniteSet(Holders(d) \ {q})
      BY <2>2, FS_RemoveElement
    <2>4. CASE d \in granted[q]
      <3>1. q \in Holders(d)
        BY <2>4 DEF Holders
      <3>2. \A x \in Holders(d) : need[x][d] \in Int
        <4>1. \A x \in Holders(d) : need[x][d] \in Nat
          BY NeedIsNat DEF Holders
        <4> QED
          BY <4>1
      <3>3. /\ Total(need, d, Holders(d)) = need[q][d] + Total(need, d, Holders(d) \ {q})
        BY <2>2, <3>1, <3>2, TotalWithout
      <3>4. Total(need, d, Holders(d) \ {q}) \in Int /\ need[q][d] \in Int
        <4>1. \A x \in Holders(d) \ {q} : need[x][d] \in Int
          BY <3>2
        <4> QED
          BY <2>3, <3>1, <3>2, <4>1, TotalWithout
      <3>5. reserved'[d] = reserved[d] - need[q][d]
        BY <2>4
      <3>6. reserved'[d] = Total(need, d, Holders(d) \ {q})
        BY <2>2, <3>3, <3>4, <3>5, SMT
      <3> QED
        BY <2>1, <2>3, <3>6
    <2>5. CASE d \notin granted[q]
      <3>1. Holders(d) \ {q} = Holders(d)
        BY <2>5 DEF Holders
      <3>2. reserved'[d] = reserved[d]
        BY <2>5
      <3> QED
        BY <2>1, <2>2, <2>3, <3>1, <3>2
    <2> QED
      BY <2>4, <2>5
  <1>3. WaitsForSomeone'
    <2> SUFFICES ASSUME NEW p \in Requests, pc'[p] = "waiting"
                 PROVE  \E h \in Requests \ {p} :
                            Class(p)' \in granted'[h] /\ need[h][Class(p)'] > 0
      BY DEF WaitsForSomeone
    <2>1. p # q /\ pc[p] = "waiting" /\ granted[q] = {}
      BY DEF Woken
    <2>2. Class(p)' = Class(p)
      BY <1>1, <2>1, ClassStays
    <2>3. PICK h \in Requests \ {p} : Class(p) \in granted[h] /\ need[h][Class(p)] > 0
      BY <2>1 DEF WaitsForSomeone
    <2>4. granted'[h] = granted[h]
      BY <1>1, <2>1
    <2> QED
      BY <2>2, <2>3, <2>4
  <1> QED
    BY <1>2, <1>3

(* _record adds to the sum what it adds to _reserved.                      *)
LEMMA RecordAccounts ==
    ASSUME AccountInv, NEW q \in Requests, Admitting(q), Record(q), UNCHANGED need
    PROVE  Accounted' /\ WaitsForSomeone'
  <1> USE DEF AccountInv, GovernorInv
  <1> DEFINE c == Class(q)
  <1>1. c \in DOMAIN need[q] \ granted[q] /\ c \in Classes /\ need[q][c] \in Nat
    BY NextClass DEF Admitting, Orderly
  <1>2. /\ reserved' = [reserved EXCEPT ![c] = @ + need[q][c]]
        /\ granted' = [granted EXCEPT ![q] = @ \cup {c}]
        /\ pc' = [pc EXCEPT ![q] = IF granted[q] \cup {c} = DOMAIN need[q]
                                   THEN "holding" ELSE "entering"]
    BY DEF Record
  <1> HIDE DEF c
  <1>3. /\ granted'[q] = granted[q] \cup {c}
        /\ \A p \in Requests \ {q} : granted'[p] = granted[p]
    BY <1>2 DEF TypeOK
  <1>4. Accounted'
    <2> SUFFICES ASSUME NEW d \in Classes
                 PROVE  /\ IsFiniteSet(Holders(d)')
                        /\ reserved'[d] = Total(need, d, Holders(d)')
      BY DEF Accounted
    <2>1. IsFiniteSet(Holders(d)) /\ reserved[d] = Total(need, d, Holders(d))
      BY DEF Accounted
    <2>2. CASE d # c
      <3>1. Holders(d)' = Holders(d)
        BY <1>3, <2>2 DEF Holders
      <3>2. reserved'[d] = reserved[d]
        BY <1>2, <2>2 DEF TypeOK
      <3> QED
        BY <2>1, <3>1, <3>2
    <2>3. CASE d = c
      <3> DEFINE S == Holders(d) \cup {q}
      <3>1. Holders(d)' = S /\ q \notin Holders(d)
        BY <1>1, <1>3, <2>3 DEF Holders
      <3>2. IsFiniteSet(S) /\ S \ {q} = Holders(d) /\ q \in S
        BY <2>1, <3>1, FS_AddElement
      <3>3. \A x \in Holders(d) : need[x][d] \in Int
        <4>1. \A x \in Holders(d) : need[x][d] \in Nat
          BY NeedIsNat DEF Holders
        <4> QED
          BY <4>1
      <3>4. \A x \in S : need[x][d] \in Int
        BY <1>1, <2>3, <3>3
      <3>5. Total(need, d, Holders(d)) \in Int
        BY <2>1, <3>3, TotalWithout
      <3> HIDE DEF S
      <3>6. Total(need, d, S) = need[q][d] + Total(need, d, Holders(d))
        BY <3>2, <3>4, TotalWithout
      <3>7. reserved'[d] = reserved[d] + need[q][d]
        BY <1>2, <2>3 DEF TypeOK
      <3>8. reserved'[d] = Total(need, d, S)
        BY <1>1, <2>1, <2>3, <3>5, <3>6, <3>7, SMT
      <3> QED
        BY <3>1, <3>2, <3>8
    <2> QED
      BY <2>2, <2>3
  <1>5. WaitsForSomeone'
    <2> SUFFICES ASSUME NEW p \in Requests, pc'[p] = "waiting"
                 PROVE  \E h \in Requests \ {p} :
                            Class(p)' \in granted'[h] /\ need[h][Class(p)'] > 0
      BY DEF WaitsForSomeone
    <2>1. p # q /\ pc[p] = "waiting"
      BY <1>2 DEF TypeOK
    <2>2. Class(p)' = Class(p)
      BY <1>3, <2>1, ClassStays
    <2>3. PICK h \in Requests \ {p} : Class(p) \in granted[h] /\ need[h][Class(p)] > 0
      BY <2>1 DEF WaitsForSomeone
    <2>4. Class(p) \in granted'[h]
      BY <1>3, <2>3
    <2> QED
      BY <2>2, <2>3, <2>4
  <1> QED
    BY <1>4, <1>5

(* A request that finds its class reserved finds somebody who has bytes of *)
(* it, and not itself.                                                     *)
LEMMA SleepAccounts ==
    ASSUME AccountInv, NEW q \in Requests, Admitting(q), ~Hopeless(q), Sleep(q),
           UNCHANGED need
    PROVE  Accounted' /\ WaitsForSomeone'
  <1> USE DEF AccountInv, GovernorInv
  <1>1. /\ pc' = [pc EXCEPT ![q] = "waiting"]
        /\ granted' = granted /\ reserved' = reserved
    BY DEF Sleep
  <1>2. Accounted'
    BY <1>1 DEF Accounted, Holders
  <1>3. \A p \in Requests : Class(p)' = Class(p)
    BY <1>1, ClassStays
  <1>4. ASSUME NEW p \in Requests, pc'[p] = "waiting"
        PROVE  \E h \in Requests \ {p} : Class(p) \in granted[h] /\ need[h][Class(p)] > 0
    <2>1. CASE p # q
      <3>1. pc[p] = "waiting"
        BY <1>1, <1>4, <2>1 DEF TypeOK
      <3> QED
        BY <3>1 DEF WaitsForSomeone
    <2>2. CASE p = q
      <3> DEFINE c == Class(q)
      <3>1. c \in DOMAIN need[q] \ granted[q] /\ c \in Classes
        BY NextClass DEF Admitting, Orderly
      <3>2. reserved[c] # 0
        BY DEF Hopeless
      <3> HIDE DEF c
      <3>3. IsFiniteSet(Holders(c)) /\ reserved[c] = Total(need, c, Holders(c))
        BY <3>1 DEF Accounted
      <3>4. PICK h \in Holders(c) : need[h][c] # 0
        BY <3>2, <3>3, TotalOfNothing
      <3>5. h \in Requests /\ c \in granted[h] /\ h # q
        BY <3>1, <3>4 DEF Holders
      <3>6. need[h][c] \in Nat
        BY <3>5, NeedIsNat
      <3>7. need[h][c] > 0
        BY <3>4, <3>6, SMT
      <3> QED
        BY <2>2, <3>5, <3>7 DEF c
    <2> QED
      BY <2>1, <2>2
  <1>5. WaitsForSomeone'
    BY <1>1, <1>3, <1>4 DEF WaitsForSomeone
  <1> QED
    BY <1>2, <1>5

(* A request that begins holds nothing, so its plan counts nowhere.        *)
LEMMA BeginAccounts ==
    ASSUME AccountInv, NEW q \in Requests, NEW n \in Plans, Begin(q, n)
    PROVE  Accounted' /\ WaitsForSomeone'
  <1> USE DEF AccountInv, GovernorInv
  <1>1. /\ pc' = [pc EXCEPT ![q] = "entering"]
        /\ need' = [need EXCEPT ![q] = n]
        /\ granted' = granted /\ reserved' = reserved
        /\ granted[q] = {}
    BY DEF Begin, Orderly
  <1>2. \A p \in Requests \ {q} : need'[p] = need[p]
    BY <1>1 DEF TypeOK
  <1>3. Accounted'
    <2> SUFFICES ASSUME NEW d \in Classes
                 PROVE  IsFiniteSet(Holders(d)) /\ reserved[d] = Total(need', d, Holders(d))
      BY <1>1 DEF Accounted, Holders
    <2>1. IsFiniteSet(Holders(d)) /\ reserved[d] = Total(need, d, Holders(d))
      BY DEF Accounted
    <2>2. \A x \in Holders(d) : need[x][d] = need'[x][d]
      BY <1>1, <1>2 DEF Holders
    <2>3. Total(need, d, Holders(d)) = Total(need', d, Holders(d))
      BY <2>1, <2>2, TotalAgrees
    <2> QED
      BY <2>1, <2>3
  <1>4. WaitsForSomeone'
    <2> SUFFICES ASSUME NEW p \in Requests, pc'[p] = "waiting"
                 PROVE  \E h \in Requests \ {p} :
                            Class(p)' \in granted[h] /\ need'[h][Class(p)'] > 0
      BY <1>1 DEF WaitsForSomeone
    <2>1. p # q /\ pc[p] = "waiting"
      BY <1>1 DEF TypeOK
    <2>2. Class(p)' = Class(p)
      BY <1>1, <1>2, <2>1, ClassStays
    <2>3. PICK h \in Requests \ {p} : Class(p) \in granted[h] /\ need[h][Class(p)] > 0
      BY <2>1 DEF WaitsForSomeone
    <2>4. need'[h] = need[h]
      BY <1>1, <1>2, <2>3
    <2> QED
      BY <2>2, <2>3, <2>4
  <1> QED
    BY <1>3, <1>4

(* Every step keeps the accounts.                                          *)
LEMMA AccountsKept ==
    ASSUME AccountInv, [Next]_vars
    PROVE  AccountInv'
  <1>1. GovernorInv /\ GovernorInv'
    BY StepOK DEF AccountInv
  <1>2. CASE \E q \in Requests : Leave(q) /\ UNCHANGED need
    BY <1>1, <1>2, LeaveAccounts DEF AccountInv
  <1>3. CASE \E q \in Requests : Admitting(q) /\ Record(q) /\ UNCHANGED need
    BY <1>1, <1>3, RecordAccounts DEF AccountInv
  <1>4. CASE \E q \in Requests : /\ Admitting(q) /\ ~Hopeless(q)
                                 /\ Sleep(q) /\ UNCHANGED need
    BY <1>1, <1>4, SleepAccounts DEF AccountInv
  <1>5. CASE \E q \in Requests, n \in Plans : Begin(q, n)
    BY <1>1, <1>5, BeginAccounts DEF AccountInv
  <1>6. CASE /\ UNCHANGED <<need, granted, reserved>>
             /\ \A q \in Requests : pc'[q] = "waiting" => pc[q] = "waiting"
    <2>1. need' = need /\ granted' = granted /\ reserved' = reserved
      BY <1>6
    <2>2. Accounted'
      BY <2>1 DEF AccountInv, Accounted, Holders
    <2>3. \A p \in Requests : Class(p)' = Class(p)
      BY <2>1, ClassStays
    <2>4. WaitsForSomeone'
      BY <1>6, <2>1, <2>3 DEF AccountInv, WaitsForSomeone
    <2> QED
      BY <1>1, <2>2, <2>4 DEF AccountInv
  <1> QED
    BY <1>1, <1>2, <1>3, <1>4, <1>5, <1>6, AccountSteps

-----------------------------------------------------------------------------
(* The theorems.                                                           *)

(* The invariant holds before any request.                                 *)
LEMMA InitOK == Init => GovernorInv
  <1> SUFFICES ASSUME Init PROVE GovernorInv
    OBVIOUS
  <1> USE DEF Init
  <1>1. [d \in {} |-> 0] \in [{} -> Sizes]
    OBVIOUS
  <1>2. need \in [Requests -> UNION {[S -> Sizes] : S \in SUBSET Classes}]
    BY <1>1
  <1>3. NoWalk \in Walks /\ ~NoWalk.shared
    <2>1. <<>> \in Seq(Consumers)
      OBVIOUS
    <2> QED
      BY <2>1 DEF NoWalk, Walks
  <1>4. reserved \in [Classes -> Int] /\ foot \in [Classes -> 0 .. MaxFoot]
    BY GovernorAssumption, SMT
  <1>5. TypeOK
    BY <1>2, <1>3, <1>4 DEF TypeOK
  <1>6. Orderly
    BY DEF Orderly
  <1>7. SharedList /\ SkipsNobody
    BY <1>3 DEF SharedList, SkipsNobody
  <1> QED
    BY <1>5, <1>6, <1>7 DEF GovernorInv

(* Requests take classes in order and give all of them back; a shed's walk *)
(* and the list of consumers belong together.                              *)
THEOREM GovernorInvariant == Spec => []GovernorInv
  <1>1. GovernorInv /\ [Next]_vars => GovernorInv'
    BY StepOK
  <1> QED
    BY <1>1, InitOK, PTL DEF Spec

(* Requests, accounts, budgets and the list of consumers keep their types. *)
THEOREM GovernorTypes == Spec => []TypeOK
  BY GovernorInvariant, PTL DEF GovernorInv

(* A shed asks every consumer that stays registered, whatever is           *)
(* registered or unregistered while it waits for an answer.                *)
THEOREM ShedReachesAll == Spec => []SkipsNobody
  BY GovernorInvariant, PTL DEF GovernorInv

(* No interleaving of sheds, grants and consumers makes the governor       *)
(* record a reservation that does not fit the declared budget.             *)
THEOREM AdmissionFits == Spec => GrantsFit
  <1>1. GovernorInv /\ [Next]_vars => [StepFits]_vars
    BY StepOK
  <1> QED
    BY <1>1, GovernorInvariant, PTL DEF Spec, GrantsFit

(* However requests end (refused, cut while they shed or wait, with their  *)
(* body), _reserved is the sum of what is held, and a request waits only   *)
(* while another one holds bytes of its class.                             *)
THEOREM AccountsHold == Spec => []AccountsInStep
  <1>1. Init => AccountInv
    <2> SUFFICES ASSUME Init PROVE Accounted /\ WaitsForSomeone
      BY InitOK DEF AccountInv
    <2>1. \A d \in Classes : Holders(d) = {}
      BY DEF Init, Holders
    <2>2. Accounted
      BY <2>1, TotalEmpty, FS_EmptySet DEF Init, Accounted
    <2>3. WaitsForSomeone
      BY DEF Init, WaitsForSomeone
    <2> QED
      BY <2>2, <2>3
  <1>2. AccountInv /\ [Next]_vars => AccountInv'
    BY AccountsKept
  <1>3. AccountInv => AccountsInStep
    <2> SUFFICES ASSUME AccountInv PROVE AccountsInStep
      OBVIOUS
    <2>1. ReservedIsSum
      BY DEF AccountInv, Accounted, ReservedIsSum, Total, Holders
    <2> QED
      BY <2>1 DEF AccountInv, AccountsInStep
  <1> QED
    BY <1>1, <1>2, <1>3, PTL DEF Spec

(* The order of the classes excludes a circle of waiters: the one who      *)
(* waits on the greatest class waits for somebody who does not wait.       *)
THEOREM NoCircle == Spec => []SomebodyMoves
  <1>1. GovernorInv /\ AccountsInStep => SomebodyMoves
    <2> SUFFICES ASSUME GovernorInv, WaitsForSomeone,
                        \E q \in Requests : pc[q] = "waiting"
                 PROVE  \E p \in Requests : pc[p] \in {"entering", "shedding", "woken",
                     "holding"}
      BY DEF SomebodyMoves, AccountsInStep
    <2> USE DEF GovernorInv
    <2> DEFINE Waiting == {q \in Requests : pc[q] = "waiting"}
               At == {Class(q) : q \in Waiting}
    <2>1. \A q \in Waiting : Class(q) \in Classes /\ Class(q) \in DOMAIN need[q] \ granted[q]
      BY NextClass DEF Orderly
    <2>2. At \subseteq Classes /\ At # {}
      BY <2>1
    <2>3. PICK top \in At : \A d \in At : d <= top
      BY <2>2, GreatestClass
    <2>4. PICK q \in Waiting : Class(q) = top
      OBVIOUS
    <2>5. PICK p \in Requests \ {q} : top \in granted[p]
      BY <2>4 DEF WaitsForSomeone
    <2>6. pc[p] # "waiting"
      <3> SUFFICES ASSUME pc[p] = "waiting" PROVE FALSE
        OBVIOUS
      <3>1. top < Class(p)
        BY <2>1, <2>5 DEF Orderly
      <3>2. Class(p) <= top
        BY <2>3
      <3>3. Class(p) \in Nat /\ top \in Nat
        BY <2>1, <2>2, GovernorAssumption, SMT DEF Classes
      <3> QED
        BY <3>1, <3>2, <3>3, SMT
    <2>7. pc[p] \notin {"idle", "over"}
      BY <2>5 DEF Orderly
    <2> QED
      BY <2>5, <2>6, <2>7 DEF TypeOK
  <1> QED
    BY <1>1, GovernorInvariant, AccountsHold, PTL
-----------------------------------------------------------------------------
(* The lease broker, whose reservations are the governor's: any number of  *)
(* leases, any terms and any bound on time.                                *)

(* clamp_ttl stays between nothing and max_ttl.                            *)
LEMMA ClampBounded ==
    ASSUME NEW ttl \in Ttls
    PROVE  Clamp(ttl) \in Nat /\ Clamp(ttl) <= MaxTtl
  BY LeaseAssumption, SMT DEF Clamp

(* A term that begins now ends within the model's time and the cap.        *)
LEMMA TermFits ==
    ASSUME NEW ttl \in Ttls, clock \in 0 .. MaxClock, TimeLeft
    PROVE  /\ clock + Clamp(ttl) \in 0 .. MaxClock
           /\ clock + Clamp(ttl) <= clock + MaxTtl
  <1>1. Clamp(ttl) \in Nat /\ Clamp(ttl) <= MaxTtl
    BY ClampBounded
  <1> QED
    BY <1>1, LeaseAssumption, SMT DEF TimeLeft

(* The leases held are the holding tasks, said lease by lease.             *)
LEMMA HeldByTask ==
    NothingLeaks <=> /\ held = leased
                     /\ held \subseteq Leases
                     /\ \A l \in Leases : l \in held <=> task[l] = "holding"
  BY DEF NothingLeaks

(* Every action preserves the inductive invariant.                         *)
LEMMA LeaseStepOK ==
    ASSUME LeaseInv, [LeaseNext]_leaseVars
    PROVE  LeaseInv'
  <1> USE LeaseAssumption
  <1> DEFINE Exact == /\ held = leased
                     /\ held \subseteq Leases
                     /\ \A k \in Leases : k \in held <=> task[k] = "holding"
  <1>a. Exact
    BY HeldByTask DEF LeaseInv
  <1>b. Exact' => NothingLeaks'
    BY DEF NothingLeaks
  <1> HIDE DEF Exact
  <1>1. ASSUME NEW l \in Leases, Acquire(l) PROVE LeaseInv'
    <2>1. LeaseTypeOK'
      BY <1>1, SMT DEF LeaseInv, LeaseTypeOK, Acquire, termVars
    <2>2. NothingLeaks'
      BY <1>1, <1>a, <1>b, SMT DEF Exact, LeaseInv, LeaseTypeOK, Acquire, termVars
    <2>3. TermBounded'
      BY <1>1, SMT DEF LeaseInv, LeaseTypeOK, TermBounded, Acquire, termVars
    <2>4. ClosedIsEmpty'
      BY <1>1, <1>a, SMT DEF Exact, LeaseInv, LeaseTypeOK, ClosedIsEmpty, Acquire, termVars
    <2>5. HolderCutByRelease'
      BY <1>1, <1>a, SMT DEF Exact, LeaseInv, LeaseTypeOK,
          HolderCutByRelease, Acquire, termVars
    <2> QED
      BY <2>1, <2>2, <2>3, <2>4, <2>5 DEF LeaseInv
  <1>2. ASSUME NEW l \in Leases, AcquireCut(l) PROVE LeaseInv'
    <2>1. LeaseTypeOK'
      BY <1>2, SMT DEF LeaseInv, LeaseTypeOK, AcquireCut, termVars
    <2>2. NothingLeaks'
      BY <1>2, <1>a, <1>b, SMT DEF Exact, LeaseInv, LeaseTypeOK, AcquireCut, termVars
    <2>3. TermBounded'
      BY <1>2, SMT DEF LeaseInv, LeaseTypeOK, TermBounded, AcquireCut, termVars
    <2>4. ClosedIsEmpty'
      BY <1>2, <1>a, SMT DEF Exact, LeaseInv, LeaseTypeOK,
          ClosedIsEmpty, AcquireCut, termVars
    <2>5. HolderCutByRelease'
      BY <1>2, <1>a, SMT DEF Exact, LeaseInv, LeaseTypeOK,
          HolderCutByRelease, AcquireCut, termVars
    <2> QED
      BY <2>1, <2>2, <2>3, <2>4, <2>5 DEF LeaseInv
  <1>3. ASSUME NEW l \in Leases, Release(l) PROVE LeaseInv'
    <2>1. LeaseTypeOK'
      BY <1>3, SMT DEF LeaseInv, LeaseTypeOK, Release, callVars
    <2>2. NothingLeaks'
      BY <1>3, <1>a, <1>b, SMT DEF Exact, LeaseInv, LeaseTypeOK, Release, callVars
    <2>3. TermBounded'
      BY <1>3, SMT DEF LeaseInv, LeaseTypeOK, TermBounded, Release, callVars
    <2>4. ClosedIsEmpty'
      BY <1>3, <1>a, SMT DEF Exact, LeaseInv, LeaseTypeOK, ClosedIsEmpty, Release, callVars
    <2>5. HolderCutByRelease'
      BY <1>3, <1>a, SMT DEF Exact, LeaseInv, LeaseTypeOK,
          HolderCutByRelease, Release, callVars
    <2> QED
      BY <2>1, <2>2, <2>3, <2>4, <2>5 DEF LeaseInv
  <1>4. ASSUME NEW l \in Leases, ReleaseCut(l) PROVE LeaseInv'
    <2>1. LeaseTypeOK'
      BY <1>4, SMT DEF LeaseInv, LeaseTypeOK, ReleaseCut, termVars
    <2>2. NothingLeaks'
      BY <1>4, <1>a, <1>b, SMT DEF Exact, LeaseInv, LeaseTypeOK, ReleaseCut, termVars
    <2>3. TermBounded'
      BY <1>4, SMT DEF LeaseInv, LeaseTypeOK, TermBounded, ReleaseCut, termVars
    <2>4. ClosedIsEmpty'
      BY <1>4, <1>a, SMT DEF Exact, LeaseInv, LeaseTypeOK,
          ClosedIsEmpty, ReleaseCut, termVars
    <2>5. HolderCutByRelease'
      BY <1>4, <1>a, SMT DEF Exact, LeaseInv, LeaseTypeOK,
          HolderCutByRelease, ReleaseCut, termVars
    <2> QED
      BY <2>1, <2>2, <2>3, <2>4, <2>5 DEF LeaseInv
  <1>5. ASSUME NEW l \in Leases, NEW ttl \in Ttls, Renew(l, ttl) PROVE LeaseInv'
    <2>0. /\ clock + Clamp(ttl) \in 0 .. MaxClock
          /\ clock + Clamp(ttl) <= clock + MaxTtl
      BY <1>5, TermFits DEF Renew, LeaseInv, LeaseTypeOK
    <2>1. LeaseTypeOK'
      BY <1>5, <2>0, SMT DEF LeaseInv, LeaseTypeOK, Renew, callVars
    <2>2. NothingLeaks'
      BY <1>5, <1>a, <1>b, SMT DEF Exact, LeaseInv, LeaseTypeOK, Renew, callVars
    <2>3. TermBounded'
      BY <1>5, <2>0, SMT DEF LeaseInv, LeaseTypeOK, TermBounded, Renew, callVars
    <2>4. ClosedIsEmpty'
      BY <1>5, <1>a, SMT DEF Exact, LeaseInv, LeaseTypeOK, ClosedIsEmpty, Renew, callVars
    <2>5. HolderCutByRelease'
      BY <1>5, <1>a, SMT DEF Exact, LeaseInv, LeaseTypeOK,
          HolderCutByRelease, Renew, callVars
    <2> QED
      BY <2>1, <2>2, <2>3, <2>4, <2>5 DEF LeaseInv
  <1>6. ASSUME NEW l \in Leases, EnterAdmission(l) PROVE LeaseInv'
    <2>1. LeaseTypeOK'
      BY <1>6, SMT DEF LeaseInv, LeaseTypeOK, EnterAdmission, termVars
    <2>2. NothingLeaks'
      BY <1>6, <1>a, <1>b, SMT DEF Exact, LeaseInv, LeaseTypeOK, EnterAdmission, termVars
    <2>3. TermBounded'
      BY <1>6, SMT DEF LeaseInv, LeaseTypeOK, TermBounded, EnterAdmission, termVars
    <2>4. ClosedIsEmpty'
      BY <1>6, <1>a, SMT DEF Exact, LeaseInv, LeaseTypeOK,
          ClosedIsEmpty, EnterAdmission, termVars
    <2>5. HolderCutByRelease'
      BY <1>6, <1>a, SMT DEF Exact, LeaseInv, LeaseTypeOK,
          HolderCutByRelease, EnterAdmission, termVars
    <2> QED
      BY <2>1, <2>2, <2>3, <2>4, <2>5 DEF LeaseInv
  <1>7. ASSUME NEW l \in Leases, NEW ttl \in Ttls, Grant(l, ttl) PROVE LeaseInv'
    <2>0. /\ clock + Clamp(ttl) \in 0 .. MaxClock
          /\ clock + Clamp(ttl) <= clock + MaxTtl
      BY <1>7, TermFits DEF Grant, LeaseInv, LeaseTypeOK
    <2>1. LeaseTypeOK'
      BY <1>7, <2>0, SMT DEF LeaseInv, LeaseTypeOK, Grant
    <2>2. NothingLeaks'
      BY <1>7, <1>a, <1>b, SMT DEF Exact, LeaseInv, LeaseTypeOK, Grant
    <2>3. TermBounded'
      BY <1>7, <2>0, SMT DEF LeaseInv, LeaseTypeOK, TermBounded, Grant
    <2>4. ClosedIsEmpty'
      BY <1>7, <1>a, SMT DEF Exact, LeaseInv, LeaseTypeOK, ClosedIsEmpty, Grant
    <2>5. HolderCutByRelease'
      BY <1>7, <1>a, SMT DEF Exact, LeaseInv, LeaseTypeOK, HolderCutByRelease, Grant
    <2> QED
      BY <2>1, <2>2, <2>3, <2>4, <2>5 DEF LeaseInv
  <1>8. ASSUME NEW l \in Leases, Deny(l) PROVE LeaseInv'
    <2>1. LeaseTypeOK'
      BY <1>8, SMT DEF LeaseInv, LeaseTypeOK, Deny, termVars
    <2>2. NothingLeaks'
      BY <1>8, <1>a, <1>b, SMT DEF Exact, LeaseInv, LeaseTypeOK, Deny, termVars
    <2>3. TermBounded'
      BY <1>8, SMT DEF LeaseInv, LeaseTypeOK, TermBounded, Deny, termVars
    <2>4. ClosedIsEmpty'
      BY <1>8, <1>a, SMT DEF Exact, LeaseInv, LeaseTypeOK, ClosedIsEmpty, Deny, termVars
    <2>5. HolderCutByRelease'
      BY <1>8, <1>a, SMT DEF Exact, LeaseInv, LeaseTypeOK,
          HolderCutByRelease, Deny, termVars
    <2> QED
      BY <2>1, <2>2, <2>3, <2>4, <2>5 DEF LeaseInv
  <1>9. ASSUME NEW l \in Leases, Cancelled(l) PROVE LeaseInv'
    <2>1. LeaseTypeOK'
      BY <1>9, SMT DEF LeaseInv, LeaseTypeOK, Cancelled, termVars
    <2>2. NothingLeaks'
      BY <1>9, <1>a, <1>b, SMT DEF Exact, LeaseInv, LeaseTypeOK, Cancelled, termVars
    <2>3. TermBounded'
      BY <1>9, SMT DEF LeaseInv, LeaseTypeOK, TermBounded, Cancelled, termVars
    <2>4. ClosedIsEmpty'
      BY <1>9, <1>a, SMT DEF Exact, LeaseInv, LeaseTypeOK,
          ClosedIsEmpty, Cancelled, termVars
    <2>5. HolderCutByRelease'
      BY <1>9, <1>a, SMT DEF Exact, LeaseInv, LeaseTypeOK,
          HolderCutByRelease, Cancelled, termVars
    <2> QED
      BY <2>1, <2>2, <2>3, <2>4, <2>5 DEF LeaseInv
  <1>10. ASSUME NEW l \in Leases, HolderWakes(l) PROVE LeaseInv'
    <2>1. LeaseTypeOK'
      BY <1>10, SMT DEF LeaseInv, LeaseTypeOK, HolderWakes, Over
    <2>2. NothingLeaks'
      BY <1>10, <1>a, <1>b, SMT DEF Exact, LeaseInv, LeaseTypeOK, HolderWakes, Over
    <2>3. TermBounded'
      BY <1>10, SMT DEF LeaseInv, LeaseTypeOK, TermBounded, HolderWakes, Over
    <2>4. ClosedIsEmpty'
      BY <1>10, <1>a, SMT DEF Exact, LeaseInv, LeaseTypeOK, ClosedIsEmpty, HolderWakes, Over
    <2>5. HolderCutByRelease'
      BY <1>10, <1>a, SMT DEF Exact, LeaseInv, LeaseTypeOK,
          HolderCutByRelease, HolderWakes, Over
    <2> QED
      BY <2>1, <2>2, <2>3, <2>4, <2>5 DEF LeaseInv
  <1>11. CASE Close
    <2>1. LeaseTypeOK'
      BY <1>11, SMT DEF LeaseInv, LeaseTypeOK, Close
    <2>2. NothingLeaks'
      BY <1>11, <1>a, <1>b, SMT DEF Exact, LeaseInv, LeaseTypeOK, Close
    <2>3. TermBounded'
      BY <1>11, SMT DEF LeaseInv, LeaseTypeOK, TermBounded, Close
    <2>4. ClosedIsEmpty'
      BY <1>11, <1>a, SMT DEF Exact, LeaseInv, LeaseTypeOK, ClosedIsEmpty, Close
    <2>5. HolderCutByRelease'
      BY <1>11, <1>a, SMT DEF Exact, LeaseInv, LeaseTypeOK, HolderCutByRelease, Close
    <2> QED
      BY <2>1, <2>2, <2>3, <2>4, <2>5 DEF LeaseInv
  <1>12. CASE CloseDone
    <2>1. LeaseTypeOK'
      BY <1>12, SMT DEF LeaseInv, LeaseTypeOK, CloseDone, callVars, termVars
    <2>2. NothingLeaks'
      BY <1>12, <1>a, <1>b, SMT DEF Exact, LeaseInv, LeaseTypeOK,
          CloseDone, callVars, termVars
    <2>3. TermBounded'
      BY <1>12, SMT DEF LeaseInv, LeaseTypeOK, TermBounded, CloseDone, callVars, termVars
    <2>4. ClosedIsEmpty'
      BY <1>12, <1>a, SMT DEF Exact, LeaseInv, LeaseTypeOK,
          ClosedIsEmpty, CloseDone, callVars, termVars
    <2>5. HolderCutByRelease'
      BY <1>12, <1>a, SMT DEF Exact, LeaseInv, LeaseTypeOK,
          HolderCutByRelease, CloseDone, callVars, termVars
    <2> QED
      BY <2>1, <2>2, <2>3, <2>4, <2>5 DEF LeaseInv
  <1>13. CASE Tick
    <2>1. LeaseTypeOK'
      BY <1>13, SMT DEF LeaseInv, LeaseTypeOK, Tick, callVars, termVars
    <2>2. NothingLeaks'
      BY <1>13, <1>a, <1>b, SMT DEF Exact, LeaseInv, LeaseTypeOK, Tick, callVars, termVars
    <2>3. TermBounded'
      BY <1>13, SMT DEF LeaseInv, LeaseTypeOK, TermBounded, Tick, callVars, termVars
    <2>4. ClosedIsEmpty'
      BY <1>13, <1>a, SMT DEF Exact, LeaseInv, LeaseTypeOK,
          ClosedIsEmpty, Tick, callVars, termVars
    <2>5. HolderCutByRelease'
      BY <1>13, <1>a, SMT DEF Exact, LeaseInv, LeaseTypeOK,
          HolderCutByRelease, Tick, callVars, termVars
    <2> QED
      BY <2>1, <2>2, <2>3, <2>4, <2>5 DEF LeaseInv
  <1>14. CASE UNCHANGED leaseVars
    <2>1. LeaseTypeOK'
      BY <1>14, SMT DEF LeaseInv, LeaseTypeOK, leaseVars, callVars, termVars
    <2>2. NothingLeaks'
      BY <1>14, <1>a, <1>b, SMT DEF Exact, LeaseInv, LeaseTypeOK, leaseVars,
          callVars, termVars
    <2>3. TermBounded'
      BY <1>14, SMT DEF LeaseInv, LeaseTypeOK, TermBounded, leaseVars, callVars, termVars
    <2>4. ClosedIsEmpty'
      BY <1>14, <1>a, SMT DEF Exact, LeaseInv, LeaseTypeOK,
          ClosedIsEmpty, leaseVars, callVars, termVars
    <2>5. HolderCutByRelease'
      BY <1>14, <1>a, SMT DEF Exact, LeaseInv, LeaseTypeOK,
          HolderCutByRelease, leaseVars, callVars, termVars
    <2> QED
      BY <2>1, <2>2, <2>3, <2>4, <2>5 DEF LeaseInv
  <1> QED
    BY <1>1, <1>2, <1>3, <1>4, <1>5, <1>6, <1>7, <1>8, <1>9, <1>10, <1>11,
       <1>12, <1>13, <1>14 DEF LeaseNext

(* What acquire, release, renew, close and the holder tasks keep together: *)
(* the entries of _held are the holding tasks and their reservations.      *)
THEOREM LeaseInvariant == LeaseSpec => []LeaseInv
  <1>1. LeaseInit => LeaseInv
    BY LeaseAssumption, SMT
    DEF LeaseInit, LeaseInv, LeaseTypeOK, NothingLeaks, TermBounded, ClosedIsEmpty,
        HolderCutByRelease
  <1>2. LeaseInv /\ [LeaseNext]_leaseVars => LeaseInv'
    BY LeaseStepOK
  <1> QED
    BY <1>1, <1>2, PTL DEF LeaseSpec

(* Leases, holder tasks and terms keep their types.                        *)
THEOREM LeaseTypes == LeaseSpec => []LeaseTypeOK
  BY LeaseInvariant, PTL DEF LeaseInv

(* Neither a caller that goes away, a cut release nor close leaves memory  *)
(* reserved for a lease nobody can release.                                *)
THEOREM MemoryFlowsBack == LeaseSpec => []NothingLeaks
  BY LeaseInvariant, PTL DEF LeaseInv

(* No chain of renewals carries a term further than max_ttl from now.      *)
THEOREM CapHolds == LeaseSpec => []TermBounded
  BY LeaseInvariant, PTL DEF LeaseInv

(* close() returns with nothing reserved and no holder task alive.         *)
THEOREM CloseReleasesAll == LeaseSpec => []ClosedIsEmpty
  BY LeaseInvariant, PTL DEF LeaseInv

(* A lease leaves _held only on its release or after its renewed term.     *)
THEOREM TermIsKept == LeaseSpec => LivesItsTerm
  <1> DEFINE Kept == \A l \in held \ held' : expires[l] <= clock \/ released[l]
  <1>1. LeaseInv /\ [LeaseNext]_leaseVars => [Kept]_leaseVars
    <2> SUFFICES ASSUME LeaseInv, LeaseNext, NEW l \in held \ held'
                 PROVE  expires[l] <= clock \/ released[l]
      BY Zenon
    <2> l \in Leases /\ held \subseteq Leases
      BY DEF LeaseInv, LeaseTypeOK
    <2>1. \/ \E k \in Leases : Cancelled(k)
          \/ \E k \in Leases : HolderWakes(k)
          \/ held \subseteq held'
      BY Zenon DEF LeaseNext, Acquire, AcquireCut, Release, ReleaseCut, Renew,
                   EnterAdmission, Grant, Deny, Close,
                   CloseDone, Tick
    <2>2. ASSUME NEW k \in Leases, Cancelled(k) PROVE expires[l] <= clock \/ released[l]
      <3>1. l = k
        BY <2>2 DEF Cancelled
      <3> QED
        BY <2>2, <3>1 DEF Cancelled, LeaseInv, NothingLeaks, HolderCutByRelease
    <2>3. ASSUME NEW k \in Leases, HolderWakes(k) PROVE expires[l] <= clock \/ released[l]
      BY <2>3 DEF HolderWakes, Over
    <2> QED
      BY <2>1, <2>2, <2>3
  <1> QED
    BY <1>1, LeaseInvariant, PTL DEF LeaseSpec, LivesItsTerm
=============================================================================
