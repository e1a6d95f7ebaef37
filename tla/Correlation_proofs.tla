-------------------------- MODULE Correlation_proofs --------------------------
(***************************************************************************)
(* What correlation promises, for every set of findings and every setting   *)
(* of its windows, thresholds and limits.                                   *)
(***************************************************************************)
EXTENDS Correlation, FiniteSetTheorems, SequenceTheorems, WellFoundedInduction, TLAPS
-------------------------------------------------------------------------------
(* Induction, with the set of the numbers that a fact holds of as its       *)
(* parameter, and the folds and sorted lists that need it.                  *)

LEMMA Least ==
  ASSUME NEW T \in SUBSET Nat, T # {}
  PROVE  \E n \in T : \A m \in T : n <= m
<1>1. IsWellFoundedOn(OpToRel(<, Nat), Nat)
  BY NatLessThanWellFounded
<1>2. PICK x \in T : \A y \in T : ~(<<y, x>> \in OpToRel(<, Nat))
  <2> HIDE DEF OpToRel
  <2> QED  BY <1>1, WFMin
<1>3. \A y \in T : ~(y < x)
  BY <1>2 DEF OpToRel
<1>4. x \in Nat
  OBVIOUS
<1> QED  BY <1>3, <1>4

LEMMA Induct ==
  ASSUME NEW T, 0 \in T, \A n \in Nat : n \in T => n + 1 \in T
  PROVE  Nat \subseteq T
<1> SUFFICES ASSUME Nat \ T # {} PROVE FALSE
  OBVIOUS
<1>1. PICK n \in Nat \ T : \A m \in Nat \ T : n <= m
  BY Least
<1>2. n # 0 /\ n - 1 \in Nat
  BY <1>1
<1>3. n - 1 \in T
  BY <1>1, <1>2
<1> QED  BY <1>2, <1>3

LEMMA Greatest ==
  ASSUME NEW n \in Nat, NEW T \in SUBSET (0..n), T # {}
  PROVE  \E x \in T : \A y \in T : y <= x
<1> DEFINE U == {n - x : x \in T}
<1>1. U \in SUBSET Nat /\ U # {}
  <2>1. \A x \in T : n - x \in Nat
    OBVIOUS
  <2>2. PICK x \in T : TRUE
    OBVIOUS
  <2>3. n - x \in U
    OBVIOUS
  <2> QED  BY <2>1, <2>3
<1>2. PICK u \in U : \A m \in U : u <= m
  BY <1>1, Least
<1>3. PICK x \in T : u = n - x
  BY <1>2
<1>4. \A y \in T : n - y \in U
  OBVIOUS
<1> QED  BY <1>2, <1>3, <1>4, SMTT(30)

\* What a fold's equation takes: a value for each subset of S.
Small(S, n) == {t \in SUBSET S : Cardinality(t) <= n}
FoldsOf(S, D, A, base, pick, step) ==
  {g \in [D -> A] : \A t \in D :
      g[t] = IF t = {} THEN base ELSE step[t][g[t \ {pick[t]}]]}

\* A fold over a finite set exists.
LEMMA FoldExists ==
  ASSUME NEW S, IsFiniteSet(S), NEW A, NEW base \in A,
         NEW pick, \A t \in SUBSET S : t # {} => pick[t] \in t,
         NEW step, \A t \in SUBSET S, a \in A : t # {} => step[t][a] \in A
  PROVE  FoldsOf(S, SUBSET S, A, base, pick, step) # {}
<1> DEFINE T == {n \in Nat : FoldsOf(S, Small(S, n), A, base, pick, step) # {}}
<1>0. \A t \in SUBSET S : IsFiniteSet(t) /\ Cardinality(t) \in Nat /\ Cardinality(t) <= Cardinality(S)
  BY FS_Subset, FS_CardinalityType
<1>1. 0 \in T
  <2>1. \A t \in Small(S, 0) : t = {}
    BY <1>0, FS_EmptySet DEF Small
  <2>2. [t \in Small(S, 0) |-> base] \in FoldsOf(S, Small(S, 0), A, base, pick, step)
    BY <2>1 DEF FoldsOf
  <2> QED  BY <2>2
<1>2. ASSUME NEW n \in Nat, n \in T PROVE n + 1 \in T
  <2>1. PICK g \in FoldsOf(S, Small(S, n), A, base, pick, step) : TRUE
    BY <1>2
  <2> DEFINE h == [t \in Small(S, n + 1) |->
                      IF Cardinality(t) <= n THEN g[t] ELSE step[t][g[t \ {pick[t]}]]]
  <2>2. ASSUME NEW t \in Small(S, n + 1), t # {}
        PROVE  t \ {pick[t]} \in Small(S, n) /\ Cardinality(t \ {pick[t]}) <= n
    <3>1. t \in SUBSET S /\ pick[t] \in t /\ Cardinality(t) <= n + 1
      BY <2>2 DEF Small
    <3>0. Cardinality(t) # 0 /\ Cardinality(t) \in Nat
      BY <3>1, <1>0, FS_EmptySet
    <3>2. Cardinality(t \ {pick[t]}) = Cardinality(t) - 1
      BY <3>1, <1>0, FS_RemoveElement
    <3>3. Cardinality(t \ {pick[t]}) <= n
      BY <3>0, <3>1, <3>2
    <3> QED  BY <3>1, <3>3 DEF Small
  <2>3. ASSUME NEW t \in Small(S, n + 1)
        PROVE  h[t] \in A /\ h[t] = IF t = {} THEN base ELSE step[t][h[t \ {pick[t]}]]
    <3>1. CASE Cardinality(t) <= n
      <4>1. t \in Small(S, n) /\ h[t] = g[t]
        BY <3>1 DEF Small
      <4>2. CASE t = {}
        BY <4>1, <4>2, <2>1 DEF FoldsOf
      <4>3. CASE t # {}
        <5>1. t \ {pick[t]} \in Small(S, n) /\ t \ {pick[t]} \in Small(S, n + 1)
          BY <4>3, <2>2, <1>0 DEF Small
        <5>2. h[t \ {pick[t]}] = g[t \ {pick[t]}]
          BY <4>3, <5>1, <2>2
        <5> QED  BY <4>1, <4>3, <5>2, <2>1 DEF FoldsOf
      <4> QED  BY <4>2, <4>3
    <3>2. CASE ~(Cardinality(t) <= n)
      <4>0. t = {} => Cardinality(t) = 0
        BY FS_EmptySet, Zenon
      <4>1. t # {}
        BY <3>2, <4>0
      <4>2. t \ {pick[t]} \in Small(S, n) /\ t \ {pick[t]} \in Small(S, n + 1)
        BY <4>1, <2>2, <1>0 DEF Small
      <4>3. h[t \ {pick[t]}] = g[t \ {pick[t]}] /\ g[t \ {pick[t]}] \in A
        BY <4>1, <4>2, <2>2, <2>1 DEF FoldsOf
      <4>4. t \in SUBSET S
        BY DEF Small
      <4> QED  BY <3>2, <4>1, <4>3, <4>4
    <3> QED  BY <3>1, <3>2
  <2>4. h \in FoldsOf(S, Small(S, n + 1), A, base, pick, step)
    <3> HIDE DEF h
    <3>1. DOMAIN h = Small(S, n + 1) /\ h = [t \in Small(S, n + 1) |-> h[t]]
      BY DEF h
    <3> QED  BY <2>3, <3>1 DEF FoldsOf
  <2>5. n + 1 \in Nat
    OBVIOUS
  <2> HIDE DEF h
  <2> QED  BY <2>4, <2>5
<1>3. Cardinality(S) \in T
  <2> HIDE DEF T
  <2>1. Nat \subseteq T
    BY <1>1, <1>2, Induct
  <2> QED  BY <2>1, <1>0
<1>4. Small(S, Cardinality(S)) = SUBSET S
  BY <1>0 DEF Small
<1> QED  BY <1>3, <1>4

-------------------------------------------------------------------------------
\* A finite set listed in a strict total order, by counting what comes before.
Lower(x, S, R) == {y \in S : <<y, x>> \in R}
Ranks(s, S, R) ==
  /\ s = [k \in 1..Cardinality(S) |-> s[k]]
  /\ \A k \in 1..Cardinality(S) : (\E x \in S : Cardinality(Lower(x, S, R)) = k - 1)
        => s[k] \in S /\ Cardinality(Lower(s[k], S, R)) = k - 1
Orders(S, R) == /\ \A x \in S : <<x, x>> \notin R
                /\ \A x, y, z \in S : <<x, y>> \in R /\ <<y, z>> \in R => <<x, z>> \in R
                /\ \A x, y \in S : x = y \/ <<x, y>> \in R \/ <<y, x>> \in R

\* s lists S, each element once.
Lists(s, S) == /\ s \in Seq(S) /\ Len(s) = Cardinality(S) /\ Cardinality(S) \in Nat
               /\ \A j, k \in 1..Len(s) : s[j] = s[k] => j = k
               /\ \A x \in S : \E k \in 1..Len(s) : s[k] = x

LEMMA Rank ==
  ASSUME NEW S, IsFiniteSet(S), NEW R, Orders(S, R), NEW x \in S
  PROVE  /\ Cardinality(Lower(x, S, R)) \in 0..(Cardinality(S) - 1) /\ Cardinality(S) \in Nat
         /\ \A y \in S : <<y, x>> \in R => Cardinality(Lower(y, S, R)) < Cardinality(Lower(x, S, R))
<1>1. Lower(x, S, R) \in SUBSET S /\ x \notin Lower(x, S, R) /\ x \in S
  BY DEF Lower, Orders
<1>2. IsFiniteSet(Lower(x, S, R)) /\ Cardinality(Lower(x, S, R)) \in Nat /\ Cardinality(S) \in Nat
  BY <1>1, FS_Subset, FS_CardinalityType
<1>3. Cardinality(Lower(x, S, R) \cup {x}) = Cardinality(Lower(x, S, R)) + 1
  BY <1>1, <1>2, FS_AddElement
<1>4. Lower(x, S, R) \cup {x} \in SUBSET S
  BY <1>1
<1>5. Cardinality(Lower(x, S, R) \cup {x}) <= Cardinality(S)
  BY <1>4, FS_Subset
<1>6. ASSUME NEW y \in S, <<y, x>> \in R
      PROVE  Cardinality(Lower(y, S, R)) < Cardinality(Lower(x, S, R))
  <2>1. Lower(y, S, R) \cup {y} \in SUBSET Lower(x, S, R) /\ y \notin Lower(y, S, R)
    BY <1>6 DEF Lower, Orders
  <2>2. Lower(y, S, R) \in SUBSET S
    BY DEF Lower
  <2>3. IsFiniteSet(Lower(y, S, R)) /\ Cardinality(Lower(y, S, R)) \in Nat
    BY <2>2, FS_Subset, FS_CardinalityType
  <2>4. Cardinality(Lower(y, S, R) \cup {y}) = Cardinality(Lower(y, S, R)) + 1
    BY <2>1, <2>3, FS_AddElement
  <2>5. Cardinality(Lower(y, S, R) \cup {y}) <= Cardinality(Lower(x, S, R))
    BY <2>1, <1>2, FS_Subset
  <2> QED  BY <2>3, <2>4, <2>5, <1>2
<1> QED  BY <1>2, <1>3, <1>5, <1>6

LEMMA Listing ==
  ASSUME NEW S, IsFiniteSet(S), NEW R, Orders(S, R), NEW s, Ranks(s, S, R)
  PROVE  Lists(s, S) /\ \A j, k \in 1..Len(s) : j < k => <<s[j], s[k]>> \in R
<1> DEFINE n == Cardinality(S)
           rank == [x \in S |-> Cardinality(Lower(x, S, R)) + 1]
<1>1. n \in Nat
  BY FS_CardinalityType
<1>2. \A x \in S : Cardinality(Lower(x, S, R)) \in 0..(n - 1)
  BY Rank
<1>3. rank \in [S -> 1..n]
  BY <1>1, <1>2
<1>4. \A x, y \in S : Cardinality(Lower(x, S, R)) = Cardinality(Lower(y, S, R)) => x = y
  <2> SUFFICES ASSUME NEW x \in S, NEW y \in S, x # y,
                      Cardinality(Lower(x, S, R)) = Cardinality(Lower(y, S, R))
               PROVE  FALSE
    OBVIOUS
  <2>1. <<x, y>> \in R \/ <<y, x>> \in R
    BY DEF Orders
  <2> QED  BY <2>1, Rank
<1>5. rank \in Injection(S, 1..n)
  <2>1. \A x, y \in S : rank[x] = rank[y] => x = y
    BY <1>2, <1>4
  <2> HIDE DEF rank
  <2> QED  BY <1>3, <2>1 DEF Injection, IsInjective
<1>6. IsFiniteSet(1..n) /\ Cardinality(1..n) = n
  BY <1>1, FS_Interval
<1>7. rank \in Surjection(S, 1..n)
  <2> HIDE DEF rank
  <2> QED  BY <1>5, <1>6, FS_Injection
<1>8. \A k \in 1..n : \E x \in S : Cardinality(Lower(x, S, R)) = k - 1
  <2> SUFFICES ASSUME NEW k \in 1..n PROVE \E x \in S : Cardinality(Lower(x, S, R)) = k - 1
    OBVIOUS
  <2>1. PICK x \in S : rank[x] = k
    <3> HIDE DEF rank
    <3> QED  BY <1>7 DEF Surjection
  <2> QED  BY <2>1, <1>2
<1>9. \A k \in 1..n : s[k] \in S /\ Cardinality(Lower(s[k], S, R)) = k - 1
  <2> SUFFICES ASSUME NEW k \in 1..n PROVE s[k] \in S /\ Cardinality(Lower(s[k], S, R)) = k - 1
    OBVIOUS
  <2> QED  BY <1>8 DEF Ranks
<1>10. s \in [1..n -> S]
  <2>1. DOMAIN s = 1..n /\ s = [k \in 1..n |-> s[k]]
    BY DEF Ranks
  <2> QED  BY <2>1, <1>9
<1>11. s \in Seq(S) /\ Len(s) = n
  BY <1>10, <1>1
<1>12. \A x \in S : \E k \in 1..n : s[k] = x
  <2> SUFFICES ASSUME NEW x \in S PROVE \E k \in 1..n : s[k] = x
    OBVIOUS
  <2> DEFINE k == Cardinality(Lower(x, S, R)) + 1
  <2>1. k \in 1..n /\ k - 1 = Cardinality(Lower(x, S, R))
    BY <1>1, <1>2
  <2>2. Cardinality(Lower(s[k], S, R)) = k - 1 /\ s[k] \in S
    BY <2>1, <1>9
  <2>3. s[k] = x
    BY <2>1, <2>2, <1>4
  <2> QED  BY <2>1, <2>3
<1>13. \A j, k \in 1..n : j < k => <<s[j], s[k]>> \in R
  <2> SUFFICES ASSUME NEW j \in 1..n, NEW k \in 1..n, j < k PROVE <<s[j], s[k]>> \in R
    OBVIOUS
  <2>1. /\ s[j] \in S /\ Cardinality(Lower(s[j], S, R)) = j - 1
        /\ s[k] \in S /\ Cardinality(Lower(s[k], S, R)) = k - 1
    BY <1>9
  <2>2. CASE s[j] = s[k]
    BY <2>1, <2>2
  <2>3. CASE <<s[k], s[j]>> \in R
    <3>1. Cardinality(Lower(s[k], S, R)) < Cardinality(Lower(s[j], S, R))
      BY <2>1, <2>3, Rank
    <3> QED  BY <2>1, <3>1
  <2>4. s[j] = s[k] \/ <<s[k], s[j]>> \in R \/ <<s[j], s[k]>> \in R
    BY <2>1 DEF Orders
  <2> QED  BY <2>2, <2>3, <2>4
<1>14. \A j, k \in 1..n : s[j] = s[k] => j = k
  BY <1>9
<1> QED  BY <1>1, <1>11, <1>12, <1>13, <1>14 DEF Lists
-------------------------------------------------------------------------------
(* Findings and their instances.                                           *)

\* A rule finds something in an event once, at a time, with a risk.
FindingsAssumption ==
  /\ IsFiniteSet(Findings)
  /\ \A f \in Findings : f.time \in Int /\ f.risk \in Int
  /\ \A f, g \in Findings : f.rule = g.rule /\ f.event = g.event => f = g

WindowsAssumption == Window \in Nat /\ RepeatWindow \in Nat /\ Threshold \in Nat

Instances == [f : Findings, d : Nat, risk : Int]

\* A finite set of instances, no two of one finding: what a batch holds.
OneEach(S) == S \subseteq Instances /\ IsFiniteSet(S) /\ \A i, j \in S : i.f = j.f => i = j

LEMMA Places ==
  ASSUME FindingsAssumption
  PROVE  /\ \A f \in Findings : Place(f) \in Nat
         /\ \A f, g \in Findings : Place(f) = Place(g) => f = g
<1> DEFINE n == Cardinality(Findings)
<1>1. IsFiniteSet(Findings) /\ n \in Nat /\ ExistsBijection(1..n, Findings)
  BY FS_CardinalityType DEF FindingsAssumption
<1>2. \E r \in [1..n -> Findings] : IsInjective(r)
  BY <1>1 DEF ExistsBijection, Bijection, Injection
<1>3. Raised \in [1..n -> Findings] /\ IsInjective(Raised)
  BY <1>2 DEF Raised, SetToSeq
<1>4. Raised \in Injection(1..n, Findings)
  BY <1>3 DEF Injection
<1>5. IsFiniteSet(1..n) /\ Cardinality(1..n) = n
  BY <1>1, FS_Interval
<1>6. Raised \in Surjection(1..n, Findings)
  BY <1>1, <1>4, <1>5, FS_Injection
<1>7. \A f \in Findings : \E k \in DOMAIN Raised : Raised[k] = f
  BY <1>3, <1>6 DEF Surjection
<1>8. \A f \in Findings : Place(f) \in DOMAIN Raised /\ Raised[Place(f)] = f
  BY <1>7 DEF Place
<1> QED  BY <1>1, <1>3, <1>8

Timely(s) == \A j, k \in 1..Len(s) : j <= k => s[j].f.time <= s[k].f.time

LEMMA ByTimeLists ==
  ASSUME FindingsAssumption, NEW S, OneEach(S)
  PROVE  Lists(ByTime(S), S) /\ Timely(ByTime(S))
<1> DEFINE R == {p \in S \X S : Before(p[1], p[2])}
<1>1. \A i \in S : i \in Instances /\ i.f \in Findings /\ i.f.time \in Int /\ Place(i.f) \in Nat
  BY Places DEF OneEach, Instances, FindingsAssumption
<1>2. \A i, j \in S : Place(i.f) = Place(j.f) => i = j
  BY <1>1, Places DEF OneEach
<1>3. \A i, j \in S : <<i, j>> \in R <=> Before(i, j)
  OBVIOUS
<1>4. Orders(S, R)
  <2> HIDE DEF R
  <2>1. \A x \in S : <<x, x>> \notin R
    BY <1>1, <1>3 DEF Before
  <2>2. \A x, y, z \in S : <<x, y>> \in R /\ <<y, z>> \in R => <<x, z>> \in R
    BY <1>1, <1>3 DEF Before
  <2>3. ASSUME NEW x \in S, NEW y \in S PROVE x = y \/ <<x, y>> \in R \/ <<y, x>> \in R
    <3>1. /\ x.f.time < y.f.time \/ x.f.time = y.f.time \/ y.f.time < x.f.time
          /\ Place(x.f) < Place(y.f) \/ Place(x.f) = Place(y.f) \/ Place(y.f) < Place(x.f)
      BY <1>1
    <3>2. x = y \/ Before(x, y) \/ Before(y, x)
      BY <3>1, <1>2 DEF Before
    <3> QED  BY <3>2, <1>3
  <2> QED  BY <2>1, <2>2, <2>3 DEF Orders
<1>5. \A i \in S : Lower(i, S, R) = {j \in S : Before(j, i)}
  BY DEF Lower
<1>6. Ranks(ByTime(S), S, R)
  <2> HIDE DEF R
  <2> DEFINE n == Cardinality(S)
  <2>1. ByTime(S) = [k \in 1..n |-> ByTime(S)[k]]
    <3> DEFINE at(k) == CHOOSE i \in S : Cardinality({j \in S : Before(j, i)}) = k - 1
    <3>1. ByTime(S) = [k \in 1..n |-> at(k)]
      BY Zenon DEF ByTime
    <3> HIDE DEF at, n
    <3> QED  BY <3>1
  <2>2. ASSUME NEW k \in 1..n, \E x \in S : Cardinality(Lower(x, S, R)) = k - 1
        PROVE  ByTime(S)[k] \in S /\ Cardinality(Lower(ByTime(S)[k], S, R)) = k - 1
    <3>1. \E i \in S : Cardinality({j \in S : Before(j, i)}) = k - 1
      BY <2>2, <1>5
    <3>2. ByTime(S)[k] = CHOOSE i \in S : Cardinality({j \in S : Before(j, i)}) = k - 1
      BY DEF ByTime
    <3>3. ByTime(S)[k] \in S /\ Cardinality({j \in S : Before(j, ByTime(S)[k])}) = k - 1
      BY <3>1, <3>2
    <3> QED  BY <3>3, <1>5
  <2> QED  BY <2>1, <2>2 DEF Ranks
<1>7. Lists(ByTime(S), S) /\ \A j, k \in 1..Len(ByTime(S)) : j < k => <<ByTime(S)[j], ByTime(S)[k]>> \in R
  <2> HIDE DEF R
  <2>1. IsFiniteSet(S)
    BY DEF OneEach
  <2> QED  BY <2>1, <1>4, <1>6, Listing
<1>8. ASSUME NEW j \in 1..Len(ByTime(S)), NEW k \in 1..Len(ByTime(S)), j <= k
      PROVE  ByTime(S)[j].f.time <= ByTime(S)[k].f.time
  <2> DEFINE s == ByTime(S)
  <2>1. s[j] \in S /\ s[k] \in S /\ Len(s) \in Nat
    BY <1>7 DEF Lists
  <2>2. j = k \/ j < k
    BY <1>8, <2>1
  <2>3. j < k => Before(s[j], s[k])
    BY <1>7, <2>1
  <2> HIDE DEF R, s
  <2>4. s[j].f.time <= s[k].f.time
    BY <2>1, <2>2, <2>3, <1>1 DEF Before
  <2> QED  BY <2>4 DEF s
<1> QED  BY <1>7, <1>8 DEF Timely

LEMMA ByTimeIn ==
  ASSUME FindingsAssumption, NEW S, OneEach(S), NEW k \in 1..Len(ByTime(S))
  PROVE  /\ ByTime(S)[k] \in S /\ ByTime(S)[k] \in Instances /\ ByTime(S)[k].f \in Findings
         /\ ByTime(S)[k].f.time \in Int
<1>1. ByTime(S)[k] \in S
  BY ByTimeLists DEF Lists
<1> QED  BY <1>1 DEF OneEach, Instances, FindingsAssumption

-------------------------------------------------------------------------------
(* The repeat counter: a bucket holds the time of an instance of its own    *)
(* for each of its entries.                                                 *)

Keys    == {<<f.rule, f.first>> : f \in Findings}
KeyOf(i) == <<i.f.rule, i.f.first>>
Buckets == [Keys -> Seq(Int)]
Counts  == [seen : Buckets, kept : Seq(Instances), dropped : SUBSET Instances]

Backs(w, q, C, key) == /\ w \in [1..Len(q) -> C]
                       /\ \A j, k \in 1..Len(q) : w[j] = w[k] => j = k
                       /\ \A k \in 1..Len(q) : KeyOf(w[k]) = key /\ w[k].f.time = q[k]
Backed(q, C, key) == \E w : Backs(w, q, C, key)
AllBacked(sn, C)  == \A key \in Keys : Backed(sn[key], C, key)
Rising(q)    == \A j, k \in 1..Len(q) : j <= k => q[j] <= q[k]
AllRising(sn) == \A key \in Keys : Rising(sn[key])

LEMMA EndOf ==
  ASSUME NEW q \in Seq(Int), NEW a \in 1..Len(q), NEW p, p = SubSeq(q, a, Len(q))
  PROVE  /\ p \in Seq(Int) /\ Len(p) = Len(q) - (a - 1) /\ a - 1 \in 0..Len(q)
         /\ \A k \in 1..Len(p) : k + (a - 1) \in 1..Len(q) /\ a <= k + (a - 1) /\ p[k] = q[k + (a - 1)]
<1> DEFINE n == Len(q)
<1>1. n \in Nat /\ a \in Int /\ n \in Int /\ a <= n /\ 1 <= a
  BY LenProperties
<1>2. \A k \in a..n : q[k] \in Int
  OBVIOUS
<1>3. /\ p \in Seq(Int) /\ Len(p) = (IF a <= n THEN n - a + 1 ELSE 0)
      /\ \A k \in 1..(n - a + 1) : p[k] = q[a + k - 1]
  <2> HIDE DEF n
  <2>1. p = SubSeq(q, a, n)
    BY DEF n
  <2> QED  BY <1>1, <1>2, <2>1, SubSeqProperties
<1> HIDE DEF n
<1>4. Len(p) = n - (a - 1) /\ a - 1 \in 0..n
  BY <1>1, <1>3
<1>5. ASSUME NEW k \in 1..Len(p)
      PROVE  k + (a - 1) \in 1..n /\ a <= k + (a - 1) /\ p[k] = q[k + (a - 1)]
  <2>1. k \in Int /\ 1 <= k /\ k <= n - (a - 1) /\ k \in 1..(n - a + 1)
    BY <1>1, <1>4
  <2>2. p[k] = q[a + k - 1]
    BY <1>3, <2>1
  <2>3. a + k - 1 = k + (a - 1)
    BY <1>1, <2>1
  <2> QED  BY <1>1, <2>1, <2>2, <2>3
<1> QED  BY <1>3, <1>4, <1>5 DEF n

\* p is q without its first m entries.
EndAfter(p, q, m) == Len(p) = Len(q) - m /\ \A k \in 1..Len(p) : p[k] = q[k + m]

\* What is left of a bucket is its end; when it rises, what is left is recent.
LEMMA PopOldIs ==
  ASSUME NEW q \in Seq(Int), NEW cutoff \in Int, NEW p, p = PopOld(q, cutoff)
  PROVE  /\ p \in Seq(Int)
         /\ \E m \in 0..Len(q) : EndAfter(p, q, m)
         /\ Rising(q) => \A k \in 1..Len(p) : p[k] >= cutoff
<1> DEFINE fresh == {k \in DOMAIN q : q[k] >= cutoff}
<1>0. Len(q) \in Nat /\ DOMAIN q = 1..Len(q) /\ \A k \in 1..Len(q) : q[k] \in Int
  OBVIOUS
<1>1. CASE fresh = {}
  <2>1. p = <<>>
    BY <1>1 DEF PopOld
  <2>2. Len(p) = Len(q) - Len(q) /\ Len(q) \in 0..Len(q) /\ \A k \in 1..Len(p) : p[k] = q[k + Len(q)]
    BY <1>0, <2>1
  <2> QED  BY <2>1, <2>2 DEF EndAfter
<1>2. CASE fresh # {}
  <2>1. fresh \in SUBSET Nat
    BY <1>0
  <2>2. PICK b \in fresh : \A k \in fresh : b <= k
    BY <1>2, <2>1, Least
  <2>3. Min(fresh) \in fresh /\ \A k \in fresh : Min(fresh) <= k
    <3> HIDE DEF fresh
    <3> QED  BY <2>2 DEF Min
  <2>4. PICK a \in 1..Len(q) : a = Min(fresh) /\ q[a] >= cutoff
    BY <1>0, <2>3
  <2>5. p = SubSeq(q, a, Len(q))
    BY <1>2, <2>4 DEF PopOld
  <2>6. p \in Seq(Int)
    BY <2>4, <2>5, EndOf
  <2>7. Len(p) = Len(q) - (a - 1) /\ a - 1 \in 0..Len(q) /\ \A k \in 1..Len(p) : p[k] = q[k + (a - 1)]
    BY <2>4, <2>5, EndOf
  <2>8. ASSUME Rising(q), NEW k \in 1..Len(p) PROVE p[k] >= cutoff
    <3>1. k + (a - 1) \in 1..Len(q) /\ a <= k + (a - 1) /\ p[k] = q[k + (a - 1)]
      BY <2>4, <2>5, EndOf
    <3>2. q[a] <= q[k + (a - 1)] /\ q[k + (a - 1)] \in Int /\ q[a] \in Int
      BY <1>0, <2>4, <2>8, <3>1 DEF Rising
    <3> HIDE DEF fresh
    <3> QED  BY <2>4, <3>1, <3>2, SMTT(30)
  <2> QED  BY <2>6, <2>7, <2>8 DEF EndAfter
<1> QED  BY <1>1, <1>2

\* The bucket that a finding is weighed against, once its own time is in it.
BucketOf(acc, i) == Append(PopOld(acc.seen[KeyOf(i)], i.f.time - RepeatWindow), i.f.time)

LEMMA AutoRepeatIs ==
  ASSUME FindingsAssumption, WindowsAssumption, NEW acc \in Counts, NEW i \in Instances
  PROVE  /\ AutoRepeat(acc, i) \in Counts
         /\ AutoRepeat(acc, i).seen = [acc.seen EXCEPT ![KeyOf(i)] = BucketOf(acc, i)]
         /\ BucketOf(acc, i) \in Seq(Int)
         /\ \/ /\ Len(BucketOf(acc, i)) <= Threshold
               /\ AutoRepeat(acc, i).kept = Append(acc.kept, i)
               /\ AutoRepeat(acc, i).dropped = acc.dropped
            \/ /\ Len(BucketOf(acc, i)) > Threshold
               /\ AutoRepeat(acc, i).kept = acc.kept
               /\ AutoRepeat(acc, i).dropped = acc.dropped \cup {i}
<1>1. i.f \in Findings /\ i.f.time \in Int /\ KeyOf(i) \in Keys /\ RepeatWindow \in Nat /\ Threshold \in Nat
  BY DEF Instances, FindingsAssumption, Keys, KeyOf, WindowsAssumption
<1>2. acc.seen \in Buckets /\ acc.seen[KeyOf(i)] \in Seq(Int)
  BY <1>1 DEF Counts, Buckets
<1>3. i.f.time - RepeatWindow \in Int
  BY <1>1
<1>4. PopOld(acc.seen[KeyOf(i)], i.f.time - RepeatWindow) \in Seq(Int)
  BY <1>2, <1>3, PopOldIs
<1>5. BucketOf(acc, i) \in Seq(Int) /\ Len(BucketOf(acc, i)) \in Nat
  BY <1>1, <1>4, AppendProperties, LenProperties DEF BucketOf
<1> DEFINE next == [acc EXCEPT !.seen[KeyOf(i)] = BucketOf(acc, i)]
<1>6. /\ next.seen = [acc.seen EXCEPT ![KeyOf(i)] = BucketOf(acc, i)]
      /\ next.kept = acc.kept /\ next.dropped = acc.dropped /\ next \in Counts
  BY <1>1, <1>2, <1>5 DEF Counts, Buckets
<1>7. AutoRepeat(acc, i) = IF Len(BucketOf(acc, i)) <= Threshold
                           THEN [next EXCEPT !.kept = Append(@, i)]
                           ELSE [next EXCEPT !.dropped = @ \cup {i}]
  BY DEF AutoRepeat, BucketOf, KeyOf
<1> HIDE DEF next
<1>8. next.kept \in Seq(Instances) /\ Append(next.kept, i) \in Seq(Instances)
      /\ next.dropped \cup {i} \in SUBSET Instances
  BY <1>6, AppendProperties DEF Counts
<1>9. CASE Len(BucketOf(acc, i)) <= Threshold
  <2>1. AutoRepeat(acc, i) = [next EXCEPT !.kept = Append(next.kept, i)]
    BY <1>7, <1>9
  <2> QED  BY <1>5, <1>6, <1>8, <1>9, <2>1 DEF Counts
<1>10. CASE Len(BucketOf(acc, i)) > Threshold
  <2>1. AutoRepeat(acc, i) = [next EXCEPT !.dropped = next.dropped \cup {i}]
    BY <1>1, <1>5, <1>7, <1>10
  <2> QED  BY <1>5, <1>6, <1>8, <1>10, <2>1 DEF Counts
<1> QED  BY <1>1, <1>5, <1>9, <1>10

\* One more instance: its bucket is backed by what backed it, and by itself.
LEMMA BucketBacked ==
  ASSUME FindingsAssumption, WindowsAssumption, NEW acc \in Counts, NEW i \in Instances,
         NEW C \in SUBSET Instances, i \notin C, Backed(acc.seen[KeyOf(i)], C, KeyOf(i))
  PROVE  /\ Backed(BucketOf(acc, i), C \cup {i}, KeyOf(i))
         /\ Rising(acc.seen[KeyOf(i)]) /\ (\A j \in C : j.f.time <= i.f.time) =>
               /\ Rising(BucketOf(acc, i))
               /\ \A k \in 1..Len(BucketOf(acc, i)) :
                     BucketOf(acc, i)[k] \in (i.f.time - RepeatWindow)..i.f.time
<1> DEFINE key == KeyOf(i)
           q == acc.seen[key]
           p == PopOld(q, i.f.time - RepeatWindow)
           b == BucketOf(acc, i)
<1>1. /\ i.f \in Findings /\ i.f.time \in Int /\ key \in Keys /\ RepeatWindow \in Nat
      /\ i.f.time - RepeatWindow \in Int
  BY DEF Instances, FindingsAssumption, Keys, KeyOf, WindowsAssumption
<1>2. q \in Seq(Int)
  BY <1>1 DEF Counts, Buckets
<1>3. /\ p \in Seq(Int) /\ \E m \in 0..Len(q) : EndAfter(p, q, m)
      /\ Rising(q) => \A k \in 1..Len(p) : p[k] >= i.f.time - RepeatWindow
  BY <1>1, <1>2, PopOldIs
<1>4. PICK m \in 0..Len(q) : Len(p) = Len(q) - m /\ \A k \in 1..Len(p) : p[k] = q[k + m]
  BY <1>3 DEF EndAfter
<1>5. PICK w : Backs(w, q, C, key)
  BY DEF Backed
<1>6. b = Append(p, i.f.time)
  BY DEF BucketOf
<1> HIDE DEF key, q, p, b
<1>7. /\ Len(p) \in Nat /\ Len(q) \in Nat
      /\ b \in Seq(Int) /\ Len(b) = Len(p) + 1 /\ b[Len(p) + 1] = i.f.time
      /\ \A k \in 1..Len(p) : b[k] = p[k]
  BY <1>1, <1>2, <1>3, <1>6, AppendProperties, LenProperties
<1>8. \A k \in 1..Len(b) : k = Len(p) + 1 \/ (k \in 1..Len(p) /\ k + m \in 1..Len(q))
  BY <1>4, <1>7, SMTT(30)
<1> DEFINE W == [k \in 1..Len(b) |-> IF k = Len(p) + 1 THEN i ELSE w[k + m]]
<1>9. /\ W[Len(p) + 1] = i /\ Len(p) + 1 \in 1..Len(b)
      /\ \A k \in 1..Len(p) : k \in 1..Len(b) /\ W[k] = w[k + m] /\ W[k] \in C
  <2>1. Len(p) + 1 \in 1..Len(b)
    BY <1>7
  <2>2. ASSUME NEW k \in 1..Len(p) PROVE k \in 1..Len(b) /\ W[k] = w[k + m] /\ W[k] \in C
    <3>1. k \in 1..Len(b) /\ k # Len(p) + 1 /\ k + m \in 1..Len(q)
      BY <1>4, <1>7
    <3>2. w[k + m] \in C
      BY <1>5, <3>1 DEF Backs
    <3> QED  BY <3>1, <3>2
  <2> QED  BY <2>1, <2>2
<1>10. DOMAIN W = 1..Len(b) /\ W = [k \in 1..Len(b) |-> W[k]]
  OBVIOUS
<1> HIDE DEF W
<1>11. W \in [1..Len(b) -> C \cup {i}]
  BY <1>8, <1>9, <1>10
<1>12. ASSUME NEW j \in 1..Len(b), NEW k \in 1..Len(b), W[j] = W[k] PROVE j = k
  <2>1. CASE j \in 1..Len(p) /\ k \in 1..Len(p)
    <3>1. w[j + m] = w[k + m] /\ j + m \in 1..Len(q) /\ k + m \in 1..Len(q)
      BY <1>4, <1>7, <1>9, <1>12, <2>1
    <3>2. j + m = k + m
      BY <3>1, <1>5 DEF Backs
    <3> QED  BY <3>2, <1>4
  <2>2. CASE j = Len(p) + 1 /\ k = Len(p) + 1
    BY <2>2
  <2>3. CASE j = Len(p) + 1 /\ k \in 1..Len(p)
    BY <2>3, <1>9, <1>12
  <2>4. CASE k = Len(p) + 1 /\ j \in 1..Len(p)
    BY <2>4, <1>9, <1>12
  <2> QED  BY <1>8, <2>1, <2>2, <2>3, <2>4
<1>13. ASSUME NEW k \in 1..Len(b) PROVE KeyOf(W[k]) = key /\ W[k].f.time = b[k]
  <2>1. CASE k = Len(p) + 1
    BY <2>1, <1>7, <1>9 DEF key
  <2>2. CASE k \in 1..Len(p) /\ k + m \in 1..Len(q)
    <3>1. W[k] = w[k + m] /\ b[k] = q[k + m]
      BY <2>2, <1>4, <1>7, <1>9
    <3> QED  BY <2>2, <3>1, <1>5 DEF Backs
  <2> QED  BY <1>8, <2>1, <2>2
<1>14. Backed(b, C \cup {i}, key)
  <2>1. Backs(W, b, C \cup {i}, key)
    BY <1>11, <1>12, <1>13 DEF Backs
  <2> QED  BY <2>1 DEF Backed
<1>15. ASSUME Rising(q), \A j \in C : j.f.time <= i.f.time
       PROVE  /\ Rising(b)
              /\ \A k \in 1..Len(b) : b[k] \in (i.f.time - RepeatWindow)..i.f.time
  <2>1. ASSUME NEW k \in 1..Len(b) PROVE b[k] \in (i.f.time - RepeatWindow)..i.f.time
    <3>1. CASE k = Len(p) + 1
      BY <3>1, <1>1, <1>7
    <3>2. CASE k \in 1..Len(p)
      <4>1. W[k] \in C /\ W[k].f.time = b[k] /\ b[k] = p[k]
        BY <1>7, <1>9, <1>13, <3>2
      <4>2. p[k] >= i.f.time - RepeatWindow
        BY <1>3, <1>15, <3>2
      <4>3. b[k] <= i.f.time /\ b[k] >= i.f.time - RepeatWindow /\ b[k] \in Int
        BY <1>7, <1>15, <4>1, <4>2
      <4> QED  BY <1>1, <4>3
    <3> QED  BY <1>8, <3>1, <3>2
  <2>2. ASSUME NEW j \in 1..Len(b), NEW k \in 1..Len(b), j <= k PROVE b[j] <= b[k]
    <3>1. CASE k = Len(p) + 1
      <4>1. b[j] \in (i.f.time - RepeatWindow)..i.f.time /\ b[k] = i.f.time
        BY <2>1, <1>7, <3>1
      <4> QED  BY <4>1, <1>1
    <3>2. CASE k \in 1..Len(p) /\ k + m \in 1..Len(q)
      <4>1. j \in 1..Len(p) /\ j + m \in 1..Len(q) /\ j + m <= k + m
        BY <1>4, <1>7, <2>2, <3>2
      <4>2. b[j] = q[j + m] /\ b[k] = q[k + m]
        BY <1>4, <1>7, <3>2, <4>1
      <4> QED  BY <1>15, <3>2, <4>1, <4>2 DEF Rising
    <3> QED  BY <1>8, <3>1, <3>2
  <2> QED  BY <2>1, <2>2 DEF Rising
<1> QED  BY <1>14, <1>15 DEF q, b, key

\* Distinct instances of one rule and entity are repeats of each other.
LEMMA BackedCounts ==
  ASSUME NEW C, IsFiniteSet(C), NEW i, NEW b \in Seq(Int), Backed(b, C, KeyOf(i)),
         \A k \in 1..Len(b) : b[k] \in (i.f.time - RepeatWindow)..i.f.time
  PROVE  Len(b) <= Repeats(i, C)
<1> DEFINE X == {j \in C : /\ j.f.rule = i.f.rule /\ j.f.first = i.f.first
                           /\ j.f.time \in (i.f.time - RepeatWindow)..i.f.time}
<1>1. PICK w : Backs(w, b, C, KeyOf(i))
  BY DEF Backed
<1>2. ASSUME NEW k \in 1..Len(b) PROVE w[k] \in X
  <2>1. w[k] \in C /\ KeyOf(w[k]) = KeyOf(i) /\ w[k].f.time = b[k]
    BY <1>1 DEF Backs
  <2>2. w[k].f.rule = i.f.rule /\ w[k].f.first = i.f.first
    BY <2>1 DEF KeyOf
  <2> QED  BY <2>1, <2>2
<1>3. IsFiniteSet(X) /\ Repeats(i, C) = Cardinality(X)
  <2>1. X \in SUBSET C
    OBVIOUS
  <2> QED  BY <2>1, FS_Subset DEF Repeats
<1> HIDE DEF X
<1>4. w \in Injection(1..Len(b), X)
  BY <1>1, <1>2 DEF Backs, Injection, IsInjective
<1>5. Cardinality(1..Len(b)) = Len(b)
  <2>1. Len(b) \in Nat
    OBVIOUS
  <2> QED  BY <2>1, FS_Interval, SMTT(30)
<1> QED  BY <1>3, <1>4, <1>5, FS_Injection

LEMMA RepeatsGrow ==
  ASSUME NEW C, NEW D, C \subseteq D, IsFiniteSet(D), NEW i
  PROVE  Repeats(i, C) <= Repeats(i, D) /\ Repeats(i, C) \in Nat /\ Repeats(i, D) \in Nat
<1> DEFINE X(S) == {j \in S : /\ j.f.rule = i.f.rule /\ j.f.first = i.f.first
                              /\ j.f.time \in (i.f.time - RepeatWindow)..i.f.time}
<1>1. X(C) \in SUBSET X(D) /\ X(D) \in SUBSET D
  OBVIOUS
<1>2. Repeats(i, C) = Cardinality(X(C)) /\ Repeats(i, D) = Cardinality(X(D))
  BY DEF Repeats
<1> HIDE DEF X
<1>3. IsFiniteSet(X(D)) /\ IsFiniteSet(X(C)) /\ Cardinality(X(C)) <= Cardinality(X(D))
  BY <1>1, FS_Subset
<1> QED  BY <1>2, <1>3, FS_CardinalityType

-------------------------------------------------------------------------------
(* The counter over a batch, one instance after the other.                 *)

NoneCounted == [seen |-> seen, kept |-> <<>>, dropped |-> {}]
Steps(acc, s) == /\ acc \in [0..Len(s) -> Counts] /\ acc[0] = NoneCounted
                 /\ \A k \in 1..Len(s) : acc[k] = AutoRepeat(acc[k - 1], s[k])

LEMMA MaxTo ==
  ASSUME NEW n \in Nat
  PROVE  /\ \A t \in SUBSET (1..n) : t # {} => Max(t) \in t
         /\ \A k \in 1..n : Max(1..k) = k /\ (1..k) \ {k} = 1..(k - 1)
<1>1. ASSUME NEW t \in SUBSET (1..n), t # {} PROVE Max(t) \in t /\ \A y \in t : y <= Max(t)
  <2>1. t \in SUBSET (0..n)
    OBVIOUS
  <2>2. PICK x \in t : \A y \in t : y <= x
    BY <1>1, <2>1, Greatest
  <2>3. \A y \in t : x >= y
    BY <2>1, <2>2
  <2>4. Max(t) \in t /\ \A y \in t : Max(t) >= y
    BY <2>3 DEF Max
  <2> QED  BY <2>1, <2>4
<1>2. ASSUME NEW k \in 1..n PROVE Max(1..k) = k /\ (1..k) \ {k} = 1..(k - 1)
  <2>1. 1..k \in SUBSET (1..n) /\ k \in 1..k /\ 1..k # {}
    OBVIOUS
  <2>2. Max(1..k) \in 1..k /\ k <= Max(1..k)
    BY <1>1, <2>1
  <2> QED  BY <2>2
<1> QED  BY <1>1, <1>2

LEMMA SuppressSteps ==
  ASSUME FindingsAssumption, WindowsAssumption, seen \in Buckets,
         NEW S, OneEach(S), NEW s, s = ByTime(S)
  PROVE  \E acc : Steps(acc, s) /\ Suppress(S) = acc[Len(s)]
<1> DEFINE n == Len(s)
           D == 1..n
           pick == [t \in SUBSET D |-> Max(t)]
           step == [t \in SUBSET D |-> [a \in Counts |-> AutoRepeat(a, s[pick[t]])]]
           Folds(it) == it = [t \in SUBSET D |->
                                 IF t = {} THEN NoneCounted
                                 ELSE AutoRepeat(it[t \ {Max(t)}], s[Max(t)])]
<1>1. n \in Nat /\ DOMAIN s = 1..n /\ \A k \in 1..n : s[k] \in Instances
  <2>1. s \in Seq(S) /\ S \subseteq Instances
    BY ByTimeLists DEF Lists, OneEach
  <2> QED  BY <2>1
<1>2. NoneCounted \in Counts
  BY EmptySeq DEF NoneCounted, Counts
<1>3. IsFiniteSet(D)
  BY <1>1, FS_Interval
<1>4. \A t \in SUBSET D : t # {} => pick[t] \in t /\ pick[t] = Max(t) /\ s[pick[t]] \in Instances
  <2> SUFFICES ASSUME NEW t \in SUBSET D, t # {}
               PROVE  pick[t] \in t /\ pick[t] = Max(t) /\ s[pick[t]] \in Instances
    OBVIOUS
  <2>1. Max(t) \in t
    BY <1>1, MaxTo
  <2> QED  BY <2>1, <1>1
<1>5. \A t \in SUBSET D, a \in Counts : t # {} =>
          step[t][a] \in Counts /\ step[t][a] = AutoRepeat(a, s[Max(t)])
  <2> SUFFICES ASSUME NEW t \in SUBSET D, NEW a \in Counts, t # {}
               PROVE  step[t][a] \in Counts /\ step[t][a] = AutoRepeat(a, s[Max(t)])
    OBVIOUS
  <2>1. step[t][a] = AutoRepeat(a, s[pick[t]]) /\ s[pick[t]] \in Instances /\ pick[t] = Max(t)
    <3> HIDE DEF pick
    <3> QED  BY <1>4
  <2> HIDE DEF pick, step
  <2> QED  BY <2>1, AutoRepeatIs
<1>6. PICK g \in FoldsOf(D, SUBSET D, Counts, NoneCounted, pick, step) : TRUE
  <2> HIDE DEF D, pick, step
  <2> QED  BY <1>2, <1>3, <1>4, <1>5, FoldExists
<1>7. Folds(g)
  <2> HIDE DEF D, pick, step
  <2>1. g \in [SUBSET D -> Counts] /\ \A t \in SUBSET D :
            g[t] = IF t = {} THEN NoneCounted ELSE step[t][g[t \ {pick[t]}]]
    BY <1>6 DEF FoldsOf
  <2>2. \A t \in SUBSET D :
            g[t] = IF t = {} THEN NoneCounted ELSE AutoRepeat(g[t \ {Max(t)}], s[Max(t)])
    BY <2>1, <1>4, <1>5, ZenonT(40)
  <2> QED  BY <2>1, <2>2
<1> DEFINE iter == CHOOSE it : Folds(it)
<1>8. Folds(iter)
  <2> HIDE DEF Folds
  <2> QED  BY <1>7
<1>9. Suppress(S) = iter[D]
  BY <1>1, Zenon DEF Suppress, FoldLeft, MapThenFoldSet, NoneCounted
<1> HIDE DEF iter
<1> DEFINE acc == [k \in 0..n |-> iter[1..k]]
<1>10. acc[0] = NoneCounted
  <2>1. 1..0 = {} /\ {} \in SUBSET D
    OBVIOUS
  <2> HIDE DEF D
  <2>2. iter[{}] = NoneCounted
    BY <1>8, <2>1
  <2>3. acc[0] = iter[1..0]
    BY <1>1
  <2> QED  BY <2>1, <2>2, <2>3
<1>11. \A k \in 1..n : acc[k] = AutoRepeat(acc[k - 1], s[k])
  <2> SUFFICES ASSUME NEW k \in 1..n PROVE acc[k] = AutoRepeat(acc[k - 1], s[k])
    OBVIOUS
  <2>1. 1..k \in SUBSET D /\ 1..k # {} /\ Max(1..k) = k /\ (1..k) \ {k} = 1..(k - 1)
    BY <1>1, MaxTo, SMTT(30)
  <2>2. acc[k] = iter[1..k] /\ acc[k - 1] = iter[1..(k - 1)]
    BY <1>1
  <2> HIDE DEF acc, D
  <2>3. iter[1..k] = AutoRepeat(iter[(1..k) \ {Max(1..k)}], s[Max(1..k)])
    BY <1>8, <2>1
  <2> QED  BY <2>1, <2>2, <2>3
<1> DEFINE T == {k \in Nat : k <= n => acc[k] \in Counts}
<1> HIDE DEF acc
<1>12. 0 \in T
  BY <1>2, <1>10
<1>13. ASSUME NEW k \in Nat, k \in T PROVE k + 1 \in T
  <2>1. ASSUME k + 1 <= n PROVE acc[k + 1] \in Counts
    <3>1. k + 1 \in 1..n /\ (k + 1) - 1 = k /\ acc[k] \in Counts
      BY <1>1, <1>13, <2>1
    <3>2. acc[k + 1] = AutoRepeat(acc[k], s[k + 1])
      BY <3>1, <1>11
    <3>3. s[k + 1] \in Instances
      BY <3>1, <1>1
    <3>4. AutoRepeat(acc[k], s[k + 1]) \in Counts
      BY <3>1, <3>3, AutoRepeatIs
    <3> QED  BY <3>2, <3>4
  <2> QED  BY <2>1
<1>14. \A k \in 0..n : acc[k] \in Counts
  <2>1. Nat \subseteq T
    <3> HIDE DEF T
    <3> QED  BY <1>12, <1>13, Induct
  <2> QED  BY <2>1, <1>1
<1>15. acc \in [0..n -> Counts] /\ acc[n] = iter[D]
  <2>1. DOMAIN acc = 0..n /\ acc = [k \in 0..n |-> acc[k]] /\ acc[n] = iter[1..n]
    BY <1>1 DEF acc
  <2> QED  BY <2>1, <1>14
<1>16. Steps(acc, s)
  BY <1>10, <1>11, <1>15 DEF Steps
<1> QED  BY <1>9, <1>15, <1>16

Prefix(s, k) == {s[j] : j \in 1..k}

\* All that the counter has done once it has counted the instances in C.
Counting(a, C, S, inOrder) ==
  /\ a \in Counts /\ AllBacked(a.seen, C) /\ ToSet(a.kept) \subseteq S
  /\ inOrder => AllRising(a.seen) /\ \A i \in a.dropped : Repeats(i, C) > Threshold

LEMMA BackedMore ==
  ASSUME NEW q, NEW C, NEW D, C \subseteq D, NEW key, Backed(q, C, key)
  PROVE  Backed(q, D, key)
<1>1. PICK w : Backs(w, q, C, key)
  BY DEF Backed
<1>2. Backs(w, q, D, key)
  BY <1>1 DEF Backs
<1> QED  BY <1>2 DEF Backed

LEMMA CountOne ==
  ASSUME FindingsAssumption, WindowsAssumption, NEW C \in SUBSET Instances, IsFiniteSet(C),
         NEW S \in SUBSET Instances, NEW i \in S, i \notin C, NEW inOrder \in BOOLEAN,
         inOrder => \A j \in C : j.f.time <= i.f.time,
         NEW a, Counting(a, C, S, inOrder)
  PROVE  Counting(AutoRepeat(a, i), C \cup {i}, S, inOrder)
<1> DEFINE b == BucketOf(a, i)
           r == AutoRepeat(a, i)
           key == KeyOf(i)
<1>1. i \in Instances /\ a \in Counts /\ key \in Keys
  BY DEF Counting, Instances, Keys, KeyOf
<1>2. Backed(a.seen[key], C, key)
  BY <1>1 DEF Counting, AllBacked
<1>3. /\ r \in Counts /\ b \in Seq(Int) /\ r.seen = [a.seen EXCEPT ![key] = b]
      /\ \/ Len(b) <= Threshold /\ r.kept = Append(a.kept, i) /\ r.dropped = a.dropped
         \/ Len(b) > Threshold /\ r.kept = a.kept /\ r.dropped = a.dropped \cup {i}
  BY <1>1, AutoRepeatIs
<1>4. /\ Backed(b, C \cup {i}, key)
      /\ Rising(a.seen[key]) /\ (\A j \in C : j.f.time <= i.f.time) =>
             Rising(b) /\ \A k \in 1..Len(b) : b[k] \in (i.f.time - RepeatWindow)..i.f.time
  BY <1>1, <1>2, BucketBacked
<1>5. a.seen \in Buckets /\ a.kept \in Seq(Instances) /\ ToSet(a.kept) \subseteq S /\ Threshold \in Nat
  BY <1>1 DEF Counts, Counting, WindowsAssumption
<1> HIDE DEF b, r, key
<1>6. r.seen[key] = b /\ \A h \in Keys : h # key => r.seen[h] = a.seen[h]
  BY <1>1, <1>3, <1>5 DEF Buckets
<1>7. AllBacked(r.seen, C \cup {i})
  <2> SUFFICES ASSUME NEW h \in Keys PROVE Backed(r.seen[h], C \cup {i}, h)
    BY DEF AllBacked
  <2>1. CASE h = key
    BY <2>1, <1>4, <1>6
  <2>2. CASE h # key
    <3>1. Backed(a.seen[h], C, h) /\ r.seen[h] = a.seen[h]
      BY <2>2, <1>6 DEF Counting, AllBacked
    <3> QED  BY <3>1, BackedMore
  <2> QED  BY <2>1, <2>2
<1>8. ToSet(r.kept) \subseteq S
  <2>1. CASE r.kept = Append(a.kept, i)
    <3>1. \A k \in DOMAIN r.kept : r.kept[k] = i \/ (k \in DOMAIN a.kept /\ r.kept[k] = a.kept[k])
      BY <1>1, <1>5, <2>1
    <3> QED  BY <3>1, <1>5 DEF ToSet
  <2>2. CASE r.kept = a.kept
    BY <2>2, <1>5
  <2> QED  BY <2>1, <2>2, <1>3
<1>9. ASSUME inOrder
      PROVE  AllRising(r.seen) /\ \A j \in r.dropped : Repeats(j, C \cup {i}) > Threshold
  <2>1. /\ AllRising(a.seen) /\ (\A j \in a.dropped : Repeats(j, C) > Threshold)
        /\ \A j \in C : j.f.time <= i.f.time
    BY <1>9 DEF Counting
  <2>2. Rising(b) /\ \A k \in 1..Len(b) : b[k] \in (i.f.time - RepeatWindow)..i.f.time
    BY <1>1, <1>4, <2>1 DEF AllRising
  <2>3. AllRising(r.seen)
    BY <1>6, <2>1, <2>2 DEF AllRising
  <2>4. IsFiniteSet(C \cup {i}) /\ C \subseteq C \cup {i}
    BY FS_AddElement
  <2>5. ASSUME NEW j \in r.dropped PROVE Repeats(j, C \cup {i}) > Threshold
    <3>1. CASE j \in a.dropped
      <4>1. /\ Repeats(j, C) > Threshold /\ Repeats(j, C) <= Repeats(j, C \cup {i})
            /\ Repeats(j, C) \in Nat /\ Repeats(j, C \cup {i}) \in Nat
        BY <2>1, <2>4, <3>1, RepeatsGrow
      <4> QED  BY <4>1, <1>5
    <3>2. CASE j = i /\ Len(b) > Threshold
      <4>1. Len(b) <= Repeats(i, C \cup {i})
        BY <1>3, <1>4, <2>2, <2>4, BackedCounts DEF key
      <4>2. Repeats(i, C \cup {i}) \in Nat /\ Len(b) \in Nat
        BY <2>4, <1>3, RepeatsGrow
      <4> QED  BY <3>2, <4>1, <4>2, <1>5
    <3> QED  BY <3>1, <3>2, <1>3
  <2> QED  BY <2>3, <2>5
<1> QED  BY <1>3, <1>7, <1>8, <1>9 DEF Counting, r

LEMMA SuppressIs ==
  ASSUME FindingsAssumption, WindowsAssumption, seen \in Buckets,
         NEW S, OneEach(S), NEW C \in SUBSET Instances, IsFiniteSet(C), C \cap S = {},
         AllBacked(seen, C), NEW inOrder \in BOOLEAN,
         inOrder => AllRising(seen) /\ \A i \in S, j \in C : j.f.time <= i.f.time
  PROVE  Counting(Suppress(S), C \cup S, S, inOrder)
<1> DEFINE s == ByTime(S)
           n == Len(s)
<1>1. PICK acc : Steps(acc, s) /\ Suppress(S) = acc[n]
  BY SuppressSteps
<1>2. Lists(s, S) /\ Timely(s) /\ S \subseteq Instances
  BY ByTimeLists DEF OneEach
<1> HIDE DEF s
<1>3. /\ n \in Nat /\ s \in [1..n -> S]
      /\ \A j, k \in 1..n : s[j] = s[k] => j = k
      /\ \A x \in S : \E k \in 1..n : s[k] = x
  BY <1>2 DEF Lists
<1> DEFINE T == {k \in Nat : k <= n =>
                     IsFiniteSet(Prefix(s, k)) /\ Counting(acc[k], C \cup Prefix(s, k), S, inOrder)}
<1>4. 0 \in T
  <2>1. Prefix(s, 0) = {}
    BY DEF Prefix
  <2>2. acc[0] = NoneCounted /\ acc[0] \in Counts
    BY <1>1, <1>3 DEF Steps
  <2>3. NoneCounted.seen = seen /\ ToSet(NoneCounted.kept) = {} /\ NoneCounted.dropped = {}
    BY DEF NoneCounted, ToSet
  <2>4. Counting(acc[0], C \cup {}, S, inOrder)
    BY <2>2, <2>3 DEF Counting
  <2> QED  BY <2>1, <2>4, FS_EmptySet
<1>5. ASSUME NEW k \in Nat, k \in T PROVE k + 1 \in T
  <2> SUFFICES ASSUME k + 1 <= n
               PROVE  /\ IsFiniteSet(Prefix(s, k + 1))
                      /\ Counting(acc[k + 1], C \cup Prefix(s, k + 1), S, inOrder)
    OBVIOUS
  <2> DEFINE i == s[k + 1]
             P == Prefix(s, k)
  <2>1. k + 1 \in 1..n /\ k \in 0..n /\ k <= n /\ (k + 1) - 1 = k /\ i \in S
    BY <1>3
  <2>2. IsFiniteSet(P) /\ Counting(acc[k], C \cup P, S, inOrder)
    BY <1>5, <2>1
  <2>3. Prefix(s, k + 1) = P \cup {i} /\ P \subseteq S /\ i \notin P
    <3>1. 1..(k + 1) = (1..k) \cup {k + 1} /\ 1..k \subseteq 1..n
      BY <2>1, <1>3
    <3>2. Prefix(s, k + 1) = P \cup {i}
      BY <3>1 DEF Prefix
    <3>3. P \subseteq S
      BY <3>1, <1>3 DEF Prefix
    <3>4. \A j \in 1..k : j \in 1..n /\ j # k + 1
      BY <2>1, <1>3
    <3>5. i \notin P
      BY <3>4, <2>1, <1>3 DEF Prefix
    <3> QED  BY <3>2, <3>3, <3>5
  <2>4. acc[k + 1] = AutoRepeat(acc[k], i)
    BY <1>1, <2>1 DEF Steps
  <2>5. \A j \in P : j.f.time <= i.f.time
    <3>1. \A h \in 1..k : h \in 1..n /\ h <= k + 1
      BY <2>1, <1>3
    <3> QED  BY <3>1, <2>1, <1>2 DEF Prefix, Timely
  <2>6. inOrder => \A j \in C \cup P : j.f.time <= i.f.time
    BY <2>1, <2>5
  <2>7. /\ C \cup P \in SUBSET Instances /\ i \notin C \cup P /\ S \in SUBSET Instances
        /\ IsFiniteSet(C \cup P)
    BY <1>2, <2>1, <2>2, <2>3, FS_Union
  <2> HIDE DEF P, i, T
  <2>8. Counting(AutoRepeat(acc[k], i), (C \cup P) \cup {i}, S, inOrder)
    BY <2>1, <2>2, <2>6, <2>7, CountOne
  <2>9. (C \cup P) \cup {i} = C \cup Prefix(s, k + 1)
    BY <2>3
  <2>10. IsFiniteSet(Prefix(s, k + 1))
    BY <2>2, <2>3, FS_AddElement
  <2> QED  BY <2>4, <2>8, <2>9, <2>10
<1>6. n \in T
  <2> HIDE DEF T
  <2>1. Nat \subseteq T
    BY <1>4, <1>5, Induct
  <2> QED  BY <2>1, <1>3
<1>7. Prefix(s, n) = S
  BY <1>3 DEF Prefix
<1> QED  BY <1>1, <1>3, <1>6, <1>7

-------------------------------------------------------------------------------
(* Only repeats are suppressed.                                            *)

Rules == {f.rule : f \in Findings}
Delivered(fs) == {[f |-> f, d |-> clock, risk |-> AdjustedRisk(f)] : f \in fs}

\* A counter that is backed by what it has counted, all of it of earlier batches.
Tally(sn, C) == /\ sn \in Buckets /\ C \in SUBSET Instances /\ IsFiniteSet(C)
                /\ AllBacked(sn, C)
                /\ ordered => AllRising(sn)
Earlier(C) == \A i \in C : i.d < clock

\* The counter, and the copy of it that a failed save restores.
CountInv ==
  /\ clock \in Nat /\ ordered \in BOOLEAN /\ bad \in BOOLEAN
  /\ feedback \in [Rules -> [up : Nat, down : Nat]]
  /\ Tally(seen, counted) /\ \A i \in counted : i.d <= clock
  /\ held = <<>> => Earlier(counted)
  /\ held # <<>> => Tally(held[1].seen, held[1].counted) /\ Earlier(held[1].counted)
  /\ ordered => ~bad

LEMMA RiskType ==
  ASSUME FindingsAssumption, feedback \in [Rules -> [up : Nat, down : Nat]], NEW f \in Findings
  PROVE  AdjustedRisk(f) \in Int
<1> DEFINE x == 10 + feedback[f.rule].up - 2 * feedback[f.rule].down
<1>1. x \in Int /\ f.risk \in Int
  BY DEF Rules, FindingsAssumption
<1> HIDE DEF x
<1>2. Min({30, x}) \in Int
  <2>1. CASE 30 <= x
    BY <1>1, <2>1 DEF Min
  <2>2. CASE x <= 30
    BY <1>1, <2>2 DEF Min
  <2> QED  BY <1>1, <2>1, <2>2
<1> DEFINE y == Min({30, x})
<1>3. y \in Int
  BY <1>2
<1>4. Weight(f.rule) = Max({1, y})
  BY DEF Weight, x
<1> HIDE DEF y
<1>5. Max({1, y}) \in Int
  <2>1. CASE 1 <= y
    BY <1>3, <2>1 DEF Max
  <2>2. CASE y <= 1
    BY <1>3, <2>2 DEF Max
  <2> QED  BY <1>3, <2>1, <2>2
<1> DEFINE w == Weight(f.rule)
<1>6. w \in Int
  BY <1>4, <1>5
<1>7. AdjustedRisk(f) = IF w >= 10 THEN f.risk ELSE (f.risk * w) \div 10
  BY DEF AdjustedRisk
<1> HIDE DEF w
<1> QED  BY <1>1, <1>6, <1>7

LEMMA DeliveredIs ==
  ASSUME FindingsAssumption, CountInv, NEW fs \in SUBSET Findings
  PROVE  OneEach(Delivered(fs)) /\ \A i \in Delivered(fs) : i.d = clock
<1>0. feedback \in [Rules -> [up : Nat, down : Nat]] /\ clock \in Nat
  BY DEF CountInv
<1> DEFINE at == [f \in fs |-> [f |-> f, d |-> clock, risk |-> AdjustedRisk(f)]]
<1>1. at \in Surjection(fs, Delivered(fs))
  BY DEF Surjection, Delivered
<1>2. IsFiniteSet(fs)
  BY FS_Subset DEF FindingsAssumption
<1>3. IsFiniteSet(Delivered(fs))
  <2> HIDE DEF at
  <2> QED  BY <1>1, <1>2, FS_Surjection
<1>4. \A i \in Delivered(fs) : i.d = clock /\ i \in Instances
  BY <1>0, RiskType DEF Delivered, Instances
<1>5. \A i, j \in Delivered(fs) : i.f = j.f => i = j
  BY DEF Delivered
<1> QED  BY <1>3, <1>4, <1>5 DEF OneEach

LEMMA TallyStart == Tally(NoneSeen, {})
<1>1. NoneSeen = [k \in Keys |-> <<>>]
  BY DEF NoneSeen, Keys
<1>2. \A k \in Keys : NoneSeen[k] = <<>> /\ Len(NoneSeen[k]) = 0
  BY <1>1
<1>3. NoneSeen \in Buckets
  <2>1. <<>> \in Seq(Int)
    BY EmptySeq
  <2> QED  BY <1>1, <2>1 DEF Buckets
<1>4. \A k \in Keys : Backs(<<>>, NoneSeen[k], {}, k)
  BY <1>2 DEF Backs
<1>5. AllBacked(NoneSeen, {})
  BY <1>4 DEF AllBacked, Backed
<1>6. AllRising(NoneSeen)
  BY <1>2 DEF AllRising, Rising
<1> QED  BY <1>3, <1>5, <1>6, FS_EmptySet DEF Tally

LEMMA CountInit == ASSUME Init PROVE CountInv
<1>1. feedback \in [Rules -> [up : Nat, down : Nat]]
  BY DEF Init, Rules
<1> QED  BY <1>1, TallyStart DEF Init, CountInv, Earlier

LEMMA CountProcess ==
  ASSUME FindingsAssumption, WindowsAssumption, CountInv, NEW fs \in SUBSET Findings, Process(fs)
  PROVE  CountInv'
<1> DEFINE S == Delivered(fs)
           C == counted
           sup == Suppress(S)
           inOrder == ordered /\ \A i \in S, j \in C : j.f.time <= i.f.time
<1>1. OneEach(S) /\ \A i \in S : i.d = clock
  BY DeliveredIs
<1>2. /\ seen' = sup.seen /\ counted' = C \cup S /\ ordered' = inOrder
      /\ bad' = (bad \/ \E i \in sup.dropped : Repeats(i, C \cup S) <= Threshold)
      /\ held = <<>> /\ held' # <<>> /\ held'[1].seen = seen /\ held'[1].counted = counted
      /\ clock' = clock /\ feedback' = feedback
  BY DEF Process, Delivered
<1>3. /\ Tally(seen, C) /\ Earlier(C) /\ clock \in Nat
      /\ feedback \in [Rules -> [up : Nat, down : Nat]] /\ ordered \in BOOLEAN /\ bad \in BOOLEAN
      /\ (ordered => ~bad)
  BY <1>2 DEF CountInv
<1> HIDE DEF sup
<1>4. /\ C \in SUBSET Instances /\ IsFiniteSet(C) /\ AllBacked(seen, C) /\ seen \in Buckets
      /\ S \in SUBSET Instances /\ IsFiniteSet(S)
  BY <1>1, <1>3 DEF Tally, OneEach
<1>5. C \cap S = {}
  BY <1>1, <1>3, <1>4 DEF Earlier, Instances
<1>6. inOrder \in BOOLEAN /\ (inOrder => AllRising(seen) /\ \A i \in S, j \in C : j.f.time <= i.f.time)
  BY <1>3 DEF Tally
<1>7. Counting(sup, C \cup S, S, inOrder)
  <2> HIDE DEF S, C, inOrder
  <2> QED  BY <1>1, <1>4, <1>5, <1>6, SuppressIs DEF sup
<1>8. /\ sup.seen \in Buckets /\ AllBacked(sup.seen, C \cup S)
      /\ inOrder => AllRising(sup.seen) /\ \A i \in sup.dropped : Repeats(i, C \cup S) > Threshold
  BY <1>7 DEF Counting, Counts
<1>9. C \cup S \in SUBSET Instances /\ IsFiniteSet(C \cup S)
  BY <1>4, FS_Union
<1>10. Tally(seen, counted)'
  BY <1>2, <1>8, <1>9 DEF Tally, AllRising, Rising, AllBacked, Backed
<1>11. Tally(held[1].seen, held[1].counted)' /\ Earlier(held[1].counted)'
  <2>1. ordered' => ordered
    BY <1>2
  <2> QED  BY <1>2, <1>3, <2>1 DEF Tally, Earlier
<1>12. ordered' => ~bad'
  <2> SUFFICES ASSUME inOrder PROVE ~(\E i \in sup.dropped : Repeats(i, C \cup S) <= Threshold)
    BY <1>2, <1>3
  <2>1. \A i \in sup.dropped : Repeats(i, C \cup S) > Threshold
    BY <1>8
  <2>2. \A i : Repeats(i, C \cup S) \in Nat
    BY <1>9, RepeatsGrow
  <2>3. Threshold \in Nat
    BY DEF WindowsAssumption
  <2> QED  BY <2>1, <2>2, <2>3
<1>13. ordered' \in BOOLEAN /\ bad' \in BOOLEAN /\ clock' \in Nat /\ feedback' \in [Rules -> [up : Nat, down : Nat]]
  BY <1>2, <1>3, <1>6
<1>14. \A i \in C \cup S : i.d <= clock
  <2>1. \A i \in C : i.d < clock /\ i.d \in Nat
    BY <1>3, <1>4 DEF Earlier, Instances
  <2> QED  BY <2>1, <1>1, <1>3
<1> QED  BY <1>2, <1>10, <1>11, <1>12, <1>13, <1>14 DEF CountInv

LEMMA CountOther ==
  ASSUME CountInv, \/ Save \/ SaveFails \/ Restart
                   \/ \E n \in DOMAIN incidents : CloseIncident(n)
                   \/ \E r \in DOMAIN feedback, d \in {"up", "down"} : Record(r, d)
                   \/ UNCHANGED vars
  PROVE  CountInv'
<1> USE DEF Tally, Earlier, AllRising, Rising, AllBacked, Backed
<1>1. CASE Save
  <2>1. /\ seen' = seen /\ counted' = counted /\ ordered' = ordered /\ bad' = bad /\ held' = <<>>
        /\ clock' = clock + 1 /\ feedback' = feedback /\ held # <<>>
    BY <1>1 DEF Save
  <2>2. \A i \in counted : i.d < clock + 1
    <3>1. counted \subseteq Instances /\ clock \in Nat /\ \A i \in counted : i.d <= clock
      BY DEF CountInv
    <3> QED  BY <3>1 DEF Instances
  <2>3. \A i \in counted : i.d <= clock + 1
    <3>1. counted \subseteq Instances /\ clock \in Nat /\ \A i \in counted : i.d <= clock
      BY DEF CountInv
    <3> QED  BY <3>1 DEF Instances
  <2> QED  BY <2>1, <2>2, <2>3 DEF CountInv
<1>2. CASE SaveFails
  <2>1. /\ seen' = held[1].seen /\ counted' = held[1].counted /\ ordered' = ordered /\ bad' = bad
        /\ held' = <<>> /\ clock' = clock /\ feedback' = feedback /\ held # <<>>
    BY <1>2 DEF SaveFails, CounterBefore
  <2>2. Tally(held[1].seen, held[1].counted) /\ \A i \in held[1].counted : i.d < clock /\ i.d <= clock
    <3>1. Tally(held[1].seen, held[1].counted) /\ Earlier(held[1].counted) /\ clock \in Nat
      BY <2>1 DEF CountInv
    <3> QED  BY <3>1 DEF Instances
  <2> QED  BY <2>1, <2>2 DEF CountInv
<1>3. CASE Restart
  <2>1. /\ seen' = NoneSeen /\ counted' = {} /\ held' = <<>> /\ ordered' = ordered /\ bad' = bad
        /\ clock' = clock /\ feedback' = feedback
    BY <1>3 DEF Restart
  <2>2. Tally(NoneSeen, {})
    BY TallyStart
  <2>3. Tally(seen, counted)'
    BY <2>1, <2>2
  <2> QED  BY <2>1, <2>3 DEF CountInv
<1>4. CASE \E n \in DOMAIN incidents : CloseIncident(n)
  BY <1>4 DEF CloseIncident, CountInv
<1>5. CASE \E r \in DOMAIN feedback, d \in {"up", "down"} : Record(r, d)
  <2>1. PICK r \in DOMAIN feedback, d \in {"up", "down"} : Record(r, d)
    BY <1>5
  <2>2. feedback' \in [Rules -> [up : Nat, down : Nat]]
    <3>1. feedback' = [feedback EXCEPT ![r][d] = @ + 3]
      BY <2>1 DEF Record
    <3>2. feedback \in [Rules -> [up : Nat, down : Nat]] /\ r \in Rules
      BY DEF CountInv
    <3>3. feedback[r] \in [up : Nat, down : Nat]
      BY <3>2
    <3>4. [feedback[r] EXCEPT ![d] = @ + 3] \in [up : Nat, down : Nat]
      BY <3>3
    <3> QED  BY <3>1, <3>2, <3>4
  <2> QED  BY <2>1, <2>2 DEF Record, CountInv
<1>6. CASE UNCHANGED vars
  BY <1>6 DEF vars, CountInv
<1> QED  BY <1>1, <1>2, <1>3, <1>4, <1>5, <1>6

LEMMA CountNext ==
  ASSUME FindingsAssumption, WindowsAssumption, CountInv, [Next]_vars
  PROVE  CountInv'
<1>1. ASSUME NEW fs \in SUBSET Findings, Process(fs) PROVE CountInv'
  BY <1>1, CountProcess
<1> QED  BY <1>1, CountOther DEF Next

\* While batches come in order of time, only a finding whose rule and entity
\* repeated more often than the threshold within the window is suppressed
\* (SuppressionEngine._auto_repeat_suppression), though a failed save has the
\* batch processed again (distributed._settle): each entry of a bucket is the
\* time of an instance of its own, and a bucket's entries rise.
THEOREM RepeatsCounted ==
  ASSUME FindingsAssumption, WindowsAssumption
  PROVE  Spec => []OnlyRepeatsSuppressed
<1>1. Init => CountInv
  BY CountInit
<1>2. CountInv /\ [Next]_vars => CountInv'
  BY CountNext
<1>3. CountInv => OnlyRepeatsSuppressed
  BY DEF CountInv, OnlyRepeatsSuppressed
<1> QED  BY <1>1, <1>2, <1>3, PTL DEF Spec

-------------------------------------------------------------------------------
(* Connected components.                                                   *)

\* j is connected to i within S.
Joined(i, j, S) == i \in S /\ j \in Component(i, S)

LEMMA JoinedIs ==
  ASSUME NEW S, NEW i, NEW j
  PROVE  Joined(i, j, S) <=> /\ i \in S /\ j \in S
                             /\ \A T \in SUBSET S : i \in T /\ Closed(T, S) => j \in T
  BY DEF Joined, Component

LEMMA NearSym ==
  ASSUME WindowsAssumption, NEW i, NEW j, i.f.time \in Int, j.f.time \in Int, Near(i, j)
  PROVE  Near(j, i)
  BY DEF Near, WindowsAssumption

LEMMA JoinedSelf == ASSUME NEW S, NEW i \in S PROVE Joined(i, i, S)
  BY JoinedIs

LEMMA JoinedNear ==
  ASSUME NEW S, NEW i \in S, NEW j \in S, Near(i, j)
  PROVE  Joined(i, j, S)
  BY JoinedIs DEF Closed

LEMMA JoinedTrans ==
  ASSUME NEW S, NEW i, NEW j, NEW k, Joined(i, j, S), Joined(j, k, S)
  PROVE  Joined(i, k, S)
  BY JoinedIs

LEMMA JoinedSym ==
  ASSUME WindowsAssumption, NEW S, \A x \in S : x.f.time \in Int,
         NEW i, NEW j, Joined(i, j, S)
  PROVE  Joined(j, i, S)
<1>1. i \in S /\ j \in S
  BY JoinedIs
<1> SUFFICES ASSUME NEW T \in SUBSET S, j \in T, Closed(T, S), i \notin T PROVE FALSE
  BY <1>1, JoinedIs
<1>2. Closed(S \ T, S)
  <2> SUFFICES ASSUME NEW a \in S \ T, NEW b \in S, Near(a, b), b \in T PROVE FALSE
    BY DEF Closed
  <2>1. Near(b, a)
    BY NearSym
  <2> QED  BY <2>1 DEF Closed
<1>3. j \in S \ T
  BY <1>1, <1>2, JoinedIs
<1> QED  BY <1>3

\* What is joined in a set is joined in a larger one.
LEMMA JoinedMore ==
  ASSUME NEW S, NEW U, S \subseteq U, NEW i, NEW j, Joined(i, j, S)
  PROVE  Joined(i, j, U)
<1>1. i \in S /\ j \in S
  BY JoinedIs
<1> SUFFICES ASSUME NEW T \in SUBSET U, i \in T, Closed(T, U) PROVE j \in T
  BY <1>1, JoinedIs
<1>2. Closed(T \cap S, S)
  BY DEF Closed
<1> QED  BY <1>1, <1>2, JoinedIs

\* A component is connected by itself.
LEMMA JoinedWithin ==
  ASSUME WindowsAssumption, NEW S, \A x \in S : x.f.time \in Int,
         NEW i, NEW j, Joined(i, j, S)
  PROVE  Joined(i, j, Component(i, S))
<1> DEFINE C == Component(i, S)
<1>1. i \in S /\ j \in C /\ i \in C /\ C \subseteq S
  <2>1. i \in S /\ j \in Component(i, S)
    BY DEF Joined
  <2>2. Joined(i, i, S)
    BY <2>1, JoinedSelf
  <2> QED  BY <2>1, <2>2 DEF Joined, Component
<1> SUFFICES ASSUME NEW T \in SUBSET C, i \in T, Closed(T, C) PROVE j \in T
  BY <1>1, JoinedIs
<1>2. Closed(T, S)
  <2> SUFFICES ASSUME NEW a \in T, NEW b \in S, Near(a, b) PROVE b \in T
    BY DEF Closed
  <2>1. Joined(i, a, S)
    BY <1>1 DEF Joined
  <2>2. Joined(a, b, S)
    BY <1>1, JoinedNear
  <2>3. b \in C
    BY <2>1, <2>2, JoinedTrans DEF Joined
  <2> QED  BY <2>3 DEF Closed
<1> QED  BY <1>1, <1>2, JoinedIs

-------------------------------------------------------------------------------
(* Union-find over the links.                                              *)

Roots(s) == [1..Len(s) -> 1..Len(s)]
Together(s, S, j, k) == Joined(s[j], s[k], S)

\* What the links in t have made of the roots.
United(root, t, s, S) ==
  /\ root \in Roots(s)
  /\ \A link \in t : root[link[1]] = root[link[2]]
  /\ \A j, k \in 1..Len(s) : root[j] = root[k] => Together(s, S, j, k)

LEMMA LinksAre ==
  ASSUME FindingsAssumption, WindowsAssumption, NEW S, OneEach(S), NEW s, s = ByTime(S)
  PROVE  /\ Len(s) \in Nat /\ DOMAIN s = 1..Len(s) /\ IsFiniteSet(Links(s))
         /\ \A k \in 1..Len(s) : s[k] \in S /\ s[k].f.time \in Int
         /\ \A x \in S : x.f.time \in Int
         /\ \A link \in Links(s) : /\ link[1] \in 1..Len(s) /\ link[2] \in 1..Len(s)
                                   /\ Together(s, S, link[1], link[2])
                                   /\ Together(s, S, link[2], link[1])
<1>1. Lists(s, S) /\ Timely(s)
  BY ByTimeLists
<1>2. Len(s) \in Nat /\ DOMAIN s = 1..Len(s) /\ \A k \in 1..Len(s) : s[k] \in S
  BY <1>1 DEF Lists
<1>3. \A x \in S : x.f.time \in Int
  BY DEF OneEach, Instances, FindingsAssumption
<1>4. IsFiniteSet(Links(s))
  <2>1. IsFiniteSet(1..Len(s))
    BY <1>2, FS_Interval
  <2>2. IsFiniteSet((1..Len(s)) \X (1..Len(s)))
    BY <2>1, FS_Product
  <2>3. Links(s) \in SUBSET ((1..Len(s)) \X (1..Len(s)))
    BY <1>2 DEF Links
  <2> QED  BY <2>2, <2>3, FS_Subset
<1>5. ASSUME NEW link \in Links(s)
      PROVE  /\ link[1] \in 1..Len(s) /\ link[2] \in 1..Len(s)
             /\ Together(s, S, link[1], link[2]) /\ Together(s, S, link[2], link[1])
  <2>1. /\ link[1] \in 1..Len(s) /\ link[2] \in 1..Len(s) /\ link[1] < link[2]
        /\ s[link[2]].f.time - s[link[1]].f.time <= Window
        /\ Ents(s[link[1]]) \cap Ents(s[link[2]]) # {}
    BY <1>2 DEF Links
  <2>2. /\ s[link[1]] \in S /\ s[link[2]] \in S
        /\ s[link[1]].f.time \in Int /\ s[link[2]].f.time \in Int
    BY <1>2, <1>3, <2>1
  <2>3. s[link[1]].f.time <= s[link[2]].f.time
    BY <1>1, <2>1 DEF Timely
  <2>4. Near(s[link[1]], s[link[2]])
    BY <2>1, <2>2, <2>3 DEF Near, WindowsAssumption
  <2>5. Near(s[link[2]], s[link[1]])
    BY <2>2, <2>4, NearSym
  <2> QED  BY <2>1, <2>2, <2>4, <2>5, JoinedNear DEF Together
<1> QED  BY <1>2, <1>3, <1>4, <1>5

LEMMA MinOfTwo ==
  ASSUME NEW a \in Nat, NEW b \in Nat
  PROVE  Min({a, b}) \in {a, b}
<1>1. CASE a <= b
  BY <1>1 DEF Min
<1>2. CASE b <= a
  BY <1>2 DEF Min
<1> QED  BY <1>1, <1>2

LEMMA UnionUnites ==
  ASSUME FindingsAssumption, WindowsAssumption, NEW S, OneEach(S), NEW s, s = ByTime(S),
         NEW t \in SUBSET Links(s), NEW link \in Links(s), NEW root, United(root, t, s, S)
  PROVE  United(Union(root, link), t \cup {link}, s, S)
<1> DEFINE a == root[link[1]]
           b == root[link[2]]
           new == Union(root, link)
<1>1. /\ Len(s) \in Nat /\ link[1] \in 1..Len(s) /\ link[2] \in 1..Len(s)
      /\ Together(s, S, link[1], link[2]) /\ Together(s, S, link[2], link[1])
      /\ \A l \in t : l[1] \in 1..Len(s) /\ l[2] \in 1..Len(s)
  BY LinksAre
<1>2. root \in Roots(s) /\ DOMAIN root = 1..Len(s) /\ \A k \in 1..Len(s) : root[k] \in 1..Len(s)
  BY DEF United, Roots
<1>3. a \in 1..Len(s) /\ b \in 1..Len(s) /\ Min({a, b}) \in {a, b}
  <2>1. a \in 1..Len(s) /\ b \in 1..Len(s)
    BY <1>1, <1>2
  <2> HIDE DEF a, b
  <2> QED  BY <2>1, MinOfTwo
<1>4. \A k \in 1..Len(s) : new[k] = IF root[k] \in {a, b} THEN Min({a, b}) ELSE root[k]
  BY <1>2 DEF Union
<1>5. DOMAIN new = 1..Len(s) /\ new = [k \in 1..Len(s) |-> new[k]]
  BY <1>2 DEF Union
<1> HIDE DEF new
<1>6. new \in Roots(s)
  BY <1>2, <1>3, <1>4, <1>5 DEF Roots
<1>7. \A l \in t \cup {link} : new[l[1]] = new[l[2]]
  <2>1. new[link[1]] = new[link[2]]
    BY <1>1, <1>4
  <2>2. ASSUME NEW l \in t PROVE new[l[1]] = new[l[2]]
    <3>1. root[l[1]] = root[l[2]] /\ l[1] \in 1..Len(s) /\ l[2] \in 1..Len(s)
      BY <1>1 DEF United
    <3> QED  BY <3>1, <1>4
  <2> QED  BY <2>1, <2>2
<1>8. ASSUME NEW j \in 1..Len(s), NEW k \in 1..Len(s), new[j] = new[k]
      PROVE  Together(s, S, j, k)
  <2>0. \A m, o \in 1..Len(s) : root[m] = root[o] => Together(s, S, m, o)
    BY DEF United
  <2>1. CASE root[j] = root[k]
    BY <2>0, <2>1
  <2>2. CASE root[j] # root[k]
    <3>1. root[j] \in {a, b} /\ root[k] \in {a, b}
      BY <1>3, <1>4, <1>8, <2>2
    <3>2. CASE root[j] = a /\ root[k] = b
      <4>1. Together(s, S, j, link[1]) /\ Together(s, S, link[2], k)
        BY <1>1, <2>0, <3>2
      <4> QED  BY <4>1, <1>1, JoinedTrans DEF Together
    <3>3. CASE root[j] = b /\ root[k] = a
      <4>1. Together(s, S, j, link[2]) /\ Together(s, S, link[1], k)
        BY <1>1, <2>0, <3>3
      <4> QED  BY <4>1, <1>1, JoinedTrans DEF Together
    <3> QED  BY <2>2, <3>1, <3>2, <3>3
  <2> QED  BY <2>1, <2>2
<1> QED  BY <1>6, <1>7, <1>8 DEF United, new

\* The roots that correlate_findings ends with.
RootOf(s) == FoldSet(LAMBDA link, r : Union(r, link), [k \in DOMAIN s |-> k], Links(s))

LEMMA AllUnited ==
  ASSUME FindingsAssumption, WindowsAssumption, NEW S, OneEach(S), NEW s, s = ByTime(S)
  PROVE  United(RootOf(s), Links(s), s, S)
<1> DEFINE L == Links(s)
           base == [k \in DOMAIN s |-> k]
           pick == [t \in SUBSET L |-> CHOOSE x \in t : TRUE]
           step == [t \in SUBSET L |-> [r \in Roots(s) |-> Union(r, pick[t])]]
           Folds(it) == it = [t \in SUBSET L |->
                                 IF t = {} THEN base
                                 ELSE Union(it[t \ {CHOOSE x \in t : TRUE}], CHOOSE x \in t : TRUE)]
<1>1. /\ Len(s) \in Nat /\ DOMAIN s = 1..Len(s) /\ IsFiniteSet(L)
      /\ \A k \in 1..Len(s) : s[k] \in S
      /\ \A l \in L : l[1] \in 1..Len(s) /\ l[2] \in 1..Len(s)
  BY LinksAre
<1>2. base \in Roots(s) /\ \A k \in 1..Len(s) : base[k] = k
  BY <1>1 DEF Roots
<1>3. \A t \in SUBSET L : t # {} => pick[t] \in t /\ pick[t] = (CHOOSE x \in t : TRUE)
  OBVIOUS
<1>4. ASSUME NEW t \in SUBSET L, NEW r \in Roots(s), t # {}
      PROVE  step[t][r] \in Roots(s) /\ step[t][r] = Union(r, CHOOSE x \in t : TRUE)
  <2> DEFINE l == pick[t]
  <2>1. l \in L /\ l = (CHOOSE x \in t : TRUE)
    BY <1>3, <1>4
  <2>2. step[t][r] = Union(r, l)
    <3> HIDE DEF pick
    <3> QED  BY <1>4
  <2> HIDE DEF l, L
  <2>3. DOMAIN r = 1..Len(s) /\ \A k \in 1..Len(s) : r[k] \in 1..Len(s)
    BY DEF Roots
  <2>4. Min({r[l[1]], r[l[2]]}) \in 1..Len(s)
    <3>1. r[l[1]] \in 1..Len(s) /\ r[l[2]] \in 1..Len(s)
      BY <1>1, <2>1, <2>3
    <3> QED  BY <1>1, <3>1, MinOfTwo
  <2>5. Union(r, l) \in Roots(s)
    BY <2>3, <2>4 DEF Union, Roots
  <2> QED  BY <2>1, <2>2, <2>5
<1>5. PICK g \in FoldsOf(L, SUBSET L, Roots(s), base, pick, step) : TRUE
  <2> HIDE DEF L, base, pick, step
  <2>1. \A t \in SUBSET L : t # {} => pick[t] \in t
    BY <1>3
  <2>2. \A t \in SUBSET L, r \in Roots(s) : t # {} => step[t][r] \in Roots(s)
    BY <1>4
  <2> QED  BY <1>1, <1>2, <2>1, <2>2, FoldExists
<1>6. Folds(g)
  <2> HIDE DEF L, base, pick, step
  <2>1. g \in [SUBSET L -> Roots(s)] /\ \A t \in SUBSET L :
            g[t] = IF t = {} THEN base ELSE step[t][g[t \ {pick[t]}]]
    BY <1>5 DEF FoldsOf
  <2>2. \A t \in SUBSET L : t # {} => pick[t] = (CHOOSE x \in t : TRUE)
    BY <1>3
  <2>3. ASSUME NEW t \in SUBSET L
        PROVE  g[t] = IF t = {} THEN base
                      ELSE Union(g[t \ {CHOOSE x \in t : TRUE}], CHOOSE x \in t : TRUE)
    <3>1. CASE t # {}
      <4>1. g[t \ {pick[t]}] \in Roots(s)
        BY <2>1
      <4>2. step[t][g[t \ {pick[t]}]] = Union(g[t \ {pick[t]}], CHOOSE x \in t : TRUE)
        BY <3>1, <4>1, <1>4
      <4> QED  BY <2>1, <2>2, <3>1, <4>2
    <3>2. CASE t = {}
      BY <2>1, <3>2
    <3> QED  BY <3>1, <3>2
  <2> QED  BY <2>1, <2>3
<1> DEFINE iter == CHOOSE it : Folds(it)
<1>7. Folds(iter)
  <2> HIDE DEF Folds
  <2> QED  BY <1>6
<1>8. RootOf(s) = iter[L]
  BY Zenon DEF RootOf, FoldSet, MapThenFoldSet
<1> HIDE DEF iter
<1>9. \A t \in SUBSET L : IsFiniteSet(t) /\ Cardinality(t) \in Nat
  BY <1>1, FS_Subset, FS_CardinalityType
<1> DEFINE T == {n \in Nat : \A t \in SUBSET L : Cardinality(t) = n => United(iter[t], t, s, S)}
<1>10. United(base, {}, s, S)
  <2>1. \A k \in 1..Len(s) : Together(s, S, k, k)
    BY <1>1, JoinedSelf DEF Together
  <2> HIDE DEF base
  <2> QED  BY <1>2, <2>1 DEF United
<1> HIDE DEF base
<1>11. 0 \in T
  <2>1. \A t \in SUBSET L : Cardinality(t) = 0 => t = {}
    BY <1>9, FS_EmptySet
  <2>2. iter[{}] = base
    BY <1>7
  <2> QED  BY <2>1, <2>2, <1>10
<1>12. ASSUME NEW n \in Nat, n \in T PROVE n + 1 \in T
  <2> SUFFICES ASSUME NEW t \in SUBSET L, Cardinality(t) = n + 1
               PROVE  United(iter[t], t, s, S)
    OBVIOUS
  <2> DEFINE x == CHOOSE y \in t : TRUE
  <2>1. t # {}
    <3>1. Cardinality(t) # 0
      OBVIOUS
    <3> QED  BY <3>1, FS_EmptySet
  <2>2. x \in t
    BY <2>1
  <2>3. iter[t] = Union(iter[t \ {x}], x)
    BY <1>7, <2>1
  <2> HIDE DEF x
  <2>4. Cardinality(t \ {x}) = n /\ t \ {x} \in SUBSET L /\ (t \ {x}) \cup {x} = t
    BY <2>2, <1>9, FS_RemoveElement
  <2>5. United(iter[t \ {x}], t \ {x}, s, S)
    BY <1>12, <2>4
  <2> HIDE DEF T, L
  <2>6. t \ {x} \in SUBSET Links(s) /\ x \in Links(s)
    BY <2>2, <2>4 DEF L
  <2>7. United(Union(iter[t \ {x}], x), (t \ {x}) \cup {x}, s, S)
    BY <2>5, <2>6, UnionUnites
  <2> QED  BY <2>3, <2>4, <2>7
<1>13. Cardinality(L) \in T
  <2>1. Nat \subseteq T
    <3> HIDE DEF T
    <3> QED  BY <1>11, <1>12, Induct
  <2>2. L \in SUBSET L
    OBVIOUS
  <2> QED  BY <2>1, <2>2, <1>9
<1>14. United(iter[L], L, s, S)
  BY <1>13
<1> QED  BY <1>8, <1>14 DEF L

\* Near instances end with one root, by the instances of their entity between.
LEMMA NearUnited ==
  ASSUME FindingsAssumption, WindowsAssumption, NEW S, OneEach(S), NEW s, s = ByTime(S),
         NEW root, United(root, Links(s), s, S)
  PROVE  \A a, b \in 1..Len(s) : a <= b /\ Near(s[a], s[b]) => root[a] = root[b]
<1> DEFINE T == {n \in Nat : \A a, b \in 1..Len(s) :
                    a <= b /\ b - a <= n /\ Near(s[a], s[b]) => root[a] = root[b]}
<1>1. /\ Len(s) \in Nat /\ DOMAIN s = 1..Len(s)
      /\ \A k \in 1..Len(s) : s[k] \in S /\ s[k].f.time \in Int
  BY LinksAre
<1>2. Timely(s)
  BY ByTimeLists
<1>3. 0 \in T
  OBVIOUS
<1>4. ASSUME NEW n \in Nat, n \in T PROVE n + 1 \in T
  <2> SUFFICES ASSUME NEW a \in 1..Len(s), NEW b \in 1..Len(s), a <= b, b - a <= n + 1,
                      Near(s[a], s[b])
               PROVE  root[a] = root[b]
    OBVIOUS
  <2>0. \A c, d \in 1..Len(s) : c <= d /\ d - c <= n /\ Near(s[c], s[d]) => root[c] = root[d]
    BY <1>4
  <2> HIDE DEF T
  <2>1. CASE a = b
    BY <2>1
  <2>2. CASE a < b
    <3>1. PICK e : e \in Ents(s[a]) \cap Ents(s[b])
      BY DEF Near
    <3>2. s[b].f.time - s[a].f.time <= Window /\ Window \in Nat
      BY <1>1 DEF Near, WindowsAssumption
    <3> DEFINE K == {k \in a..(b - 1) : e \in Ents(s[k])}
    <3>3. K \in SUBSET (0..Len(s)) /\ K # {}
      <4>1. a \in K
        BY <2>2, <3>1
      <4>2. \A k \in K : k \in 0..Len(s)
        BY <1>1
      <4> QED  BY <4>1, <4>2
    <3>4. PICK k \in K : \A y \in K : y <= k
      <4> HIDE DEF K
      <4> QED  BY <1>1, <3>3, Greatest
    <3>5. /\ k \in 1..Len(s) /\ a <= k /\ k < b /\ e \in Ents(s[k])
          /\ \A j \in (k + 1)..(b - 1) : e \notin Ents(s[j])
      <4>1. \A j \in (k + 1)..(b - 1) : j \in a..(b - 1) /\ ~(j <= k)
        BY <1>1
      <4>2. \A j \in (k + 1)..(b - 1) : j \notin K
        BY <3>4, <4>1
      <4>3. \A j \in (k + 1)..(b - 1) : e \notin Ents(s[j])
        BY <4>1, <4>2
      <4>4. k \in 1..Len(s) /\ a <= k /\ k < b /\ e \in Ents(s[k])
        BY <1>1
      <4> QED  BY <4>3, <4>4
    <3> HIDE DEF K
    <3>6. s[a].f.time <= s[k].f.time /\ s[k].f.time <= s[b].f.time
      BY <1>2, <3>5 DEF Timely
    <3>7. s[a].f.time \in Int /\ s[k].f.time \in Int /\ s[b].f.time \in Int
      BY <1>1, <3>5
    <3>8. s[b].f.time - s[k].f.time <= Window
      BY <3>2, <3>6, <3>7, SMTT(30)
    <3>9. <<k, b>> \in Links(s)
      <4>1. <<k, b>> \in (DOMAIN s) \X (DOMAIN s)
        BY <1>1, <3>5
      <4>2. e \in Ents(s[k]) \cap Ents(s[b])
        BY <3>1, <3>5
      <4>3. \E x \in Ents(s[k]) \cap Ents(s[b]) : \A j \in (k + 1)..(b - 1) : x \notin Ents(s[j])
        BY <3>5, <4>2
      <4> QED  BY <3>5, <3>8, <4>1, <4>3 DEF Links
    <3>10. root[k] = root[b]
      BY <3>9 DEF United
    <3>11. Near(s[a], s[k])
      <4>1. e \in Ents(s[a]) \cap Ents(s[k])
        BY <3>1, <3>5
      <4>2. s[a].f.time - s[k].f.time \in (-Window)..Window
        BY <3>2, <3>6, <3>7, SMTT(30)
      <4> QED  BY <4>1, <4>2 DEF Near
    <3>12. k - a <= n
      BY <3>5, <1>1
    <3>13. root[a] = root[k]
      BY <2>0, <3>5, <3>11, <3>12
    <3> QED  BY <3>10, <3>13
  <2> QED  BY <1>1, <2>1, <2>2
<1>5. Nat \subseteq T
  <2> HIDE DEF T
  <2> QED  BY <1>3, <1>4, Induct
<1> SUFFICES ASSUME NEW a \in 1..Len(s), NEW b \in 1..Len(s), a <= b, Near(s[a], s[b])
             PROVE  root[a] = root[b]
  OBVIOUS
<1>6. b - a \in Nat
  BY <1>1
<1>7. b - a \in T /\ b - a <= b - a
  BY <1>5, <1>6
<1> QED  BY <1>7

\* Two instances have one root exactly when they are connected.
LEMMA RootsAreComponents ==
  ASSUME FindingsAssumption, WindowsAssumption, NEW S, OneEach(S), NEW s, s = ByTime(S)
  PROVE  /\ RootOf(s) \in Roots(s)
         /\ \A j, k \in 1..Len(s) : RootOf(s)[j] = RootOf(s)[k] <=> Together(s, S, j, k)
<1> DEFINE root == RootOf(s)
<1>1. United(root, Links(s), s, S)
  BY AllUnited
<1>2. /\ Len(s) \in Nat /\ \A k \in 1..Len(s) : s[k] \in S /\ s[k].f.time \in Int
      /\ \A x \in S : x.f.time \in Int
  BY LinksAre
<1>3. Lists(s, S)
  BY ByTimeLists
<1> HIDE DEF root
<1>4. \A a, b \in 1..Len(s) : Near(s[a], s[b]) => root[a] = root[b]
  <2> SUFFICES ASSUME NEW a \in 1..Len(s), NEW b \in 1..Len(s), Near(s[a], s[b])
               PROVE  root[a] = root[b]
    OBVIOUS
  <2>1. Near(s[b], s[a])
    BY <1>2, NearSym
  <2>2. a <= b \/ b <= a
    BY <1>2
  <2> QED  BY <1>1, <2>1, <2>2, NearUnited
<1>5. ASSUME NEW j \in 1..Len(s), NEW k \in 1..Len(s), Together(s, S, j, k)
      PROVE  root[j] = root[k]
  <2> DEFINE C == {s[m] : m \in {o \in 1..Len(s) : root[o] = root[j]}}
  <2>1. C \in SUBSET S /\ s[j] \in C
    BY <1>2
  <2>2. Closed(C, S)
    <3> SUFFICES ASSUME NEW x \in C, NEW y \in S, Near(x, y) PROVE y \in C
      BY DEF Closed
    <3>1. PICK m \in 1..Len(s) : x = s[m] /\ root[m] = root[j]
      OBVIOUS
    <3>2. PICK o \in 1..Len(s) : y = s[o]
      BY <1>3 DEF Lists
    <3>3. root[o] = root[m]
      BY <3>1, <3>2, <1>4
    <3> QED  BY <3>1, <3>2, <3>3
  <2>3. s[k] \in C
    <3> HIDE DEF C
    <3> QED  BY <1>5, <2>1, <2>2, JoinedIs DEF Together
  <2>4. PICK m \in 1..Len(s) : s[k] = s[m] /\ root[m] = root[j]
    BY <2>3
  <2> QED  BY <2>4, <1>3 DEF Lists
<1>6. \A j, k \in 1..Len(s) : root[j] = root[k] => Together(s, S, j, k)
  BY <1>1 DEF United
<1> QED  BY <1>1, <1>5, <1>6 DEF United, root

LEMMA InOrderLists ==
  ASSUME NEW R \in SUBSET Nat, IsFiniteSet(R)
  PROVE  Lists(InOrder(R), R) /\ DOMAIN InOrder(R) = 1..Cardinality(R)
<1> DEFINE P == {p \in R \X R : p[1] < p[2]}
<1>1. \A x, y \in R : <<x, y>> \in P <=> x < y
  OBVIOUS
<1>2. \A x \in R : Lower(x, R, P) = Below(R, x)
  BY <1>1 DEF Lower, Below
<1> HIDE DEF P
<1>3. Orders(R, P)
  BY <1>1 DEF Orders
<1>4. Ranks(InOrder(R), R, P)
  <2> DEFINE n == Cardinality(R)
             at(k) == CHOOSE x \in R : Cardinality(Below(R, x)) = k - 1
  <2>1. InOrder(R) = [k \in 1..n |-> at(k)]
    BY Zenon DEF InOrder
  <2>2. InOrder(R) = [k \in 1..n |-> InOrder(R)[k]]
    <3> HIDE DEF at, n
    <3> QED  BY <2>1
  <2>3. ASSUME NEW k \in 1..n, \E x \in R : Cardinality(Lower(x, R, P)) = k - 1
        PROVE  InOrder(R)[k] \in R /\ Cardinality(Lower(InOrder(R)[k], R, P)) = k - 1
    <3>1. \E x \in R : Cardinality(Below(R, x)) = k - 1
      BY <2>3, <1>2
    <3>2. at(k) \in R /\ Cardinality(Below(R, at(k))) = k - 1
      BY <3>1
    <3>3. InOrder(R)[k] = at(k)
      <4> HIDE DEF at
      <4> QED  BY <2>1
    <3> QED  BY <3>2, <3>3, <1>2
  <2> QED  BY <2>2, <2>3 DEF Ranks
<1>5. Lists(InOrder(R), R)
  BY <1>3, <1>4, Listing
<1>6. DOMAIN InOrder(R) = 1..Cardinality(R)
  BY DEF InOrder
<1> QED  BY <1>5, <1>6

\* What correlate_findings returns: the components of its findings, each once.
LEMMA ClustersOf ==
  ASSUME FindingsAssumption, WindowsAssumption, NEW S, OneEach(S),
         NEW cs, cs = CorrelateFindings(S)
  PROVE  /\ \E n \in Nat : DOMAIN cs = 1..n /\ cs = [m \in 1..n |-> cs[m]]
         /\ \A n \in DOMAIN cs : \E i \in S : cs[n] = Component(i, S)
         /\ \A i \in S : \E n \in DOMAIN cs : cs[n] = Component(i, S)
         /\ \A m, n \in DOMAIN cs : m # n => cs[m] \cap cs[n] = {}
<1> DEFINE s == ByTime(S)
           root == RootOf(s)
           R == {root[k] : k \in DOMAIN s}
           roots == InOrder(R)
           grp(r) == {s[k] : k \in {j \in DOMAIN s : root[j] = r}}
<1>1. Lists(s, S) /\ Len(s) \in Nat /\ DOMAIN s = 1..Len(s)
  BY ByTimeLists, LinksAre
<1>2. /\ root \in Roots(s)
      /\ \A j, k \in 1..Len(s) : root[j] = root[k] <=> Together(s, S, j, k)
  BY RootsAreComponents
<1>3. cs = [n \in DOMAIN roots |-> grp(roots[n])]
  BY Zenon DEF CorrelateFindings, RootOf
<1> HIDE DEF s, root
<1>4. R \in SUBSET Nat /\ IsFiniteSet(R)
  <2>1. \A k \in 1..Len(s) : root[k] \in 1..Len(s)
    BY <1>2 DEF Roots
  <2>2. R \in SUBSET (1..Len(s)) /\ IsFiniteSet(1..Len(s))
    <3>1. IsFiniteSet(1..Len(s))
      BY <1>1, FS_Interval
    <3>2. R \in SUBSET (1..Len(s))
      BY <1>1, <2>1
    <3> QED  BY <3>1, <3>2
  <2>3. IsFiniteSet(R)
    BY <2>2, FS_Subset
  <2> QED  BY <2>2, <2>3
<1>5. Lists(roots, R) /\ DOMAIN roots = 1..Cardinality(R)
  <2> HIDE DEF R
  <2> QED  BY <1>4, InOrderLists
<1> HIDE DEF roots, R
<1>6. /\ Cardinality(R) \in Nat /\ DOMAIN cs = 1..Cardinality(R) /\ Len(roots) = Cardinality(R)
      /\ cs = [n \in 1..Cardinality(R) |-> cs[n]]
      /\ \A n \in DOMAIN cs : cs[n] = grp(roots[n]) /\ roots[n] \in R
  <2>1. Cardinality(R) \in Nat /\ Len(roots) = Cardinality(R) /\ \A n \in DOMAIN roots : roots[n] \in R
    BY <1>5 DEF Lists
  <2> HIDE DEF grp
  <2>2. DOMAIN cs = DOMAIN roots /\ \A n \in DOMAIN roots : cs[n] = grp(roots[n])
    BY <1>3
  <2>3. cs = [n \in 1..Cardinality(R) |-> cs[n]]
    BY <1>3, <1>5
  <2> QED  BY <2>1, <2>2, <2>3, <1>5
<1>7. \A k \in 1..Len(s) : s[k] \in S
  BY <1>1 DEF Lists
<1>8. ASSUME NEW k \in 1..Len(s) PROVE grp(root[k]) = Component(s[k], S)
  <2>1. \A x \in grp(root[k]) : x \in Component(s[k], S)
    BY <1>1, <1>2 DEF Together, Joined
  <2>2. ASSUME NEW x \in Component(s[k], S) PROVE x \in grp(root[k])
    <3>1. x \in S /\ Joined(s[k], x, S)
      BY <1>7 DEF Component, Joined
    <3>2. PICK j \in 1..Len(s) : s[j] = x
      BY <1>1, <3>1 DEF Lists
    <3>3. root[j] = root[k]
      BY <1>2, <3>1, <3>2 DEF Together
    <3> QED  BY <1>1, <3>2, <3>3
  <2> QED  BY <2>1, <2>2
<1>9. \A n \in DOMAIN cs : \E i \in S : cs[n] = Component(i, S)
  <2> SUFFICES ASSUME NEW n \in DOMAIN cs PROVE \E i \in S : cs[n] = Component(i, S)
    OBVIOUS
  <2>1. PICK k \in 1..Len(s) : roots[n] = root[k]
    BY <1>1, <1>6 DEF R
  <2> HIDE DEF grp
  <2> QED  BY <2>1, <1>6, <1>7, <1>8
<1>10. \A i \in S : \E n \in DOMAIN cs : cs[n] = Component(i, S)
  <2> SUFFICES ASSUME NEW i \in S PROVE \E n \in DOMAIN cs : cs[n] = Component(i, S)
    OBVIOUS
  <2>1. PICK k \in 1..Len(s) : s[k] = i
    BY <1>1 DEF Lists
  <2>2. root[k] \in R
    BY <1>1 DEF R
  <2>3. PICK n \in 1..Len(roots) : roots[n] = root[k]
    BY <1>5, <2>2 DEF Lists
  <2> HIDE DEF grp
  <2> QED  BY <2>1, <2>3, <1>6, <1>8
<1>11. \A m, n \in DOMAIN cs : m # n => cs[m] \cap cs[n] = {}
  <2> SUFFICES ASSUME NEW m \in DOMAIN cs, NEW n \in DOMAIN cs, NEW x \in cs[m], x \in cs[n]
               PROVE  m = n
    OBVIOUS
  <2>1. PICK j \in 1..Len(s) : s[j] = x /\ root[j] = roots[m]
    BY <1>1, <1>6
  <2>2. PICK k \in 1..Len(s) : s[k] = x /\ root[k] = roots[n]
    BY <1>1, <1>6
  <2>3. j = k
    BY <1>1, <2>1, <2>2 DEF Lists
  <2>4. roots[m] = roots[n] /\ m \in 1..Len(roots) /\ n \in 1..Len(roots)
    BY <1>6, <2>1, <2>2, <2>3
  <2> QED  BY <1>5, <2>4 DEF Lists
<1> QED  BY <1>6, <1>9, <1>10, <1>11

LEMMA ClustersCover ==
  ASSUME FindingsAssumption, WindowsAssumption, NEW S, OneEach(S)
  PROVE  ToSet(CorrelateFindings(S)) = {Component(i, S) : i \in S}
<1> DEFINE cs == CorrelateFindings(S)
<1>1. /\ \A n \in DOMAIN cs : \E i \in S : cs[n] = Component(i, S)
      /\ \A i \in S : \E n \in DOMAIN cs : cs[n] = Component(i, S)
  BY ClustersOf
<1> HIDE DEF cs
<1>2. ToSet(cs) = {Component(i, S) : i \in S}
  BY <1>1 DEF ToSet
<1> QED  BY <1>2 DEF cs

-------------------------------------------------------------------------------
(* Which stored incident a cluster joins.                                  *)

Stored == [fs : SUBSET Instances, open : BOOLEAN, updated : Nat, orphan : BOOLEAN]

\* The incidents as they are stored: sets of instances that were saved before.
IncidentsOk == /\ incidents \in Seq(Stored)
               /\ \A n \in 1..Len(incidents) : IsFiniteSet(incidents[n].fs)

LEMMA SumType ==
  ASSUME NEW S \in SUBSET Instances, IsFiniteSet(S)
  PROVE  MapThenSumSet(LAMBDA i : i.risk, S) \in Int
<1> DEFINE pick == [t \in SUBSET S |-> CHOOSE x \in t : TRUE]
           step == [t \in SUBSET S |-> [a \in Int |-> pick[t].risk + a]]
           Folds(it) == it = [t \in SUBSET S |->
                                 IF t = {} THEN 0
                                 ELSE (CHOOSE x \in t : TRUE).risk + it[t \ {CHOOSE x \in t : TRUE}]]
<1>1. \A t \in SUBSET S : t # {} => pick[t] \in t /\ pick[t] = (CHOOSE x \in t : TRUE) /\ pick[t].risk \in Int
  <2>1. \A t \in SUBSET S : t # {} => pick[t] \in t /\ pick[t] = (CHOOSE x \in t : TRUE)
    OBVIOUS
  <2>2. \A x \in S : x.risk \in Int
    BY DEF Instances
  <2> HIDE DEF pick
  <2> QED  BY <2>1, <2>2
<1>2. ASSUME NEW t \in SUBSET S, NEW a \in Int, t # {}
      PROVE  step[t][a] \in Int /\ step[t][a] = (CHOOSE x \in t : TRUE).risk + a
  <2> DEFINE l == pick[t]
  <2>1. l.risk \in Int /\ l = (CHOOSE x \in t : TRUE)
    BY <1>1, <1>2
  <2>2. step[t][a] = l.risk + a
    <3> HIDE DEF pick
    <3> QED  BY <1>2
  <2> HIDE DEF l, step
  <2> QED  BY <2>1, <2>2
<1>3. PICK g \in FoldsOf(S, SUBSET S, Int, 0, pick, step) : TRUE
  <2> HIDE DEF pick, step
  <2>1. \A t \in SUBSET S : t # {} => pick[t] \in t
    BY <1>1
  <2>2. \A t \in SUBSET S, a \in Int : t # {} => step[t][a] \in Int
    BY <1>2
  <2>3. 0 \in Int
    OBVIOUS
  <2> QED  BY <2>1, <2>2, <2>3, FoldExists
<1>4. Folds(g)
  <2> HIDE DEF pick, step
  <2>1. g \in [SUBSET S -> Int] /\ \A t \in SUBSET S :
            g[t] = IF t = {} THEN 0 ELSE step[t][g[t \ {pick[t]}]]
    BY <1>3 DEF FoldsOf
  <2>2. ASSUME NEW t \in SUBSET S
        PROVE  g[t] = IF t = {} THEN 0
                      ELSE (CHOOSE x \in t : TRUE).risk + g[t \ {CHOOSE x \in t : TRUE}]
    <3>1. CASE t # {}
      <4>1. g[t \ {pick[t]}] \in Int
        BY <2>1
      <4>2. pick[t] = (CHOOSE x \in t : TRUE)
        BY <1>1, <3>1
      <4>3. step[t][g[t \ {pick[t]}]] = (CHOOSE x \in t : TRUE).risk + g[t \ {pick[t]}]
        BY <3>1, <4>1, <1>2
      <4>4. g[t] = step[t][g[t \ {pick[t]}]]
        BY <2>1, <3>1
      <4> QED  BY <3>1, <4>2, <4>3, <4>4, Zenon
    <3>2. CASE t = {}
      BY <2>1, <3>2
    <3> QED  BY <3>1, <3>2
  <2> QED  BY <2>1, <2>2
<1> DEFINE iter == CHOOSE it : Folds(it)
<1>5. Folds(iter)
  <2> HIDE DEF Folds
  <2> QED  BY <1>4
<1>6. MapThenSumSet(LAMBDA i : i.risk, S) = iter[S]
  BY Zenon DEF MapThenSumSet, MapThenFoldSet
<1> HIDE DEF iter
<1>7. \A t \in SUBSET S : IsFiniteSet(t) /\ Cardinality(t) \in Nat
  BY FS_Subset, FS_CardinalityType
<1> DEFINE T == {n \in Nat : \A t \in SUBSET S : Cardinality(t) = n => iter[t] \in Int}
<1>8. 0 \in T
  <2>1. \A t \in SUBSET S : Cardinality(t) = 0 => t = {}
    BY <1>7, FS_EmptySet
  <2>2. iter[{}] = 0
    BY <1>5
  <2>3. ASSUME NEW t \in SUBSET S, Cardinality(t) = 0 PROVE iter[t] \in Int
    <3> HIDE DEF Folds, pick, step, T
    <3>1. t = {}
      BY <2>1, <2>3
    <3>2. iter[t] = 0
      BY <3>1, <2>2
    <3> QED  BY <3>2
  <2> HIDE DEF Folds
  <2> QED  BY <2>3
<1>9. ASSUME NEW n \in Nat, n \in T PROVE n + 1 \in T
  <2> SUFFICES ASSUME NEW t \in SUBSET S, Cardinality(t) = n + 1 PROVE iter[t] \in Int
    OBVIOUS
  <2>1. t # {}
    <3>1. Cardinality(t) # 0
      OBVIOUS
    <3> QED  BY <3>1, FS_EmptySet
  <2>2. pick[t] \in t /\ pick[t].risk \in Int /\ pick[t] = (CHOOSE x \in t : TRUE)
    BY <1>1, <2>1
  <2> HIDE DEF pick
  <2>3. iter[t] = pick[t].risk + iter[t \ {pick[t]}]
    BY <1>5, <2>1, <2>2
  <2> HIDE DEF step, Folds
  <2> DEFINE x == pick[t]
  <2> HIDE DEF x
  <2>6. x \in t
    BY <2>2 DEF x
  <2>7. IsFiniteSet(t) /\ Cardinality(t \ {x}) = Cardinality(t) - 1
    BY <2>6, <1>7, FS_RemoveElement
  <2>4. Cardinality(t \ {pick[t]}) = n /\ t \ {pick[t]} \in SUBSET S
    BY <2>7 DEF x
  <2>5. iter[t \ {pick[t]}] \in Int
    BY <1>9, <2>4
  <2> QED  BY <2>2, <2>3, <2>5
<1>10. Cardinality(S) \in T
  <2>1. Nat \subseteq T
    <3> HIDE DEF T
    <3> QED  BY <1>8, <1>9, Induct
  <2> QED  BY <2>1, <1>7
<1> QED  BY <1>6, <1>10

LEMMA IncidentRiskIs ==
  ASSUME NEW S \in SUBSET Instances, IsFiniteSet(S)
  PROVE  IncidentRisk(S) \in Int /\ IncidentRisk(S) <= 1000
<1> DEFINE x == MapThenSumSet(LAMBDA i : i.risk, S)
<1>1. x \in Int
  BY SumType
<1>2. IncidentRisk(S) = Min({1000, x})
  BY DEF IncidentRisk
<1> HIDE DEF x
<1>3. CASE 1000 <= x
  BY <1>1, <1>2, <1>3 DEF Min
<1>4. CASE x <= 1000
  BY <1>1, <1>2, <1>4 DEF Min
<1> QED  BY <1>1, <1>3, <1>4

\* The highest risk, and of those that have it the oldest.
LEMMA TargetIs ==
  ASSUME IncidentsOk, NEW c, NEW st \in SUBSET (1..Len(incidents))
  PROVE  \/ Target(c, st) = 0
         \/ Target(c, st) \in st /\ Linked(c, incidents[Target(c, st)].fs)
<1> DEFINE hits == {n \in st : Linked(c, incidents[n].fs)}
           risk == [n \in 1..Len(incidents) |-> IncidentRisk(incidents[n].fs)]
           Best(n) == \A m \in hits : risk[n] > risk[m] \/ (risk[n] = risk[m] /\ n <= m)
<1>0. Len(incidents) \in Nat /\ \A n \in 1..Len(incidents) : incidents[n].fs \in SUBSET Instances
  <2> HIDE DEF hits, risk, Best
  <2>1. Len(incidents) \in Nat /\ \A n \in 1..Len(incidents) : incidents[n] \in Stored
    BY DEF IncidentsOk
  <2>2. \A x \in Stored : x.fs \in SUBSET Instances
    BY DEF Stored
  <2> QED  BY <2>1, <2>2
<1>1. \A n \in hits : n \in 1..Len(incidents) /\ n \in Nat /\ risk[n] \in Int /\ risk[n] <= 1000
  <2> SUFFICES ASSUME NEW n \in hits
               PROVE  n \in 1..Len(incidents) /\ n \in Nat /\ risk[n] \in Int /\ risk[n] <= 1000
    OBVIOUS
  <2>1. n \in 1..Len(incidents) /\ n \in Nat
    BY <1>0
  <2>2. incidents[n].fs \in SUBSET Instances /\ IsFiniteSet(incidents[n].fs)
    BY <2>1, <1>0 DEF IncidentsOk
  <2> QED  BY <2>1, <2>2, IncidentRiskIs
<1>2. CASE hits = {}
  BY <1>2 DEF Target
<1>3. CASE hits # {}
  <2>1. Target(c, st) = CHOOSE n \in hits : Best(n)
    <3>1. \A n \in hits, m \in hits :
             /\ risk[n] = IncidentRisk(incidents[n].fs) /\ risk[m] = IncidentRisk(incidents[m].fs)
      BY <1>1
    <3>2. Target(c, st) = CHOOSE n \in hits : \A m \in hits :
              \/ IncidentRisk(incidents[n].fs) > IncidentRisk(incidents[m].fs)
              \/ IncidentRisk(incidents[n].fs) = IncidentRisk(incidents[m].fs) /\ n <= m
      BY <1>3, Zenon DEF Target
    <3> HIDE DEF hits, risk
    <3> QED  BY <3>1, <3>2
  <2> HIDE DEF risk
  <2> DEFINE U == {1000 - risk[n] : n \in hits}
  <2>2. U \in SUBSET Nat /\ U # {}
    <3> HIDE DEF hits
    <3> QED  BY <1>1, <1>3
  <2>3. PICK u \in U : \A v \in U : u <= v
    BY <2>2, Least
  <2>4. PICK a \in hits : u = 1000 - risk[a]
    BY <2>3
  <2> DEFINE V == {n \in hits : risk[n] = risk[a]}
  <2>5. V \in SUBSET Nat /\ V # {}
    <3> HIDE DEF hits
    <3> QED  BY <1>1
  <2>6. PICK b \in V : \A v \in V : b <= v
    BY <2>5, Least
  <2>7. b \in hits /\ Best(b)
    <3> HIDE DEF hits
    <3>1. b \in hits /\ risk[b] = risk[a]
      BY <2>6
    <3>2. ASSUME NEW m \in hits PROVE risk[b] > risk[m] \/ (risk[b] = risk[m] /\ b <= m)
      <4>1. 1000 - risk[m] \in U
        OBVIOUS
      <4>2. 1000 - risk[a] <= 1000 - risk[m]
        BY <4>1, <2>3, <2>4
      <4>3. risk[m] <= risk[a]
        BY <4>2, <1>1
      <4>4. risk[m] = risk[a] => b <= m
        BY <2>6
      <4> QED  BY <3>1, <4>3, <4>4, <1>1
    <3> QED  BY <3>1, <3>2
  <2>8. Target(c, st) \in hits
    <3> HIDE DEF hits, Best
    <3> QED  BY <2>1, <2>7
  <2> QED  BY <2>8
<1> QED  BY <1>2, <1>3

-------------------------------------------------------------------------------
(* Incidents stay one story when clusters join them.                       *)

Distinct(S) == \A i, j \in S : Same(i, j) => i = j
Connected(S) == \A i, j \in S : Joined(i, j, S)

LEMMA InstanceIs ==
  ASSUME FindingsAssumption
  PROVE  /\ \A i \in Instances : i.f.time \in Int /\ i.d \in Nat
         /\ \A i, j \in Instances : Same(i, j) <=> i.f = j.f
  BY DEF FindingsAssumption, Instances, Same

LEMMA ComponentConnected ==
  ASSUME WindowsAssumption, NEW S, \A x \in S : x.f.time \in Int, NEW i \in S
  PROVE  Connected(Component(i, S))
<1> DEFINE C == Component(i, S)
<1>1. \A x \in C : x \in S /\ Joined(i, x, S)
  BY DEF Component, Joined
<1>2. \A x \in C : Joined(i, x, C)
  BY <1>1, JoinedWithin
<1>3. \A x \in C : x.f.time \in Int
  BY <1>1
<1> HIDE DEF C
<1>4. \A x \in C : Joined(x, i, C)
  BY <1>2, <1>3, JoinedSym
<1>5. \A x, y \in C : Joined(x, y, C)
  BY <1>2, <1>4, JoinedTrans
<1> QED  BY <1>5 DEF Connected, C

\* Being near is a matter of the findings alone.
LEMMA NearOf ==
  ASSUME NEW i, NEW j, NEW x, NEW y, i.f = x.f, j.f = y.f, Near(i, j)
  PROVE  Near(x, y)
  BY DEF Near, Ents

\* What joins a story is connected to all of it, itself or, if it is not added
\* because the story holds it already, by what the story holds.
LEMMA LinkedJoins ==
  ASSUME FindingsAssumption, WindowsAssumption,
         NEW fs \in SUBSET Instances, Connected(fs), NEW A \in SUBSET Instances,
         NEW c \in SUBSET Instances, Connected(c), Linked(c, fs),
         \A x \in c : x \in A \/ \E j \in fs : Same(x, j),
         NEW o \in fs
  PROVE  \A x \in c : \E r \in fs \cup A : r.f = x.f /\ Joined(o, r, fs \cup A)
<1> DEFINE U == fs \cup A
           G == {x \in c : \E r \in U : r.f = x.f /\ Joined(o, r, U)}
<1>1. \A j \in fs : Joined(o, j, U)
  BY JoinedMore DEF Connected
<1>2. PICK i \in c, j \in fs : Near(j, i)
  <2>1. PICK i \in c, j \in fs : /\ i.f.ents \cap j.f.ents # {}
                                 /\ j.f.time - i.f.time \in (-Window)..Window
    BY DEF Linked
  <2>2. Near(j, i)
    BY <2>1 DEF Near, Ents
  <2> QED  BY <2>2
<1>3. ASSUME NEW x \in c, NEW y \in U, Joined(o, y, U), Near(y, x) PROVE x \in G
  <2>1. CASE x \in A
    <3>1. x \in U /\ Joined(y, x, U)
      BY <1>3, <2>1, JoinedNear
    <3>2. Joined(o, x, U)
      BY <1>3, <3>1, JoinedTrans
    <3> QED  BY <3>1, <3>2
  <2>2. CASE \E k \in fs : Same(x, k)
    <3>1. PICK k \in fs : Same(x, k)
      BY <2>2
    <3>2. k.f = x.f /\ k \in U
      BY <3>1, InstanceIs
    <3> QED  BY <1>1, <3>2
  <2> QED  BY <2>1, <2>2
<1>4. i \in G
  <2>1. j \in U /\ Joined(o, j, U)
    BY <1>1
  <2> HIDE DEF U, G
  <2> QED  BY <1>2, <1>3, <2>1
<1>5. Closed(G, c)
  <2> SUFFICES ASSUME NEW a \in G, NEW b \in c, Near(a, b) PROVE b \in G
    BY DEF Closed
  <2>1. PICK r \in U : r.f = a.f /\ Joined(o, r, U)
    OBVIOUS
  <2> HIDE DEF U, G
  <2>2. Near(r, b)
    BY <2>1, NearOf
  <2> QED  BY <1>3, <2>1, <2>2
<1>6. c \subseteq G
  <2>1. \A x \in c : Joined(i, x, c)
    BY DEF Connected
  <2>2. G \in SUBSET c
    OBVIOUS
  <2> HIDE DEF G
  <2> QED  BY <1>4, <1>5, <2>1, <2>2, JoinedIs
<1> QED  BY <1>6

LEMMA StoryGrows ==
  ASSUME FindingsAssumption, WindowsAssumption,
         NEW fs \in SUBSET Instances, Connected(fs), NEW S, OneEach(S), NEW M,
         \A c \in M : c \in SUBSET S /\ Connected(c) /\ Linked(c, fs),
         NEW A, A = {i \in UNION M : \A j \in fs : ~Same(i, j)}
  PROVE  Connected(fs \cup A)
<1> DEFINE U == fs \cup A
<1>1. A \in SUBSET S /\ S \in SUBSET Instances /\ \A i, j \in S : i.f = j.f => i = j
  BY DEF OneEach
<1>2. ASSUME NEW a \in U, NEW o \in fs PROVE Joined(o, a, U)
  <2>1. CASE a \in fs
    BY <2>1, JoinedMore DEF Connected
  <2>2. CASE a \in A
    <3>1. PICK c \in M : a \in c
      BY <2>2
    <3>2. c \in SUBSET Instances /\ Connected(c) /\ Linked(c, fs) /\ A \in SUBSET Instances
      BY <1>1
    <3>3. \A x \in c : x \in A \/ \E j \in fs : Same(x, j)
      OBVIOUS
    <3>4. PICK r \in U : r.f = a.f /\ Joined(o, r, U)
      <4> HIDE DEF U
      <4> QED  BY <3>1, <3>2, <3>3, LinkedJoins DEF U
    <3>5. CASE r \in fs
      <4>1. Same(a, r)
        BY <1>1, <2>2, <3>4, <3>5, InstanceIs
      <4> QED  BY <2>2, <3>5, <4>1
    <3>6. CASE r \in A
      <4>1. r = a
        BY <1>1, <2>2, <3>4, <3>6
      <4> QED  BY <3>4, <4>1
    <3> QED  BY <3>5, <3>6
  <2> QED  BY <2>1, <2>2
<1>3. ASSUME NEW a \in U PROVE \E o \in fs : Joined(o, a, U)
  <2>1. CASE a \in fs
    BY <1>2, <2>1
  <2>2. CASE a \in A
    <3>1. PICK c \in M : a \in c
      BY <2>2
    <3>2. \E o \in fs : TRUE
      BY <3>1 DEF Linked
    <3> QED  BY <1>2, <3>2
  <2> QED  BY <2>1, <2>2
<1>4. \A x \in U : x.f.time \in Int
  BY <1>1, InstanceIs
<1> HIDE DEF U
<1>5. ASSUME NEW a \in U, NEW b \in U PROVE Joined(a, b, U)
  <2>1. PICK o \in fs : Joined(o, a, U)
    BY <1>3
  <2>2. Joined(o, b, U)
    BY <1>2
  <2>3. Joined(a, o, U)
    BY <1>4, <2>1, JoinedSym
  <2> QED  BY <2>2, <2>3, JoinedTrans
<1> QED  BY <1>5 DEF Connected, U

-------------------------------------------------------------------------------
(* What merge_into_stored hands to the save.                               *)

Filed(i) == \E n \in 1..Len(incidents) : \E j \in incidents[n].fs : Same(i, j)

\* A merge: findings for an incident that holds none of them and stays one story.
Joining(m, kept) ==
  /\ m[1] \in 1..Len(incidents) /\ m[2] \in SUBSET kept
  /\ \A i \in m[2], j \in incidents[m[1]].fs : ~Same(i, j)
  /\ incidents[m[1]].orphan \/ Connected(incidents[m[1]].fs \cup m[2])

\* A result that waits to be saved: each finding that was kept is in one part
\* of it, or is filed already.
Pending(kept, fresh, merges) ==
  /\ OneEach(kept) /\ \A i \in kept : i.d = clock
  /\ fresh \in Seq(SUBSET kept) /\ \A n \in 1..Len(fresh) : Connected(fresh[n])
  /\ IsFiniteSet(merges) /\ \A m \in merges : Joining(m, kept)
  /\ \A m, n \in 1..Len(fresh) : m # n => fresh[m] \cap fresh[n] = {}
  /\ \A m, n \in merges : m # n => m[1] # n[1] /\ m[2] \cap n[2] = {}
  /\ \A n \in 1..Len(fresh), m \in merges : fresh[n] \cap m[2] = {}
  /\ \A i \in kept : \/ \E n \in 1..Len(fresh) : i \in fresh[n]
                     \/ \E m \in merges : i \in m[2]
                     \/ Filed(i)

\* The stored incidents: disjoint stories of what was saved before.
StoriesOk ==
  /\ IncidentsOk
  /\ \A n \in 1..Len(incidents) :
        /\ Distinct(incidents[n].fs) /\ (incidents[n].orphan \/ Connected(incidents[n].fs))
        /\ \A i \in incidents[n].fs : i.d < clock
  /\ \A m, n \in 1..Len(incidents) : m # n => incidents[m].fs \cap incidents[n].fs = {}

LEMMA MergeIs ==
  ASSUME FindingsAssumption, WindowsAssumption, StoriesOk,
         NEW S, OneEach(S), \A i \in S : i.d = clock,
         NEW merged, merged = MergeIntoStored(S)
  PROVE  Pending(S, merged.fresh, merged.merges)
<1> DEFINE cs == CorrelateFindings(S)
           st == OpenIncidents(UNION {i.f.ents : i \in S})
           target == [n \in DOMAIN cs |-> Target(cs[n], st)]
           Free == {n \in DOMAIN cs : target[n] = 0}
           free == InOrder(Free)
           For(t) == {cs[n] : n \in {m \in DOMAIN cs : target[m] = t}}
           added(t) == {i \in UNION For(t) : \A j \in incidents[t].fs : ~Same(i, j)}
           targets == {t \in {target[n] : n \in DOMAIN cs} : t # 0 /\ added(t) # {}}
           L == Len(incidents)
<1>1. merged = [fresh |-> [n \in DOMAIN free |-> cs[free[n]]],
                merges |-> {<<t, added(t)>> : t \in targets}]
  BY Zenon DEF MergeIntoStored
<1>2. PICK N \in Nat : DOMAIN cs = 1..N
  BY ClustersOf
<1>3. /\ \A n \in 1..N : \E i \in S : cs[n] = Component(i, S)
      /\ \A i \in S : \E n \in 1..N : cs[n] = Component(i, S)
      /\ \A m, n \in 1..N : m # n => cs[m] \cap cs[n] = {}
  BY <1>2, ClustersOf
<1>4. L \in Nat /\ DOMAIN incidents = 1..L /\ st \in SUBSET (1..L)
  <2>1. L \in Nat /\ DOMAIN incidents = 1..L
    BY DEF StoriesOk, IncidentsOk
  <2>2. st \subseteq DOMAIN incidents
    BY DEF OpenIncidents
  <2> QED  BY <2>1, <2>2
<1>5. S \in SUBSET Instances /\ (\A x \in S : x.f.time \in Int) /\ IsFiniteSet(S)
  <2>1. S \in SUBSET Instances /\ IsFiniteSet(S)
    BY DEF OneEach
  <2> QED  BY <2>1, InstanceIs
<1> HIDE DEF cs, st
<1>6. ASSUME NEW n \in 1..N PROVE cs[n] \in SUBSET S /\ Connected(cs[n])
  <2>1. PICK i \in S : cs[n] = Component(i, S)
    BY <1>3
  <2>2. Connected(Component(i, S)) /\ Component(i, S) \in SUBSET S
    BY <1>5, ComponentConnected DEF Component
  <2> QED  BY <2>1, <2>2
<1>7. ASSUME NEW n \in 1..N
      PROVE  /\ target[n] \in 0..L
             /\ target[n] # 0 => target[n] \in 1..L /\ Linked(cs[n], incidents[target[n]].fs)
  <2>1. target[n] = Target(cs[n], st)
    BY <1>2
  <2> DEFINE t == Target(cs[n], st)
  <2>2. t = 0 \/ (t \in st /\ Linked(cs[n], incidents[t].fs))
    <3>1. IncidentsOk
      BY DEF StoriesOk
    <3> QED  BY <1>4, <3>1, TargetIs
  <2> HIDE DEF t, target
  <2>3. target[n] = t
    BY <2>1 DEF t
  <2>4. L \in Nat
    BY <1>4
  <2> HIDE DEF For, added, targets, L
  <2>5. CASE t = 0
    BY <2>3, <2>4, <2>5
  <2>6. CASE t \in st /\ Linked(cs[n], incidents[t].fs)
    <3>1. t \in 1..L
      BY <1>4, <2>6 DEF L
    <3>2. target[n] \in 1..L /\ target[n] \in 0..L
      BY <2>3, <2>4, <3>1
    <3> QED  BY <2>3, <2>6, <3>2
  <2> QED  BY <2>2, <2>5, <2>6
<1> HIDE DEF target, free
<1>8. Free \in SUBSET (1..N) /\ IsFiniteSet(Free) /\ Lists(free, Free) /\ DOMAIN free = 1..Len(free)
  <2>1. Free \in SUBSET (1..N) /\ IsFiniteSet(1..N)
    <3>1. IsFiniteSet(1..N)
      BY FS_Interval
    <3> QED  BY <1>2, <3>1
  <2> HIDE DEF Free
  <2>2. IsFiniteSet(Free) /\ Free \in SUBSET Nat
    <3>1. 1..N \subseteq Nat
      OBVIOUS
    <3> QED  BY <2>1, <3>1, FS_Subset
  <2>3. Lists(free, Free) /\ DOMAIN free = 1..Cardinality(Free)
    BY <2>2, InOrderLists DEF free
  <2> QED  BY <2>1, <2>2, <2>3 DEF Lists
<1> DEFINE fresh == merged.fresh
           merges == merged.merges
<1>9. fresh = [n \in 1..Len(free) |-> cs[free[n]]] /\ merges = {<<t, added(t)>> : t \in targets}
  <2> HIDE DEF added, targets
  <2> QED  BY <1>1, <1>8
<1>10. Len(free) \in Nat /\ \A n \in 1..Len(free) : free[n] \in 1..N /\ target[free[n]] = 0
  <2>1. Len(free) \in Nat /\ \A n \in 1..Len(free) : free[n] \in Free
    <3> HIDE DEF Free, fresh, merges, For, added, targets
    <3> QED  BY <1>8 DEF Lists
  <2> QED  BY <2>1, <1>2
<1> HIDE DEF Free, fresh, merges
<1>11. /\ fresh \in Seq(SUBSET S) /\ Len(fresh) = Len(free)
       /\ \A n \in 1..Len(free) : fresh[n] = cs[free[n]]
  <2>1. \A n \in 1..Len(free) : cs[free[n]] \in SUBSET S
    BY <1>6, <1>10
  <2>2. \A n \in 1..Len(free) : fresh[n] = cs[free[n]]
    BY <1>9
  <2>3. fresh \in [1..Len(free) -> SUBSET S]
    BY <1>9, <2>1
  <2> QED  BY <1>10, <2>2, <2>3
<1>12. \A n \in 1..Len(fresh) : Connected(fresh[n])
  BY <1>6, <1>10, <1>11
<1>13. \A m, n \in 1..Len(fresh) : m # n => fresh[m] \cap fresh[n] = {}
  <2> SUFFICES ASSUME NEW m \in 1..Len(free), NEW n \in 1..Len(free), m # n
               PROVE  fresh[m] \cap fresh[n] = {}
    BY <1>11
  <2>1. free[m] # free[n]
    BY <1>8 DEF Lists
  <2> QED  BY <2>1, <1>3, <1>10, <1>11
<1>14. \A t \in targets : t \in 1..L /\ t # 0
  BY <1>2, <1>7
<1>15. IsFiniteSet(merges)
  <2> HIDE DEF added
  <2> DEFINE at == [t \in targets |-> <<t, added(t)>>]
  <2>1. IsFiniteSet(targets)
    <3>1. IsFiniteSet(1..L)
      BY <1>4, FS_Interval
    <3>2. targets \in SUBSET (1..L)
      BY <1>14
    <3> HIDE DEF targets
    <3> QED  BY <3>1, <3>2, FS_Subset
  <2> HIDE DEF targets
  <2>2. at \in Surjection(targets, merges)
    BY <1>9 DEF Surjection
  <2> HIDE DEF at
  <2> QED  BY <2>1, <2>2, FS_Surjection
<1>16. ASSUME NEW t, NEW x \in UNION For(t)
       PROVE  x \in S /\ \E n \in 1..N : x \in cs[n] /\ target[n] = t
  <2>1. PICK n \in 1..N : x \in cs[n] /\ target[n] = t
    BY <1>2
  <2> QED  BY <2>1, <1>6
<1>17. ASSUME NEW m \in merges PROVE m[1] \in targets /\ m[2] = added(m[1])
  <2> HIDE DEF added, targets
  <2> QED  BY <1>9
<1>18. ASSUME NEW m \in merges PROVE Joining(m, S)
  <2> DEFINE t == m[1]
  <2>1. t \in 1..L /\ m[2] = added(t) /\ t # 0
    BY <1>14, <1>17
  <2>2. m[2] \in SUBSET S /\ \A i \in m[2], j \in incidents[t].fs : ~Same(i, j)
    <3> HIDE DEF t, For
    <3> QED  BY <1>16, <2>1
  <2>3. CASE incidents[t].orphan
    BY <1>4, <2>1, <2>2, <2>3 DEF Joining
  <2>4. CASE ~incidents[t].orphan
    <3> DEFINE fs == incidents[t].fs
               M == For(t)
               A == added(t)
    <3>1. fs \in SUBSET Instances /\ Connected(fs)
      <4>1. incidents[t] \in Stored
        BY <1>4, <2>1 DEF StoriesOk, IncidentsOk
      <4>2. Connected(fs)
        BY <2>1, <2>4 DEF StoriesOk
      <4> QED  BY <4>1, <4>2 DEF Stored
    <3>2. \A c \in M : c \in SUBSET S /\ Connected(c) /\ Linked(c, fs)
      <4> SUFFICES ASSUME NEW c \in M PROVE c \in SUBSET S /\ Connected(c) /\ Linked(c, fs)
        OBVIOUS
      <4>1. PICK n \in 1..N : c = cs[n] /\ target[n] = t
        BY <1>2
      <4> QED  BY <1>6, <1>7, <2>1, <4>1
    <3>3. A = {i \in UNION M : \A j \in fs : ~Same(i, j)}
      OBVIOUS
    <3> HIDE DEF fs, M, A
    <3>4. Connected(fs \cup A)
      BY <3>1, <3>2, <3>3, StoryGrows
    <3>5. Connected(incidents[t].fs \cup m[2])
      BY <2>1, <3>4 DEF fs, A
    <3> HIDE DEF t
    <3> QED  BY <2>1, <2>2, <3>5 DEF Joining, t
  <2> QED  BY <2>3, <2>4
<1>19. \A m, n \in merges : m # n => m[1] # n[1] /\ m[2] \cap n[2] = {}
  <2> SUFFICES ASSUME NEW m \in merges, NEW n \in merges, m # n
               PROVE  m[1] # n[1] /\ m[2] \cap n[2] = {}
    OBVIOUS
  <2>1. m = <<m[1], added(m[1])>> /\ n = <<n[1], added(n[1])>>
    <3> HIDE DEF added, targets
    <3> QED  BY <1>9
  <2>2. m[1] # n[1]
    <3> HIDE DEF added, targets
    <3> QED  BY <2>1
  <2>3. ASSUME NEW x \in m[2], x \in n[2] PROVE FALSE
    <3>1. x \in UNION For(m[1]) /\ x \in UNION For(n[1])
      BY <2>3, <1>17
    <3>2. PICK a \in 1..N : x \in cs[a] /\ target[a] = m[1]
      BY <3>1, <1>16
    <3>3. PICK b \in 1..N : x \in cs[b] /\ target[b] = n[1]
      BY <3>1, <1>16
    <3> QED  BY <1>3, <2>2, <3>2, <3>3
  <2> QED  BY <2>2, <2>3
<1>20. \A n \in 1..Len(fresh), m \in merges : fresh[n] \cap m[2] = {}
  <2> SUFFICES ASSUME NEW n \in 1..Len(free), NEW m \in merges, NEW x \in fresh[n], x \in m[2]
               PROVE  FALSE
    BY <1>11
  <2>1. x \in UNION For(m[1]) /\ m[1] # 0
    BY <1>14, <1>17
  <2>2. PICK a \in 1..N : x \in cs[a] /\ target[a] = m[1]
    BY <2>1, <1>16
  <2>3. x \in cs[free[n]] /\ free[n] \in 1..N /\ target[free[n]] = 0
    BY <1>10, <1>11
  <2> QED  BY <1>3, <2>1, <2>2, <2>3
<1>21. ASSUME NEW i \in S
       PROVE  \/ \E n \in 1..Len(fresh) : i \in fresh[n]
              \/ \E m \in merges : i \in m[2]
              \/ Filed(i)
  <2>1. PICK n \in 1..N : cs[n] = Component(i, S)
    BY <1>3
  <2>2. i \in cs[n]
    BY <2>1, JoinedSelf DEF Joined
  <2>3. CASE target[n] = 0
    <3>1. n \in Free
      BY <1>2, <2>3 DEF Free
    <3>2. PICK k \in 1..Len(free) : free[k] = n
      BY <1>8, <3>1 DEF Lists
    <3> QED  BY <1>11, <2>2, <3>2
  <2>4. CASE target[n] # 0
    <3> DEFINE t == target[n]
    <3>1. t \in 1..L
      BY <1>7, <2>4
    <3>2. CASE \E j \in incidents[t].fs : Same(i, j)
      BY <3>1, <3>2 DEF Filed
    <3>3. CASE \A j \in incidents[t].fs : ~Same(i, j)
      <4>1. i \in UNION For(t)
        BY <1>2, <2>2
      <4>2. i \in added(t)
        BY <3>3, <4>1
      <4>3. t \in targets
        BY <1>2, <2>4, <4>2
      <4>4. <<t, added(t)>> \in merges
        <5> HIDE DEF added, targets, t
        <5> QED  BY <1>9, <4>3
      <4> HIDE DEF added, t
      <4> QED  BY <4>2, <4>4
    <3> QED  BY <3>2, <3>3
  <2> QED  BY <2>3, <2>4
<1> HIDE DEF targets, added, For
<1>22. Pending(S, fresh, merges)
  BY <1>11, <1>12, <1>13, <1>15, <1>18, <1>19, <1>20, <1>21 DEF Pending
<1> QED  BY <1>22 DEF fresh, merges

\* Without a lookup each cluster opens an incident.
LEMMA LookupFailsIs ==
  ASSUME FindingsAssumption, WindowsAssumption, NEW S, OneEach(S), \A i \in S : i.d = clock,
         NEW merged, merged = LookupFails(S)
  PROVE  Pending(S, merged.fresh, merged.merges)
<1> DEFINE cs == CorrelateFindings(S)
<1>1. merged.fresh = cs /\ merged.merges = {}
  BY DEF LookupFails
<1>2. PICK n \in Nat : DOMAIN cs = 1..n /\ cs = [m \in 1..n |-> cs[m]]
  BY ClustersOf
<1>3. /\ \A m \in 1..n : \E i \in S : cs[m] = Component(i, S)
      /\ \A i \in S : \E m \in 1..n : cs[m] = Component(i, S)
      /\ \A k, m \in 1..n : k # m => cs[k] \cap cs[m] = {}
  BY <1>2, ClustersOf
<1> HIDE DEF cs
<1>4. \A x \in S : x.f.time \in Int
  BY InstanceIs DEF OneEach
<1>5. ASSUME NEW m \in 1..n PROVE cs[m] \in SUBSET S /\ Connected(cs[m])
  <2>1. PICK i \in S : cs[m] = Component(i, S)
    BY <1>3
  <2> QED  BY <1>4, <2>1, ComponentConnected DEF Component
<1>6. cs \in Seq(SUBSET S) /\ Len(cs) = n
  <2>1. cs \in [1..n -> SUBSET S]
    BY <1>2, <1>5
  <2> QED  BY <2>1
<1>7. ASSUME NEW i \in S PROVE \E m \in 1..n : i \in cs[m]
  <2>1. PICK m \in 1..n : cs[m] = Component(i, S)
    BY <1>3
  <2>2. i \in Component(i, S)
    BY DEF Component
  <2> QED  BY <2>1, <2>2
<1>8. IsFiniteSet({})
  BY FS_EmptySet
<1>9. Pending(S, cs, {})
  BY <1>3, <1>5, <1>6, <1>7, <1>8 DEF Pending
<1> QED  BY <1>1, <1>9

-------------------------------------------------------------------------------
(* What save_pipeline_result makes of it.                                  *)

LEMMA SetToSeqIs ==
  ASSUME NEW S, IsFiniteSet(S)
  PROVE  Lists(SetToSeq(S), S) /\ DOMAIN SetToSeq(S) = 1..Cardinality(S)
<1> DEFINE n == Cardinality(S)
           s == SetToSeq(S)
<1>1. n \in Nat /\ ExistsBijection(1..n, S)
  BY FS_CardinalityType
<1>2. \E r \in [1..n -> S] : IsInjective(r)
  BY <1>1 DEF ExistsBijection, Bijection, Injection
<1>3. s \in [1..n -> S] /\ IsInjective(s)
  BY <1>2 DEF SetToSeq
<1> HIDE DEF s
<1>4. s \in Injection(1..n, S)
  BY <1>3 DEF Injection
<1>5. IsFiniteSet(1..n) /\ Cardinality(1..n) = n
  BY <1>1, FS_Interval
<1>6. s \in Surjection(1..n, S)
  BY <1>1, <1>4, <1>5, FS_Injection
<1>7. \A x \in S : \E k \in 1..n : s[k] = x
  BY <1>6 DEF Surjection
<1>8. \A j, k \in 1..n : s[j] = s[k] => j = k
  BY <1>3 DEF IsInjective
<1>9. s \in Seq(S) /\ Len(s) = n /\ DOMAIN s = 1..n
  BY <1>1, <1>3
<1>10. Lists(s, S)
  BY <1>1, <1>7, <1>8, <1>9 DEF Lists
<1> QED  BY <1>9, <1>10 DEF s

\* The merges whose incident is still open, and what the others would have added.
Live(merges) == {m \in merges : incidents[m[1]].open}
Left(merges) == {m[2] : m \in merges \ Live(merges)}

\* Where the incidents come from that are stored after a save.
Sources(fresh, merges, orphans) ==
  /\ Lists(orphans, Left(merges)) /\ incidents' \in Seq(Stored)
  /\ Len(incidents') = Len(incidents) + Len(fresh) + Len(orphans)
  /\ \A n \in 1..Len(incidents) :
        /\ incidents'[n].orphan = incidents[n].orphan
        /\ \/ incidents'[n].fs = incidents[n].fs /\ \A m \in Live(merges) : m[1] # n
           \/ \E m \in Live(merges) : m[1] = n /\ incidents'[n].fs = incidents[n].fs \cup m[2]
  /\ \A k \in 1..Len(fresh) : /\ incidents'[Len(incidents) + k].fs = fresh[k]
  /\ \A k \in 1..Len(orphans) : /\ incidents'[Len(incidents) + Len(fresh) + k].fs = orphans[k]
                                /\ incidents'[Len(incidents) + Len(fresh) + k].orphan

LEMMA SaveIs ==
  ASSUME StoriesOk, clock \in Nat, Save,
         NEW kept, kept = held[1].kept, NEW fresh, fresh = held[1].fresh,
         NEW merges, merges = held[1].merges, Pending(kept, fresh, merges)
  PROVE  \E orphans : Sources(fresh, merges, orphans)
<1> DEFINE L == Len(incidents)
           live == Live(merges)
           left == Left(merges)
           orphans == SetToSeq(left)
           Its(n) == CHOOSE m \in live : m[1] = n
           merged == [n \in DOMAIN incidents |->
                        IF \E m \in live : m[1] = n
                        THEN [incidents[n] EXCEPT !.fs = @ \cup Its(n)[2], !.updated = clock]
                        ELSE incidents[n]]
           first == [n \in DOMAIN fresh |-> Open(fresh[n], FALSE)]
           last == [n \in DOMAIN orphans |-> Open(orphans[n], TRUE)]
<1>1. incidents' = merged \o (first \o last)
  BY Zenon DEF Save, Live, Left
<1>2. /\ kept \in SUBSET Instances /\ fresh \in Seq(SUBSET kept) /\ IsFiniteSet(merges)
      /\ \A m \in merges : m[1] \in 1..L /\ m[2] \in SUBSET kept
  BY DEF Pending, OneEach, Joining
<1>3. L \in Nat /\ DOMAIN incidents = 1..L /\ \A n \in 1..L : incidents[n] \in Stored
  BY DEF StoriesOk, IncidentsOk
<1>4. live \in SUBSET merges
  BY DEF Live
<1>5. IsFiniteSet(left)
  <2> DEFINE at == [m \in merges \ live |-> m[2]]
  <2>1. IsFiniteSet(merges \ live)
    BY <1>2, FS_Difference
  <2>2. at \in Surjection(merges \ live, left)
    BY DEF Surjection, Left
  <2> HIDE DEF at, left, live
  <2> QED  BY <2>1, <2>2, FS_Surjection
<1> HIDE DEF left
<1>6. Lists(orphans, left) /\ DOMAIN orphans = 1..Len(orphans) /\ Len(orphans) \in Nat
  <2>1. Lists(orphans, left) /\ DOMAIN orphans = 1..Cardinality(left)
    BY <1>5, SetToSeqIs
  <2> HIDE DEF orphans
  <2> QED  BY <2>1 DEF Lists
<1> HIDE DEF orphans
<1>7. \A k \in 1..Len(orphans) : orphans[k] \in SUBSET Instances
  <2>1. \A x \in left : x \in SUBSET Instances
    BY <1>2, <1>4 DEF left, Left
  <2>2. \A k \in 1..Len(orphans) : orphans[k] \in left
    BY <1>6 DEF Lists
  <2> QED  BY <2>1, <2>2
<1>8. Len(fresh) \in Nat /\ DOMAIN fresh = 1..Len(fresh) /\ \A k \in 1..Len(fresh) : fresh[k] \in SUBSET Instances
  <2>1. Len(fresh) \in Nat /\ DOMAIN fresh = 1..Len(fresh) /\ \A k \in 1..Len(fresh) : fresh[k] \in SUBSET kept
    BY <1>2
  <2> QED  BY <1>2, <2>1
<1>9. ASSUME NEW fs \in SUBSET Instances, NEW o \in BOOLEAN
      PROVE  Open(fs, o) \in Stored /\ Open(fs, o).fs = fs /\ Open(fs, o).orphan = o
  BY DEF Open, Stored
<1>10. /\ first \in Seq(Stored) /\ Len(first) = Len(fresh)
       /\ \A k \in 1..Len(fresh) : first[k].fs = fresh[k]
  <2>1. \A k \in 1..Len(fresh) : Open(fresh[k], FALSE) \in Stored /\ Open(fresh[k], FALSE).fs = fresh[k]
    BY <1>8, <1>9
  <2>2. first \in [1..Len(fresh) -> Stored]
    BY <1>8, <2>1
  <2>3. \A k \in 1..Len(fresh) : first[k] = Open(fresh[k], FALSE)
    BY <1>8
  <2> HIDE DEF first, last, merged, live
  <2>4. first \in Seq(Stored) /\ Len(first) = Len(fresh)
    BY <1>8, <2>2
  <2>5. \A k \in 1..Len(fresh) : first[k].fs = fresh[k]
    BY <2>1, <2>3
  <2> QED  BY <2>4, <2>5
<1>11. /\ last \in Seq(Stored) /\ Len(last) = Len(orphans)
       /\ \A k \in 1..Len(orphans) : last[k].fs = orphans[k] /\ last[k].orphan
  <2>1. \A k \in 1..Len(orphans) : /\ Open(orphans[k], TRUE) \in Stored
                                   /\ Open(orphans[k], TRUE).fs = orphans[k] /\ Open(orphans[k], TRUE).orphan
    BY <1>7, <1>9
  <2>2. last \in [1..Len(orphans) -> Stored]
    BY <1>6, <2>1
  <2>3. \A k \in 1..Len(orphans) : last[k] = Open(orphans[k], TRUE)
    BY <1>6
  <2> HIDE DEF first, last, merged, live
  <2>4. last \in Seq(Stored) /\ Len(last) = Len(orphans)
    BY <1>6, <2>2
  <2>5. \A k \in 1..Len(orphans) : last[k].fs = orphans[k] /\ last[k].orphan
    BY <2>1, <2>3
  <2> QED  BY <2>4, <2>5
<1> HIDE DEF first, last, live
<1>12. ASSUME NEW n \in 1..L
       PROVE  /\ merged[n] \in Stored /\ merged[n].orphan = incidents[n].orphan
              /\ \/ merged[n].fs = incidents[n].fs /\ \A m \in live : m[1] # n
                 \/ \E m \in live : m[1] = n /\ merged[n].fs = incidents[n].fs \cup m[2]
  <2>1. incidents[n] \in Stored
    BY <1>3
  <2>2. CASE \E m \in live : m[1] = n
    <3> DEFINE m == Its(n)
    <3>1. m \in live /\ m[1] = n
      BY <2>2
    <3>2. merged[n] = [incidents[n] EXCEPT !.fs = @ \cup m[2], !.updated = clock]
      BY <1>3, <2>2
    <3> HIDE DEF m, merged
    <3>3. m[2] \in SUBSET Instances
      BY <1>2, <1>4, <3>1
    <3>4. merged[n] \in Stored /\ merged[n].orphan = incidents[n].orphan /\ merged[n].fs = incidents[n].fs \cup m[2]
      BY <2>1, <3>2, <3>3 DEF Stored
    <3> QED  BY <3>1, <3>4
  <2>3. CASE ~\E m \in live : m[1] = n
    <3>1. merged[n] = incidents[n]
      BY <1>3, <2>3
    <3> HIDE DEF merged
    <3> QED  BY <2>1, <2>3, <3>1
  <2> QED  BY <2>2, <2>3
<1>13. merged \in Seq(Stored) /\ Len(merged) = L
  <2>1. DOMAIN merged = 1..L /\ merged = [n \in 1..L |-> merged[n]]
    BY <1>3
  <2> HIDE DEF merged
  <2>2. merged \in [1..L -> Stored]
    BY <1>12, <2>1
  <2> QED  BY <1>3, <2>2
<1> HIDE DEF merged
<1> DEFINE opened == first \o last
<1>14. /\ opened \in Seq(Stored) /\ Len(opened) = Len(fresh) + Len(orphans)
       /\ \A k \in 1..Len(fresh) : opened[k] = first[k]
       /\ \A k \in 1..Len(orphans) : opened[Len(fresh) + k] = last[k]
  <2>1. /\ opened \in Seq(Stored) /\ Len(opened) = Len(first) + Len(last)
        /\ \A k \in 1..(Len(first) + Len(last)) :
              opened[k] = IF k <= Len(first) THEN first[k] ELSE last[k - Len(first)]
    <3>1. first \in Seq(Stored) /\ last \in Seq(Stored)
      BY <1>10, <1>11
    <3> QED  BY <3>1, ConcatProperties
  <2> HIDE DEF opened
  <2>2. Len(first) = Len(fresh) /\ Len(last) = Len(orphans) /\ Len(fresh) \in Nat /\ Len(orphans) \in Nat
    BY <1>6, <1>8, <1>10, <1>11
  <2>3. \A k \in 1..Len(fresh) : opened[k] = first[k]
    BY <2>1, <2>2
  <2>4. \A k \in 1..Len(orphans) : opened[Len(fresh) + k] = last[k]
    <3> SUFFICES ASSUME NEW k \in 1..Len(orphans) PROVE opened[Len(fresh) + k] = last[k]
      OBVIOUS
    <3>1. Len(fresh) + k \in 1..(Len(fresh) + Len(orphans)) /\ ~(Len(fresh) + k <= Len(fresh))
          /\ Len(fresh) + k - Len(fresh) = k
      BY <2>2
    <3> DEFINE q == Len(fresh) + k
    <3>2. q \in 1..(Len(first) + Len(last)) /\ ~(q <= Len(first)) /\ q - Len(first) = k
      BY <2>2, <3>1
    <3> HIDE DEF q
    <3>3. opened[q] = last[k]
      BY <2>1, <3>2
    <3> QED  BY <3>3 DEF q
  <2> QED  BY <2>1, <2>2, <2>3, <2>4
<1> HIDE DEF opened
<1>15. /\ incidents' \in Seq(Stored) /\ Len(incidents') = L + (Len(fresh) + Len(orphans))
       /\ \A n \in 1..L : incidents'[n] = merged[n]
       /\ \A k \in 1..(Len(fresh) + Len(orphans)) : incidents'[L + k] = opened[k]
  <2>1. incidents' = merged \o opened
    BY <1>1 DEF opened
  <2> HIDE DEF L
  <2> DEFINE P == Len(fresh) + Len(orphans)
  <2>2. L \in Nat /\ P \in Nat
    BY <1>3, <1>6, <1>8
  <2>3. merged \in Seq(Stored) /\ opened \in Seq(Stored) /\ Len(merged) = L /\ Len(opened) = P
    BY <1>13, <1>14
  <2> HIDE DEF P
  <2>4. /\ incidents' \in Seq(Stored) /\ Len(incidents') = L + P
        /\ \A k \in 1..(L + P) : incidents'[k] = IF k <= L THEN merged[k] ELSE opened[k - L]
    <3>1. /\ merged \o opened \in Seq(Stored) /\ Len(merged \o opened) = Len(merged) + Len(opened)
          /\ \A k \in 1..(Len(merged) + Len(opened)) :
                (merged \o opened)[k] = IF k <= Len(merged) THEN merged[k] ELSE opened[k - Len(merged)]
      BY <2>3, ConcatProperties
    <3> DEFINE all == merged \o opened
    <3> HIDE DEF all
    <3>2. /\ all \in Seq(Stored) /\ Len(all) = L + P
          /\ \A k \in 1..(L + P) : all[k] = IF k <= L THEN merged[k] ELSE opened[k - L]
      BY <2>3, <3>1, Zenon DEF all
    <3>3. incidents' = all
      BY <2>1 DEF all
    <3> QED  BY <3>2, <3>3
  <2>5. \A n \in 1..L : n \in 1..(L + P) /\ n <= L
    BY <2>2
  <2>6. ASSUME NEW k \in 1..P PROVE incidents'[L + k] = opened[k]
    <3> DEFINE q == L + k
    <3>1. q \in 1..(L + P) /\ ~(q <= L) /\ q - L = k
      BY <2>2
    <3> HIDE DEF q
    <3>2. incidents'[q] = opened[k]
      BY <2>4, <3>1
    <3> QED  BY <3>2 DEF q
  <2> QED  BY <2>4, <2>5, <2>6 DEF P
<1> HIDE DEF L
<1>16. \A k \in 1..Len(fresh) : incidents'[L + k].fs = fresh[k]
  <2>1. \A k \in 1..Len(fresh) : k \in 1..(Len(fresh) + Len(orphans))
    BY <1>6, <1>8
  <2> QED  BY <2>1, <1>10, <1>14, <1>15
<1>17. \A k \in 1..Len(orphans) : /\ incidents'[L + Len(fresh) + k].fs = orphans[k]
                                  /\ incidents'[L + Len(fresh) + k].orphan
  <2> SUFFICES ASSUME NEW k \in 1..Len(orphans)
               PROVE  incidents'[L + Len(fresh) + k] = last[k]
    BY <1>11
  <2>1. Len(fresh) + k \in 1..(Len(fresh) + Len(orphans)) /\ L + (Len(fresh) + k) = L + Len(fresh) + k
    BY <1>3, <1>6, <1>8
  <2> QED  BY <2>1, <1>14, <1>15
<1>18. Len(incidents') = L + Len(fresh) + Len(orphans)
  BY <1>3, <1>6, <1>8, <1>15
<1>19. \A n \in 1..L : /\ incidents'[n].orphan = incidents[n].orphan
                       /\ \/ incidents'[n].fs = incidents[n].fs /\ \A m \in live : m[1] # n
                          \/ \E m \in live : m[1] = n /\ incidents'[n].fs = incidents[n].fs \cup m[2]
  BY <1>12, <1>15
<1>20. Sources(fresh, merges, orphans)
  BY <1>6, <1>15, <1>16, <1>17, <1>18, <1>19 DEF Sources, L, live, left
<1> QED  BY <1>20

-------------------------------------------------------------------------------
(* The incidents stay stories.                                             *)

StoryInv ==
  /\ StoriesOk /\ \A i \in saved : Filed(i)
  /\ held # <<>> => Pending(held[1].kept, held[1].fresh, held[1].merges)

LEMMA StorySave ==
  ASSUME FindingsAssumption, WindowsAssumption, clock \in Nat, StoryInv, Save
  PROVE  StoryInv'
<1> DEFINE L == Len(incidents)
           h == held[1]
           F == Len(h.fresh)
           live == Live(h.merges)
<1>1. held # <<>> /\ held' = <<>> /\ saved' = saved \cup h.kept /\ clock' = clock + 1
  BY DEF Save
<1>2. StoriesOk /\ (\A i \in saved : Filed(i)) /\ Pending(h.kept, h.fresh, h.merges)
  BY <1>1 DEF StoryInv
<1>3. PICK orphans : Sources(h.fresh, h.merges, orphans)
  BY <1>2, SaveIs
<1> DEFINE O == Len(orphans)
<1>4. /\ L \in Nat /\ \A n \in 1..L : /\ incidents[n] \in Stored /\ incidents[n].fs \in SUBSET Instances
                                      /\ IsFiniteSet(incidents[n].fs)
  <2>1. L \in Nat /\ \A n \in 1..L : incidents[n] \in Stored /\ IsFiniteSet(incidents[n].fs)
    BY <1>2 DEF StoriesOk, IncidentsOk
  <2>2. \A x \in Stored : x.fs \in SUBSET Instances
    BY DEF Stored
  <2> QED  BY <2>1, <2>2
<1>5. /\ h.kept \in SUBSET Instances /\ IsFiniteSet(h.kept) /\ F \in Nat
      /\ \A i \in h.kept : i.d = clock
      /\ \A k \in 1..F : h.fresh[k] \in SUBSET h.kept /\ Connected(h.fresh[k])
      /\ \A m \in h.merges : Joining(m, h.kept)
  BY <1>2 DEF Pending, OneEach
<1>6. Distinct(h.kept)
  BY <1>2, <1>5, InstanceIs DEF Pending, OneEach, Distinct
<1>7. /\ O \in Nat /\ \A k \in 1..O : \E m \in h.merges \ live : orphans[k] = m[2]
      /\ \A m \in h.merges \ live : \E k \in 1..O : orphans[k] = m[2]
      /\ \A j, k \in 1..O : orphans[j] = orphans[k] => j = k
  <2> HIDE DEF h, O, live, F, L
  <2>1. Lists(orphans, Left(h.merges))
    BY <1>3 DEF Sources
  <2>2. /\ O \in Nat /\ \A k \in 1..O : orphans[k] \in Left(h.merges)
        /\ \A x \in Left(h.merges) : \E k \in 1..O : orphans[k] = x
        /\ \A j, k \in 1..O : orphans[j] = orphans[k] => j = k
    BY <2>1 DEF Lists, O
  <2>3. Left(h.merges) = {m[2] : m \in h.merges \ live}
    BY DEF Left, live
  <2> QED  BY <2>2, <2>3
<1>8. live \in SUBSET h.merges
  BY DEF Live
<1>9. /\ incidents' \in Seq(Stored) /\ Len(incidents') = L + F + O
      /\ \A n \in 1..L :
           /\ incidents'[n].orphan = incidents[n].orphan
           /\ \/ incidents'[n].fs = incidents[n].fs /\ \A m \in live : m[1] # n
              \/ \E m \in live : m[1] = n /\ incidents'[n].fs = incidents[n].fs \cup m[2]
      /\ \A k \in 1..F : incidents'[L + k].fs = h.fresh[k]
      /\ \A k \in 1..O : incidents'[L + F + k].fs = orphans[k] /\ incidents'[L + F + k].orphan
  BY <1>3 DEF Sources
<1> HIDE DEF L, F, O, h, live
<1>10. \A n \in 1..(L + F + O) : \/ n \in 1..L
                                 \/ \E k \in 1..F : n = L + k
                                 \/ \E k \in 1..O : n = L + F + k
  <2> SUFFICES ASSUME NEW n \in 1..(L + F + O) PROVE \/ n \in 1..L
                                                     \/ \E k \in 1..F : n = L + k
                                                     \/ \E k \in 1..O : n = L + F + k
    OBVIOUS
  <2>1. CASE n <= L
    BY <1>4, <2>1
  <2>2. CASE ~(n <= L) /\ n <= L + F
    <3>1. n - L \in 1..F /\ n = L + (n - L)
      BY <1>4, <1>5, <2>2
    <3> QED  BY <3>1
  <2>3. CASE ~(n <= L + F)
    <3>1. n - (L + F) \in 1..O /\ n = L + F + (n - (L + F))
      BY <1>4, <1>5, <1>7, <2>3
    <3> QED  BY <3>1
  <2> QED  BY <2>1, <2>2, <2>3
<1> DEFINE Good(n) == /\ IsFiniteSet(incidents'[n].fs) /\ Distinct(incidents'[n].fs)
                      /\ incidents'[n].orphan \/ Connected(incidents'[n].fs)
                      /\ \A i \in incidents'[n].fs : i.d < clock + 1
<1>11. ASSUME NEW A \in SUBSET h.kept
       PROVE  IsFiniteSet(A) /\ Distinct(A) /\ \A i \in A : i.d < clock + 1
  <2>1. IsFiniteSet(A)
    BY <1>5, FS_Subset
  <2>2. \A i \in A : i.d = clock
    BY <1>5
  <2> QED  BY <2>1, <2>2, <1>6 DEF Distinct
<1>12. ASSUME NEW n \in 1..L PROVE Good(n)
  <2>1. /\ Distinct(incidents[n].fs) /\ (incidents[n].orphan \/ Connected(incidents[n].fs))
        /\ \A i \in incidents[n].fs : i.d < clock /\ i.d \in Nat
    BY <1>2, <1>4, InstanceIs DEF StoriesOk, L
  <2>2. \A i \in incidents[n].fs : i.d < clock + 1
    BY <2>1
  <2>3. CASE incidents'[n].fs = incidents[n].fs
    BY <1>4, <1>9, <2>1, <2>2, <2>3
  <2>4. CASE \E m \in live : m[1] = n /\ incidents'[n].fs = incidents[n].fs \cup m[2]
    <3>1. PICK m \in live : m[1] = n /\ incidents'[n].fs = incidents[n].fs \cup m[2]
      BY <2>4
    <3>2. m[2] \in SUBSET h.kept
      BY <1>5, <1>8 DEF Joining
    <3>3. \A i \in m[2], j \in incidents[n].fs : ~Same(i, j) /\ ~Same(j, i)
      BY <1>5, <1>8, <3>1 DEF Joining, Same
    <3>4. Distinct(incidents[n].fs \cup m[2])
      BY <2>1, <3>2, <3>3, <1>11 DEF Distinct
    <3>5. incidents[n].orphan \/ Connected(incidents[n].fs \cup m[2])
      BY <1>5, <1>8, <3>1 DEF Joining
    <3>6. IsFiniteSet(incidents[n].fs \cup m[2])
      BY <1>4, <1>11, <3>2, FS_Union
    <3>7. \A i \in incidents[n].fs \cup m[2] : i.d < clock + 1
      BY <1>11, <2>2, <3>2
    <3> QED  BY <1>9, <3>1, <3>4, <3>5, <3>6, <3>7
  <2> QED  BY <1>9, <2>3, <2>4
<1>13. ASSUME NEW k \in 1..F PROVE Good(L + k)
  BY <1>5, <1>9, <1>11
<1>14. ASSUME NEW k \in 1..O PROVE Good(L + F + k)
  <2>1. orphans[k] \in SUBSET h.kept
    BY <1>5, <1>7 DEF Joining
  <2> QED  BY <1>9, <1>11, <2>1
<1>15. \A n \in 1..Len(incidents') : Good(n)
  <2> HIDE DEF Good
  <2> QED  BY <1>9, <1>10, <1>12, <1>13, <1>14
<1> DEFINE New(x, n) ==
             \/ \E m \in live : m[1] = n /\ x \in m[2]
             \/ \E k \in 1..F : n = L + k /\ x \in h.fresh[k]
             \/ \E k \in 1..O, m \in h.merges \ live : n = L + F + k /\ orphans[k] = m[2] /\ x \in m[2]
<1>16. ASSUME NEW n \in 1..Len(incidents'), NEW x \in incidents'[n].fs
       PROVE  \/ n \in 1..L /\ x \in incidents[n].fs
              \/ x \in h.kept /\ New(x, n)
  <2>1. CASE n \in 1..L
    <3>1. CASE x \in incidents[n].fs
      BY <2>1, <3>1
    <3>2. CASE x \notin incidents[n].fs
      <4>1. PICK m \in live : m[1] = n /\ x \in m[2]
        BY <1>9, <2>1, <3>2
      <4>2. x \in h.kept
        BY <1>5, <1>8, <4>1 DEF Joining
      <4> QED  BY <4>1, <4>2
    <3> QED  BY <3>1, <3>2
  <2>2. CASE \E k \in 1..F : n = L + k
    <3>1. PICK k \in 1..F : n = L + k
      BY <2>2
    <3>2. x \in h.fresh[k] /\ x \in h.kept
      BY <1>5, <1>9, <3>1
    <3> QED  BY <3>1, <3>2
  <2>3. CASE \E k \in 1..O : n = L + F + k
    <3>1. PICK k \in 1..O : n = L + F + k
      BY <2>3
    <3>2. PICK m \in h.merges \ live : orphans[k] = m[2]
      BY <1>7
    <3>3. x \in m[2]
      BY <1>9, <3>1, <3>2
    <3>4. x \in h.kept
      BY <1>5, <3>3 DEF Joining
    <3> QED  BY <3>1, <3>2, <3>3, <3>4
  <2> QED  BY <1>9, <1>10, <2>1, <2>2, <2>3
<1>17. ASSUME NEW x, NEW m, NEW n, New(x, m), New(x, n) PROVE m = n
  <2>1. /\ \A a, b \in h.merges : x \in a[2] /\ x \in b[2] => a = b
        /\ \A a, b \in 1..F : x \in h.fresh[a] /\ x \in h.fresh[b] => a = b
        /\ \A a \in 1..F, b \in h.merges : ~(x \in h.fresh[a] /\ x \in b[2])
    BY <1>2 DEF Pending, F
  <2>2. CASE \E a \in live : a[1] = m /\ x \in a[2]
    BY <1>8, <1>17, <2>1, <2>2
  <2>3. CASE \E k \in 1..F : m = L + k /\ x \in h.fresh[k]
    BY <1>8, <1>17, <2>1, <2>3
  <2>4. CASE \E k \in 1..O, a \in h.merges \ live : m = L + F + k /\ orphans[k] = a[2] /\ x \in a[2]
    BY <1>7, <1>8, <1>17, <2>1, <2>4
  <2> QED  BY <1>17, <2>2, <2>3, <2>4
<1> HIDE DEF New
<1>18. \A m, n \in 1..Len(incidents') : m # n => incidents'[m].fs \cap incidents'[n].fs = {}
  <2> SUFFICES ASSUME NEW m \in 1..Len(incidents'), NEW n \in 1..Len(incidents'),
                      NEW x \in incidents'[m].fs, x \in incidents'[n].fs
               PROVE  m = n
    OBVIOUS
  <2>1. \A k \in 1..L : x \in incidents[k].fs => x \notin h.kept
    BY <1>2, <1>5 DEF StoriesOk, L
  <2>2. \A j, k \in 1..L : x \in incidents[j].fs /\ x \in incidents[k].fs => j = k
    BY <1>2 DEF StoriesOk, L
  <2> QED  BY <1>16, <1>17, <2>1, <2>2
<1>19. ASSUME NEW i, Filed(i) PROVE Filed(i)'
  <2>1. PICK n \in 1..L : \E j \in incidents[n].fs : Same(i, j)
    BY <1>19 DEF Filed, L
  <2>2. incidents[n].fs \subseteq incidents'[n].fs
    BY <1>9
  <2>3. n \in 1..Len(incidents')
    BY <1>4, <1>5, <1>7, <1>9
  <2> QED  BY <2>1, <2>2, <2>3 DEF Filed, Same
<1>20. ASSUME NEW i \in h.kept PROVE Filed(i)'
  <2>1. Same(i, i)
    BY DEF Same
  <2>2. ASSUME NEW n \in 1..Len(incidents'), i \in incidents'[n].fs PROVE Filed(i)'
    BY <2>1, <2>2 DEF Filed, Same
  <2>3. CASE \E k \in 1..F : i \in h.fresh[k]
    <3>1. PICK k \in 1..F : i \in h.fresh[k]
      BY <2>3
    <3>2. L + k \in 1..Len(incidents') /\ i \in incidents'[L + k].fs
      BY <1>4, <1>5, <1>7, <1>9, <3>1
    <3> QED  BY <2>2, <3>2
  <2>4. CASE \E m \in h.merges : i \in m[2]
    <3>1. PICK m \in h.merges : i \in m[2]
      BY <2>4
    <3>2. CASE m \in live
      <4>1. m[1] \in 1..L /\ \A o \in live : o[1] = m[1] => o = m
        BY <1>2, <1>5, <1>8, <3>2 DEF Joining, Pending, L
      <4>2. i \in incidents'[m[1]].fs
        BY <1>9, <3>1, <3>2, <4>1
      <4>3. m[1] \in 1..Len(incidents')
        BY <1>4, <1>5, <1>7, <1>9, <4>1
      <4> QED  BY <2>2, <4>2, <4>3
    <3>3. CASE m \notin live
      <4>1. PICK k \in 1..O : orphans[k] = m[2]
        BY <1>7, <3>3
      <4>2. L + F + k \in 1..Len(incidents') /\ i \in incidents'[L + F + k].fs
        BY <1>4, <1>5, <1>7, <1>9, <3>1, <4>1
      <4> QED  BY <2>2, <4>2
    <3> QED  BY <3>2, <3>3
  <2>5. CASE Filed(i)
    BY <1>19, <2>5
  <2>6. \/ \E k \in 1..F : i \in h.fresh[k]
        \/ \E m \in h.merges : i \in m[2]
        \/ Filed(i)
    BY <1>2 DEF Pending, F
  <2> QED  BY <2>3, <2>4, <2>5, <2>6
<1>21. StoriesOk'
  <2>1. IncidentsOk'
    BY <1>9, <1>15 DEF IncidentsOk
  <2>2. \A n \in 1..Len(incidents') :
           /\ Distinct(incidents'[n].fs) /\ (incidents'[n].orphan \/ Connected(incidents'[n].fs))
           /\ \A i \in incidents'[n].fs : i.d < clock'
    BY <1>1, <1>15
  <2> HIDE DEF Good
  <2> QED  BY <2>1, <2>2, <1>18 DEF StoriesOk, Distinct, Connected, Joined, Component, Closed, Near, Ents, Same
<1>22. \A i \in saved' : Filed(i)'
  BY <1>1, <1>2, <1>19, <1>20
<1> QED  BY <1>1, <1>21, <1>22 DEF StoryInv

LEMMA StoryInit == ASSUME Init PROVE StoryInv
<1>1. incidents = <<>> /\ held = <<>> /\ saved = {}
  BY DEF Init
<1>2. incidents \in Seq(Stored) /\ Len(incidents) = 0
  BY <1>1, EmptySeq
<1> QED  BY <1>1, <1>2 DEF StoryInv, StoriesOk, IncidentsOk

\* What is kept of a batch is of that batch.
LEMMA KeptIs ==
  ASSUME FindingsAssumption, WindowsAssumption, CountInv, held = <<>>, NEW fs \in SUBSET Findings,
         NEW kept, kept = ToSet(Suppress(Delivered(fs)).kept)
  PROVE  OneEach(kept) /\ \A i \in kept : i.d = clock
<1> DEFINE S == Delivered(fs)
<1>1. OneEach(S) /\ \A i \in S : i.d = clock
  BY DeliveredIs
<1>2. /\ counted \in SUBSET Instances /\ IsFiniteSet(counted) /\ AllBacked(seen, counted) /\ seen \in Buckets
      /\ \A i \in counted : i.d < clock
  BY DEF CountInv, Tally, Earlier
<1>3. clock \in Nat
  BY DEF CountInv
<1> HIDE DEF S
<1>4. counted \cap S = {}
  BY <1>1, <1>2, <1>3
<1>5. Counting(Suppress(S), counted \cup S, S, FALSE)
  BY <1>1, <1>2, <1>4, SuppressIs
<1>6. kept \subseteq S
  BY <1>5 DEF Counting, S
<1>7. IsFiniteSet(kept)
  BY <1>1, <1>6, FS_Subset DEF OneEach
<1> QED  BY <1>1, <1>6, <1>7 DEF OneEach

LEMMA StoryProcess ==
  ASSUME FindingsAssumption, WindowsAssumption, CountInv, StoryInv,
         NEW fs \in SUBSET Findings, Process(fs)
  PROVE  StoryInv'
<1> DEFINE kept == ToSet(Suppress(Delivered(fs)).kept)
<1>1. /\ held = <<>> /\ held' # <<>> /\ held'[1].kept = kept
      /\ incidents' = incidents /\ clock' = clock /\ saved' = saved
  BY DEF Process, Delivered
<1>0. PICK merged \in {MergeIntoStored(kept), LookupFails(kept)} :
         held'[1].fresh = merged.fresh /\ held'[1].merges = merged.merges
  BY DEF Process, Delivered
<1>2. OneEach(kept) /\ \A i \in kept : i.d = clock
  BY <1>1, KeptIs
<1> HIDE DEF kept
<1>3. Pending(kept, merged.fresh, merged.merges)
  BY <1>0, <1>2, MergeIs, LookupFailsIs DEF StoryInv
<1>4. Pending(held[1].kept, held[1].fresh, held[1].merges)'
  BY <1>0, <1>1, <1>3 DEF Pending, Joining, Filed
<1>5. StoriesOk' /\ \A i \in saved' : Filed(i)'
  BY <1>1 DEF StoryInv, StoriesOk, IncidentsOk, Filed
<1> QED  BY <1>4, <1>5 DEF StoryInv

\* Closing an incident changes none of its findings.
LEMMA StoryClose ==
  ASSUME StoryInv, NEW n \in DOMAIN incidents, CloseIncident(n)
  PROVE  StoryInv'
<1>1. /\ incidents' = [incidents EXCEPT ![n].open = FALSE]
      /\ held' = held /\ clock' = clock /\ saved' = saved
  BY DEF CloseIncident
<1>2. incidents \in Seq(Stored) /\ DOMAIN incidents = 1..Len(incidents) /\ Len(incidents) \in Nat
  BY DEF StoryInv, StoriesOk, IncidentsOk
<1>3. ASSUME NEW k \in 1..Len(incidents)
      PROVE  /\ incidents'[k] \in Stored /\ incidents'[k].fs = incidents[k].fs
             /\ incidents'[k].orphan = incidents[k].orphan
  <2>1. incidents[k] \in Stored
    BY <1>2
  <2>2. incidents'[k] = incidents[k] \/ incidents'[k] = [incidents[k] EXCEPT !.open = FALSE]
    BY <1>1, <1>2
  <2> QED  BY <2>1, <2>2 DEF Stored
<1>4. incidents' \in Seq(Stored) /\ Len(incidents') = Len(incidents)
  <2>1. DOMAIN incidents' = 1..Len(incidents) /\ incidents' = [k \in 1..Len(incidents) |-> incidents'[k]]
    BY <1>1, <1>2
  <2>2. incidents' \in [1..Len(incidents) -> Stored]
    BY <1>3, <2>1
  <2> QED  BY <1>2, <2>2
<1>5. StoriesOk'
  BY <1>1, <1>3, <1>4 DEF StoryInv, StoriesOk, IncidentsOk
<1>6. \A i : Filed(i) => Filed(i)'
  BY <1>3, <1>4 DEF Filed
<1>7. held # <<>> => Pending(held[1].kept, held[1].fresh, held[1].merges)'
  <2> SUFFICES ASSUME held # <<>>, NEW h, h = held[1]
               PROVE  Pending(h.kept, h.fresh, h.merges)'
    BY <1>1
  <2>1. Pending(h.kept, h.fresh, h.merges)
    BY DEF StoryInv
  <2>2. ASSUME NEW m \in h.merges PROVE Joining(m, h.kept)'
    <3>1. Joining(m, h.kept)
      BY <2>1 DEF Pending
    <3> QED  BY <1>3, <1>4, <3>1 DEF Joining
  <2> QED  BY <1>1, <1>6, <2>1, <2>2 DEF Pending
<1> QED  BY <1>1, <1>5, <1>6, <1>7 DEF StoryInv

LEMMA StoryNext ==
  ASSUME FindingsAssumption, WindowsAssumption, CountInv, StoryInv, [Next]_vars
  PROVE  StoryInv'
<1> USE DEF StoryInv, StoriesOk, IncidentsOk, Filed, Pending, Joining
<1>1. ASSUME NEW fs \in SUBSET Findings, Process(fs) PROVE StoryInv'
  BY <1>1, StoryProcess
<1>2. CASE Save
  <2>1. clock \in Nat
    BY DEF CountInv
  <2> QED  BY <1>2, <2>1, StorySave
<1>3. CASE SaveFails
  BY <1>3 DEF SaveFails
<1>4. CASE Restart
  BY <1>4 DEF Restart
<1>5. ASSUME NEW n \in DOMAIN incidents, CloseIncident(n) PROVE StoryInv'
  BY <1>5, StoryClose
<1>6. ASSUME NEW r \in DOMAIN feedback, NEW d \in {"up", "down"}, Record(r, d) PROVE StoryInv'
  BY <1>6 DEF Record
<1>7. CASE UNCHANGED vars
  BY <1>7 DEF vars
<1> QED  BY <1>1, <1>2, <1>3, <1>4, <1>5, <1>6, <1>7 DEF Next

LEMMA StoryGives ==
  ASSUME FindingsAssumption, WindowsAssumption, StoryInv
  PROVE  ClustersAreComponents /\ OneStory /\ FiledOnce
<1>1. ClustersAreComponents
  BY ClustersCover DEF StoryInv, Pending, ClustersAreComponents
<1>2. /\ DOMAIN incidents = 1..Len(incidents) /\ Len(incidents) \in Nat
  BY DEF StoryInv, StoriesOk, IncidentsOk
<1>3. OneStory
  <2> SUFFICES ASSUME NEW n \in 1..Len(incidents)
               PROVE  /\ ~incidents[n].orphan =>
                           \A i \in incidents[n].fs : Component(i, incidents[n].fs) = incidents[n].fs
                      /\ \A i, j \in incidents[n].fs : Same(i, j) => i = j
    BY <1>2 DEF OneStory
  <2> DEFINE fs == incidents[n].fs
  <2>1. Distinct(fs) /\ (incidents[n].orphan \/ Connected(fs))
    BY DEF StoryInv, StoriesOk
  <2> HIDE DEF fs
  <2>2. Connected(fs) => \A i \in fs : Component(i, fs) = fs
    BY DEF Connected, Joined, Component
  <2> QED  BY <2>1, <2>2 DEF Distinct, fs
<1>4. FiledOnce
  <2> SUFFICES ASSUME NEW i \in saved
               PROVE  LET homes == {n \in DOMAIN incidents : i \in incidents[n].fs}
                      IN  \/ Cardinality(homes) = 1
                          \/ homes = {} /\ \E n \in DOMAIN incidents : \E j \in incidents[n].fs :
                                              Same(i, j) /\ i # j
    BY DEF FiledOnce
  <2> DEFINE homes == {n \in DOMAIN incidents : i \in incidents[n].fs}
  <2>1. PICK n \in 1..Len(incidents) : \E j \in incidents[n].fs : Same(i, j)
    BY DEF StoryInv, Filed
  <2>2. CASE homes = {}
    BY <1>2, <2>1, <2>2
  <2>3. CASE homes # {}
    <3>1. PICK m \in homes : TRUE
      BY <2>3
    <3>2. homes = {m}
      BY <1>2, <3>1 DEF StoryInv, StoriesOk
    <3>3. Cardinality(homes) = 1
      BY <3>2, FS_Singleton
    <3> QED  BY <3>3
  <2> QED  BY <2>2, <2>3
<1> QED  BY <1>1, <1>3, <1>4

\* A batch is clustered into the connected components of "shares an entity
\* within the window" (risk.correlate_findings); every incident stays one
\* connected story that holds each rule and event once, over merges,
\* redeliveries and restarts (risk.merge_into_stored); and what was kept and
\* saved is in exactly one incident, or its twin of an earlier delivery is
\* (storage.save_pipeline_result).
THEOREM StoriesAreKept ==
  ASSUME FindingsAssumption, WindowsAssumption
  PROVE  Spec => [](ClustersAreComponents /\ OneStory /\ FiledOnce)
<1>1. Init => CountInv /\ StoryInv
  BY CountInit, StoryInit
<1>2. CountInv /\ StoryInv /\ [Next]_vars => CountInv' /\ StoryInv'
  BY CountNext, StoryNext
<1>3. StoryInv => ClustersAreComponents /\ OneStory /\ FiledOnce
  BY StoryGives
<1> QED  BY <1>1, <1>2, <1>3, PTL DEF Spec
=============================================================================
