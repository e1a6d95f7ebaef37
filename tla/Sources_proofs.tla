----------------------------- MODULE Sources_proofs -----------------------------
(***************************************************************************)
(* Where events and content come from, for any number of records, keys,     *)
(* lines, pages and releases, failures and runs: no resume point passes     *)
(* what was not fetched, nothing is processed twice while state is saved    *)
(* and nobody dies, and updates, pipelines and syncs say what is so.        *)
(***************************************************************************)
EXTENDS MCIntake, Ordered, FiniteSetTheorems, SequenceTheorems, TLAPS
-------------------------------------------------------------------------------
(* Sets of numbers in order.                                               *)

Numbers(S) == S \subseteq Nat /\ IsFiniteSet(S)

LEMMA BelowFinite ==
  ASSUME NEW S, Numbers(S), NEW x
  PROVE  /\ Numbers(Below(S, x)) /\ Cardinality(Below(S, x)) \in Nat
         /\ Cardinality(S) \in Nat
<1>1. Below(S, x) \subseteq S
  BY DEF Below
<1> QED  BY <1>1, FS_Subset, FS_CardinalityType DEF Numbers

\* The rank of an element: how many are smaller. Ranks are ordered as the elements.
LEMMA RanksRise ==
  ASSUME NEW S, Numbers(S), NEW x \in S, NEW y \in S, x < y
  PROVE  Cardinality(Below(S, x)) < Cardinality(Below(S, y))
<1>0. \A z \in S : z \in Nat
  BY DEF Numbers
<1>1. Below(S, x) \union {x} \subseteq Below(S, y) /\ x \notin Below(S, x)
  BY <1>0 DEF Below
<1>2. IsFiniteSet(Below(S, x)) /\ IsFiniteSet(Below(S, y))
  BY BelowFinite DEF Numbers
<1>3. Cardinality(Below(S, x) \union {x}) = Cardinality(Below(S, x)) + 1
  BY <1>1, <1>2, FS_AddElement
<1>4. Cardinality(Below(S, x) \union {x}) <= Cardinality(Below(S, y))
  BY <1>1, <1>2, FS_Subset
<1> QED  BY <1>3, <1>4, BelowFinite

LEMMA RanksWithin ==
  ASSUME NEW S, Numbers(S), NEW x \in S
  PROVE  Cardinality(Below(S, x)) < Cardinality(S)
<1>1. Below(S, x) \union {x} \subseteq S /\ x \notin Below(S, x)
  BY DEF Below, Numbers
<1>2. IsFiniteSet(Below(S, x)) /\ IsFiniteSet(S)
  BY BelowFinite DEF Numbers
<1>3. Cardinality(Below(S, x) \union {x}) = Cardinality(Below(S, x)) + 1
  BY <1>1, <1>2, FS_AddElement
<1>4. Cardinality(Below(S, x) \union {x}) <= Cardinality(S)
  BY <1>1, <1>2, FS_Subset
<1> QED  BY <1>3, <1>4, BelowFinite

LEMMA RanksDiffer ==
  ASSUME NEW S, Numbers(S), NEW x \in S, NEW y \in S,
         Cardinality(Below(S, x)) = Cardinality(Below(S, y))
  PROVE  x = y
<1>1. x \in Nat /\ y \in Nat
  BY DEF Numbers
<1>2. x < y \/ y < x \/ x = y
  BY <1>1
<1> QED  BY <1>2, RanksRise, BelowFinite

\* Every rank below the size of the set is some element's.
LEMMA RanksTaken ==
  ASSUME NEW S, Numbers(S), NEW i \in 1..Cardinality(S)
  PROVE  \E x \in S : Cardinality(Below(S, x)) = i - 1
<1> DEFINE rank == [x \in S |-> Cardinality(Below(S, x)) + 1]
           n == Cardinality(S)
<1>1. n \in Nat
  BY BelowFinite
<1>2. \A x \in S : Cardinality(Below(S, x)) \in Nat /\ Cardinality(Below(S, x)) < n
  BY BelowFinite, RanksWithin
<1>3. rank \in [S -> 1..n]
  BY <1>1, <1>2
<1>4. \A x, y \in S : rank[x] = rank[y] => x = y
  BY <1>2, RanksDiffer
<1>5. rank \in Injection(S, 1..n)
  <2> HIDE DEF rank
  <2> QED  BY <1>3, <1>4 DEF Injection, IsInjective
<1>6. IsFiniteSet(1..n) /\ Cardinality(1..n) = n
  BY <1>1, FS_Interval
<1>7. rank \in Surjection(S, 1..n)
  <2> HIDE DEF rank
  <2> QED  BY <1>5, <1>6, FS_Injection
<1>8. PICK x \in S : rank[x] = i
  <2> HIDE DEF rank
  <2> QED  BY <1>7 DEF Surjection
<1> QED  BY <1>2, <1>8

LEMMA InOrderIs ==
  ASSUME NEW S, Numbers(S)
  PROVE  /\ InOrder(S) \in Seq(S) /\ Len(InOrder(S)) = Cardinality(S) /\ Cardinality(S) \in Nat
         /\ \A i \in 1..Cardinality(S) :
              InOrder(S)[i] \in S /\ Cardinality(Below(S, InOrder(S)[i])) = i - 1
         /\ \A i, j \in 1..Cardinality(S) : i < j => InOrder(S)[i] < InOrder(S)[j]
         /\ \A x \in S : \E i \in 1..Cardinality(S) : InOrder(S)[i] = x
<1> DEFINE n == Cardinality(S)
           at(i) == CHOOSE x \in S : Cardinality(Below(S, x)) = i - 1
<1>1. n \in Nat
  BY BelowFinite
<1>2. \A i \in 1..n : at(i) \in S /\ Cardinality(Below(S, at(i))) = i - 1
  BY RanksTaken
<1>3. PICK s : s = InOrder(S)
  OBVIOUS
<1>4. s = [i \in 1..n |-> at(i)]
  BY <1>3 DEF InOrder
<1>5. \A i \in 1..n : s[i] \in S /\ Cardinality(Below(S, s[i])) = i - 1
  <2> HIDE DEF at
  <2> QED  BY <1>2, <1>4
<1>6. s \in [1..n -> S]
  <2> HIDE DEF at
  <2> QED  BY <1>4, <1>5
<1>7. s \in Seq(S) /\ Len(s) = n
  BY <1>1, <1>6, SeqDef, LenProperties
<1>8. ASSUME NEW i \in 1..n, NEW j \in 1..n, i < j
      PROVE  s[i] < s[j]
  <2>1. s[i] \in S /\ s[j] \in S /\ s[i] \in Nat /\ s[j] \in Nat
    BY <1>5 DEF Numbers
  <2>2. s[i] # s[j]
    BY <1>5, <1>8
  <2>3. ~(s[j] < s[i])
    <3>1. SUFFICES ASSUME s[j] < s[i]  PROVE FALSE
      OBVIOUS
    <3>2. Cardinality(Below(S, s[j])) < Cardinality(Below(S, s[i]))
      BY <2>1, <3>1, RanksRise
    <3> QED  BY <1>5, <1>8, <3>2
  <2> QED  BY <2>1, <2>2, <2>3
<1>9. ASSUME NEW x \in S  PROVE \E i \in 1..n : s[i] = x
  <2>1. PICK r : r = Cardinality(Below(S, x))
    OBVIOUS
  <2>2. r \in Nat /\ r < n
    BY <2>1, BelowFinite, RanksWithin
  <2>3. r + 1 \in 1..n /\ (r + 1) - 1 = r
    BY <1>1, <2>2
  <2>4. s[r + 1] = x
    BY <1>5, <2>1, <2>3, RanksDiffer
  <2> QED  BY <2>3, <2>4
<1> QED  BY <1>1, <1>3, <1>5, <1>7, <1>8, <1>9

LEMMA SmallestIs ==
  ASSUME NEW S, Numbers(S), NEW n \in Nat
  PROVE  /\ Numbers(Smallest(S, n)) /\ Smallest(S, n) \subseteq S
         /\ \A x \in Smallest(S, n) : \A y \in S : y < x => y \in Smallest(S, n)
         /\ Cardinality(Smallest(S, n)) <= n
         /\ Cardinality(Smallest(S, n)) < n => Smallest(S, n) = S
<1>1. Smallest(S, n) \subseteq S /\ Numbers(Smallest(S, n))
  BY FS_Subset DEF Smallest, Numbers
<1>2. ASSUME NEW x \in Smallest(S, n), NEW y \in S, y < x
      PROVE  y \in Smallest(S, n)
  <2>1. Cardinality(Below(S, y)) < Cardinality(Below(S, x))
    BY <1>1, <1>2, RanksRise
  <2>2. Cardinality(Below(S, x)) < n
    BY DEF Smallest
  <2> QED  BY <2>1, <2>2, BelowFinite DEF Smallest
<1> DEFINE few == Smallest(S, n)
           rank == [x \in few |-> Cardinality(Below(S, x)) + 1]
<1>3. \A x \in few : Cardinality(Below(S, x)) \in Nat /\ Cardinality(Below(S, x)) < n
  BY <1>1, BelowFinite DEF Smallest
<1>4. rank \in [few -> 1..n]
  <2> HIDE DEF few
  <2> QED  BY <1>3
<1>5. \A x, y \in few : rank[x] = rank[y] => x = y
  <2>1. ASSUME NEW x \in few, NEW y \in few, rank[x] = rank[y]
        PROVE  Cardinality(Below(S, x)) = Cardinality(Below(S, y))
    <3> HIDE DEF few
    <3> QED  BY <1>3, <2>1
  <2> QED  BY <1>1, <2>1, RanksDiffer
<1>6. rank \in Injection(few, 1..n)
  <2> HIDE DEF rank, few
  <2> QED  BY <1>4, <1>5 DEF Injection, IsInjective
<1>7. IsFiniteSet(1..n) /\ Cardinality(1..n) = n
  BY FS_Interval
<1>8. Cardinality(few) <= n /\ (Cardinality(few) = n <=> rank \in Surjection(few, 1..n))
  <2> HIDE DEF rank, few
  <2> QED  BY <1>6, <1>7, FS_Injection
<1>9. ASSUME NEW x \in S, x \notin few  PROVE Cardinality(few) = n
  <2>1. Cardinality(Below(S, x)) >= n /\ Cardinality(Below(S, x)) < Cardinality(S)
        /\ Cardinality(Below(S, x)) \in Nat /\ Cardinality(S) \in Nat
    BY <1>9, BelowFinite, RanksWithin DEF Smallest
  <2>2. ASSUME NEW i \in 1..n  PROVE \E y \in few : rank[y] = i
    <3>1. i \in 1..Cardinality(S)
      BY <2>1
    <3>2. PICK y \in S : Cardinality(Below(S, y)) = i - 1
      BY <3>1, RanksTaken
    <3>3. y \in few
      BY <3>2 DEF Smallest
    <3> QED  BY <3>2, <3>3
  <2>3. rank \in Surjection(few, 1..n)
    <3> HIDE DEF rank, few
    <3> QED  BY <1>4, <2>2 DEF Surjection
  <2> QED  BY <1>8, <2>3
<1>10. Cardinality(few) < n => few = S
  BY <1>1, <1>9
<1> QED  BY <1>1, <1>2, <1>8, <1>10
-------------------------------------------------------------------------------
(* The tailed files.                                                       *)

\* The file only grows, until another one takes its place.
TailGrown == restarts \in Nat /\ (offsetGen = gen => offset <= size)

\* Who left an offset in the middle of a line has cut that line.
TailCut == offsetGen = gen /\ offset % 2 = 1 => <<gen, (offset + 1) \div 2>> \in missed

\* What one connector object has returned lies behind its offset.
TailOnce ==
  restarts = 0 =>
    \A g \in 0..MaxGen, i \in 1..MaxLines :
      /\ delivered[<<g, i>>] <= 1
      /\ delivered[<<g, i>>] > 0 => g < offsetGen \/ (g = offsetGen /\ 2 * i <= offset)

TailInv == Tail_!TypeOK /\ TailGrown /\ TailCut /\ TailOnce /\ Tail_!NoGap

LEMMA TailBounds == MaxLines \in Nat /\ MaxGen \in Nat
  BY IntakeAssumption DEF Tail_!TailAssumption

LEMMA TailNumbers ==
  ASSUME TailInv
  PROVE  /\ gen \in Nat /\ offsetGen \in Nat /\ size \in Nat /\ offset \in Nat
         /\ gen \in 0..MaxGen /\ offsetGen <= gen /\ size <= 2 * MaxLines /\ offset <= 2 * MaxLines
         /\ \A l \in Tail_!Lines : delivered[l] \in 0..2
         /\ \A i \in 1..MaxLines : <<gen, i>> \in Tail_!Lines
<1>1. 2 * MaxLines \in Nat
  BY TailBounds
<1>2. \A i \in 1..MaxLines : gen \in 0..MaxGen => <<gen, i>> \in Tail_!Lines
  BY DEF Tail_!Lines
<1> QED  BY <1>1, <1>2, TailBounds DEF TailInv, Tail_!TypeOK

LEMMA TailBegins ==
  ASSUME TailInit
  PROVE  TailInv
<1> USE DEF TailInit, Tail_!Init
<1>0. 0 \in 0..(2 * MaxLines) /\ 0 \in 0..MaxGen /\ \A i \in 1..MaxLines : ~(2 * i <= 0)
  BY TailBounds
<1>1. Tail_!TypeOK
  <2>1. delivered \in [Tail_!Lines -> 0..2]
    OBVIOUS
  <2>2. gen \in 0..MaxGen /\ offsetGen \in 0..gen /\ size \in 0..(2 * MaxLines) /\ offset \in 0..(2 * MaxLines)
    BY <1>0
  <2>3. aborted \in BOOLEAN
    OBVIOUS
  <2> QED  BY <2>1, <2>2, <2>3 DEF Tail_!TypeOK
<1>2. TailGrown /\ TailCut
  BY DEF TailGrown, TailCut
<1>3. \A g \in 0..MaxGen, i \in 1..MaxLines : delivered[<<g, i>>] = 0
  BY DEF Tail_!Lines
<1>4. TailOnce
  <2>1. \A g \in 0..MaxGen, i \in 1..MaxLines : delivered[<<g, i>>] <= 1 /\ ~(delivered[<<g, i>>] > 0)
    <3>1. \A d : d = 0 => d <= 1 /\ ~(d > 0)
      OBVIOUS
    <3> HIDE DEF TailInit, Tail_!Init
    <3> QED  BY <1>3, <3>1
  <2> QED  BY <2>1 DEF TailOnce
<1>5. Tail_!NoGap
  BY <1>0 DEF Tail_!NoGap, Tail_!Behind
<1> QED  BY <1>1, <1>2, <1>4, <1>5 DEF TailInv

\* A poll that returns.
LEMMA ReturnKeeps ==
  ASSUME TailInv, Tail_!Return(Tail_!ReadFrom)
  PROVE  TailInv'
<1> USE TailBounds
<1>1. PICK from : from = Tail_!ReadFrom
  OBVIOUS
<1>2. /\ gen \in Nat /\ offsetGen \in Nat /\ size \in Nat /\ offset \in Nat
      /\ gen \in 0..MaxGen /\ offsetGen <= gen /\ size <= 2 * MaxLines /\ offset <= 2 * MaxLines
      /\ \A l \in Tail_!Lines : delivered[l] \in 0..2
      /\ \A i \in 1..MaxLines : <<gen, i>> \in Tail_!Lines
  BY TailNumbers
<1>3. /\ offset' = size /\ offsetGen' = gen /\ gen' = gen /\ size' = size
      /\ missed' = missed \union Tail_!Cut \union Tail_!Passed(from)
      /\ restarts' = restarts /\ tailKind' = tailKind /\ aborted' = FALSE
      /\ delivered' = [l \in Tail_!Lines |->
              IF l[1] = gen /\ l[2] \in Tail_!Whole(from) /\ delivered[l] < 2
              THEN delivered[l] + 1 ELSE delivered[l]]
  BY <1>1 DEF Tail_!Return
<1>4. from \in Nat /\ (offsetGen = gen => from = offset)
  BY <1>1, <1>2 DEF Tail_!ReadFrom, TailInv, TailGrown
<1>5. size % 2 = 1 => (size + 1) \div 2 \in 1..MaxLines
  BY <1>2
<1>6. Tail_!Cut \subseteq Tail_!Lines /\ Tail_!Passed(from) \subseteq Tail_!Lines
  BY <1>2, <1>5 DEF Tail_!Cut, Tail_!Passed
<1>7. delivered' \in [Tail_!Lines -> 0..2]
  <2>1. \A l \in Tail_!Lines : (IF l[1] = gen /\ l[2] \in Tail_!Whole(from) /\ delivered[l] < 2
                                THEN delivered[l] + 1 ELSE delivered[l]) \in 0..2
    BY <1>2
  <2> QED  BY <1>3, <2>1
<1>8. Tail_!TypeOK'
  <2>1. tailKind' \in TailKinds /\ missed' \subseteq Tail_!Lines
    BY <1>3, <1>6 DEF TailInv, Tail_!TypeOK
  <2>2. gen' \in 0..MaxGen /\ offsetGen' \in 0..gen'
    BY <1>2, <1>3
  <2>3. size' \in 0..(2 * MaxLines) /\ offset' \in 0..(2 * MaxLines)
    BY <1>3 DEF TailInv, Tail_!TypeOK
  <2>4. aborted' \in BOOLEAN
    BY <1>3
  <2> QED  BY <1>7, <2>1, <2>2, <2>3, <2>4 DEF Tail_!TypeOK
<1>9. TailGrown'
  BY <1>2, <1>3 DEF TailInv, TailGrown
<1>10. TailCut'
  BY <1>3 DEF TailCut, Tail_!Cut
<1>11. ASSUME NEW i \in 1..MaxLines, 2 * i <= size
       PROVE  delivered'[<<gen, i>>] > 0 \/ <<gen, i>> \in missed'
  <2>1. CASE from <= 2 * (i - 1)
    <3>1. i \in Tail_!Whole(from)
      BY <1>11, <2>1 DEF Tail_!Whole
    <3>2. delivered'[<<gen, i>>] = IF delivered[<<gen, i>>] < 2 THEN delivered[<<gen, i>>] + 1
                                   ELSE delivered[<<gen, i>>]
      BY <1>2, <1>3, <3>1
    <3> QED  BY <1>2, <3>2
  <2>2. CASE ~(from <= 2 * (i - 1)) /\ offsetGen # gen
    <3>1. <<gen, i>> \in Tail_!Passed(from)
      BY <1>4, <2>2 DEF Tail_!Passed
    <3> QED  BY <1>3, <3>1
  <2>3. CASE ~(from <= 2 * (i - 1)) /\ offsetGen = gen /\ 2 * i <= offset
    <3>1. delivered[<<gen, i>>] > 0 \/ <<gen, i>> \in missed
      BY <2>3 DEF TailInv, Tail_!NoGap, Tail_!Behind
    <3>2. delivered'[<<gen, i>>] > 0 \/ ~(delivered[<<gen, i>>] > 0)
      BY <1>2, <1>3
    <3> QED  BY <1>3, <3>1, <3>2
  <2>4. CASE ~(from <= 2 * (i - 1)) /\ offsetGen = gen /\ ~(2 * i <= offset)
    <3>1. offset = 2 * i - 1
      BY <1>2, <1>4, <2>4
    <3>2. offset % 2 = 1 /\ (offset + 1) \div 2 = i
      BY <3>1
    <3>3. <<gen, i>> \in missed
      BY <2>4, <3>2 DEF TailInv, TailCut
    <3> QED  BY <1>3, <3>3
  <2> QED  BY <2>1, <2>2, <2>3, <2>4
<1>12. Tail_!NoGap'
  BY <1>3, <1>11 DEF Tail_!NoGap, Tail_!Behind
<1>13. TailOnce'
  <2> SUFFICES ASSUME restarts = 0, NEW g \in 0..MaxGen, NEW i \in 1..MaxLines
               PROVE  /\ delivered'[<<g, i>>] <= 1
                      /\ delivered'[<<g, i>>] > 0 => g < gen \/ (g = gen /\ 2 * i <= size)
    BY <1>3 DEF TailOnce
  <2>1. <<g, i>> \in Tail_!Lines /\ g \in Nat /\ i \in Nat
    BY DEF Tail_!Lines
  <2>2. /\ delivered[<<g, i>>] \in 0..1
        /\ delivered[<<g, i>>] > 0 => g < offsetGen \/ (g = offsetGen /\ 2 * i <= offset)
    BY <1>2, <2>1 DEF TailInv, TailOnce
  <2>3. CASE g = gen /\ i \in Tail_!Whole(from)
    <3>1. from <= 2 * (i - 1) /\ 2 * i <= size
      BY <2>3 DEF Tail_!Whole
    <3>2. delivered[<<g, i>>] = 0
      BY <1>2, <1>4, <2>1, <2>2, <2>3, <3>1
    <3>3. delivered'[<<g, i>>] = 1
      BY <1>3, <2>1, <2>3, <3>2
    <3> QED  BY <2>3, <3>1, <3>3
  <2>4. CASE ~(g = gen /\ i \in Tail_!Whole(from))
    <3>1. delivered'[<<g, i>>] = delivered[<<g, i>>]
      BY <1>3, <2>1, <2>4
    <3>2. g = gen /\ g = offsetGen /\ 2 * i <= offset => 2 * i <= size
      BY <1>2, <2>1 DEF TailInv, TailGrown
    <3> QED  BY <1>2, <2>1, <2>2, <3>1, <3>2
  <2> QED  BY <2>3, <2>4
<1> QED  BY <1>8, <1>9, <1>10, <1>12, <1>13 DEF TailInv

LEMMA TailKept ==
  ASSUME TailInv, Tail_!Next
  PROVE  TailInv'
<1> USE TailBounds
<1>1. /\ gen \in Nat /\ offsetGen \in Nat /\ size \in Nat /\ offset \in Nat
      /\ gen \in 0..MaxGen /\ offsetGen <= gen /\ size <= 2 * MaxLines /\ offset <= 2 * MaxLines
  BY TailNumbers
<1>2. CASE Tail_!WriteHalfLine
  <2> USE <1>2 DEF Tail_!WriteHalfLine
  <2>1. Tail_!TypeOK'
    BY <1>1 DEF TailInv, Tail_!TypeOK
  <2>2. TailGrown'
    BY <1>1 DEF TailInv, TailGrown
  <2>3. TailCut' /\ TailOnce' /\ Tail_!NoGap'
    BY DEF TailInv, TailCut, TailOnce, Tail_!NoGap, Tail_!Behind
  <2> QED  BY <2>1, <2>2, <2>3 DEF TailInv
<1>3. CASE Tail_!Rotate
  <2> USE <1>3 DEF Tail_!Rotate
  <2>1. gen' = gen + 1 /\ gen' \in 0..MaxGen /\ offsetGen' = offsetGen /\ offsetGen # gen'
        /\ offsetGen \in 0..gen' /\ 0 \in 0..(2 * MaxLines)
    BY <1>1
  <2>2. Tail_!TypeOK'
    BY <1>1, <2>1 DEF TailInv, Tail_!TypeOK
  <2>3. TailGrown' /\ TailCut'
    BY <2>1 DEF TailInv, TailGrown, TailCut
  <2>4. TailOnce' /\ Tail_!NoGap'
    BY <2>1 DEF TailInv, TailOnce, Tail_!NoGap, Tail_!Behind
  <2> QED  BY <2>2, <2>3, <2>4 DEF TailInv
<1>4. CASE Tail_!FilePoll \/ Tail_!CloudTrailPoll \/ Tail_!SysmonPoll
  <2>1. CASE Tail_!Return(Tail_!ReadFrom)
    BY <2>1, ReturnKeeps
  <2>2. CASE UNCHANGED <<tailKind, gen, size, offset, offsetGen, delivered, missed, restarts>>
             /\ aborted' = TRUE
    BY <2>2 DEF TailInv, Tail_!TypeOK, TailGrown, TailCut, TailOnce, Tail_!NoGap, Tail_!Behind,
                Tail_!Lines
  <2> QED  BY <1>4, <2>1, <2>2 DEF Tail_!FilePoll, Tail_!CloudTrailPoll, Tail_!SysmonPoll
<1>5. CASE Tail_!Restart
  <2> USE <1>5 DEF Tail_!Restart
  <2>1. restarts \in Nat /\ restarts' = restarts + 1 /\ restarts' # 0 /\ restarts' \in Nat
    BY DEF TailInv, TailGrown
  <2>2. Tail_!TypeOK'
    <3>1. offset' \in 0..(2 * MaxLines) /\ offsetGen' \in 0..gen'
      BY <1>1
    <3>2. aborted' \in BOOLEAN
      OBVIOUS
    <3> QED  BY <3>1, <3>2 DEF TailInv, Tail_!TypeOK
  <2>3. TailGrown' /\ TailCut' /\ TailOnce'
    BY <1>1, <2>1 DEF TailGrown, TailCut, TailOnce
  <2>4. \A i \in 1..MaxLines : ~(2 * i <= 0)
    OBVIOUS
  <2>5. Tail_!NoGap'
    BY <2>4 DEF Tail_!NoGap, Tail_!Behind
  <2> QED  BY <2>2, <2>3, <2>5 DEF TailInv
<1> QED  BY <1>2, <1>3, <1>4, <1>5 DEF Tail_!Next

LEMMA TailUnchanged ==
  ASSUME TailInv, UNCHANGED tailVars
  PROVE  TailInv'
  BY DEF tailVars, TailInv, Tail_!TypeOK, TailGrown, TailCut, TailOnce, Tail_!NoGap, Tail_!Behind,
         Tail_!Lines

LEMMA TailSafe ==
  ASSUME TailInv
  PROVE  Tail_!TypeOK /\ Tail_!NoGap /\ Tail_!NoReplay
  BY DEF TailInv, TailOnce, Tail_!NoReplay, Tail_!Lines
-------------------------------------------------------------------------------
(* The elements of a sequence.                                             *)

Elements(s) == {s[i] : i \in 1..Len(s)}

LEMMA ElementsOf ==
  ASSUME NEW T, NEW s \in Seq(T)
  PROVE  /\ Bucket!ToSet(s) = Elements(s) /\ Poll!SetOf(s) = Elements(s)
         /\ Elements(s) \subseteq T /\ DOMAIN s = 1..Len(s) /\ Len(s) \in Nat
<1>1. DOMAIN s = 1..Len(s) /\ Len(s) \in Nat
  BY LenProperties
<1>2. \A i \in 1..Len(s) : s[i] \in T
  BY ElementOfSeq
<1> QED  BY <1>1, <1>2 DEF Bucket!ToSet, Poll!SetOf, Elements

LEMMA ElementsNone == Elements(<<>>) = {} /\ Len(<<>>) = 0 /\ \A T : <<>> \in Seq(T)
<1>1. Len(<<>>) = 0 /\ \A T : <<>> \in Seq(T)
  OBVIOUS
<1> QED  BY <1>1 DEF Elements

LEMMA ElementsAppended ==
  ASSUME NEW T, NEW s \in Seq(T), NEW x \in T
  PROVE  /\ Append(s, x) \in Seq(T) /\ Elements(Append(s, x)) = Elements(s) \union {x}
         /\ Len(Append(s, x)) = Len(s) + 1
<1>1. /\ Append(s, x) \in Seq(T) /\ Len(Append(s, x)) = Len(s) + 1
      /\ \A i \in 1..Len(s) : Append(s, x)[i] = s[i]
      /\ Append(s, x)[Len(s) + 1] = x /\ Len(s) \in Nat
  BY AppendProperties, LenProperties
<1>2. Elements(Append(s, x)) \subseteq Elements(s) \union {x}
  BY <1>1 DEF Elements
<1>3. Elements(s) \subseteq Elements(Append(s, x)) /\ x \in Elements(Append(s, x))
  BY <1>1 DEF Elements
<1> QED  BY <1>1, <1>2, <1>3

LEMMA ElementsJoined ==
  ASSUME NEW T, NEW s \in Seq(T), NEW t \in Seq(T)
  PROVE  s \o t \in Seq(T) /\ Elements(s \o t) = Elements(s) \union Elements(t)
<1>1. /\ s \o t \in Seq(T) /\ Len(s \o t) = Len(s) + Len(t)
      /\ \A i \in 1..(Len(s) + Len(t)) : (s \o t)[i] = IF i <= Len(s) THEN s[i] ELSE t[i - Len(s)]
      /\ Len(s) \in Nat /\ Len(t) \in Nat
  BY ConcatProperties, LenProperties
<1>2. Elements(s \o t) \subseteq Elements(s) \union Elements(t)
  <2> SUFFICES ASSUME NEW i \in 1..(Len(s) + Len(t))
               PROVE  (s \o t)[i] \in Elements(s) \union Elements(t)
    BY <1>1 DEF Elements
  <2>1. CASE i <= Len(s)
    BY <1>1, <2>1 DEF Elements
  <2>2. CASE ~(i <= Len(s))
    <3>1. i - Len(s) \in 1..Len(t)
      BY <1>1, <2>2
    <3> QED  BY <1>1, <2>2, <3>1 DEF Elements
  <2> QED  BY <2>1, <2>2
<1>3. ASSUME NEW i \in 1..Len(s)  PROVE s[i] \in Elements(s \o t)
  <2>1. i \in 1..(Len(s) + Len(t)) /\ i <= Len(s)
    BY <1>1
  <2> QED  BY <1>1, <2>1 DEF Elements
<1>4. ASSUME NEW i \in 1..Len(t)  PROVE t[i] \in Elements(s \o t)
  <2>1. i + Len(s) \in 1..(Len(s) + Len(t)) /\ ~(i + Len(s) <= Len(s)) /\ (i + Len(s)) - Len(s) = i
    BY <1>1
  <2>2. (s \o t)[i + Len(s)] = t[i]
    BY <1>1, <2>1
  <2> QED  BY <1>1, <2>1, <2>2 DEF Elements
<1> QED  BY <1>1, <1>2, <1>3, <1>4 DEF Elements

\* The last n elements.
LEMMA LastOnes ==
  ASSUME NEW T, NEW s \in Seq(T), NEW n \in Nat \ {0}, Len(s) > n
  PROVE  /\ SubSeq(s, Len(s) - n + 1, Len(s)) \in Seq(T)
         /\ Len(SubSeq(s, Len(s) - n + 1, Len(s))) = n
         /\ \A i \in 1..n : SubSeq(s, Len(s) - n + 1, Len(s))[i] = s[i + (Len(s) - n)]
         /\ Elements(SubSeq(s, Len(s) - n + 1, Len(s))) \subseteq Elements(s)
<1>1. Len(s) \in Nat
  BY LenProperties
<1>2. PICK t : t = SubSeq(s, Len(s) - n + 1, Len(s))
  OBVIOUS
<1>3. PICK m \in Nat : m = Len(s) - n /\ m + 1 \in 1..(Len(s) + 1) /\ Len(s) - (m + 1) + 1 = n
  BY <1>1
<1>4. t = SubSeq(s, m + 1, Len(s))
  BY <1>2, <1>3
<1>5. t \in Seq(T) /\ Len(t) = n /\ \A i \in 1..n : t[i] = s[(m + 1) + i - 1]
  BY <1>1, <1>3, <1>4, SubSeqProperties
<1>6. \A i \in 1..n : t[i] = s[i + m] /\ i + m \in 1..Len(s)
  BY <1>1, <1>3, <1>5
<1>7. Elements(t) \subseteq Elements(s)
  BY <1>5, <1>6 DEF Elements
<1> QED  BY <1>2, <1>3, <1>5, <1>6, <1>7

LEMMA ElementsAfterHead ==
  ASSUME NEW T, NEW s \in Seq(T), s # <<>>
  PROVE  /\ Tail(s) \in Seq(T) /\ Head(s) \in T /\ Head(s) = s[1] /\ Len(s) \in Nat \ {0}
         /\ Len(Tail(s)) = Len(s) - 1 /\ \A i \in 1..(Len(s) - 1) : Tail(s)[i] = s[i + 1]
         /\ Elements(s) = {Head(s)} \union Elements(Tail(s))
<1>1. /\ Tail(s) \in Seq(T) /\ Head(s) \in T /\ Head(s) = s[1] /\ Len(s) \in Nat
      /\ Len(Tail(s)) = Len(s) - 1 /\ \A i \in 1..(Len(s) - 1) : Tail(s)[i] = s[i + 1]
  BY HeadTailProperties, LenProperties, ElementOfSeq
<1>2. Len(s) # 0
  BY EmptySeq
<1>3. ASSUME NEW i \in 1..Len(s)  PROVE s[i] \in {Head(s)} \union Elements(Tail(s))
  <2>1. CASE i = 1
    BY <1>1, <2>1
  <2>2. CASE i # 1
    <3>1. i - 1 \in 1..(Len(s) - 1) /\ (i - 1) + 1 = i
      BY <1>1, <2>2
    <3>2. s[i] = Tail(s)[i - 1]
      BY <1>1, <3>1
    <3> QED  BY <1>1, <3>1, <3>2 DEF Elements
  <2> QED  BY <2>1, <2>2
<1>4. ASSUME NEW i \in 1..(Len(s) - 1)  PROVE Tail(s)[i] \in Elements(s)
  <2>1. i + 1 \in 1..Len(s)
    BY <1>1
  <2> QED  BY <1>1, <2>1 DEF Elements
<1>5. Head(s) \in Elements(s)
  <2>1. 1 \in 1..Len(s)
    BY <1>1, <1>2
  <2> QED  BY <1>1, <2>1 DEF Elements
<1> QED  BY <1>1, <1>2, <1>3, <1>4, <1>5 DEF Elements

LEMMA ElementsInOrder ==
  ASSUME NEW S, Numbers(S)
  PROVE  Elements(InOrder(S)) = S
  BY InOrderIs DEF Elements

LEMMA SameOrders ==
  \A S, n : /\ Bucket!InOrder(S) = InOrder(S) /\ Bucket!Smallest(S, n) = Smallest(S, n)
            /\ Poll!InOrder(S) = InOrder(S)
            /\ Content!InOrder(S) = InOrder(S) /\ Content!Smallest(S, n) = Smallest(S, n)
<1>1. \A S : /\ Bucket!Cardinality(S) = Cardinality(S) /\ Poll!Cardinality(S) = Cardinality(S)
             /\ Content!Cardinality(S) = Cardinality(S)
  BY DEF Bucket!Cardinality, Poll!Cardinality, Content!Cardinality, Cardinality
<1>2. \A S, x : /\ Bucket!Below(S, x) = Below(S, x) /\ Poll!Below(S, x) = Below(S, x)
                /\ Content!Below(S, x) = Below(S, x)
  BY DEF Bucket!Below, Poll!Below, Content!Below, Below
<1> QED  BY <1>1, <1>2 DEF Bucket!InOrder, Poll!InOrder, Content!InOrder, InOrder,
                           Bucket!Smallest, Content!Smallest, Smallest
-------------------------------------------------------------------------------
(* The bucket.                                                             *)

ObjectTypes ==
  /\ objects \subseteq Bucket!Keys /\ late \subseteq objects /\ objectsDropped \subseteq Bucket!Keys
  /\ objectFile \in [last : 0..MaxKey, seen : Seq(Bucket!Keys)] /\ Len(objectFile.seen) <= SeenKeys
  /\ objectPc \in {"idle", "list", "read", "save", "returned"}
  /\ last \in 0..MaxKey /\ objectSeen \in Seq(Bucket!Keys) /\ objectEvents \in Seq(Bucket!Keys)
  /\ todo \in Seq(Bucket!Keys) /\ Len(todo) <= MaxObjects
  /\ objectsIngested \in [Bucket!Keys -> 0..2]
  /\ objectCrashes \in Nat /\ objectSaves \in Nat

\* A key that was listed stays in the bucket.
ObjectKnown ==
  /\ last \in objects \union {0} /\ objectFile.last \in objects \union {0}
  /\ Elements(todo) \subseteq objects
  /\ objectPc = "idle" => objectEvents = <<>>
  /\ objectPc # "read" => todo = <<>>

Processed(k) == objectsIngested[k] > 0 \/ k \in Elements(objectEvents)
Treated(k) == Processed(k) \/ k \in objectsDropped \/ k \in late

\* Nothing lies untreated behind the key kept in memory or in the file, and
\* nobody is remembered who was not read.
ObjectCovered ==
  /\ \A k \in Elements(objectSeen) \union Elements(objectFile.seen) : Treated(k)
  /\ \A k \in objects \ NotLogs : k <= last \/ k <= objectFile.last => Treated(k)

\* The listing is in order, and leaves out nothing between the last key and its own.
ObjectListed ==
  /\ \A i \in 1..Len(todo) : last < todo[i]
  /\ \A i, j \in 1..Len(todo) : i < j => todo[i] < todo[j]
  /\ \A i \in 1..Len(todo) : \A k \in objects \ NotLogs :
       k < todo[i] => Treated(k) \/ k \in Elements(todo)

\* While no state is lost, what was processed lies behind the last key.
ObjectOnce ==
  objectSaves = 0 /\ objectCrashes = 0 =>
    /\ \A k \in Bucket!Keys : Processed(k) => k <= IF objectPc = "idle" THEN objectFile.last ELSE last
    /\ \A k \in Bucket!Keys : objectsIngested[k] <= 1
    /\ \A k \in Elements(objectEvents) : objectsIngested[k] = 0
    /\ objectPc = "returned" => objectFile.last = last

ObjectInv == ObjectTypes /\ ObjectKnown /\ ObjectCovered /\ ObjectListed /\ ObjectOnce

LEMMA ObjectBounds ==
  /\ MaxKey \in Nat \ {0} /\ ListBound \in Nat \ {0} /\ MaxObjects \in Nat \ {0}
  /\ SeenKeys \in Nat \ {0} /\ NotLogs \subseteq 1..MaxKey /\ Bucket!Keys = 1..MaxKey
  BY IntakeAssumption DEF Bucket!ObjectAssumption, Bucket!Keys

\* An object that is treated stays so.
LEMMA ObjectBegins ==
  ASSUME Bucket!Init
  PROVE  ObjectInv
<1> USE DEF Bucket!Init, Bucket!Idle
<1>1. ObjectTypes
  <2>1. objectFile \in [last : 0..MaxKey, seen : Seq(Bucket!Keys)] /\ Len(objectFile.seen) = 0
    BY ObjectBounds DEF Bucket!NoFile
  <2>2. objectsIngested \in [Bucket!Keys -> 0..2]
    OBVIOUS
  <2>3. Len(todo) = 0 /\ <<>> \in Seq(Bucket!Keys)
    OBVIOUS
  <2> QED  BY <2>1, <2>2, <2>3, ObjectBounds DEF ObjectTypes
<1>2. Elements(todo) = {} /\ Elements(objectSeen) = {} /\ Elements(objectEvents) = {}
      /\ Elements(objectFile.seen) = {} /\ Len(todo) = 0
  BY ElementsNone DEF Bucket!NoFile
<1>3. ObjectKnown /\ ObjectCovered
  BY <1>2 DEF ObjectKnown, ObjectCovered, Bucket!NoFile
<1>4. ObjectListed
  BY <1>2 DEF ObjectListed
<1>5. ObjectOnce
  <2>1. \A k \in Bucket!Keys : objectsIngested[k] = 0
    OBVIOUS
  <2>2. \A x : x = 0 => x <= 1 /\ ~(x > 0)
    OBVIOUS
  <2>3. \A k \in Bucket!Keys : ~Processed(k) /\ objectsIngested[k] <= 1
    BY <1>2, <2>1, <2>2 DEF Processed
  <2> HIDE DEF Bucket!Init, Bucket!Idle
  <2>4. objectPc # "returned"
    BY DEF Bucket!Init
  <2> QED  BY <1>2, <2>3, <2>4 DEF ObjectOnce
<1> QED  BY <1>1, <1>3, <1>4, <1>5 DEF ObjectInv

LEMMA PutKeeps ==
  ASSUME ObjectInv, NEW k \in Bucket!Keys, Bucket!PutObject(k)
  PROVE  ObjectInv'
<1> USE DEF ObjectInv
<1>1. /\ k \notin objects /\ objects' = objects \union {k}
      /\ late' = IF \E j \in {objectFile.last, last} \union Elements(todo) : k < j
                 THEN late \union {k} ELSE late
      /\ UNCHANGED <<objectFile, objectPc, last, objectSeen, todo, objectEvents, objectsIngested,
                     objectsDropped, objectCrashes, objectSaves>>
  <2>1. Bucket!ToSet(todo) = Elements(todo)
    BY ElementsOf DEF ObjectTypes
  <2> QED  BY <2>1 DEF Bucket!PutObject
<1>2. ObjectTypes' /\ ObjectOnce'
  BY <1>1 DEF ObjectTypes, ObjectOnce, Processed
<1>3. ObjectKnown'
  BY <1>1 DEF ObjectKnown
<1>4. \A x : Treated(x) => Treated(x)'
  BY <1>1 DEF Treated, Processed
<1>5. ASSUME NEW j \in {objectFile.last, last} \union Elements(todo), k <= j
      PROVE  Treated(k)'
  <2>1. j \in objects \union {0} /\ j # k
    BY <1>1, ObjectBounds DEF ObjectKnown
  <2>2. j \in Nat /\ k \in Nat
    BY <2>1, ObjectBounds DEF ObjectTypes
  <2>3. k < j
    BY <1>5, <2>1, <2>2
  <2> QED  BY <1>1, <2>3 DEF Treated
<1>6. ObjectCovered'
  <2>1. \A x \in Elements(objectSeen) \union Elements(objectFile.seen) : Treated(x)'
    BY <1>4 DEF ObjectCovered
  <2>2. \A x \in objects' \ NotLogs : x <= last \/ x <= objectFile.last => Treated(x)'
    BY <1>1, <1>4, <1>5 DEF ObjectCovered
  <2> QED  BY <1>1, <2>1, <2>2 DEF ObjectCovered
<1>7. ObjectListed'
  <2>1. ASSUME NEW i \in 1..Len(todo), NEW x \in objects' \ NotLogs, x < todo[i]
        PROVE  Treated(x)' \/ x \in Elements(todo)
    <3>1. CASE x \in objects
      BY <1>4, <2>1, <3>1 DEF ObjectListed
    <3>2. CASE x = k
      <4>1. todo[i] \in Elements(todo)
        BY DEF Elements
      <4>2. todo[i] \in Nat /\ k \in Nat
        BY <4>1, ObjectBounds DEF ObjectKnown, ObjectTypes
      <4>3. k <= todo[i]
        BY <2>1, <3>2, <4>2
      <4> QED  BY <1>5, <3>2, <4>1, <4>3
    <3> QED  BY <1>1, <3>1, <3>2
  <2> QED  BY <1>1, <2>1 DEF ObjectListed
<1> QED  BY <1>2, <1>3, <1>6, <1>7

LEMMA StartObjectsKeeps ==
  ASSUME ObjectInv, Bucket!StartPoll
  PROVE  ObjectInv'
<1> USE DEF ObjectInv
<1>1. /\ objectPc = "idle" /\ objectPc' = "list" /\ last' = objectFile.last
      /\ objectSeen' = objectFile.seen /\ todo' = <<>> /\ objectEvents' = <<>>
      /\ UNCHANGED <<objects, late, objectFile, objectsIngested, objectsDropped, objectCrashes,
                     objectSaves>>
  BY DEF Bucket!StartPoll
<1>2. objectEvents = <<>>
  BY <1>1 DEF ObjectKnown
<1>3. Elements(todo') = {} /\ Len(todo') = 0 /\ todo' \in Seq(Bucket!Keys)
  BY <1>1, ElementsNone
<1>4. ObjectTypes'
  BY <1>1, <1>3, ObjectBounds DEF ObjectTypes
<1>5. ObjectKnown' /\ ObjectListed'
  BY <1>1, <1>3 DEF ObjectKnown, ObjectListed
<1>6. ObjectCovered' /\ ObjectOnce'
  BY <1>1, <1>2 DEF ObjectCovered, ObjectOnce, Treated, Processed
<1> QED  BY <1>4, <1>5, <1>6

\* The listing: a prefix of what lies after the last key.
LEMMA ListingIs ==
  ASSUME ObjectInv
  PROVE  /\ Bucket!ListObjects \in Seq(Bucket!Keys) /\ Len(Bucket!ListObjects) <= MaxObjects
         /\ \A i, j \in 1..Len(Bucket!ListObjects) :
              i < j => Bucket!ListObjects[i] < Bucket!ListObjects[j]
         /\ \A x \in Elements(Bucket!ListObjects) : x \in objects \ NotLogs /\ last < x
         /\ \A x \in Elements(Bucket!ListObjects), k \in objects \ NotLogs :
              k < x => k <= last \/ k \in Elements(Bucket!ListObjects)
<1> DEFINE after == {k \in objects : k > last}
           page == Smallest(after, ListBound)
           few == Smallest(page \ NotLogs, MaxObjects)
<1>1. Numbers(after)
  <2>1. IsFiniteSet(1..MaxKey)
    BY ObjectBounds, FS_Interval
  <2>2. after \subseteq 1..MaxKey
    BY ObjectBounds DEF ObjectInv, ObjectTypes
  <2>4. 1..MaxKey \subseteq Nat
    BY ObjectBounds
  <2> HIDE DEF after
  <2>3. IsFiniteSet(after)
    BY <2>1, <2>2, FS_Subset
  <2> QED  BY <2>2, <2>3, <2>4 DEF Numbers
<1>2. /\ Numbers(page) /\ page \subseteq after
      /\ \A x \in page : \A y \in after : y < x => y \in page
  <2> HIDE DEF after
  <2> QED  BY <1>1, SmallestIs, ObjectBounds
<1>3. Numbers(page \ NotLogs)
  <2> HIDE DEF page
  <2> QED  BY <1>2, FS_Subset DEF Numbers
<1>4. /\ Numbers(few) /\ few \subseteq page \ NotLogs /\ Cardinality(few) <= MaxObjects
      /\ \A x \in few : \A y \in page \ NotLogs : y < x => y \in few
  <2> HIDE DEF page
  <2> QED  BY <1>3, SmallestIs, ObjectBounds
<1>5. Bucket!ListObjects = InOrder(few)
  BY SameOrders DEF Bucket!ListObjects
<1>6. few \subseteq objects \ NotLogs /\ (\A x \in few : last < x) /\ few \subseteq Bucket!Keys
  <2>1. few \subseteq after \ NotLogs
    <3> HIDE DEF after, page, few
    <3> QED  BY <1>2, <1>4
  <2>2. \A x \in after : x \in objects /\ last < x
    BY DEF ObjectInv, ObjectTypes
  <2> HIDE DEF after, page, few
  <2> QED  BY <2>1, <2>2 DEF ObjectInv, ObjectTypes
<1>7. ASSUME NEW x \in few, NEW k \in objects \ NotLogs, k < x
      PROVE  k <= last \/ k \in few
  <2>1. CASE k > last
    <3>1. k \in after /\ x \in page
      BY <1>4, <2>1
    <3>2. k \in page
      <4> HIDE DEF after, page, few
      <4> QED  BY <1>2, <1>7, <3>1
    <3> QED  BY <1>4, <1>7, <3>2
  <2>2. CASE ~(k > last)
    BY <2>2, ObjectBounds DEF ObjectInv, ObjectTypes
  <2> QED  BY <2>1, <2>2
<1> HIDE DEF after, page, few
<1>8. /\ InOrder(few) \in Seq(few) /\ Len(InOrder(few)) = Cardinality(few)
      /\ \A i, j \in 1..Cardinality(few) : i < j => InOrder(few)[i] < InOrder(few)[j]
  BY <1>4, InOrderIs
<1>9. InOrder(few) \in Seq(Bucket!Keys)
  BY <1>6, <1>8, SeqMonotonic
<1>10. Elements(InOrder(few)) = few
  BY <1>4, ElementsInOrder
<1> QED  BY <1>4, <1>5, <1>6, <1>7, <1>8, <1>9, <1>10

LEMMA ListKeeps ==
  ASSUME ObjectInv, NEW ok \in BOOLEAN, Bucket!List(ok)
  PROVE  ObjectInv'
<1> USE DEF ObjectInv
<1>1. /\ objectPc = "list"
      /\ \/ objectPc' = "read" /\ todo' = Bucket!ListObjects
         \/ objectPc' = "save" /\ todo' = <<>>
      /\ UNCHANGED <<objects, late, objectFile, last, objectSeen, objectEvents, objectsIngested,
                     objectsDropped, objectCrashes, objectSaves>>
  BY DEF Bucket!List
<1>2. /\ todo' \in Seq(Bucket!Keys) /\ Len(todo') <= MaxObjects
      /\ \A i, j \in 1..Len(todo') : i < j => todo'[i] < todo'[j]
      /\ \A x \in Elements(todo') : x \in objects \ NotLogs /\ last < x
      /\ \A x \in Elements(todo'), k \in objects \ NotLogs :
           k < x => k <= last \/ k \in Elements(todo')
      /\ objectPc' # "read" => todo' = <<>>
  <2>1. CASE todo' = Bucket!ListObjects /\ objectPc' = "read"
    BY <2>1, ListingIs
  <2>2. CASE todo' = <<>>
    <3>1. Elements(todo') = {} /\ Len(todo') = 0 /\ todo' \in Seq(Bucket!Keys)
      BY <2>2, ElementsNone
    <3> QED  BY <2>2, <3>1, ObjectBounds
  <2> QED  BY <1>1, <2>1, <2>2
<1>3. ObjectTypes'
  BY <1>1, <1>2 DEF ObjectTypes
<1>4. ObjectKnown'
  BY <1>1, <1>2 DEF ObjectKnown
<1>5. ObjectCovered' /\ ObjectOnce'
  BY <1>1 DEF ObjectCovered, ObjectOnce, Treated, Processed
<1>6. ObjectListed'
  <2>1. \A i \in 1..Len(todo') : todo'[i] \in Elements(todo')
    BY DEF Elements
  <2>2. \A k : Treated(k)' = Treated(k)
    BY <1>1 DEF Treated, Processed
  <2> QED  BY <1>1, <1>2, <2>1, <2>2 DEF ObjectListed, ObjectCovered
<1> QED  BY <1>3, <1>4, <1>5, <1>6

\* The head of the listing.
LEMMA HeadIs ==
  ASSUME ObjectInv, todo # <<>>
  PROVE  /\ Tail(todo) \in Seq(Bucket!Keys) /\ Len(Tail(todo)) <= MaxObjects
         /\ Head(todo) \in Bucket!Keys /\ Head(todo) \in objects /\ last < Head(todo)
         /\ Elements(todo) = {Head(todo)} \union Elements(Tail(todo))
         /\ \A i \in 1..Len(Tail(todo)) : last < Tail(todo)[i] /\ Head(todo) < Tail(todo)[i]
         /\ \A i, j \in 1..Len(Tail(todo)) : i < j => Tail(todo)[i] < Tail(todo)[j]
         /\ \A i \in 1..Len(Tail(todo)) : \A k \in objects \ NotLogs :
              k < Tail(todo)[i] => Treated(k) \/ k \in Elements(todo)
         /\ \A k \in objects \ NotLogs : k < Head(todo) => Treated(k)
<1> USE DEF ObjectInv
<1>1. /\ Tail(todo) \in Seq(Bucket!Keys) /\ Head(todo) \in Bucket!Keys /\ Head(todo) = todo[1]
      /\ Len(todo) \in Nat \ {0} /\ Len(Tail(todo)) = Len(todo) - 1
      /\ \A i \in 1..(Len(todo) - 1) : Tail(todo)[i] = todo[i + 1]
      /\ Elements(todo) = {Head(todo)} \union Elements(Tail(todo))
  BY ElementsAfterHead DEF ObjectTypes
<1>2. 1 \in 1..Len(todo) /\ \A i \in 1..(Len(todo) - 1) : i + 1 \in 1..Len(todo) /\ 1 < i + 1
  BY <1>1
<1>3. Head(todo) \in objects /\ last < Head(todo) /\ Len(Tail(todo)) <= MaxObjects
  <2>1. last < todo[1]
    BY <1>2 DEF ObjectListed
  <2> QED  BY <1>1, <2>1, ObjectBounds DEF ObjectKnown, ObjectTypes
<1>4. \A i \in 1..Len(Tail(todo)) : last < Tail(todo)[i] /\ Head(todo) < Tail(todo)[i]
  BY <1>1, <1>2 DEF ObjectListed
<1>5. ASSUME NEW i \in 1..Len(Tail(todo)), NEW j \in 1..Len(Tail(todo)), i < j
      PROVE  Tail(todo)[i] < Tail(todo)[j]
  <2>1. i + 1 < j + 1 /\ i + 1 \in 1..Len(todo) /\ j + 1 \in 1..Len(todo)
    BY <1>1, <1>5
  <2> QED  BY <1>1, <2>1 DEF ObjectListed
<1>6. \A i \in 1..Len(Tail(todo)) : \A k \in objects \ NotLogs :
        k < Tail(todo)[i] => Treated(k) \/ k \in Elements(todo)
  BY <1>1, <1>2 DEF ObjectListed
<1>7. ASSUME NEW k \in objects \ NotLogs, k < Head(todo)
      PROVE  Treated(k)
  <2>1. Treated(k) \/ k \in Elements(todo)
    BY <1>1, <1>2, <1>7 DEF ObjectListed
  <2>2. k # Head(todo) /\ k \in Nat /\ Head(todo) \in Nat
    BY <1>1, <1>7, ObjectBounds DEF ObjectTypes
  <2>3. k \notin Elements(Tail(todo))
    <3>1. SUFFICES ASSUME NEW i \in 1..Len(Tail(todo)), k = Tail(todo)[i]  PROVE FALSE
      BY DEF Elements
    <3>2. Head(todo) < k
      BY <1>4, <3>1
    <3> QED  BY <1>7, <2>2, <3>2
  <2> QED  BY <1>1, <2>1, <2>2, <2>3
<1> QED  BY <1>1, <1>3, <1>4, <1>5, <1>6, <1>7

LEMMA ReadKeeps ==
  ASSUME ObjectInv, NEW ok \in BOOLEAN, Bucket!ReadObject(ok)
  PROVE  ObjectInv'
<1> USE DEF ObjectInv
<1>1. PICK k : k = Head(todo)
  OBVIOUS
<1>2. /\ objectPc = "read" /\ todo # <<>>
      /\ UNCHANGED <<objects, late, objectFile, objectsIngested, objectsDropped, objectCrashes,
                     objectSaves>>
  BY DEF Bucket!ReadObject
<1>3. Bucket!ToSet(objectSeen) = Elements(objectSeen)
  BY ElementsOf DEF ObjectTypes
<1>4. \/ /\ k \in Elements(objectSeen) /\ todo' = Tail(todo)
         /\ UNCHANGED <<objectPc, last, objectSeen, objectEvents>>
      \/ /\ objectEvents' = Append(objectEvents, k) /\ objectSeen' = Append(objectSeen, k)
         /\ last' = (IF k > last THEN k ELSE last) /\ todo' = Tail(todo) /\ objectPc' = objectPc
      \/ /\ objectPc' = "save" /\ todo' = <<>> /\ UNCHANGED <<last, objectSeen, objectEvents>>
  BY <1>1, <1>3 DEF Bucket!ReadObject
<1>5. /\ Tail(todo) \in Seq(Bucket!Keys) /\ Len(Tail(todo)) <= MaxObjects
      /\ k \in Bucket!Keys /\ k \in objects /\ last < k
      /\ Elements(todo) = {k} \union Elements(Tail(todo))
      /\ \A i \in 1..Len(Tail(todo)) : last < Tail(todo)[i] /\ k < Tail(todo)[i]
      /\ \A i, j \in 1..Len(Tail(todo)) : i < j => Tail(todo)[i] < Tail(todo)[j]
      /\ \A i \in 1..Len(Tail(todo)) : \A x \in objects \ NotLogs :
           x < Tail(todo)[i] => Treated(x) \/ x \in Elements(todo)
      /\ \A x \in objects \ NotLogs : x < k => Treated(x)
  BY <1>1, <1>2, HeadIs
<1>6. CASE /\ k \in Elements(objectSeen) /\ todo' = Tail(todo)
           /\ UNCHANGED <<objectPc, last, objectSeen, objectEvents>>
  <2>1. ObjectTypes'
    BY <1>2, <1>5, <1>6 DEF ObjectTypes
  <2>2. ObjectKnown'
    BY <1>2, <1>5, <1>6 DEF ObjectKnown
  <2>3. \A x : Treated(x)' = Treated(x)
    BY <1>2, <1>6 DEF Treated, Processed
  <2>4. ObjectCovered' /\ ObjectOnce'
    BY <1>2, <1>6 DEF ObjectCovered, ObjectOnce, Treated, Processed
  <2>5. Treated(k)
    BY <1>6 DEF ObjectCovered
  <2>6. ObjectListed'
    BY <1>2, <1>5, <1>6, <2>3, <2>5 DEF ObjectListed
  <2> QED  BY <2>1, <2>2, <2>4, <2>6
<1>7. CASE /\ objectEvents' = Append(objectEvents, k) /\ objectSeen' = Append(objectSeen, k)
           /\ last' = (IF k > last THEN k ELSE last) /\ todo' = Tail(todo) /\ objectPc' = objectPc
  <2>1. last' = k /\ k \in 0..MaxKey /\ k \in Nat /\ k > 0 /\ last \in Nat
    BY <1>5, <1>7, ObjectBounds DEF ObjectTypes
  <2>2. /\ objectEvents' \in Seq(Bucket!Keys) /\ objectSeen' \in Seq(Bucket!Keys)
        /\ Elements(objectEvents') = Elements(objectEvents) \union {k}
        /\ Elements(objectSeen') = Elements(objectSeen) \union {k}
    BY <1>5, <1>7, ElementsAppended DEF ObjectTypes
  <2>3. ObjectTypes'
    BY <1>2, <1>5, <1>7, <2>1, <2>2 DEF ObjectTypes
  <2>4. ObjectKnown'
    BY <1>2, <1>5, <1>7, <2>1 DEF ObjectKnown
  <2>5. \A x : Treated(x) => Treated(x)'
    BY <1>2, <2>2 DEF Treated, Processed
  <2>6. Treated(k)'
    BY <2>2 DEF Treated, Processed
  <2>7. \A x \in objects \ NotLogs : x <= k => Treated(x)'
    <3>1. \A x \in objects \ NotLogs : x <= k => x < k \/ x = k
      BY <2>1, ObjectBounds DEF ObjectTypes
    <3> QED  BY <1>5, <2>5, <2>6, <3>1
  <2>8. ObjectCovered'
    BY <1>2, <2>1, <2>2, <2>5, <2>6, <2>7 DEF ObjectCovered
  <2>9. ObjectListed'
    BY <1>2, <1>5, <1>7, <2>1, <2>5, <2>6 DEF ObjectListed
  <2>10. ObjectOnce'
    <3> SUFFICES ASSUME objectSaves = 0, objectCrashes = 0
                 PROVE  ObjectOnce'
      BY <1>2 DEF ObjectOnce
    <3>1. /\ \A x \in Bucket!Keys : Processed(x) => x <= last
          /\ \A x \in Bucket!Keys : objectsIngested[x] <= 1
          /\ \A x \in Elements(objectEvents) : objectsIngested[x] = 0
      BY <1>2 DEF ObjectOnce
    <3>2. ~Processed(k) /\ objectsIngested[k] \in 0..2
      BY <1>5, <2>1, <3>1 DEF ObjectTypes
    <3>3. objectsIngested[k] = 0
      BY <3>2 DEF Processed
    <3>4. \A x : Processed(x)' => Processed(x) \/ x = k
      BY <1>2, <2>2 DEF Processed
    <3>5. \A x \in Bucket!Keys : Processed(x)' => x <= k
      BY <1>5, <2>1, <3>1, <3>4, ObjectBounds
    <3>6. \A x \in Elements(objectEvents') : objectsIngested[x] = 0
      BY <2>2, <3>1, <3>3
    <3> QED  BY <1>2, <1>7, <2>1, <3>1, <3>5, <3>6 DEF ObjectOnce
  <2> QED  BY <2>3, <2>4, <2>8, <2>9, <2>10
<1>8. CASE objectPc' = "save" /\ todo' = <<>> /\ UNCHANGED <<last, objectSeen, objectEvents>>
  <2>1. Elements(todo') = {} /\ Len(todo') = 0 /\ todo' \in Seq(Bucket!Keys)
    BY <1>8, ElementsNone
  <2>2. ObjectTypes'
    BY <1>2, <1>8, <2>1, ObjectBounds DEF ObjectTypes
  <2>3. ObjectKnown'
    BY <1>2, <1>8, <2>1 DEF ObjectKnown
  <2>4. ObjectCovered' /\ ObjectOnce'
    BY <1>2, <1>8 DEF ObjectCovered, ObjectOnce, Treated, Processed
  <2>5. ObjectListed'
    BY <2>1 DEF ObjectListed
  <2> QED  BY <2>2, <2>3, <2>4, <2>5
<1> QED  BY <1>4, <1>6, <1>7, <1>8

\* A trimmed window of keys.
LEMMA TrimIs ==
  ASSUME NEW s \in Seq(Bucket!Keys)
  PROVE  /\ Bucket!Trim(s) \in Seq(Bucket!Keys) /\ Len(Bucket!Trim(s)) <= SeenKeys
         /\ Elements(Bucket!Trim(s)) \subseteq Elements(s)
<1>1. Len(s) \in Nat
  BY LenProperties
<1>2. CASE Len(s) > SeenKeys
  <2>1. Bucket!Trim(s) = SubSeq(s, Len(s) - SeenKeys + 1, Len(s))
    BY <1>2 DEF Bucket!Trim
  <2>2. /\ SubSeq(s, Len(s) - SeenKeys + 1, Len(s)) \in Seq(Bucket!Keys)
        /\ Len(SubSeq(s, Len(s) - SeenKeys + 1, Len(s))) = SeenKeys
        /\ Elements(SubSeq(s, Len(s) - SeenKeys + 1, Len(s))) \subseteq Elements(s)
    BY <1>2, LastOnes, ObjectBounds
  <2>3. SeenKeys <= SeenKeys
    BY ObjectBounds
  <2> QED  BY <2>1, <2>2, <2>3
<1>3. CASE ~(Len(s) > SeenKeys)
  <2>1. Bucket!Trim(s) = s
    BY <1>3 DEF Bucket!Trim
  <2> QED  BY <1>1, <1>3, <2>1, ObjectBounds
<1> QED  BY <1>2, <1>3

LEMMA SaveObjectsKeeps ==
  ASSUME ObjectInv, Bucket!LoopEnds \/ \E w \in {"written", "torn", "unwritable"} : Bucket!SaveState(w)
  PROVE  ObjectInv'
<1> USE DEF ObjectInv
<1>1. PICK s : s = Bucket!Trim(objectSeen)
  OBVIOUS
<1>2. s \in Seq(Bucket!Keys) /\ Len(s) <= SeenKeys /\ Elements(s) \subseteq Elements(objectSeen)
  BY <1>1, TrimIs DEF ObjectTypes
<1>3. CASE Bucket!LoopEnds
  <2>1. /\ objectPc' = "save" /\ objectSeen' = s /\ todo = <<>>
        /\ UNCHANGED <<objects, late, objectFile, last, todo, objectEvents, objectsIngested,
                       objectsDropped, objectCrashes, objectSaves>> /\ objectPc = "read"
    BY <1>1, <1>3 DEF Bucket!LoopEnds
  <2>2. ObjectTypes' /\ ObjectKnown'
    BY <1>2, <2>1 DEF ObjectTypes, ObjectKnown
  <2>3. ObjectCovered'
    BY <1>2, <2>1 DEF ObjectCovered, Treated, Processed
  <2>4. ObjectListed' /\ ObjectOnce'
    BY <2>1 DEF ObjectListed, ObjectOnce, Treated, Processed
  <2> QED  BY <2>2, <2>3, <2>4
<1>4. ASSUME NEW w \in {"written", "torn", "unwritable"}, Bucket!SaveState(w)
      PROVE  ObjectInv'
  <2>1. /\ objectPc = "save" /\ objectPc' = "returned"
        /\ \/ objectFile' = [last |-> last, seen |-> s] /\ objectSaves' = objectSaves
           \/ objectFile' = Bucket!NoFile /\ objectSaves' = objectSaves + 1
           \/ objectFile' = objectFile /\ objectSaves' = objectSaves + 1
        /\ UNCHANGED <<objects, late, last, objectSeen, todo, objectEvents, objectsIngested,
                       objectsDropped, objectCrashes>>
    BY <1>1, <1>4 DEF Bucket!SaveState
  <2>2. objectSaves' \in Nat /\ (objectSaves' = 0 => objectFile'.last = last /\ objectSaves = 0)
    BY <2>1 DEF ObjectTypes
  <2>3. /\ objectFile' \in [last : 0..MaxKey, seen : Seq(Bucket!Keys)] /\ Len(objectFile'.seen) <= SeenKeys
        /\ objectFile'.last \in {0, last, objectFile.last}
        /\ Elements(objectFile'.seen) \subseteq Elements(objectSeen) \union Elements(objectFile.seen)
    <3>1. CASE objectFile' = [last |-> last, seen |-> s]
      BY <1>2, <3>1 DEF ObjectTypes
    <3>2. CASE objectFile' = Bucket!NoFile
      BY <3>2, ElementsNone, ObjectBounds DEF Bucket!NoFile
    <3>3. CASE objectFile' = objectFile
      BY <3>3 DEF ObjectTypes
    <3> QED  BY <2>1, <3>1, <3>2, <3>3
  <2>4. ObjectTypes'
    BY <2>1, <2>2, <2>3 DEF ObjectTypes
  <2>5. ObjectKnown'
    BY <2>1, <2>3 DEF ObjectKnown
  <2>6. \A x : Treated(x)' = Treated(x)
    BY <2>1 DEF Treated, Processed
  <2>7. \A k \in objects \ NotLogs : k <= objectFile'.last => k <= last \/ k <= objectFile.last
    <3>1. \A k \in objects : ~(k <= 0)
      BY ObjectBounds DEF ObjectTypes
    <3> QED  BY <2>3, <3>1
  <2>8. ObjectCovered'
    BY <2>1, <2>3, <2>6, <2>7 DEF ObjectCovered
  <2>9. ObjectListed'
    BY <2>1, <2>6 DEF ObjectListed
  <2>10. ObjectOnce'
    BY <2>1, <2>2 DEF ObjectOnce, Processed
  <2> QED  BY <2>4, <2>5, <2>8, <2>9, <2>10
<1> QED  BY <1>3, <1>4

LEMMA EndObjectsKeeps ==
  ASSUME ObjectInv, Bucket!Ingest \/ Bucket!Crash
  PROVE  ObjectInv'
<1> USE DEF ObjectInv
<1>1. /\ objectPc' = "idle" /\ last' = 0 /\ objectSeen' = <<>> /\ todo' = <<>> /\ objectEvents' = <<>>
      /\ UNCHANGED <<objects, late, objectFile, objectSaves>>
  BY DEF Bucket!Ingest, Bucket!Crash, Bucket!Discard
<1>2. /\ Bucket!ToSet(objectEvents) = Elements(objectEvents)
      /\ Elements(objectEvents) \subseteq Bucket!Keys
  BY ElementsOf DEF ObjectTypes
<1>3. /\ Elements(todo') = {} /\ Len(todo') = 0 /\ Elements(objectEvents') = {}
      /\ Elements(objectSeen') = {} /\ \A T : <<>> \in Seq(T)
  BY <1>1, ElementsNone
<1>4. \/ /\ objectPc = "returned" /\ UNCHANGED <<objectsDropped, objectCrashes>>
         /\ objectsIngested' = [k \in Bucket!Keys |->
              IF k \in Elements(objectEvents) /\ objectsIngested[k] < 2
              THEN objectsIngested[k] + 1 ELSE objectsIngested[k]]
      \/ /\ objectsDropped' = objectsDropped \union Elements(objectEvents)
         /\ objectCrashes' = objectCrashes + 1 /\ objectsIngested' = objectsIngested
  BY <1>2 DEF Bucket!Ingest, Bucket!Crash
<1>5. objectsIngested' \in [Bucket!Keys -> 0..2] /\ \A k \in Bucket!Keys : objectsIngested[k] \in 0..2
  <2>1. \A k \in Bucket!Keys : objectsIngested[k] \in 0..2
    BY DEF ObjectTypes
  <2>2. \A k \in Bucket!Keys : (IF k \in Elements(objectEvents) /\ objectsIngested[k] < 2
              THEN objectsIngested[k] + 1 ELSE objectsIngested[k]) \in 0..2
    BY <2>1
  <2> QED  BY <1>4, <2>1, <2>2 DEF ObjectTypes
<1>6. ObjectTypes'
  <2>1. objectCrashes' \in Nat /\ objectsDropped' \subseteq Bucket!Keys
    BY <1>2, <1>4 DEF ObjectTypes
  <2> QED  BY <1>1, <1>3, <1>5, <2>1, ObjectBounds DEF ObjectTypes
<1>7. ObjectKnown' /\ ObjectListed'
  BY <1>1, <1>3 DEF ObjectKnown, ObjectListed
<1>8. ASSUME NEW k \in Bucket!Keys, Treated(k)  PROVE Treated(k)'
  <2>1. CASE objectsDropped' = objectsDropped \union Elements(objectEvents)
             /\ objectsIngested' = objectsIngested
    BY <1>1, <1>8, <2>1 DEF Treated, Processed
  <2>2. CASE /\ objectsDropped' = objectsDropped
             /\ objectsIngested' = [x \in Bucket!Keys |->
                  IF x \in Elements(objectEvents) /\ objectsIngested[x] < 2
                  THEN objectsIngested[x] + 1 ELSE objectsIngested[x]]
    <3>1. Processed(k) => objectsIngested'[k] > 0
      BY <1>5, <2>2 DEF Processed
    <3> QED  BY <1>1, <1>8, <2>2, <3>1 DEF Treated, Processed
  <2> QED  BY <1>4, <2>1, <2>2
<1>9. ObjectCovered'
  <2>1. \A k \in objects : ~(k <= 0) /\ k \in Bucket!Keys
    BY ObjectBounds DEF ObjectTypes
  <2>2. Elements(objectFile.seen) \subseteq Bucket!Keys
    BY ElementsOf DEF ObjectTypes
  <2> QED  BY <1>1, <1>3, <1>8, <2>1, <2>2 DEF ObjectCovered
<1>10. ObjectOnce'
  <2>1. CASE objectCrashes' = objectCrashes + 1
    BY <2>1 DEF ObjectOnce, ObjectTypes
  <2>2. CASE /\ objectPc = "returned" /\ UNCHANGED <<objectsDropped, objectCrashes>>
             /\ objectsIngested' = [k \in Bucket!Keys |->
                  IF k \in Elements(objectEvents) /\ objectsIngested[k] < 2
                  THEN objectsIngested[k] + 1 ELSE objectsIngested[k]]
    <3> SUFFICES ASSUME objectSaves = 0, objectCrashes = 0
                 PROVE  ObjectOnce'
      BY <1>1, <2>2 DEF ObjectOnce
    <3>1. /\ \A x \in Bucket!Keys : Processed(x) => x <= objectFile.last
          /\ \A x \in Bucket!Keys : objectsIngested[x] <= 1
          /\ \A x \in Elements(objectEvents) : objectsIngested[x] = 0
      BY <2>2 DEF ObjectOnce
    <3>2. \A x \in Bucket!Keys : Processed(x)' => Processed(x)
      BY <1>3, <1>5, <2>2 DEF Processed
    <3>3. \A x \in Bucket!Keys : objectsIngested'[x] <= 1
      BY <1>5, <2>2, <3>1
    <3> QED  BY <1>1, <1>3, <3>1, <3>2, <3>3 DEF ObjectOnce
  <2> QED  BY <1>4, <2>1, <2>2
<1> QED  BY <1>6, <1>7, <1>9, <1>10

LEMMA ObjectKept ==
  ASSUME ObjectInv, Bucket!Next
  PROVE  ObjectInv'
  BY PutKeeps, StartObjectsKeeps, ListKeeps, ReadKeeps, SaveObjectsKeeps, EndObjectsKeeps
     DEF Bucket!Next

LEMMA ObjectUnchanged ==
  ASSUME ObjectInv, UNCHANGED objectVars
  PROVE  ObjectInv'
  BY DEF objectVars, ObjectInv, ObjectTypes, ObjectKnown, ObjectCovered, ObjectListed, ObjectOnce,
         Treated, Processed

LEMMA ObjectSafe ==
  ASSUME ObjectInv
  PROVE  Bucket!TypeOK /\ Bucket!NoGap /\ Bucket!NoReplay
<1>1. Bucket!ToSet(objectEvents) = Elements(objectEvents) /\ Elements(objectEvents) \subseteq Bucket!Keys
  BY ElementsOf DEF ObjectInv, ObjectTypes
<1>2. Bucket!TypeOK
  BY <1>1 DEF ObjectInv, ObjectTypes, Bucket!TypeOK
<1>3. Bucket!NoGap
  BY <1>1 DEF ObjectInv, ObjectCovered, Bucket!NoGap, Bucket!Fetched, Bucket!Logs, Treated, Processed
<1>4. Bucket!NoReplay
  BY DEF ObjectInv, ObjectOnce, Bucket!NoReplay
<1> QED  BY <1>2, <1>3, <1>4
-------------------------------------------------------------------------------
(* Ascending sequences of numbers.                                         *)

Ascends(s) == \A i, j \in 1..Len(s) : i < j => s[i] < s[j]

\* No more of them than there are numbers to take.
LEMMA AscendsWithin ==
  ASSUME NEW s \in Seq(Nat), Ascends(s), NEW a \in Nat, NEW b \in Nat, a <= b,
         \A x \in Elements(s) : a < x /\ x <= b
  PROVE  Len(s) <= b - a
<1> DEFINE place == [i \in 1..Len(s) |-> s[i] - a]
<1>1. Len(s) \in Nat /\ b - a \in Nat
  BY LenProperties
<1>2. \A i \in 1..Len(s) : s[i] \in Elements(s) /\ s[i] \in Nat
  BY ElementOfSeq DEF Elements
<1>3. \A i \in 1..Len(s) : s[i] - a \in 1..(b - a)
  BY <1>2
<1>4. place \in [1..Len(s) -> 1..(b - a)]
  BY <1>3
<1>5. ASSUME NEW i \in 1..Len(s), NEW j \in 1..Len(s), i # j  PROVE place[i] # place[j]
  <2>1. i < j \/ j < i
    BY <1>1, <1>5
  <2>2. s[i] < s[j] \/ s[j] < s[i]
    BY <2>1 DEF Ascends
  <2> QED  BY <1>2, <2>2
<1>6. /\ IsFiniteSet(1..Len(s)) /\ Cardinality(1..Len(s)) = Len(s)
      /\ IsFiniteSet(1..(b - a)) /\ Cardinality(1..(b - a)) = b - a
  <2>1. \A n \in Nat : IsFiniteSet(1..n) /\ Cardinality(1..n) = n
    BY FS_Interval
  <2> QED  BY <1>1, <2>1
<1>7. ~(Cardinality(1..(b - a)) < Cardinality(1..Len(s)))
  <2>1. SUFFICES ASSUME Cardinality(1..(b - a)) < Cardinality(1..Len(s))  PROVE FALSE
    OBVIOUS
  <2>2. PICK f : f = place
    OBVIOUS
  <2>3. f \in [1..Len(s) -> 1..(b - a)] /\ \A i, j \in 1..Len(s) : i # j => f[i] # f[j]
    BY <1>4, <1>5, <2>2
  <2>4. \E i, j \in 1..Len(s) : i # j /\ f[i] = f[j]
    BY <1>6, <2>1, <2>3, FS_PigeonHole
  <2> QED  BY <2>3, <2>4
<1> QED  BY <1>1, <1>6, <1>7

LEMMA JoinedAscends ==
  ASSUME NEW s \in Seq(Nat), NEW t \in Seq(Nat), Ascends(s), Ascends(t),
         \A x \in Elements(s), y \in Elements(t) : x < y
  PROVE  Ascends(s \o t)
<1>1. /\ s \o t \in Seq(Nat) /\ Len(s \o t) = Len(s) + Len(t)
      /\ \A i \in 1..(Len(s) + Len(t)) : (s \o t)[i] = IF i <= Len(s) THEN s[i] ELSE t[i - Len(s)]
      /\ Len(s) \in Nat /\ Len(t) \in Nat
  BY ConcatProperties, LenProperties
<1>2. SUFFICES ASSUME NEW i \in 1..(Len(s) + Len(t)), NEW j \in 1..(Len(s) + Len(t)), i < j
               PROVE  (s \o t)[i] < (s \o t)[j]
  BY <1>1 DEF Ascends
<1>3. CASE j <= Len(s)
  <2>1. i \in 1..Len(s) /\ j \in 1..Len(s) /\ i <= Len(s)
    BY <1>1, <1>2, <1>3 
  <2> QED  BY <1>1, <1>2, <1>3, <2>1 DEF Ascends
<1>4. CASE i <= Len(s) /\ ~(j <= Len(s))
  <2>1. i \in 1..Len(s) /\ j - Len(s) \in 1..Len(t)
    BY <1>1, <1>2, <1>4
  <2>2. s[i] \in Elements(s) /\ t[j - Len(s)] \in Elements(t)
    BY <2>1 DEF Elements
  <2> QED  BY <1>1, <1>4, <2>2
<1>5. CASE ~(i <= Len(s)) /\ ~(j <= Len(s))
  <2>1. i - Len(s) \in 1..Len(t) /\ j - Len(s) \in 1..Len(t) /\ i - Len(s) < j - Len(s)
    BY <1>1, <1>2, <1>5
  <2>2. t[i - Len(s)] < t[j - Len(s)]
    BY <2>1 DEF Ascends
  <2> QED  BY <1>1, <1>5, <2>2
<1> QED  BY <1>3, <1>4, <1>5

\* The window: the last n of an ascending sequence.
LEMMA LastNIs ==
  ASSUME NEW T, T \subseteq Nat, NEW s \in Seq(T), NEW n \in Nat \ {0}
  PROVE  /\ Poll!LastN(s, n) \in Seq(T) /\ Len(Poll!LastN(s, n)) <= n
         /\ Elements(Poll!LastN(s, n)) \subseteq Elements(s)
         /\ Ascends(s) => Ascends(Poll!LastN(s, n))
         /\ Len(s) <= n => Poll!LastN(s, n) = s
         /\ Len(s) > n => Len(Poll!LastN(s, n)) = n
         /\ Len(s) > n /\ Ascends(s) =>
              \A x \in Elements(s) \ Elements(Poll!LastN(s, n)) :
                \A y \in Elements(Poll!LastN(s, n)) : x < y
<1>1. Len(s) \in Nat
  BY LenProperties
<1>2. CASE ~(Len(s) > n)
  <2>1. Poll!LastN(s, n) = s
    BY <1>2 DEF Poll!LastN
  <2> QED  BY <1>1, <1>2, <2>1
<1>3. CASE Len(s) > n
  <2>1. PICK t : t = Poll!LastN(s, n)
    OBVIOUS
  <2>2. t = SubSeq(s, Len(s) - n + 1, Len(s))
    BY <1>3, <2>1 DEF Poll!LastN
  <2>3. PICK m \in Nat : m = Len(s) - n
    BY <1>1, <1>3
  <2>4. t \in Seq(T) /\ Len(t) = n /\ Elements(t) \subseteq Elements(s)
        /\ \A i \in 1..n : t[i] = s[i + m]
    BY <1>3, <2>2, <2>3, LastOnes
  <2>5. \A i \in 1..n : i + m \in 1..Len(s)
    BY <1>1, <2>3
  <2>6. Ascends(s) => Ascends(t)
    BY <2>4, <2>5 DEF Ascends
  <2>7. ASSUME Ascends(s), NEW x \in Elements(s) \ Elements(t), NEW y \in Elements(t)
        PROVE  x < y
    <3>1. PICK i \in 1..Len(s) : x = s[i]
      BY DEF Elements
    <3>2. PICK j \in 1..n : y = t[j]
      BY <2>4 DEF Elements
    <3>3. i <= m
      <4>1. SUFFICES ASSUME ~(i <= m)  PROVE FALSE
        OBVIOUS
      <4>2. i - m \in 1..n /\ (i - m) + m = i
        BY <1>1, <2>3, <4>1
      <4>3. t[i - m] = s[i]
        BY <2>4, <4>2
      <4> QED  BY <2>4, <3>1, <4>2, <4>3 DEF Elements
    <3>4. y = s[j + m] /\ j + m \in 1..Len(s) /\ i < j + m
      BY <2>3, <2>4, <2>5, <3>2, <3>3
    <3> QED  BY <2>7, <3>1, <3>4 DEF Ascends
  <2>8. n <= n
    OBVIOUS
  <2> QED  BY <1>1, <1>3, <2>1, <2>4, <2>6, <2>7, <2>8
<1> QED  BY <1>2, <1>3
-------------------------------------------------------------------------------
(* The record logs.                                                        *)

PollTypes ==
  /\ kind \in Kinds /\ server \in 0..MaxRecords /\ horizon \in 0..server
  /\ file \in [cursor : Poll!Cursors, seen : Seq(Poll!Records)] /\ Len(file.seen) <= SeenCap
  /\ pc \in {"idle", "page", "save", "returned"} /\ url \in 0..MaxRecords /\ cursor \in Poll!Cursors
  /\ seen \in Seq(Poll!Records) /\ Len(seen) <= SeenCap /\ events \in Seq(Poll!Records)
  /\ pages \in 0..MaxPages /\ attempt \in 1..MaxRetries /\ refreshed \in BOOLEAN
  /\ ingested \in [Poll!Records -> 0..2] /\ dropped \subseteq Poll!Records
  /\ crashes \in Nat /\ lostSaves \in Nat

Resume(c) == IF c = Poll!NoCursor THEN horizon ELSE c

\* A position is one the service gave out, and a page is read where the run stands.
PollKnown ==
  /\ pc = "idle" => events = <<>>
  /\ pc = "page" => pages < MaxPages /\ url = Resume(cursor)
  /\ cursor # Poll!NoCursor => cursor <= server
  /\ file.cursor # Poll!NoCursor => file.cursor <= server

Delivered(r) == ingested[r] > 0 \/ r \in Elements(events)
Covered(r) == Delivered(r) \/ r \in dropped \/ r <= horizon
Behind(c, r) == c # Poll!NoCursor /\ r <= c

\* Nothing lies uncovered behind a position kept in memory or in the file, and
\* nobody is remembered who was not fetched.
PollCovered ==
  /\ \A r \in Elements(seen) \union Elements(file.seen) : Covered(r)
  /\ \A r \in Poll!Records : Behind(cursor, r) \/ Behind(file.cursor, r) => Covered(r)

\* Where the poll stands, or the next one will start, and the ids it knows.
Position == Resume(IF pc = "idle" THEN file.cursor ELSE cursor)
Window == IF pc = "idle" THEN file.seen ELSE seen

\* What was delivered lies at most one page ahead of where the poll stands, with no
\* hole; and the window holds the last of it.
Ahead == IF kind = "okta" THEN 0 ELSE PageSize
Reached == \A r \in Poll!Records : Delivered(r) => r <= Position + Ahead
Filled == \A q, r \in Poll!Records : Position < q /\ q < r /\ Delivered(r) => Delivered(q)
Remembered ==
  kind # "okta" =>
    /\ Ascends(Window) /\ \A x \in Elements(Window) : Delivered(x) /\ x \notin NoId
    /\ \A r \in Poll!Records \ NoId : Delivered(r) /\ r \notin Elements(Window) =>
         Len(Window) = SeenCap /\ \A x \in Elements(Window) : r < x
Single ==
  /\ \A r \in Poll!Records \ NoId : ingested[r] <= 1 /\ (r \in Elements(events) => ingested[r] = 0)
  /\ \A i, j \in 1..Len(events) : i # j /\ events[i] = events[j] => events[i] \in NoId
Saved ==
  /\ (pc # "idle" /\ kind = "okta") \/ pc = "returned" => file.cursor = cursor
  /\ pc = "returned" /\ kind # "okta" => file.seen = seen
PollOnce == lostSaves = 0 /\ crashes = 0 => Reached /\ Filled /\ Remembered /\ Single /\ Saved

PollInv == PollTypes /\ PollKnown /\ PollCovered /\ PollOnce

LEMMA PollBounds ==
  /\ MaxRecords \in Nat \ {0} /\ PageSize \in Nat \ {0} /\ MaxPages \in Nat \ {0}
  /\ MaxRetries \in Nat \ {0} /\ SeenCap \in Nat \ {0} /\ SeenCap >= PageSize
  /\ NoId \subseteq Poll!Records /\ Poll!Records = 1..MaxRecords /\ Poll!NoCursor = MaxRecords + 1
  /\ Poll!Cursors = 0..(MaxRecords + 1) /\ \A k \in Kinds : k \in {"okta", "github", "entra"}
  BY IntakeAssumption DEF Poll!PollAssumption, Poll!Records, Poll!NoCursor, Poll!Cursors

LEMMA PollNumbers ==
  ASSUME PollInv
  PROVE  /\ server \in Nat /\ server <= MaxRecords /\ horizon \in Nat /\ horizon <= server
         /\ url \in Nat /\ Position \in Nat /\ Position <= server /\ Ahead \in Nat
         /\ (pc = "page" => url = Position /\ url <= server)
         /\ \A r \in Poll!Records : r \in Nat /\ ingested[r] \in 0..2
         /\ Poll!Records \subseteq Nat
<1> USE PollBounds DEF PollInv
<1>1. /\ server \in Nat /\ server <= MaxRecords /\ horizon \in Nat /\ horizon <= server
      /\ url \in Nat /\ \A r \in Poll!Records : r \in Nat /\ ingested[r] \in 0..2
  BY DEF PollTypes
<1>2. /\ cursor # Poll!NoCursor => cursor \in Nat /\ cursor <= server
      /\ file.cursor # Poll!NoCursor => file.cursor \in Nat /\ file.cursor <= server
  BY DEF PollTypes, PollKnown
<1>3. Position \in Nat /\ Position <= server
  BY <1>1, <1>2 DEF Position, Resume
<1>4. pc = "page" => url = Position
  BY DEF PollKnown, Position
<1>5. Ahead \in Nat
  BY DEF Ahead
<1> QED  BY <1>1, <1>3, <1>4, <1>5

LEMMA PollBegins ==
  ASSUME Poll!Init
  PROVE  PollInv
<1> USE DEF Poll!Init, Poll!Idle
<1>1. PollTypes
  <2>1. file \in [cursor : Poll!Cursors, seen : Seq(Poll!Records)] /\ Len(file.seen) = 0
    BY PollBounds DEF Poll!NoState
  <2>2. ingested \in [Poll!Records -> 0..2]
    OBVIOUS
  <2>3. Len(seen) = 0 /\ <<>> \in Seq(Poll!Records)
    OBVIOUS
  <2>4. refreshed \in BOOLEAN
    OBVIOUS
  <2>5. /\ 0 \in 0..MaxRecords /\ 0 \in 0..0 /\ 0 \in 0..MaxPages /\ 1 \in 1..MaxRetries
        /\ Poll!NoCursor \in Poll!Cursors /\ 0 <= SeenCap
    BY PollBounds
  <2> QED  BY <2>1, <2>2, <2>3, <2>4, <2>5 DEF PollTypes
<1>2. Elements(seen) = {} /\ Elements(events) = {} /\ Elements(file.seen) = {}
      /\ Len(events) = 0 /\ Len(seen) = 0 /\ Len(file.seen) = 0
  BY ElementsNone DEF Poll!NoState
<1>3. PollKnown /\ PollCovered
  BY <1>2 DEF PollKnown, PollCovered, Behind, Poll!NoState
<1>4. PollOnce
  <2>1. \A r \in Poll!Records : ingested[r] = 0
    OBVIOUS
  <2>2. \A x : x = 0 => x <= 1 /\ ~(x > 0)
    OBVIOUS
  <2>3. \A r \in Poll!Records : ~Delivered(r) /\ ingested[r] <= 1
    BY <1>2, <2>1, <2>2 DEF Delivered
  <2>4. pc = "idle"
    OBVIOUS
  <2> HIDE DEF Poll!Init, Poll!Idle
  <2>5. Reached /\ Filled
    BY <2>3 DEF Reached, Filled
  <2>6. Remembered
    BY <1>2, <2>3, <2>4 DEF Remembered, Window, Ascends
  <2>7. Single /\ Saved
    BY <1>2, <2>3, <2>4 DEF Single, Saved
  <2> QED  BY <2>5, <2>6, <2>7 DEF PollOnce
<1> QED  BY <1>1, <1>3, <1>4 DEF PollInv

LEMMA ArriveKeeps ==
  ASSUME PollInv, Poll!RecordArrives \/ Poll!WindowMoves
  PROVE  PollInv'
<1> USE DEF PollInv
<1>1. /\ server' \in {server, server + 1} /\ horizon' \in {horizon, horizon + 1}
      /\ (server' = server + 1 => server < MaxRecords /\ horizon' = horizon)
      /\ (horizon' # horizon => pc = "idle" /\ horizon < server /\ server' = server)
      /\ UNCHANGED <<kind, file, pc, url, cursor, seen, pages, attempt, refreshed, events, ingested,
                     dropped, crashes, lostSaves>>
  <2>1. CASE Poll!RecordArrives
    BY <2>1, PollNumbers DEF Poll!RecordArrives, Poll!conn
  <2>2. CASE Poll!WindowMoves
    BY <2>2, PollNumbers DEF Poll!WindowMoves, Poll!conn
  <2> QED  BY <2>1, <2>2
<1>2. /\ server \in Nat /\ server <= MaxRecords /\ horizon \in Nat /\ horizon <= server
      /\ Position \in Nat /\ Position <= server /\ Ahead \in Nat
      /\ \A r \in Poll!Records : r \in Nat
  BY PollNumbers
<1>3. server' \in 0..MaxRecords /\ horizon' \in 0..server' /\ server <= server' /\ horizon <= horizon'
  BY <1>1, <1>2, PollBounds
<1>4. PollTypes'
  BY <1>1, <1>3 DEF PollTypes, Poll!Records, Poll!Cursors, Poll!NoCursor
<1>5. PollKnown'
  <2>1. \A c \in Poll!Cursors : c <= server => c <= server'
    BY <1>2, <1>3, PollBounds
  <2>2. pc = "page" => horizon' = horizon
    BY <1>1
  <2> QED  BY <1>1, <2>1, <2>2 DEF PollKnown, PollTypes, Resume, Poll!NoCursor
<1>6. \A r : Delivered(r)' = Delivered(r)
  BY <1>1 DEF Delivered
<1>7. \A r \in Poll!Records : Covered(r) => Covered(r)'
  BY <1>1, <1>2, <1>3, <1>6 DEF Covered
<1>8. PollCovered'
  <2>1. Elements(seen) \subseteq Poll!Records /\ Elements(file.seen) \subseteq Poll!Records
    BY ElementsOf DEF PollTypes
  <2> QED  BY <1>1, <1>7, <2>1 DEF PollCovered, Behind, Poll!NoCursor
<1>9. Position' >= Position /\ Position' \in Nat /\ Ahead' = Ahead
  <2>1. Position' = Position \/ (Position = horizon /\ Position' = horizon')
    BY <1>1 DEF Position, Resume, Poll!NoCursor
  <2> QED  BY <1>1, <1>2, <1>3, <2>1 DEF Ahead
<1>10. PollOnce'
  <2>1. Reached => Reached'
    BY <1>2, <1>6, <1>9 DEF Reached
  <2>2. Filled => Filled'
    BY <1>2, <1>6, <1>9 DEF Filled
  <2>3. Remembered => Remembered'
    BY <1>1, <1>6 DEF Remembered, Window
  <2>4. (Single => Single') /\ (Saved => Saved')
    BY <1>1 DEF Single, Saved
  <2> QED  BY <1>1, <2>1, <2>2, <2>3, <2>4 DEF PollOnce
<1> QED  BY <1>4, <1>5, <1>8, <1>10

LEMMA StartPollKeeps ==
  ASSUME PollInv, Poll!StartPoll
  PROVE  PollInv'
<1> USE DEF PollInv
<1>1. /\ pc = "idle" /\ pc' = "page" /\ cursor' = file.cursor /\ seen' = file.seen
      /\ url' = Resume(file.cursor) /\ pages' = 0 /\ attempt' = 1 /\ refreshed' = FALSE
      /\ events' = <<>>
      /\ UNCHANGED <<kind, server, horizon, file, ingested, dropped, crashes, lostSaves>>
  BY DEF Poll!StartPoll, Poll!StartUrl, Resume
<1>2. events = <<>>
  BY <1>1 DEF PollKnown
<1>3. Resume(file.cursor) \in 0..MaxRecords
  <2>1. Position \in Nat /\ Position <= MaxRecords
    BY PollNumbers, PollBounds
  <2> QED  BY <1>1, <2>1, PollBounds DEF Position
<1>4. PollTypes'
  <2>1. <<>> \in Seq(Poll!Records) /\ 0 \in 0..MaxPages /\ 1 \in 1..MaxRetries
    BY PollBounds
  <2>2. refreshed' \in BOOLEAN
    BY <1>1
  <2> QED  BY <1>1, <1>3, <2>1, <2>2 DEF PollTypes
<1>5. PollKnown'
  BY <1>1, PollBounds DEF PollKnown, Resume
<1>6. \A r : Delivered(r)' = Delivered(r) /\ Covered(r)' = Covered(r)
  BY <1>1, <1>2 DEF Delivered, Covered
<1>7. PollCovered'
  BY <1>1, <1>6 DEF PollCovered, Behind
<1>8. Position' = Position /\ Window' = Window /\ Ahead' = Ahead
  BY <1>1 DEF Position, Window, Ahead, Resume
<1>9. PollOnce'
  <2>1. (Reached => Reached') /\ (Filled => Filled') /\ (Remembered => Remembered')
    BY <1>1, <1>6, <1>8 DEF Reached, Filled, Remembered
  <2>2. (Single => Single') /\ Saved'
    BY <1>1, <1>2 DEF Single, Saved
  <2> QED  BY <1>1, <2>1, <2>2 DEF PollOnce
<1> QED  BY <1>4, <1>5, <1>7, <1>9

\* An answer that is no page: the poll stays where it is.
LEMMA ErrorKeeps ==
  ASSUME PollInv, NEW r \in Poll!Responses, Poll!Retry(r) \/ Poll!Raise(r)
  PROVE  PollInv'
<1> USE DEF PollInv
<1>1. /\ pc = "page" /\ pc' \in {"page", "save"} /\ attempt' \in {attempt, attempt + 1, 1}
      /\ (attempt' = attempt + 1 => attempt' = attempt \/ attempt' = 1 \/ attempt # MaxRetries)
      /\ refreshed' \in BOOLEAN
      /\ UNCHANGED <<kind, server, horizon, file, url, cursor, seen, pages, events, ingested,
                     dropped, crashes, lostSaves>>
  BY DEF Poll!Retry, Poll!Raise, Poll!conn, PollTypes
<1>2. attempt' \in 1..MaxRetries
  BY <1>1, PollBounds DEF PollTypes
<1>3. PollTypes'
  BY <1>1, <1>2 DEF PollTypes
<1>4. PollKnown' /\ PollCovered'
  BY <1>1 DEF PollKnown, PollCovered, Covered, Delivered, Behind, Resume
<1>5. PollOnce'
  <2>1. Position' = Position /\ Window' = Window /\ Ahead' = Ahead
        /\ \A x : Delivered(x)' = Delivered(x)
    BY <1>1 DEF Position, Window, Ahead, Resume, Delivered
  <2>2. (Reached => Reached') /\ (Filled => Filled') /\ (Remembered => Remembered')
    BY <1>1, <2>1 DEF Reached, Filled, Remembered
  <2>3. (Single => Single') /\ (Saved => Saved')
    BY <1>1 DEF Single, Saved
  <2> QED  BY <1>1, <2>2, <2>3 DEF PollOnce
<1> QED  BY <1>3, <1>4, <1>5

PageEnd == Poll!Smaller(url + PageSize, server)

\* The page where the poll stands.
LEMMA PageIs ==
  ASSUME PollInv, pc = "page"
  PROVE  /\ Poll!Page(url) \in Seq(Poll!Records) /\ PageEnd \in Nat /\ url <= PageEnd /\ PageEnd <= server
         /\ PageEnd <= url + PageSize /\ url + Len(Poll!Page(url)) = PageEnd
         /\ \A r : r \in Elements(Poll!Page(url)) <=> r \in Poll!Records /\ url < r /\ r <= PageEnd
         /\ \A i, j \in 1..Len(Poll!Page(url)) : i # j => Poll!Page(url)[i] # Poll!Page(url)[j]
         /\ Poll!HasNext(url) /\ kind # "okta" => PageEnd = url + PageSize
<1>1. /\ server \in Nat /\ server <= MaxRecords /\ url \in Nat /\ url <= server
      /\ PageSize \in Nat \ {0} /\ MaxRecords \in Nat /\ Poll!Records = 1..MaxRecords
  BY PollNumbers, PollBounds
<1>2. PageEnd \in Nat /\ url <= PageEnd /\ PageEnd <= server /\ PageEnd <= url + PageSize
      /\ PageEnd - url \in Nat
  BY <1>1 DEF PageEnd, Poll!Smaller
<1>3. Poll!HasNext(url) /\ kind # "okta" => PageEnd = url + PageSize
  BY <1>1 DEF PageEnd, Poll!Smaller, Poll!HasNext
<1>4. PICK n \in Nat : n = PageEnd - url
  BY <1>2
<1>5. PICK page : page = Poll!Page(url)
  OBVIOUS
<1>6. page = [i \in 1..n |-> url + i]
  BY <1>4, <1>5 DEF Poll!Page, PageEnd
<1>7. \A i \in 1..n : url + i \in Poll!Records
  BY <1>1, <1>2, <1>4
<1>8. page \in Seq(Poll!Records) /\ Len(page) = n
  BY <1>6, <1>7, SeqDef, LenProperties
<1>9. \A i \in 1..n : page[i] = url + i
  BY <1>6
<1>10. ASSUME NEW r  PROVE r \in Elements(page) <=> r \in Poll!Records /\ url < r /\ r <= PageEnd
  <2>1. ASSUME r \in Elements(page)  PROVE r \in Poll!Records /\ url < r /\ r <= PageEnd
    <3>1. PICK i \in 1..n : r = url + i
      BY <1>8, <1>9, <2>1 DEF Elements
    <3> QED  BY <1>1, <1>2, <1>4, <1>7, <3>1
  <2>2. ASSUME r \in Poll!Records, url < r, r <= PageEnd  PROVE r \in Elements(page)
    <3>1. r - url \in 1..n /\ url + (r - url) = r
      BY <1>1, <1>2, <1>4, <2>2
    <3>2. page[r - url] = r
      BY <1>9, <3>1
    <3> QED  BY <1>8, <3>1, <3>2 DEF Elements
  <2> QED  BY <2>1, <2>2
<1>11. \A i, j \in 1..Len(page) : i # j => page[i] # page[j]
  BY <1>1, <1>8, <1>9
<1>12. url + Len(page) = PageEnd
  BY <1>1, <1>2, <1>4, <1>8
<1> QED  BY <1>2, <1>3, <1>5, <1>8, <1>10, <1>11, <1>12

\* While nothing was lost, an id on the page that the window does not hold was never
\* delivered: the window is as long as a page.
LEMMA NeverFetched ==
  ASSUME PollInv, pc = "page", lostSaves = 0, crashes = 0, kind # "okta",
         NEW r \in Elements(Poll!Page(url)), r \notin NoId, r \notin Elements(seen)
  PROVE  ~Delivered(r)
<1>1. SUFFICES ASSUME Delivered(r)  PROVE FALSE
  OBVIOUS
<1>2. Reached /\ Remembered /\ Window = seen /\ Ahead = PageSize
  BY DEF PollInv, PollOnce, Window, Ahead
<1>3. r \in Poll!Records /\ url < r /\ url = Position /\ url \in Nat /\ r \in Nat
      /\ Poll!Records \subseteq Nat
  BY PageIs, PollNumbers
<1>4. r <= url + PageSize
  BY <1>1, <1>2, <1>3 DEF Reached
<1>5. Len(seen) = SeenCap /\ (\A x \in Elements(seen) : r < x) /\ Ascends(seen)
      /\ \A x \in Elements(seen) : Delivered(x)
  BY <1>1, <1>2, <1>3 DEF Remembered
<1>6. seen \in Seq(Nat) /\ Elements(seen) \subseteq Poll!Records
  <2>1. seen \in Seq(Poll!Records)
    BY DEF PollInv, PollTypes
  <2> QED  BY <1>3, <2>1, ElementsOf, SeqMonotonic
<1>7. \A x \in Elements(seen) : r < x /\ x <= url + PageSize
  BY <1>2, <1>3, <1>5, <1>6 DEF Reached
<1>8. Len(seen) <= (url + PageSize) - r
  <2>1. PICK b \in Nat : b = url + PageSize
    BY <1>3, PollBounds
  <2>2. r <= b /\ \A x \in Elements(seen) : r < x /\ x <= b
    BY <1>4, <1>7, <2>1
  <2>3. Len(seen) <= b - r
    BY <1>3, <1>5, <1>6, <2>2, AscendsWithin
  <2> QED  BY <2>1, <2>3
<1> QED  BY <1>3, <1>5, <1>8, PollBounds

\* What the filter lets through, in order.
LEMMA UnknownIs ==
  ASSUME PollInv, pc = "page",
         NEW fresh, fresh = Poll!Unknown(Poll!Page(url), seen)
  PROVE  /\ fresh = {r \in Elements(Poll!Page(url)) : r \in NoId \/ r \notin Elements(seen)}
         /\ fresh \subseteq Poll!Records /\ Numbers(fresh) /\ Numbers(fresh \ NoId)
         /\ Poll!FilterSeen(Poll!Page(url), seen).fresh = InOrder(fresh)
         /\ Poll!FilterSeen(Poll!Page(url), seen).seen = Poll!LastN(seen \o InOrder(fresh \ NoId), SeenCap)
<1>1. Poll!Page(url) \in Seq(Poll!Records) /\ seen \in Seq(Poll!Records)
  BY PageIs DEF PollInv, PollTypes
<1>2. Poll!SetOf(Poll!Page(url)) = Elements(Poll!Page(url)) /\ Poll!SetOf(seen) = Elements(seen)
      /\ Elements(Poll!Page(url)) \subseteq Poll!Records
  BY <1>1, ElementsOf
<1>3. fresh = {r \in Elements(Poll!Page(url)) : r \in NoId \/ r \notin Elements(seen)}
  BY <1>2 DEF Poll!Unknown
<1>4. fresh \subseteq Poll!Records /\ fresh \ NoId \subseteq Poll!Records
  BY <1>2, <1>3
<1>5. IsFiniteSet(Poll!Records)
  BY PollBounds, FS_Interval
<1>6. Poll!Records \subseteq Nat
  BY PollBounds
<1>7. Numbers(fresh) /\ Numbers(fresh \ NoId)
  BY <1>4, <1>5, <1>6, FS_Subset DEF Numbers
<1>8. /\ Poll!FilterSeen(Poll!Page(url), seen).fresh = InOrder(fresh)
      /\ Poll!FilterSeen(Poll!Page(url), seen).seen = Poll!LastN(seen \o InOrder(fresh \ NoId), SeenCap)
  BY SameOrders DEF Poll!FilterSeen
<1> QED  BY <1>3, <1>4, <1>7, <1>8

\* Events joined with others: single when each is, and nothing is in both.
LEMMA JoinedSingle ==
  ASSUME NEW T, NEW s \in Seq(T), NEW t \in Seq(T), NEW N,
         \A i, j \in 1..Len(s) : i # j /\ s[i] = s[j] => s[i] \in N,
         \A i, j \in 1..Len(t) : i # j /\ t[i] = t[j] => t[i] \in N,
         \A x \in Elements(s) \intersect Elements(t) : x \in N
  PROVE  \A i, j \in 1..Len(s \o t) : i # j /\ (s \o t)[i] = (s \o t)[j] => (s \o t)[i] \in N
<1>1. /\ Len(s \o t) = Len(s) + Len(t)
      /\ \A i \in 1..(Len(s) + Len(t)) : (s \o t)[i] = IF i <= Len(s) THEN s[i] ELSE t[i - Len(s)]
      /\ Len(s) \in Nat /\ Len(t) \in Nat
  BY ConcatProperties, LenProperties
<1>2. SUFFICES ASSUME NEW i \in 1..(Len(s) + Len(t)), NEW j \in 1..(Len(s) + Len(t)), i # j,
                      (s \o t)[i] = (s \o t)[j]
               PROVE  (s \o t)[i] \in N
  BY <1>1
<1>3. \A k \in 1..(Len(s) + Len(t)) : (k <= Len(s) => k \in 1..Len(s))
        /\ (~(k <= Len(s)) => k - Len(s) \in 1..Len(t))
  BY <1>1
<1>4. CASE i <= Len(s) /\ j <= Len(s)
  BY <1>1, <1>2, <1>3, <1>4
<1>5. CASE ~(i <= Len(s)) /\ ~(j <= Len(s))
  <2>1. i - Len(s) # j - Len(s)
    BY <1>1, <1>2
  <2>2. t[i - Len(s)] = t[j - Len(s)] /\ (s \o t)[i] = t[i - Len(s)]
    BY <1>1, <1>2, <1>5
  <2> QED  BY <1>3, <1>5, <2>1, <2>2
<1>6. CASE i <= Len(s) /\ ~(j <= Len(s))
  <2>1. s[i] \in Elements(s) /\ t[j - Len(s)] \in Elements(t)
    BY <1>3, <1>6 DEF Elements
  <2> QED  BY <1>1, <1>2, <1>6, <2>1
<1>7. CASE ~(i <= Len(s)) /\ j <= Len(s)
  <2>1. s[j] \in Elements(s) /\ t[i - Len(s)] \in Elements(t)
    BY <1>3, <1>7 DEF Elements
  <2> QED  BY <1>1, <1>2, <1>7, <2>1
<1> QED  BY <1>4, <1>5, <1>6, <1>7

LEMMA OktaKeeps ==
  ASSUME PollInv, NEW w \in Poll!Writes, Poll!OktaPage(w)
  PROVE  PollInv'
<1> USE DEF PollInv
<1>1. PICK page : page = Poll!Page(url)
  OBVIOUS
<1>2. kind = "okta" /\ pc = "page"
  BY DEF Poll!OktaPage
<1>3. /\ page \in Seq(Poll!Records) /\ PageEnd \in Nat /\ url <= PageEnd /\ PageEnd <= server
      /\ url + Len(page) = PageEnd
      /\ \A r : r \in Elements(page) <=> r \in Poll!Records /\ url < r /\ r <= PageEnd
      /\ \A i, j \in 1..Len(page) : i # j => page[i] # page[j]
  BY <1>1, <1>2, PageIs
<1>4. Poll!HasNext(url)
  BY <1>2 DEF Poll!HasNext
<1>5. /\ events' = events \o page /\ pages' = pages + 1 /\ attempt' = 1 /\ refreshed' = FALSE
      /\ url' = PageEnd /\ pc' \in {"page", "save"} /\ (pc' = "page" => pages + 1 # MaxPages)
      /\ cursor' = PageEnd /\ seen' = seen
      /\ \/ file' = [cursor |-> PageEnd, seen |-> <<>>] /\ lostSaves' = lostSaves
         \/ file' = Poll!NoState /\ lostSaves' = lostSaves + 1
         \/ file' = file /\ lostSaves' = lostSaves + 1
      /\ UNCHANGED <<kind, server, horizon, ingested, dropped, crashes>>
  BY <1>1, <1>3, <1>4 DEF Poll!OktaPage, Poll!NextPage, Poll!Writes
<1>6. /\ events' \in Seq(Poll!Records) /\ Elements(events') = Elements(events) \union Elements(page)
  BY <1>3, <1>5, ElementsJoined DEF PollTypes
<1>7. /\ server \in Nat /\ server <= MaxRecords /\ horizon \in Nat /\ horizon <= server
      /\ url = Position /\ \A r \in Poll!Records : r \in Nat
  BY <1>2, PollNumbers
<1>8. PageEnd \in 0..MaxRecords /\ PageEnd \in Poll!Cursors /\ PageEnd # Poll!NoCursor
  BY <1>3, <1>7, PollBounds
<1>9. /\ file' \in [cursor : Poll!Cursors, seen : Seq(Poll!Records)] /\ Len(file'.seen) <= SeenCap
      /\ file'.cursor \in {PageEnd, Poll!NoCursor, file.cursor}
      /\ Elements(file'.seen) \subseteq Elements(file.seen)
      /\ lostSaves' \in Nat /\ (lostSaves' = 0 => lostSaves = 0 /\ file'.cursor = PageEnd)
  <2>1. Len(<<>>) = 0 /\ <<>> \in Seq(Poll!Records) /\ 0 <= SeenCap /\ Elements(<<>>) = {}
        /\ Poll!NoCursor \in Poll!Cursors /\ lostSaves \in Nat
    BY ElementsNone, PollBounds DEF PollTypes
  <2>2. CASE file' = [cursor |-> PageEnd, seen |-> <<>>] /\ lostSaves' = lostSaves
    BY <1>8, <2>1, <2>2
  <2>3. CASE file' = Poll!NoState /\ lostSaves' = lostSaves + 1
    BY <2>1, <2>3 DEF Poll!NoState
  <2>4. CASE file' = file /\ lostSaves' = lostSaves + 1
    BY <2>1, <2>4 DEF PollTypes
  <2> QED  BY <1>5, <2>2, <2>3, <2>4
<1>10. pages' \in 0..MaxPages /\ (pc' = "page" => pages' < MaxPages)
  BY <1>2, <1>5, PollBounds DEF PollTypes, PollKnown
<1>11. PollTypes'
  <2>1. refreshed' \in BOOLEAN
    BY <1>5
  <2>2. attempt' \in 1..MaxRetries
    BY <1>5, PollBounds
  <2> QED  BY <1>5, <1>6, <1>8, <1>9, <1>10, <2>1, <2>2 DEF PollTypes, Poll!NoCursor, Poll!Cursors, Poll!Records
<1>12. PollKnown'
  <2>1. Poll!NoCursor' = Poll!NoCursor
    BY DEF Poll!NoCursor
  <2> QED  BY <1>3, <1>5, <1>8, <1>9, <1>10, <2>1 DEF PollKnown, Resume
<1>13. \A r : Delivered(r) => Delivered(r)'
  BY <1>5, <1>6 DEF Delivered
<1>14. ASSUME NEW r \in Poll!Records, r <= PageEnd  PROVE Covered(r)'
  <2>1. CASE url < r
    BY <1>3, <1>6, <1>14, <2>1 DEF Covered, Delivered
  <2>2. CASE ~(url < r)
    <3>1. r <= url
      BY <1>7, <2>2, PollNumbers
    <3>2. Covered(r)
      <4>1. url = Resume(cursor)
        BY <1>2 DEF PollKnown
      <4> QED  BY <3>1, <4>1 DEF PollCovered, Behind, Covered, Resume
    <3> QED  BY <1>5, <1>13, <3>2 DEF Covered
  <2> QED  BY <2>1, <2>2
<1>15. PollCovered'
  <2>1. \A r : Covered(r) => Covered(r)'
    BY <1>5, <1>13 DEF Covered
  <2>2. Poll!NoCursor' = Poll!NoCursor /\ Poll!Records' = Poll!Records
    BY DEF Poll!NoCursor, Poll!Records
  <2> QED  BY <1>5, <1>8, <1>9, <1>14, <2>1, <2>2 DEF PollCovered, Behind
<1>16. PollOnce'
  <2> SUFFICES ASSUME lostSaves' = 0, crashes' = 0
               PROVE  (Reached /\ Filled /\ Remembered /\ Single /\ Saved)'
    BY DEF PollOnce
  <2>1. lostSaves = 0 /\ crashes = 0 /\ file'.cursor = PageEnd
    BY <1>5, <1>9
  <2>2. Reached /\ Filled /\ Single /\ Saved
    BY <2>1 DEF PollOnce
  <2>3. Position' = PageEnd /\ Ahead' = 0 /\ Ahead = 0
    <3>1. Poll!NoCursor' = Poll!NoCursor
      BY DEF Poll!NoCursor
    <3> QED  BY <1>2, <1>5, <1>8, <3>1 DEF Position, Ahead, Resume
  <2>4. \A r \in Poll!Records : Delivered(r) => r <= url
    BY <1>7, <2>2, <2>3, PollNumbers DEF Reached
  <2>5. \A r \in Poll!Records : Delivered(r)' => r <= PageEnd
    <3>1. \A r \in Poll!Records : Delivered(r)' => Delivered(r) \/ r \in Elements(page)
      BY <1>5, <1>6 DEF Delivered
    <3> QED  BY <1>3, <1>7, <2>4, <3>1, PollNumbers
  <2>6. Reached'
    BY <1>3, <1>7, <2>3, <2>5 DEF Reached, Poll!Records
  <2>7. Filled'
    <3>1. \A q, r \in Poll!Records : ~(PageEnd < q /\ q < r /\ r <= PageEnd)
      BY <1>7, <1>8
    <3> QED  BY <2>3, <2>5, <3>1 DEF Filled, Poll!Records
  <2>8. \A r \in Elements(page) : ~Delivered(r)
    <3>1. \A r \in Poll!Records : url < r => ~(r <= url)
      BY <1>7, PollNumbers
    <3> QED  BY <1>3, <2>4, <3>1
  <2>9. Single'
    <3>1. \A r \in Poll!Records \ NoId : ingested[r] <= 1 /\ (r \in Elements(events') => ingested[r] = 0)
      <4>1. \A r \in Elements(page) : r \in Poll!Records => ingested[r] = 0
        <5>1. \A r \in Poll!Records : ingested[r] \in 0..2
          BY PollNumbers
        <5> QED  BY <2>8, <5>1 DEF Delivered
      <4> QED  BY <1>6, <2>2, <4>1 DEF Single
    <3>2. \A x \in Elements(events) \intersect Elements(page) : x \in NoId
      BY <2>8 DEF Delivered
    <3>3. \A i, j \in 1..Len(events') : i # j /\ events'[i] = events'[j] => events'[i] \in NoId
      <4>1. events \in Seq(Poll!Records)
        BY DEF PollTypes
      <4>2. \A i, j \in 1..Len(events) : i # j /\ events[i] = events[j] => events[i] \in NoId
        BY <2>2 DEF Single
      <4>3. \A i, j \in 1..Len(page) : i # j /\ page[i] = page[j] => page[i] \in NoId
        BY <1>3
      <4>4. \A i, j \in 1..Len(events \o page) :
              i # j /\ (events \o page)[i] = (events \o page)[j] => (events \o page)[i] \in NoId
        BY <1>3, <3>2, <4>1, <4>2, <4>3, JoinedSingle
      <4> QED  BY <1>5, <4>4
    <3> QED  BY <1>5, <3>1, <3>3 DEF Single, Poll!Records
  <2>10. Remembered' /\ Saved'
    BY <1>2, <1>5, <2>1 DEF Remembered, Saved
  <2> QED  BY <2>6, <2>7, <2>9, <2>10
<1> QED  BY <1>11, <1>12, <1>15, <1>16

\* A page of GitHub's or Entra's log: what the filter lets through is delivered.
LEMMA FilteredIs ==
  ASSUME PollInv, pc = "page", kind # "okta", Poll!FilteredPage,
         NEW fresh, fresh = Poll!Unknown(Poll!Page(url), seen)
  PROVE  /\ events' = events \o InOrder(fresh) /\ pages' = pages + 1 /\ attempt' = 1
         /\ refreshed' = FALSE /\ seen' = Poll!LastN(seen \o InOrder(fresh \ NoId), SeenCap)
         /\ pc' \in {"page", "save"}
         /\ pc' = "page" => pages + 1 # MaxPages /\ cursor' = PageEnd /\ url' = PageEnd
         /\ url' \in {url, PageEnd}
         /\ \/ cursor' = cursor
            \/ cursor' = PageEnd /\ PageEnd = url + PageSize
         /\ UNCHANGED <<kind, server, horizon, file, ingested, dropped, crashes, lostSaves>>
         /\ events' \in Seq(Poll!Records) /\ Elements(events') = Elements(events) \union fresh
         /\ seen \o InOrder(fresh \ NoId) \in Seq(Poll!Records)
         /\ Elements(seen \o InOrder(fresh \ NoId)) = Elements(seen) \union (fresh \ NoId)
         /\ seen' \in Seq(Poll!Records) /\ Len(seen') <= SeenCap
         /\ Elements(seen') \subseteq Elements(seen) \union (fresh \ NoId)
<1>1. /\ fresh \subseteq Poll!Records /\ Numbers(fresh) /\ Numbers(fresh \ NoId)
      /\ Poll!FilterSeen(Poll!Page(url), seen).fresh = InOrder(fresh)
      /\ Poll!FilterSeen(Poll!Page(url), seen).seen = Poll!LastN(seen \o InOrder(fresh \ NoId), SeenCap)
  BY UnknownIs
<1>2. /\ url + Len(Poll!Page(url)) = PageEnd
      /\ Poll!HasNext(url) => PageEnd = url + PageSize
  BY PageIs
<1>3. /\ events' = events \o InOrder(fresh)
      /\ seen' = Poll!LastN(seen \o InOrder(fresh \ NoId), SeenCap)
      /\ cursor' = IF Poll!HasNext(url) THEN PageEnd ELSE cursor
      /\ UNCHANGED <<kind, server, horizon, file, ingested, dropped, crashes, lostSaves>>
      /\ Poll!NextPage(Poll!Page(url))
  BY <1>1, <1>2 DEF Poll!FilteredPage
<1>4. /\ pages' = pages + 1 /\ attempt' = 1 /\ refreshed' = FALSE
      /\ url' = IF Poll!HasNext(url) THEN PageEnd ELSE url
      /\ pc' \in {"page", "save"}
      /\ pc' = "page" => Poll!HasNext(url) /\ pages + 1 # MaxPages
  BY <1>2, <1>3 DEF Poll!NextPage
<1>5. /\ InOrder(fresh) \in Seq(fresh) /\ Elements(InOrder(fresh)) = fresh
      /\ InOrder(fresh \ NoId) \in Seq(fresh \ NoId)
      /\ Elements(InOrder(fresh \ NoId)) = fresh \ NoId
  BY <1>1, InOrderIs, ElementsInOrder
<1>6. InOrder(fresh) \in Seq(Poll!Records) /\ InOrder(fresh \ NoId) \in Seq(Poll!Records)
  <2>1. fresh \ NoId \subseteq Poll!Records
    BY <1>1
  <2> QED  BY <1>1, <1>5, <2>1, SeqMonotonic
<1>7. seen \in Seq(Poll!Records) /\ events \in Seq(Poll!Records)
  BY DEF PollInv, PollTypes
<1>8. events' \in Seq(Poll!Records) /\ Elements(events') = Elements(events) \union fresh
  BY <1>3, <1>5, <1>6, <1>7, ElementsJoined
<1>9. /\ seen \o InOrder(fresh \ NoId) \in Seq(Poll!Records)
      /\ Elements(seen \o InOrder(fresh \ NoId)) = Elements(seen) \union (fresh \ NoId)
  <2>1. PICK t \in Seq(Poll!Records) : t = InOrder(fresh \ NoId)
    BY <1>6
  <2>2. seen \o t \in Seq(Poll!Records) /\ Elements(seen \o t) = Elements(seen) \union Elements(t)
    BY <1>7, ElementsJoined
  <2> QED  BY <1>5, <2>1, <2>2
<1>10. /\ seen' \in Seq(Poll!Records) /\ Len(seen') <= SeenCap
       /\ Elements(seen') \subseteq Elements(seen) \union (fresh \ NoId)
  <2>1. PICK all \in Seq(Poll!Records) : all = seen \o InOrder(fresh \ NoId)
    BY <1>9
  <2>2. Poll!Records \subseteq Nat
    BY PollNumbers
  <2>3. /\ Poll!LastN(all, SeenCap) \in Seq(Poll!Records) /\ Len(Poll!LastN(all, SeenCap)) <= SeenCap
        /\ Elements(Poll!LastN(all, SeenCap)) \subseteq Elements(all)
    BY <2>2, PollBounds, LastNIs
  <2> QED  BY <1>3, <1>9, <2>1, <2>3
<1> QED  BY <1>2, <1>3, <1>4, <1>8, <1>9, <1>10

\* The window after a page.
LEMMA WindowKept ==
  ASSUME PollInv, pc = "page", kind # "okta", Poll!FilteredPage, lostSaves = 0, crashes = 0
  PROVE  Remembered'
<1>1. PICK fresh : fresh = Poll!Unknown(Poll!Page(url), seen)
  OBVIOUS
<1>2. PICK all : all = seen \o InOrder(fresh \ NoId)
  OBVIOUS
<1>3. /\ seen' = Poll!LastN(all, SeenCap) /\ all \in Seq(Poll!Records)
      /\ Elements(all) = Elements(seen) \union (fresh \ NoId)
      /\ pc' # "idle" /\ kind' = kind /\ ingested' = ingested
      /\ Elements(events') = Elements(events) \union fresh
  BY <1>1, <1>2, FilteredIs
<1>4. /\ fresh = {r \in Elements(Poll!Page(url)) : r \in NoId \/ r \notin Elements(seen)}
      /\ fresh \subseteq Poll!Records /\ Numbers(fresh \ NoId)
  BY <1>1, UnknownIs
<1>5. \A r \in fresh \ NoId : ~Delivered(r)
  BY <1>4, NeverFetched
<1>6. Reached /\ Filled /\ Remembered /\ Window = seen /\ url = Position
      /\ Poll!Records \subseteq Nat /\ url \in Nat
  BY PollNumbers DEF PollInv, PollOnce, Window
<1>7. /\ Ascends(seen) /\ \A x \in Elements(seen) : Delivered(x) /\ x \notin NoId
      /\ \A r \in Poll!Records \ NoId : Delivered(r) /\ r \notin Elements(seen) =>
           Len(seen) = SeenCap /\ \A x \in Elements(seen) : r < x
  BY <1>6 DEF Remembered
<1>8. seen \in Seq(Poll!Records) /\ Elements(seen) \subseteq Poll!Records /\ seen \in Seq(Nat)
  <2>1. seen \in Seq(Poll!Records)
    BY DEF PollInv, PollTypes
  <2> QED  BY <1>6, <2>1, ElementsOf, SeqMonotonic
\* What is remembered lies before what is new.
<1>9. ASSUME NEW x \in Elements(seen), NEW y \in fresh \ NoId  PROVE x < y
  <2>1. x \in Poll!Records /\ y \in Poll!Records /\ x \in Nat /\ y \in Nat /\ Position < y
    BY <1>4, <1>6, <1>8, PageIs
  <2>2. x # y
    BY <1>4
  <2>3. ~(y < x)
    BY <1>5, <1>6, <1>7, <2>1 DEF Filled
  <2> QED  BY <2>1, <2>2, <2>3
<1>10. /\ InOrder(fresh \ NoId) \in Seq(Nat) /\ Ascends(InOrder(fresh \ NoId))
       /\ Elements(InOrder(fresh \ NoId)) = fresh \ NoId
       /\ Len(InOrder(fresh \ NoId)) = Cardinality(fresh \ NoId) /\ Cardinality(fresh \ NoId) \in Nat
  <2>1. InOrder(fresh \ NoId) \in Seq(fresh \ NoId)
    BY <1>4, InOrderIs
  <2>2. fresh \ NoId \subseteq Nat
    BY <1>4 DEF Numbers
  <2>3. InOrder(fresh \ NoId) \in Seq(Nat)
    BY <2>1, <2>2, SeqMonotonic
  <2>4. Ascends(InOrder(fresh \ NoId))
    BY <1>4, InOrderIs DEF Ascends
  <2> QED  BY <1>4, <2>3, <2>4, ElementsInOrder, InOrderIs
<1>11. Ascends(all)
  BY <1>2, <1>7, <1>8, <1>9, <1>10, JoinedAscends
<1>12. Len(all) = Len(seen) + Cardinality(fresh \ NoId) /\ Len(seen) \in Nat
  <2>1. PICK t \in Seq(Nat) : t = InOrder(fresh \ NoId)
    BY <1>10
  <2>2. Len(seen \o t) = Len(seen) + Len(t) /\ Len(seen) \in Nat
    BY <1>8, ConcatProperties, LenProperties
  <2> QED  BY <1>2, <1>10, <2>1, <2>2
<1>13. /\ Ascends(seen') /\ Elements(seen') \subseteq Elements(all)
       /\ Len(all) <= SeenCap => seen' = all
       /\ Len(all) > SeenCap => Len(seen') = SeenCap
       /\ Len(all) > SeenCap =>
            \A x \in Elements(all) \ Elements(seen') : \A y \in Elements(seen') : x < y
  BY <1>3, <1>6, <1>11, PollBounds, LastNIs
<1>14. \A r : Delivered(r)' <=> Delivered(r) \/ r \in fresh
  BY <1>3 DEF Delivered
<1>15. \A x \in Elements(seen') : Delivered(x)' /\ x \notin NoId
  BY <1>3, <1>7, <1>13, <1>14
<1>16. ASSUME NEW r \in Poll!Records \ NoId, Delivered(r)', r \notin Elements(seen')
       PROVE  Len(seen') = SeenCap /\ \A x \in Elements(seen') : r < x
  <2>1. CASE r \in Elements(all)
    <3>1. ~(Len(all) <= SeenCap)
      BY <1>13, <1>16, <2>1
    <3>2. Len(all) > SeenCap
      BY <1>12, <3>1, PollBounds
    <3> QED  BY <1>13, <1>16, <2>1, <3>2
  <2>2. CASE r \notin Elements(all)
    <3>1. Delivered(r) /\ r \notin Elements(seen)
      BY <1>3, <1>14, <1>16, <2>2
    <3>2. Len(seen) = SeenCap /\ \A x \in Elements(seen) : r < x
      BY <1>7, <3>1
    <3>3. \A x \in fresh \ NoId : r < x
      <4>1. 1 \in 1..Len(seen)
        BY <3>2, PollBounds
      <4>2. PICK y : y = seen[1] /\ y \in Elements(seen)
        BY <4>1 DEF Elements
      <4>3. r < y /\ y \in Nat /\ r \in Nat /\ \A x \in fresh \ NoId : x \in Nat /\ y < x
        BY <1>4, <1>6, <1>8, <1>9, <3>2, <4>2
      <4> QED  BY <4>3
    <3>4. \A x \in Elements(seen') : r < x
      BY <1>3, <1>13, <3>2, <3>3
    <3>5. Len(seen') = SeenCap
      <4>1. CASE Len(all) > SeenCap
        BY <1>13, <4>1
      <4>2. CASE ~(Len(all) > SeenCap)
        <5>1. Len(all) = SeenCap /\ Len(all) <= SeenCap
          BY <1>10, <1>12, <3>2, <4>2, PollBounds
        <5> QED  BY <1>13, <5>1
      <4> QED  BY <4>1, <4>2
    <3> QED  BY <3>4, <3>5
  <2> QED  BY <2>1, <2>2
<1>17. Window' = seen' /\ Poll!Records' = Poll!Records
  BY <1>3 DEF Window, Poll!Records
<1> QED  BY <1>13, <1>15, <1>16, <1>17 DEF Remembered

LEMMA FilteredKeeps ==
  ASSUME PollInv, Poll!GitHubPage \/ Poll!EntraPage
  PROVE  PollInv'
<1> USE DEF PollInv
<1>1. pc = "page" /\ kind # "okta" /\ Poll!FilteredPage
  BY DEF Poll!GitHubPage, Poll!EntraPage, Poll!FilteredPage
<1>2. PICK fresh : fresh = Poll!Unknown(Poll!Page(url), seen)
  OBVIOUS
<1>3. /\ fresh = {r \in Elements(Poll!Page(url)) : r \in NoId \/ r \notin Elements(seen)}
      /\ fresh \subseteq Poll!Records /\ Numbers(fresh)
  BY <1>1, <1>2, UnknownIs
<1>4. /\ events' = events \o InOrder(fresh) /\ pages' = pages + 1 /\ attempt' = 1
      /\ refreshed' = FALSE /\ pc' \in {"page", "save"}
      /\ pc' = "page" => pages + 1 # MaxPages /\ cursor' = PageEnd /\ url' = PageEnd
      /\ url' \in {url, PageEnd}
      /\ \/ cursor' = cursor
         \/ cursor' = PageEnd /\ PageEnd = url + PageSize
      /\ UNCHANGED <<kind, server, horizon, file, ingested, dropped, crashes, lostSaves>>
      /\ events' \in Seq(Poll!Records) /\ Elements(events') = Elements(events) \union fresh
      /\ seen' \in Seq(Poll!Records) /\ Len(seen') <= SeenCap
      /\ Elements(seen') \subseteq Elements(seen) \union (fresh \ NoId)
  BY <1>1, <1>2, FilteredIs
<1>5. /\ PageEnd \in Nat /\ url <= PageEnd /\ PageEnd <= server /\ PageEnd <= url + PageSize
      /\ \A r : r \in Elements(Poll!Page(url)) <=> r \in Poll!Records /\ url < r /\ r <= PageEnd
  BY <1>1, PageIs
<1>6. /\ server \in Nat /\ server <= MaxRecords /\ horizon \in Nat /\ horizon <= server
      /\ url = Position /\ url \in Nat /\ \A r \in Poll!Records : r \in Nat /\ ingested[r] \in 0..2
  BY <1>1, PollNumbers
<1>7. PageEnd \in 0..MaxRecords /\ PageEnd \in Poll!Cursors /\ PageEnd # Poll!NoCursor
  BY <1>5, <1>6, PollBounds
<1>8. pages' \in 0..MaxPages /\ (pc' = "page" => pages' < MaxPages)
  BY <1>1, <1>4, PollBounds DEF PollTypes, PollKnown
<1>9. Poll!NoCursor' = Poll!NoCursor /\ Poll!Records' = Poll!Records /\ Poll!Cursors' = Poll!Cursors
  BY DEF Poll!NoCursor, Poll!Records, Poll!Cursors
<1>10. PollTypes'
  <2>1. refreshed' \in BOOLEAN
    BY <1>4
  <2>2. attempt' \in 1..MaxRetries
    BY <1>4, PollBounds
  <2>3. url' \in 0..MaxRecords /\ cursor' \in Poll!Cursors
    BY <1>4, <1>7 DEF PollTypes
  <2> QED  BY <1>4, <1>8, <1>9, <2>1, <2>2, <2>3 DEF PollTypes
<1>11. PollKnown'
  BY <1>4, <1>5, <1>7, <1>8, <1>9 DEF PollKnown, Resume
<1>12. \A r : Delivered(r)' <=> Delivered(r) \/ r \in fresh
  BY <1>4 DEF Delivered
<1>13. \A r : Covered(r) => Covered(r)'
  BY <1>4, <1>12 DEF Covered
<1>14. ASSUME NEW r \in Poll!Records, r <= PageEnd  PROVE Covered(r)'
  <2>1. CASE url < r
    <3>1. r \in fresh \/ r \in Elements(seen)
      BY <1>3, <1>5, <1>14, <2>1
    <3> QED  BY <1>12, <1>13, <3>1 DEF Covered, PollCovered
  <2>2. CASE ~(url < r)
    <3>1. r <= url
      BY <1>6, <2>2
    <3>2. url = Resume(cursor)
      BY <1>1 DEF PollKnown
    <3>3. Covered(r)
      BY <3>1, <3>2 DEF PollCovered, Behind, Covered, Resume
    <3> QED  BY <1>13, <3>3
  <2> QED  BY <2>1, <2>2
<1>15. PollCovered'
  <2>1. \A r \in Elements(seen') \union Elements(file.seen) : Covered(r)'
    BY <1>4, <1>12, <1>13 DEF PollCovered, Covered
  <2>2. \A r \in Poll!Records : Behind(cursor, r)' \/ Behind(file.cursor, r)' => Covered(r)'
    <3>1. ASSUME NEW r \in Poll!Records, Behind(cursor, r)'  PROVE Covered(r)'
      <4>1. CASE cursor' = cursor
        BY <1>9, <1>13, <3>1, <4>1 DEF PollCovered, Behind
      <4>2. CASE cursor' = PageEnd
        BY <1>14, <3>1, <4>2 DEF Behind
      <4> QED  BY <1>4, <4>1, <4>2
    <3>2. ASSUME NEW r \in Poll!Records, Behind(file.cursor, r)'  PROVE Covered(r)'
      BY <1>4, <1>9, <1>13, <3>2 DEF PollCovered, Behind
    <3> QED  BY <3>1, <3>2
  <2> QED  BY <1>4, <1>9, <2>1, <2>2 DEF PollCovered
<1>16. PollOnce'
  <2> SUFFICES ASSUME lostSaves = 0, crashes = 0
               PROVE  (Reached /\ Filled /\ Remembered /\ Single /\ Saved)'
    BY <1>4 DEF PollOnce
  <2>1. Reached /\ Filled /\ Single
    BY DEF PollOnce
  <2>2. Position' \in {url, PageEnd} /\ Ahead' = PageSize /\ Ahead = PageSize
        /\ url <= Position' /\ Position' \in Nat
    <3>1. Position' = Resume(cursor')
      BY <1>4, <1>9 DEF Position, Resume
    <3>2. url = Resume(cursor)
      BY <1>1 DEF PollKnown
    <3>3. Position' \in {url, PageEnd}
      BY <1>4, <1>7, <3>1, <3>2 DEF Resume
    <3>4. Ahead' = PageSize /\ Ahead = PageSize
      BY <1>1, <1>4 DEF Ahead
    <3>5. url <= url
      BY <1>6
    <3> QED  BY <1>5, <1>6, <3>3, <3>4, <3>5
  <2>3. Reached'
    <3>1. ASSUME NEW r \in Poll!Records, Delivered(r)'  PROVE r <= url + PageSize
      <4>1. CASE Delivered(r)
        BY <1>6, <2>1, <2>2, <4>1 DEF Reached
      <4>2. CASE r \in fresh
        BY <1>3, <1>5, <1>6, <4>2, PollBounds
      <4> QED  BY <1>12, <3>1, <4>1, <4>2
    <3>2. \A r \in Poll!Records : Delivered(r)' => r <= Position' + PageSize
      <4>1. PICK p \in Nat : p = Position' /\ url <= p
        BY <2>2
      <4>2. url \in Nat /\ PageSize \in Nat /\ url <= p /\ \A r \in Poll!Records : r \in Nat
        BY <1>6, <4>1, PollBounds
      <4>3. url + PageSize <= p + PageSize /\ url + PageSize \in Nat /\ p + PageSize \in Nat
        BY <4>2
      <4>4. \A r \in Poll!Records : r <= url + PageSize => r <= p + PageSize
        BY <4>2, <4>3
      <4> QED  BY <3>1, <4>1, <4>4
    <3> QED  BY <1>9, <2>2, <3>2 DEF Reached
  <2>4. Filled'
    <3>1. ASSUME NEW q \in Poll!Records, NEW r \in Poll!Records, Position' < q, q < r, Delivered(r)'
          PROVE  Delivered(q)'
      <4>1. Position < q
        BY <1>6, <2>2, <3>1
      <4>2. CASE Delivered(r)
        BY <1>12, <2>1, <3>1, <4>1, <4>2 DEF Filled
      <4>3. CASE r \in fresh
        <5>1. q \in Elements(Poll!Page(url))
          BY <1>3, <1>5, <1>6, <3>1, <4>1, <4>3
        <5>2. q \in fresh \/ q \in Elements(seen)
          BY <1>3, <5>1
        <5>3. q \in Elements(seen) => Delivered(q)
          BY <1>1 DEF PollOnce, Remembered, Window
        <5> QED  BY <1>12, <5>2, <5>3
      <4> QED  BY <1>12, <3>1, <4>2, <4>3
    <3> QED  BY <1>9, <3>1 DEF Filled
  <2>5. Remembered'
    BY <1>1, WindowKept
  <2>6. \A r \in fresh \ NoId : ~Delivered(r)
    BY <1>1, <1>3, NeverFetched
  <2>7. Single'
    <3>1. \A r \in Poll!Records \ NoId : ingested[r] <= 1 /\ (r \in Elements(events') => ingested[r] = 0)
      <4>1. \A r \in fresh \ NoId : ingested[r] = 0
        BY <1>3, <1>6, <2>6 DEF Delivered
      <4> QED  BY <1>4, <2>1, <4>1 DEF Single
    <3>2. /\ InOrder(fresh) \in Seq(Poll!Records) /\ Elements(InOrder(fresh)) = fresh
          /\ \A i, j \in 1..Len(InOrder(fresh)) : i # j => InOrder(fresh)[i] # InOrder(fresh)[j]
      <4>1. /\ InOrder(fresh) \in Seq(fresh) /\ Len(InOrder(fresh)) = Cardinality(fresh)
            /\ Cardinality(fresh) \in Nat
            /\ \A i \in 1..Cardinality(fresh) :
                 InOrder(fresh)[i] \in fresh /\ Cardinality(Below(fresh, InOrder(fresh)[i])) = i - 1
        BY <1>3, InOrderIs
      <4>2. \A i, j \in 1..Cardinality(fresh) : i # j => InOrder(fresh)[i] # InOrder(fresh)[j]
        <5>1. SUFFICES ASSUME NEW i \in 1..Cardinality(fresh), NEW j \in 1..Cardinality(fresh),
                              InOrder(fresh)[i] = InOrder(fresh)[j]
                       PROVE  i = j
          OBVIOUS
        <5>2. i - 1 = j - 1
          BY <4>1, <5>1
        <5> QED  BY <4>1, <5>2
      <4> QED  BY <1>3, <4>1, <4>2, ElementsInOrder, SeqMonotonic
    <3>3. \A x \in Elements(events) \intersect Elements(InOrder(fresh)) : x \in NoId
      BY <2>6, <3>2 DEF Delivered
    <3>4. \A i, j \in 1..Len(events') : i # j /\ events'[i] = events'[j] => events'[i] \in NoId
      <4>1. events \in Seq(Poll!Records)
        BY DEF PollTypes
      <4>2. \A i, j \in 1..Len(events) : i # j /\ events[i] = events[j] => events[i] \in NoId
        BY <2>1 DEF Single
      <4>3. PICK t : t = InOrder(fresh)
        OBVIOUS
      <4>4. \A i, j \in 1..Len(t) : i # j /\ t[i] = t[j] => t[i] \in NoId
        BY <3>2, <4>3
      <4>5. \A i, j \in 1..Len(events \o t) :
              i # j /\ (events \o t)[i] = (events \o t)[j] => (events \o t)[i] \in NoId
        <5>1. t \in Seq(Poll!Records) /\ \A x \in Elements(events) \intersect Elements(t) : x \in NoId
          BY <3>2, <3>3, <4>3
        <5> QED  BY <4>1, <4>2, <4>4, <5>1, JoinedSingle
      <4> QED  BY <1>4, <4>3, <4>5
    <3> QED  BY <1>4, <1>9, <3>1, <3>4 DEF Single
  <2>8. Saved'
    BY <1>1, <1>4 DEF Saved
  <2> QED  BY <2>3, <2>4, <2>5, <2>7, <2>8
<1> QED  BY <1>10, <1>11, <1>15, <1>16

LEMMA SavePollKeeps ==
  ASSUME PollInv, NEW w \in Poll!Writes, Poll!SaveState(w)
  PROVE  PollInv'
<1> USE DEF PollInv
<1>1. /\ pc = "save" /\ pc' = "returned"
      /\ kind = "okta" => file' = file /\ lostSaves' = lostSaves
      /\ kind # "okta" => \/ file' = [cursor |-> cursor, seen |-> seen] /\ lostSaves' = lostSaves
                          \/ file' = Poll!NoState /\ lostSaves' = lostSaves + 1
                          \/ file' = file /\ lostSaves' = lostSaves + 1
      /\ UNCHANGED <<kind, server, horizon, url, cursor, seen, pages, attempt, refreshed, events,
                     ingested, dropped, crashes>>
  BY DEF Poll!SaveState, Poll!Writes, Poll!conn
<1>2. /\ file' \in [cursor : Poll!Cursors, seen : Seq(Poll!Records)] /\ Len(file'.seen) <= SeenCap
      /\ file'.cursor \in {cursor, Poll!NoCursor, file.cursor}
      /\ Elements(file'.seen) \subseteq Elements(seen) \union Elements(file.seen)
      /\ lostSaves' \in Nat
      /\ lostSaves' = 0 => lostSaves = 0 /\ (kind = "okta" => file' = file)
                           /\ (kind # "okta" => file'.cursor = cursor /\ file'.seen = seen)
  <2>1. /\ Len(<<>>) = 0 /\ <<>> \in Seq(Poll!Records) /\ 0 <= SeenCap /\ Elements(<<>>) = {}
        /\ Poll!NoCursor \in Poll!Cursors /\ lostSaves \in Nat /\ lostSaves + 1 # 0
    BY ElementsNone, PollBounds DEF PollTypes
  <2>2. CASE file' = [cursor |-> cursor, seen |-> seen] /\ lostSaves' = lostSaves /\ kind # "okta"
    BY <2>1, <2>2 DEF PollTypes
  <2>3. CASE file' = Poll!NoState /\ lostSaves' = lostSaves + 1
    BY <2>1, <2>3 DEF Poll!NoState
  <2>4. CASE file' = file /\ lostSaves' = lostSaves + 1
    BY <2>1, <2>4 DEF PollTypes
  <2>5. CASE file' = file /\ lostSaves' = lostSaves /\ kind = "okta"
    BY <2>1, <2>5 DEF PollTypes
  <2> QED  BY <1>1, <2>2, <2>3, <2>4, <2>5
<1>3. Poll!NoCursor' = Poll!NoCursor /\ Poll!Records' = Poll!Records /\ Poll!Cursors' = Poll!Cursors
  BY DEF Poll!NoCursor, Poll!Records, Poll!Cursors
<1>4. PollTypes'
  BY <1>1, <1>2, <1>3 DEF PollTypes
<1>5. PollKnown'
  BY <1>1, <1>2, <1>3 DEF PollKnown
<1>6. \A r : Delivered(r)' = Delivered(r) /\ Covered(r)' = Covered(r)
  BY <1>1 DEF Delivered, Covered
<1>7. PollCovered'
  <2>1. \A r \in Elements(seen) \union Elements(file'.seen) : Covered(r)'
    BY <1>2, <1>6 DEF PollCovered
  <2>2. \A r \in Poll!Records : Behind(cursor, r)' \/ Behind(file.cursor, r)' => Covered(r)'
    BY <1>1, <1>2, <1>3, <1>6 DEF PollCovered, Behind
  <2> QED  BY <1>1, <1>3, <2>1, <2>2 DEF PollCovered
<1>8. Position' = Position /\ Window' = Window /\ Ahead' = Ahead
  BY <1>1, <1>3 DEF Position, Window, Ahead, Resume
<1>9. PollOnce'
  <2> SUFFICES ASSUME lostSaves' = 0, crashes' = 0
               PROVE  (Reached /\ Filled /\ Remembered /\ Single /\ Saved)'
    BY DEF PollOnce
  <2>1. Reached /\ Filled /\ Remembered /\ Single /\ Saved
    BY <1>1, <1>2 DEF PollOnce
  <2>2. Reached' /\ Filled' /\ Remembered'
    BY <1>1, <1>3, <1>6, <1>8, <2>1 DEF Reached, Filled, Remembered
  <2>3. Single'
    BY <1>1, <1>3, <2>1 DEF Single
  <2>4. Saved'
    BY <1>1, <1>2, <2>1 DEF Saved
  <2> QED  BY <2>2, <2>3, <2>4
<1> QED  BY <1>4, <1>5, <1>7, <1>9

\* How often a record is among the events: not at all, once for an id, or more.
LEMMA TimesIs ==
  ASSUME NEW r, NEW s \in Seq(Poll!Records)
  PROVE  /\ Poll!Cardinality({i \in DOMAIN s : s[i] = r}) \in Nat
         /\ r \in Elements(s) <=> Poll!Cardinality({i \in DOMAIN s : s[i] = r}) > 0
         /\ (\A i, j \in 1..Len(s) : i # j /\ s[i] = s[j] => s[i] \in NoId) /\ r \notin NoId =>
              Poll!Cardinality({i \in DOMAIN s : s[i] = r}) <= 1
<1>1. DOMAIN s = 1..Len(s) /\ Len(s) \in Nat
  BY LenProperties
<1>2. PICK places : places = {i \in DOMAIN s : s[i] = r}
  OBVIOUS
<1>3. Poll!Cardinality(places) = Cardinality(places)
  BY DEF Poll!Cardinality, Cardinality
<1>4. places \subseteq 1..Len(s) /\ IsFiniteSet(1..Len(s))
  BY <1>1, <1>2, FS_Interval
<1>5. IsFiniteSet(places) /\ Cardinality(places) \in Nat
  BY <1>4, FS_Subset, FS_CardinalityType
<1>6. Cardinality(places) = 0 <=> places = {}
  BY <1>5, FS_EmptySet
<1>7. r \in Elements(s) <=> places # {}
  BY <1>1, <1>2 DEF Elements
<1>8. ASSUME \A i, j \in 1..Len(s) : i # j /\ s[i] = s[j] => s[i] \in NoId, r \notin NoId
      PROVE  Cardinality(places) <= 1
  <2>1. CASE places = {}
    BY <1>6, <2>1
  <2>2. CASE places # {}
    <3>1. PICK i : i \in places
      BY <2>2
    <3>2. \A j \in places : j = i
      BY <1>1, <1>2, <1>8, <3>1
    <3>3. places = {i}
      BY <3>1, <3>2
    <3>4. Cardinality(places) = 1
      BY <3>3, FS_Singleton
    <3> QED  BY <3>4
  <2> QED  BY <2>1, <2>2
<1>9. Cardinality(places) # 0 <=> Cardinality(places) > 0
  BY <1>5
<1> QED  BY <1>2, <1>3, <1>5, <1>6, <1>7, <1>8, <1>9

LEMMA EndPollKeeps ==
  ASSUME PollInv, Poll!Ingest \/ Poll!Crash
  PROVE  PollInv'
<1> USE DEF PollInv
<1>1. /\ pc # "idle" /\ pc' = "idle" /\ url' = 0 /\ cursor' = Poll!NoCursor /\ seen' = <<>>
      /\ pages' = 0 /\ attempt' = 1 /\ refreshed' = FALSE /\ events' = <<>>
      /\ UNCHANGED <<kind, server, horizon, file, lostSaves>>
  BY DEF Poll!Ingest, Poll!Crash, Poll!Discard
<1>2. events \in Seq(Poll!Records) /\ Elements(events) \subseteq Poll!Records
      /\ Poll!SetOf(events) = Elements(events)
  BY ElementsOf DEF PollTypes
<1>3. /\ Elements(events') = {} /\ Elements(seen') = {} /\ Len(events') = 0 /\ Len(seen') = 0
      /\ <<>> \in Seq(Poll!Records) /\ Len(<<>>) = 0
  BY <1>1, ElementsNone
<1>4. Poll!NoCursor' = Poll!NoCursor /\ Poll!Records' = Poll!Records /\ Poll!Cursors' = Poll!Cursors
  BY DEF Poll!NoCursor, Poll!Records, Poll!Cursors
<1> DEFINE times(r) == Poll!Cardinality({i \in DOMAIN events : events[i] = r})
<1>5. \/ /\ pc = "returned" /\ UNCHANGED <<dropped, crashes>>
         /\ ingested' = [r \in Poll!Records |-> Poll!Smaller(2, ingested[r] + times(r))]
      \/ dropped' = dropped \union Elements(events) /\ crashes' = crashes + 1 /\ ingested' = ingested
  BY <1>2 DEF Poll!Ingest, Poll!Crash
<1>6. \A r : /\ times(r) \in Nat /\ (r \in Elements(events) <=> times(r) > 0)
             /\ (\A i, j \in 1..Len(events) : i # j /\ events[i] = events[j] => events[i] \in NoId)
                /\ r \notin NoId => times(r) <= 1
  BY <1>2, TimesIs
<1>7. \A r \in Poll!Records : ingested[r] \in 0..2 /\ r \in Nat
  BY PollNumbers
<1> HIDE DEF times
<1>8. \A r \in Poll!Records : /\ Poll!Smaller(2, ingested[r] + times(r)) \in 0..2
                              /\ (Poll!Smaller(2, ingested[r] + times(r)) > 0
                                  <=> ingested[r] > 0 \/ times(r) > 0)
                              /\ (ingested[r] <= 1 /\ times(r) <= 1 /\ (times(r) > 0 => ingested[r] = 0)
                                  => Poll!Smaller(2, ingested[r] + times(r)) <= 1)
  BY <1>6, <1>7 DEF Poll!Smaller
<1>9. PollTypes'
  <2>1. ingested' \in [Poll!Records -> 0..2]
    <3>1. CASE ingested' = ingested
      BY <3>1 DEF PollTypes
    <3>2. CASE ingested' = [r \in Poll!Records |-> Poll!Smaller(2, ingested[r] + times(r))]
      BY <1>8, <3>2
    <3> QED  BY <1>5, <3>1, <3>2
  <2>2. crashes' \in Nat /\ dropped' \subseteq Poll!Records
    BY <1>2, <1>5 DEF PollTypes
  <2>3. refreshed' \in BOOLEAN
    BY <1>1
  <2>4. /\ 0 \in 0..MaxRecords /\ 0 \in 0..MaxPages /\ 1 \in 1..MaxRetries
        /\ Poll!NoCursor \in Poll!Cursors /\ 0 <= SeenCap
    BY PollBounds
  <2> QED  BY <1>1, <1>3, <1>4, <2>1, <2>2, <2>3, <2>4 DEF PollTypes
<1>10. PollKnown'
  BY <1>1, <1>4 DEF PollKnown
<1>11. ASSUME NEW r \in Poll!Records, Covered(r)  PROVE Covered(r)'
  <2>1. CASE dropped' = dropped \union Elements(events) /\ ingested' = ingested
    BY <1>1, <1>11, <2>1 DEF Covered, Delivered
  <2>2. CASE /\ dropped' = dropped
             /\ ingested' = [x \in Poll!Records |-> Poll!Smaller(2, ingested[x] + times(x))]
    <3>1. Delivered(r) => ingested'[r] > 0
      BY <1>6, <1>8, <2>2 DEF Delivered
    <3> QED  BY <1>1, <1>11, <2>2, <3>1 DEF Covered, Delivered
  <2> QED  BY <1>5, <2>1, <2>2
<1>12. PollCovered'
  <2>1. Elements(file.seen) \subseteq Poll!Records
    BY ElementsOf DEF PollTypes
  <2>2. \A r \in Elements(seen') \union Elements(file.seen) : Covered(r)'
    BY <1>3, <1>11, <2>1 DEF PollCovered
  <2>3. \A r \in Poll!Records : Behind(cursor, r)' \/ Behind(file.cursor, r)' => Covered(r)'
    BY <1>1, <1>4, <1>11 DEF PollCovered, Behind
  <2> QED  BY <1>1, <1>4, <2>2, <2>3 DEF PollCovered
<1>13. PollOnce'
  <2>1. CASE crashes' = crashes + 1
    BY <2>1 DEF PollOnce, PollTypes
  <2>2. CASE /\ pc = "returned" /\ UNCHANGED <<dropped, crashes>>
             /\ ingested' = [r \in Poll!Records |-> Poll!Smaller(2, ingested[r] + times(r))]
    <3> SUFFICES ASSUME lostSaves = 0, crashes = 0
                 PROVE  (Reached /\ Filled /\ Remembered /\ Single /\ Saved)'
      BY <1>1, <2>2 DEF PollOnce
    <3>1. Reached /\ Filled /\ Remembered /\ Single /\ Saved
      BY DEF PollOnce
    <3>2. Position' = Position /\ Ahead' = Ahead /\ (kind # "okta" => Window' = Window)
      BY <1>1, <1>4, <2>2, <3>1 DEF Position, Ahead, Window, Resume, Saved
    <3>3. \A r \in Poll!Records : Delivered(r)' <=> Delivered(r)
      <4>1. \A r \in Poll!Records : ingested'[r] > 0 <=> ingested[r] > 0 \/ times(r) > 0
        BY <1>8, <2>2
      <4> QED  BY <1>3, <1>6, <4>1 DEF Delivered
    <3>4. Reached'
      BY <1>4, <3>1, <3>2, <3>3 DEF Reached
    <3>5. Filled'
      BY <1>4, <3>1, <3>2, <3>3 DEF Filled
    <3>6. Remembered'
      <4>1. CASE kind = "okta"
        BY <1>1, <4>1 DEF Remembered
      <4>2. CASE kind # "okta"
        <5>1. Elements(Window) \subseteq Poll!Records
          BY ElementsOf DEF Window, PollTypes
        <5> QED  BY <1>1, <1>4, <3>1, <3>2, <3>3, <4>2, <5>1 DEF Remembered
      <4> QED  BY <4>1, <4>2
    <3>7. Single'
      <4>1. \A r \in Poll!Records \ NoId : ingested'[r] <= 1
        BY <1>6, <1>8, <2>2, <3>1 DEF Single
      <4> QED  BY <1>3, <1>4, <4>1 DEF Single
    <3>8. Saved'
      BY <1>1 DEF Saved
    <3> QED  BY <3>4, <3>5, <3>6, <3>7, <3>8
  <2> QED  BY <1>5, <2>1, <2>2
<1> QED  BY <1>9, <1>10, <1>12, <1>13

LEMMA PollKept ==
  ASSUME PollInv, Poll!Next
  PROVE  PollInv'
  BY ArriveKeeps, StartPollKeeps, FilteredKeeps, EndPollKeeps, ErrorKeeps, OktaKeeps, SavePollKeeps
     DEF Poll!Next

LEMMA PollUnchanged ==
  ASSUME PollInv, UNCHANGED pollVars
  PROVE  PollInv'
<1>1. /\ Poll!NoCursor' = Poll!NoCursor /\ Poll!Records' = Poll!Records /\ Poll!Cursors' = Poll!Cursors
      /\ UNCHANGED <<kind, server, horizon, file, pc, url, cursor, seen, pages, attempt, refreshed,
                     events, ingested, dropped, crashes, lostSaves>>
  BY DEF Poll!NoCursor, Poll!Records, Poll!Cursors, pollVars
<1>2. PollTypes' /\ PollKnown' /\ PollCovered'
  BY <1>1 DEF PollInv, PollTypes, PollKnown, PollCovered, Covered, Delivered, Behind, Resume
<1>3. PollOnce'
  BY <1>1 DEF PollInv, PollOnce, Reached, Filled, Remembered, Single, Saved, Delivered, Position,
              Window, Ahead, Resume
<1> QED  BY <1>2, <1>3 DEF PollInv

LEMMA PollSafe ==
  ASSUME PollInv
  PROVE  Poll!TypeOK /\ Poll!NoGap /\ Poll!NoReplay
<1>1. /\ Poll!SetOf(events) = Elements(events) /\ Elements(events) \subseteq Poll!Records
      /\ Poll!SetOf(seen) = Elements(seen) /\ Elements(seen) \subseteq Poll!Records
  BY ElementsOf DEF PollInv, PollTypes
<1>2. Poll!TypeOK
  BY <1>1 DEF PollInv, PollTypes, Poll!TypeOK
<1>3. Poll!NoGap
  <2>1. pc = "idle" => Elements(events) = {}
    BY ElementsNone DEF PollInv, PollKnown
  <2> QED  BY <1>1, <2>1 DEF PollInv, PollCovered, Poll!NoGap, Poll!Passed, Poll!Fetched, Covered,
                             Delivered, Behind
<1>4. Poll!NoReplay
  BY DEF PollInv, PollOnce, Single, Poll!NoReplay
<1> QED  BY <1>2, <1>3, <1>4
-------------------------------------------------------------------------------
(* Feeds: the update.                                                      *)

Updating ==
  [pc : {"fetch", "truncate", "write", "matrix", "intel"}, feed : Content!Feed, new : 0..MaxVersion,
   coverage : 0..MaxVersion, failed : SUBSET Content!Feed, began : [Content!Feed -> 1..MaxVersion],
   had : [Content!Feed -> 0..(MaxVersion + 1)]]

UpdateTypes ==
  /\ version \in [Content!Feed -> 1..MaxVersion]
  /\ cache \in [Content!Feed -> 0..(MaxVersion + 1)]
  /\ update = Content!Off \/ update \in Updating

\* Which feeds an update has dealt with.
Finished(u, f) == \/ f = "attack" /\ (u.feed = "kev" \/ u.pc = "matrix")
                  \/ f = "kev" /\ u.pc = "intel"

\* What a running update knows is so.
Sound(u) ==
  /\ u.pc = "matrix" => u.feed = "attack"
  /\ u.pc = "intel" => u.feed = "kev"
  /\ u.feed = "kev" => u.coverage = Content!Held("attack")
  /\ \A f \in Content!Feed : u.began[f] <= version[f]
  /\ \A f \in Content!Feed : Finished(u, f) =>
       IF f \in u.failed THEN cache[f] \in {u.had[f], Content!Torn}
                         ELSE cache[f] \in u.began[f]..MaxVersion
  /\ \A f \in Content!Feed : ~Finished(u, f) =>
       /\ f \notin u.failed
       /\ cache[f] = u.had[f] \/ (f = u.feed /\ u.pc = "write" /\ cache[f] = Content!Torn)
  /\ u.pc \in {"truncate", "write"} => u.new \in u.began[u.feed]..MaxVersion

UpdateInv ==
  /\ UpdateTypes /\ Content!UpdateHonest
  /\ update # Content!Off => report = <<>> /\ Sound(update)

LEMMA FeedBounds ==
  /\ MaxVersion \in Nat \ {0} /\ Limit \in Nat /\ Content!Feed = {"attack", "kev"}
  /\ Content!Torn = MaxVersion + 1
  BY IntakeAssumption DEF Content!FeedsAssumption, Content!Feed, Content!Torn

LEMMA UpdateBegins ==
  ASSUME Content!Init
  PROVE  UpdateInv
<1> USE DEF Content!Init
<1>1. UpdateTypes
  BY FeedBounds DEF UpdateTypes
<1> QED  BY <1>1 DEF UpdateInv, Content!UpdateHonest

\* A step that touches neither the caches nor the update.
LEMMA UpdateAside ==
  ASSUME UpdateInv, UNCHANGED <<cache, update, report>>, version' \in [Content!Feed -> 1..MaxVersion],
         \A f \in Content!Feed : version[f] <= version'[f]
  PROVE  UpdateInv'
<1>1. UpdateTypes' /\ Content!UpdateHonest'
  BY DEF UpdateInv, UpdateTypes, Content!UpdateHonest, Content!Held, Content!Torn, Content!Feed,
         Updating, Content!Off
<1>2. ASSUME update # Content!Off  PROVE Sound(update)'
  <2>1. Sound(update) /\ update \in Updating
    BY <1>2 DEF UpdateInv, UpdateTypes
  <2>2. \A f \in Content!Feed : update.began[f] <= version'[f]
    <3>1. \A f \in Content!Feed : update.began[f] \in Nat /\ version[f] \in Nat /\ version'[f] \in Nat
      BY <2>1, FeedBounds DEF UpdateInv, UpdateTypes, Updating
    <3> QED  BY <2>1, <3>1 DEF Sound
  <2> QED  BY <2>1, <2>2 DEF Sound, Finished, Content!Held, Content!Torn, Content!Feed
<1> QED  BY <1>1, <1>2 DEF UpdateInv, Content!Off

LEMMA UpdateIs ==
  ASSUME UpdateInv, update.pc # "off"
  PROVE  update \in Updating /\ Sound(update) /\ report = <<>> /\ update # Content!Off
<1>1. update # Content!Off
  BY DEF Content!Off
<1> QED  BY <1>1 DEF UpdateInv, UpdateTypes

\* A step of the update that leaves it running.
LEMMA UpdateGoesOn ==
  ASSUME UpdateInv, report = <<>>, version' = version, report' = report,
         cache' \in [Content!Feed -> 0..(MaxVersion + 1)], update' \in Updating, Sound(update)'
  PROVE  UpdateInv'
<1>1. UpdateTypes'
  BY DEF UpdateInv, UpdateTypes, Content!Feed, Updating, Content!Off
<1> QED  BY <1>1 DEF UpdateInv, Content!UpdateHonest

LEMMA FetchKeepsUpdate ==
  ASSUME UpdateInv, NEW ok \in BOOLEAN, Content!FetchFeed(ok)
  PROVE  UpdateInv'
<1>1. update.pc = "fetch" /\ UNCHANGED <<version, cache, report>>
  BY DEF Content!FetchFeed, Content!files
<1>2. update \in Updating /\ Sound(update) /\ report = <<>>
  BY <1>1, UpdateIs
<1>3. PICK g \in {"attack", "kev"} : g = update.feed
  BY <1>2, FeedBounds DEF Updating
<1>4. /\ ~Finished(update, g) /\ g \notin update.failed /\ cache[g] = update.had[g]
      /\ \A f \in Content!Feed : update.began[f] \in 1..MaxVersion /\ version[f] \in 1..MaxVersion
           /\ cache[f] \in 0..(MaxVersion + 1) /\ update.began[f] <= version[f]
  <2>1. ~Finished(update, g)
    BY <1>1, <1>3 DEF Finished
  <2>2. g \notin update.failed /\ cache[g] = update.had[g]
    BY <1>1, <1>2, <1>3, <2>1, FeedBounds DEF Sound
  <2> QED  BY <1>2, <2>1, <2>2 DEF Sound, Updating, UpdateInv, UpdateTypes
<1>5. \/ update' = Content!NextFeed([update EXCEPT !.failed = @ \union {g}])
      \/ update' = Content!NextFeed(update) /\ Content!Held(g) = version[g]
      \/ update' = [update EXCEPT !.pc = "truncate", !.new = version[g]]
  BY <1>3 DEF Content!FetchFeed
<1>6. CASE update' = Content!NextFeed([update EXCEPT !.failed = @ \union {g}])
  <2>1. update' = [update EXCEPT !.failed = @ \union {g}, !.pc = IF g = "attack" THEN "matrix" ELSE "intel"]
    BY <1>2, <1>3, <1>6 DEF Content!NextFeed, Updating
  <2>2. update' \in Updating /\ Sound(update)'
    BY <1>1, <1>2, <1>3, <1>4, <2>1, FeedBounds DEF Updating, Sound, Finished, Content!Held, Content!Torn, Content!Feed
  <2> QED  BY <1>1, <1>2, <2>2, UpdateGoesOn DEF UpdateInv, UpdateTypes
<1>7. CASE update' = Content!NextFeed(update) /\ Content!Held(g) = version[g]
  <2>1. update' = [update EXCEPT !.pc = IF g = "attack" THEN "matrix" ELSE "intel"]
    BY <1>2, <1>3, <1>7 DEF Content!NextFeed, Updating
  <2>2. cache[g] \in update.began[g]..MaxVersion
    BY <1>3, <1>4, <1>7, FeedBounds DEF Content!Held
  <2>3. update' \in Updating /\ Sound(update)'
    BY <1>1, <1>2, <1>3, <1>4, <2>1, <2>2, FeedBounds DEF Updating, Sound, Finished, Content!Held, Content!Torn, Content!Feed
  <2> QED  BY <1>1, <1>2, <2>3, UpdateGoesOn DEF UpdateInv, UpdateTypes
<1>8. CASE update' = [update EXCEPT !.pc = "truncate", !.new = version[g]]
  <2>1. version[g] \in update.began[g]..MaxVersion /\ version[g] \in 0..MaxVersion
    BY <1>3, <1>4, FeedBounds
  <2>2. update' \in Updating /\ Sound(update)'
    BY <1>1, <1>2, <1>3, <1>4, <1>8, <2>1, FeedBounds DEF Updating, Sound, Finished, Content!Held, Content!Torn, Content!Feed
  <2> QED  BY <1>1, <1>2, <2>2, UpdateGoesOn DEF UpdateInv, UpdateTypes
<1> QED  BY <1>5, <1>6, <1>7, <1>8

LEMMA CacheKeepsUpdate ==
  ASSUME UpdateInv, Content!TruncateCache \/ Content!WriteCache \/ Content!WriteFails
  PROVE  UpdateInv'
<1>1. update.pc \in {"truncate", "write"} /\ UNCHANGED <<version, report>>
  BY DEF Content!TruncateCache, Content!WriteCache, Content!WriteFails
<1>2. update \in Updating /\ Sound(update) /\ report = <<>>
  BY <1>1, UpdateIs
<1>3. PICK g \in {"attack", "kev"} : g = update.feed
  BY <1>2, FeedBounds DEF Updating
<1>4. /\ update.new \in update.began[g]..MaxVersion /\ update.new \in 0..MaxVersion
      /\ ~Finished(update, g) /\ g \notin update.failed
      /\ \A f \in Content!Feed : update.began[f] \in 1..MaxVersion
  <2>1. ~Finished(update, g)
    BY <1>1, <1>3 DEF Finished
  <2> QED  BY <1>1, <1>2, <1>3, <2>1, FeedBounds DEF Sound, Updating
<1>5. CASE Content!TruncateCache
  <2>1. update.pc = "truncate" /\ cache' = [cache EXCEPT ![g] = MaxVersion + 1]
        /\ update' = [update EXCEPT !.pc = "write"]
    BY <1>3, <1>5, FeedBounds DEF Content!TruncateCache
  <2>2. cache' \in [Content!Feed -> 0..(MaxVersion + 1)] /\ update' \in Updating
    <3>1. MaxVersion + 1 \in 0..(MaxVersion + 1)
      BY FeedBounds
    <3>2. cache' \in [Content!Feed -> 0..(MaxVersion + 1)]
      BY <2>1, <3>1 DEF UpdateInv, UpdateTypes
    <3>3. update' \in Updating
      BY <1>2, <2>1 DEF Updating
    <3> QED  BY <3>2, <3>3
  <2>3. Sound(update)'
    BY <1>1, <1>2, <1>3, <1>4, <2>1, FeedBounds DEF UpdateInv, UpdateTypes, Updating, Sound, Finished, Content!Held, Content!Torn, Content!Feed
  <2> QED  BY <1>1, <1>2, <2>2, <2>3, UpdateGoesOn
<1>6. CASE Content!WriteCache
  <2>1. update.pc = "write" /\ cache' = [cache EXCEPT ![g] = update.new]
        /\ update' = [update EXCEPT !.pc = IF g = "attack" THEN "matrix" ELSE "intel"]
    BY <1>3, <1>6, FeedBounds DEF Content!WriteCache, Content!NextFeed
  <2>2. cache' \in [Content!Feed -> 0..(MaxVersion + 1)] /\ update' \in Updating
    <3>1. update.new \in 0..(MaxVersion + 1)
      BY <1>4, FeedBounds
    <3>2. cache' \in [Content!Feed -> 0..(MaxVersion + 1)]
      BY <2>1, <3>1 DEF UpdateInv, UpdateTypes
    <3>3. update' \in Updating
      BY <1>2, <2>1 DEF Updating
    <3> QED  BY <3>2, <3>3
  <2>3. Sound(update)'
    BY <1>1, <1>2, <1>3, <1>4, <2>1, FeedBounds DEF UpdateInv, UpdateTypes, Updating, Sound, Finished, Content!Held, Content!Torn, Content!Feed
  <2> QED  BY <1>1, <1>2, <2>2, <2>3, UpdateGoesOn
<1>7. CASE Content!WriteFails
  <2>1. /\ cache' = cache
        /\ update' = [update EXCEPT !.failed = @ \union {g}, !.pc = IF g = "attack" THEN "matrix" ELSE "intel"]
    BY <1>2, <1>3, <1>7, FeedBounds DEF Content!WriteFails, Content!NextFeed, Content!files, Updating
  <2>2. update' \in Updating
    BY <1>2, <1>3, <2>1, FeedBounds DEF Updating
  <2>3. cache[g] \in {update.had[g], Content!Torn}
    BY <1>2, <1>3, <1>4, FeedBounds DEF Sound
  <2>4. Sound(update)'
    BY <1>1, <1>2, <1>3, <1>4, <2>1, <2>3, FeedBounds DEF UpdateInv, UpdateTypes, Updating, Sound, Finished, Content!Held, Content!Torn, Content!Feed
  <2> QED  BY <1>1, <1>2, <2>1, <2>2, <2>4, UpdateGoesOn DEF UpdateInv, UpdateTypes
<1> QED  BY <1>5, <1>6, <1>7

LEMMA MatrixKeepsUpdate ==
  ASSUME UpdateInv, Content!LoadMatrix
  PROVE  UpdateInv'
<1>1. update.pc = "matrix" /\ UNCHANGED <<version, cache, report>>
      /\ update' = [update EXCEPT !.coverage = Content!Held("attack"), !.pc = "fetch", !.feed = "kev"]
  BY DEF Content!LoadMatrix, Content!files
<1>2. update \in Updating /\ Sound(update) /\ report = <<>>
  BY <1>1, UpdateIs
<1>3. Content!Held("attack") \in 0..MaxVersion /\ "kev" \in Content!Feed
  BY FeedBounds DEF UpdateInv, UpdateTypes, Content!Held
<1>4. update' \in Updating
  BY <1>1, <1>2, <1>3 DEF Updating
<1>5. Sound(update)'
  BY <1>1, <1>2, FeedBounds DEF Updating, Sound, Finished, Content!Held, Content!Torn, Content!Feed
<1> QED  BY <1>1, <1>2, <1>4, <1>5, UpdateGoesOn DEF UpdateInv, UpdateTypes

LEMMA EndKeepsUpdate ==
  ASSUME UpdateInv, NEW got \in {<<>>, <<{}>>, <<Published>>}, Content!FetchIntel(got)
  PROVE  UpdateInv'
<1>1. PICK failed : failed = IF got = <<>> THEN update.failed \union {"intel"} ELSE update.failed
  OBVIOUS
<1>2. /\ update.pc = "intel" /\ UNCHANGED <<version, cache>> /\ update' = Content!Off
      /\ report' = <<[failed |-> failed, coverage |-> update.coverage, began |-> update.began,
                      had |-> update.had]>>
  BY <1>1 DEF Content!FetchIntel
<1>3. update \in Updating /\ Sound(update)
  BY <1>2, UpdateIs
<1>4. \A f \in Content!Feed : f \in failed <=> f \in update.failed
  BY <1>1, FeedBounds
<1>5. UpdateTypes'
  BY <1>2 DEF UpdateInv, UpdateTypes, Content!Feed, Content!Off
<1>6. Content!UpdateHonest'
  <2>1. \A f \in Content!Feed : Finished(update, f) /\ update.coverage = Content!Held("attack")
    BY <1>2, <1>3, FeedBounds DEF Sound, Finished
  <2>2. \A f \in Content!Feed \ failed : cache[f] \in update.began[f]..MaxVersion
    BY <1>3, <1>4, <2>1 DEF Sound
  <2>3. \A f \in Content!Feed \intersect failed : cache[f] \in {update.had[f], Content!Torn}
    BY <1>3, <1>4, <2>1 DEF Sound
  <2>4. update.coverage = Content!Held("attack")'
    BY <1>2, <2>1, FeedBounds DEF Content!Held, Content!Torn
  <2>5. report'[1] = [failed |-> failed, coverage |-> update.coverage, began |-> update.began,
                      had |-> update.had]
    BY <1>2
  <2>6. Content!Feed' = Content!Feed
    BY DEF Content!Feed
  <2> QED  BY <1>2, <2>2, <2>3, <2>4, <2>5, <2>6 DEF Content!UpdateHonest
<1> QED  BY <1>2, <1>5, <1>6 DEF UpdateInv, Content!Off

LEMMA StartKeepsUpdate ==
  ASSUME UpdateInv, Content!StartUpdate
  PROVE  UpdateInv'
<1>1. /\ report' = <<>> /\ UNCHANGED <<version, cache>>
      /\ \/ update' = Content!Off
         \/ update' = [pc |-> "fetch", feed |-> "attack", new |-> 0, coverage |-> 0, failed |-> {},
                       began |-> version, had |-> cache]
  BY DEF Content!StartUpdate, Content!files
<1>2. CASE update' = Content!Off
  BY <1>1, <1>2 DEF UpdateInv, UpdateTypes, Content!UpdateHonest, Content!Feed, Content!Off
<1>3. CASE update' = [pc |-> "fetch", feed |-> "attack", new |-> 0, coverage |-> 0, failed |-> {},
                      began |-> version, had |-> cache]
  <2>1. update' \in Updating
    BY <1>3, FeedBounds DEF UpdateInv, UpdateTypes, Updating
  <2>2. Sound(update)'
    <3>1. \A f \in Content!Feed : version[f] <= version[f]
      BY FeedBounds DEF UpdateInv, UpdateTypes
    <3> QED  BY <1>1, <1>3, <3>1, FeedBounds DEF Sound, Finished, Content!Feed
  <2>3. UpdateTypes'
    BY <1>1, <2>1 DEF UpdateInv, UpdateTypes, Content!Feed, Updating
  <2> QED  BY <1>1, <2>2, <2>3 DEF UpdateInv, Content!UpdateHonest
<1> QED  BY <1>1, <1>2, <1>3

LEMMA UpdateKept ==
  ASSUME UpdateInv, Content!Next
  PROVE  UpdateInv'
<1>1. ASSUME UNCHANGED <<cache, update, report, version>>  PROVE UpdateInv'
  <2>1. \A f \in Content!Feed : version[f] <= version'[f]
    BY <1>1, FeedBounds DEF UpdateInv, UpdateTypes
  <2> QED  BY <1>1, <2>1, UpdateAside DEF UpdateInv, UpdateTypes
<1>2. CASE \/ Content!StartLoad \/ Content!SaveIntel \/ Content!Unlink \/ Content!WriteRule
           \/ Content!WriteManifest \/ Content!StartPipeline \/ Content!EditRules
           \/ \E release \in Releases : Content!StartSync(release)
  <2>1. UNCHANGED <<cache, update, report, version>>
    BY <1>2 DEF Content!StartLoad, Content!SaveIntel, Content!Unlink, Content!WriteRule,
                Content!WriteManifest, Content!StartPipeline, Content!EditRules, Content!StartSync,
                Content!files
  <2> QED  BY <1>1, <2>1
<1>3. CASE Content!Kill
  <2>1. CASE update' = update
    <3>1. UNCHANGED <<cache, update, report, version>>
      BY <1>3, <2>1 DEF Content!Kill, Content!files
    <3> QED  BY <1>1, <3>1
  <2>2. CASE update # Content!Off /\ update' = Content!Off
    <3>1. UNCHANGED <<cache, report, version>> /\ report = <<>>
      BY <1>3, <2>2 DEF Content!Kill, Content!files, UpdateInv
    <3> QED  BY <2>2, <3>1 DEF UpdateInv, UpdateTypes, Content!UpdateHonest, Content!Feed, Content!Off
  <2> QED  BY <1>3, <2>1, <2>2 DEF Content!Kill
<1>4. CASE \E f \in Content!Feed : Content!Publish(f)
  <2>1. PICK g \in Content!Feed : Content!Publish(g)
    BY <1>4
  <2>2. /\ version[g] < MaxVersion /\ version' = [version EXCEPT ![g] = version[g] + 1]
        /\ UNCHANGED <<cache, update, report>>
    BY <2>1 DEF Content!Publish, Content!files
  <2>3. /\ version' \in [Content!Feed -> 1..MaxVersion]
        /\ \A f \in Content!Feed : version[f] <= version'[f]
    BY <2>2, FeedBounds DEF UpdateInv, UpdateTypes
  <2> QED  BY <2>2, <2>3, UpdateAside
<1> QED  BY <1>2, <1>3, <1>4, StartKeepsUpdate, FetchKeepsUpdate, CacheKeepsUpdate, MatrixKeepsUpdate,
            EndKeepsUpdate DEF Content!Next
-------------------------------------------------------------------------------
(* Feeds: the sync and the pipelines.                                      *)

Applicable == UNION {{release[i].id : i \in Content!Bucket(release, "applicable")} : release \in Releases}

LEMMA SameSizes == \A S : Content!Cardinality(S) = Cardinality(S)
  BY DEF Content!Cardinality, Cardinality

LEMMA ReleaseIs ==
  ASSUME NEW release \in Releases
  PROVE  /\ DOMAIN release = 1..Len(release) /\ Len(release) \in Nat
         /\ \A i \in DOMAIN release : release[i].class \in {"applicable", "fields", "syntax"}
         /\ \A i, j \in DOMAIN release : release[i].id = release[j].id => i = j
         /\ \A class : Numbers(Content!Bucket(release, class))
<1>1. /\ release \in Seq({release[i] : i \in DOMAIN release})
      /\ \A i \in DOMAIN release : release[i].class \in {"applicable", "fields", "syntax"}
      /\ \A i, j \in DOMAIN release : release[i].id = release[j].id => i = j
  BY IntakeAssumption DEF Content!FeedsAssumption, Content!Classes
<1>2. DOMAIN release = 1..Len(release) /\ Len(release) \in Nat
  BY <1>1, LenProperties
<1>3. \A class : Content!Bucket(release, class) \subseteq 1..Len(release)
  BY <1>2 DEF Content!Bucket
<1>4. IsFiniteSet(1..Len(release)) /\ 1..Len(release) \subseteq Nat
  BY <1>2, FS_Interval
<1>5. \A class : Numbers(Content!Bucket(release, class))
  BY <1>3, <1>4, FS_Subset DEF Numbers
<1> QED  BY <1>1, <1>2, <1>5

\* What is kept of a release: applicable rules, each once, all of them unless the limit cuts.
LEMMA KeptIs ==
  ASSUME NEW release \in Releases, NEW kept, kept = Content!Kept(release)
  PROVE  /\ kept \in Seq({release[i] : i \in DOMAIN release}) /\ Len(kept) \in Nat
         /\ Content!Manifest(release).imported = Len(kept)
         /\ \A k \in 1..Len(kept) : kept[k].id \in Applicable
         /\ \A k, l \in 1..Len(kept) : kept[k].id = kept[l].id => k = l
         /\ Len(kept) < Limit =>
              Content!Manifest(release).candidates =
                Len(kept) + Content!Manifest(release).na + Content!Manifest(release).unsupported
<1>1. /\ DOMAIN release = 1..Len(release) /\ Len(release) \in Nat
      /\ \A i \in DOMAIN release : release[i].class \in {"applicable", "fields", "syntax"}
      /\ \A i, j \in DOMAIN release : release[i].id = release[j].id => i = j
      /\ \A class : Numbers(Content!Bucket(release, class))
  BY ReleaseIs
<1>2. PICK app : app = Content!Bucket(release, "applicable")
  OBVIOUS
<1>3. PICK ok : ok = Smallest(app, Limit)
  OBVIOUS
<1>4. /\ Numbers(app) /\ Numbers(ok) /\ ok \subseteq app /\ Cardinality(ok) <= Limit
      /\ Cardinality(ok) < Limit => ok = app
  BY <1>1, <1>2, <1>3, SmallestIs, FeedBounds
<1>5. PICK n : n = Cardinality(ok)
  OBVIOUS
<1>6. PICK s : s = InOrder(ok)
  OBVIOUS
<1>7. /\ n \in Nat /\ \A k \in 1..n : s[k] \in ok /\ Cardinality(Below(ok, s[k])) = k - 1
  BY <1>4, <1>5, <1>6, InOrderIs
<1>8. kept = [k \in 1..n |-> release[s[k]]]
  BY <1>2, <1>3, <1>5, <1>6, SameOrders, SameSizes DEF Content!Kept
<1>9. \A k \in 1..n : s[k] \in app /\ s[k] \in DOMAIN release /\ kept[k] = release[s[k]]
  BY <1>2, <1>4, <1>7, <1>8 DEF Content!Bucket
<1>10. kept \in Seq({release[i] : i \in DOMAIN release}) /\ Len(kept) = n
  <2>1. kept \in [1..n -> {release[i] : i \in DOMAIN release}]
    BY <1>8, <1>9
  <2> QED  BY <1>7, <2>1, SeqDef, LenProperties
<1>11. \A k \in 1..n : kept[k].id \in Applicable
  BY <1>2, <1>9 DEF Applicable
<1>12. ASSUME NEW k \in 1..n, NEW l \in 1..n, kept[k].id = kept[l].id  PROVE k = l
  <2>1. s[k] = s[l]
    BY <1>1, <1>9, <1>12
  <2>2. k - 1 = l - 1
    BY <1>7, <2>1
  <2> QED  BY <1>7, <2>2
<1>13. PICK fields : fields = Content!Bucket(release, "fields")
  OBVIOUS
<1>14. PICK syntax : syntax = Content!Bucket(release, "syntax")
  OBVIOUS
<1>15. /\ Content!Manifest(release).imported = n /\ Content!Manifest(release).candidates = Len(release)
       /\ Content!Manifest(release).na = Cardinality(fields)
       /\ Content!Manifest(release).unsupported = Cardinality(syntax)
  <2>1. Content!Manifest(release) =
          [candidates |-> Len(release), imported |-> Len(kept), na |-> Cardinality(fields),
           unsupported |-> Cardinality(syntax)]
    BY <1>13, <1>14, SameSizes DEF Content!Manifest
  <2> QED  BY <1>10, <2>1
<1>16. Len(release) = Cardinality(app) + Cardinality(fields) + Cardinality(syntax)
  <2>1. /\ IsFiniteSet(app) /\ IsFiniteSet(fields) /\ IsFiniteSet(syntax)
        /\ app \intersect fields = {} /\ (app \union fields) \intersect syntax = {}
        /\ (app \union fields) \union syntax = 1..Len(release)
    <3>1. IsFiniteSet(app) /\ IsFiniteSet(fields) /\ IsFiniteSet(syntax)
      BY <1>1, <1>2, <1>13, <1>14 DEF Numbers
    <3>2. app \intersect fields = {} /\ (app \union fields) \intersect syntax = {}
      BY <1>2, <1>13, <1>14 DEF Content!Bucket
    <3>3. (app \union fields) \union syntax = 1..Len(release)
      BY <1>1, <1>2, <1>13, <1>14 DEF Content!Bucket
    <3> QED  BY <3>1, <3>2, <3>3
  <2>2. Cardinality({}) = 0 /\ Cardinality(app) \in Nat /\ Cardinality(fields) \in Nat
        /\ Cardinality(syntax) \in Nat
    BY <2>1, FS_EmptySet, FS_CardinalityType
  <2>3. IsFiniteSet(app \union fields)
        /\ Cardinality(app \union fields) = Cardinality(app) + Cardinality(fields)
    <3>1. Cardinality(app \union fields)
            = Cardinality(app) + Cardinality(fields) - Cardinality(app \intersect fields)
          /\ IsFiniteSet(app \union fields)
      BY <2>1, FS_Union
    <3>2. Cardinality(app \intersect fields) = 0
      BY <2>1, <2>2
    <3>3. PICK a, f \in Nat : a = Cardinality(app) /\ f = Cardinality(fields)
      BY <2>2
    <3> QED  BY <3>1, <3>2, <3>3
  <2>4. PICK both : both = app \union fields
    OBVIOUS
  <2>5. Cardinality(both \union syntax)
          = Cardinality(both) + Cardinality(syntax) - Cardinality(both \intersect syntax)
    BY <2>1, <2>3, <2>4, FS_Union
  <2>6. Cardinality(1..Len(release)) = Len(release)
    <3>1. \A m \in Nat : Cardinality(1..m) = m
      BY FS_Interval
    <3> QED  BY <1>1, <3>1
  <2>7. Cardinality(both \intersect syntax) = 0
    BY <2>1, <2>2, <2>4
  <2>8. Cardinality(both \union syntax) = Len(release)
    BY <2>1, <2>4, <2>6
  <2>9. PICK a, f, x \in Nat : a = Cardinality(app) /\ f = Cardinality(fields) /\ x = Cardinality(syntax)
    BY <2>2
  <2>10. Cardinality(both) = a + f
    BY <2>3, <2>4, <2>9
  <2> QED  BY <2>5, <2>7, <2>8, <2>9, <2>10
<1>17. n < Limit => Len(release) = n + Cardinality(fields) + Cardinality(syntax)
  BY <1>4, <1>5, <1>16
<1> QED  BY <1>7, <1>10, <1>11, <1>12, <1>15, <1>17

\* A sync writes the rules it kept one after the other, into an emptied directory: n so far.
Written(kept, n, phase, left, files, summary) ==
  /\ n \in 0..Len(kept) /\ Len(left) = Len(kept) - n /\ \A i \in 1..Len(left) : left[i] = kept[n + i]
  /\ phase = "unlink" => n = 0
  /\ phase = "truncate" => DOMAIN files = {kept[k].id : k \in 1..n}
  /\ phase = "write" => n < Len(kept) /\ DOMAIN files = {kept[k].id : k \in 1..(n + 1)}
  /\ phase # "unlink" => summary = <<>> /\ \A k \in 1..n : files[kept[k].id] = "whole"

Writing(q, files, summary) ==
  \E release \in Releases : \E left \in Seq({release[i] : i \in DOMAIN release}) :
    \E phase \in {"unlink", "truncate", "write"}, n \in Nat :
      /\ q = [pc |-> phase, of |-> release, left |-> left]
      /\ Written(Content!Kept(release), n, phase, left, files, summary)

SyncInv ==
  /\ DOMAIN synced \subseteq Applicable /\ \A id \in DOMAIN synced : synced[id] \in {"whole", "torn"}
  /\ sync = Content!Off \/ Writing(sync, synced, manifest)
  /\ Content!SyncAuditable

LEMMA SyncBegins ==
  ASSUME Content!Init
  PROVE  SyncInv
<1>1. synced = <<>> /\ sync = Content!Off /\ manifest = <<>>
  BY DEF Content!Init
<1>2. DOMAIN synced = {}
  BY <1>1
<1> QED  BY <1>1, <1>2 DEF SyncInv, Content!SyncAuditable

LEMMA SyncAside ==
  ASSUME SyncInv, UNCHANGED <<synced, manifest, sync, cut>>
  PROVE  SyncInv'
<1>1. Writing(sync, synced, manifest)' = Writing(sync, synced, manifest)
  OBVIOUS
<1> QED  BY <1>1 DEF SyncInv, Content!SyncAuditable, Content!Off

\* A step that leaves the sync running, with n rules written.
LEMMA SyncGoesOn ==
  ASSUME NEW release \in Releases, NEW kept, kept = Content!Kept(release),
         NEW phase \in {"unlink", "truncate", "write"},
         NEW left \in Seq({release[i] : i \in DOMAIN release}),
         sync' = [pc |-> phase, of |-> release, left |-> left],
         NEW n, Written(kept, n, phase, left, synced', manifest'),
         DOMAIN synced' \subseteq Applicable, \A id \in DOMAIN synced' : synced'[id] \in {"whole", "torn"}
  PROVE  SyncInv'
<1>1. sync'.pc = phase /\ n \in Nat
  BY KeptIs DEF Written
<1>2. Writing(sync', synced', manifest')
  BY <1>1 DEF Writing
<1>3. sync' # Content!Off
  BY <1>1 DEF Content!Off
<1> QED  BY <1>2, <1>3 DEF SyncInv, Content!SyncAuditable, Content!Off

LEMMA SyncIs ==
  ASSUME SyncInv, NEW phase, phase = sync.pc, phase # "off"
  PROVE  /\ sync # Content!Off /\ phase \in {"unlink", "truncate", "write"}
         /\ \E release \in Releases : \E left \in Seq({release[i] : i \in DOMAIN release}), n \in Nat :
              /\ sync = [pc |-> phase, of |-> release, left |-> left]
              /\ Written(Content!Kept(release), n, phase, left, synced, manifest)
         /\ DOMAIN synced \subseteq Applicable /\ \A id \in DOMAIN synced : synced[id] \in {"whole", "torn"}
<1>1. sync # Content!Off
  BY DEF Content!Off
<1>2. PICK release \in Releases : \E left \in Seq({release[i] : i \in DOMAIN release}) :
        \E p \in {"unlink", "truncate", "write"}, n \in Nat :
          /\ sync = [pc |-> p, of |-> release, left |-> left]
          /\ Written(Content!Kept(release), n, p, left, synced, manifest)
  BY <1>1 DEF SyncInv, Writing
<1>3. PICK left \in Seq({release[i] : i \in DOMAIN release}), p \in {"unlink", "truncate", "write"}, n \in Nat :
        /\ sync = [pc |-> p, of |-> release, left |-> left]
        /\ Written(Content!Kept(release), n, p, left, synced, manifest)
  BY <1>2
<1>4. p = phase
  BY <1>3
<1> QED  BY <1>1, <1>3, <1>4 DEF SyncInv

LEMMA StartKeepsSync ==
  ASSUME SyncInv, NEW release \in Releases, Content!StartSync(release)
  PROVE  SyncInv'
<1>1. PICK kept : kept = Content!Kept(release)
  OBVIOUS
<1>2. sync' = [pc |-> "unlink", of |-> release, left |-> kept] /\ UNCHANGED <<synced, manifest>>
  BY <1>1 DEF Content!StartSync, Content!files
<1>3. kept \in Seq({release[i] : i \in DOMAIN release}) /\ Len(kept) \in Nat
  BY <1>1, KeptIs
<1>4. Written(kept, 0, "unlink", kept, synced', manifest')
  BY <1>3 DEF Written
<1>5. DOMAIN synced' \subseteq Applicable /\ \A id \in DOMAIN synced' : synced'[id] \in {"whole", "torn"}
  BY <1>2 DEF SyncInv
<1> QED  BY <1>1, <1>2, <1>3, <1>4, <1>5, SyncGoesOn

LEMMA UnlinkKeepsSync ==
  ASSUME SyncInv, Content!Unlink
  PROVE  SyncInv'
<1>1. sync.pc = "unlink"
  BY DEF Content!Unlink
<1>2. /\ DOMAIN synced \subseteq Applicable /\ \A id \in DOMAIN synced : synced[id] \in {"whole", "torn"}
  BY DEF SyncInv
<1>3. PICK release \in Releases : \E left \in Seq({release[i] : i \in DOMAIN release}), n \in Nat :
        /\ sync = [pc |-> "unlink", of |-> release, left |-> left]
        /\ Written(Content!Kept(release), n, "unlink", left, synced, manifest)
  BY <1>1, SyncIs
<1>4. PICK kept : kept = Content!Kept(release)
  OBVIOUS
<1>5. PICK left \in Seq({release[i] : i \in DOMAIN release}), n \in Nat :
        /\ sync = [pc |-> "unlink", of |-> release, left |-> left]
        /\ Written(kept, n, "unlink", left, synced, manifest)
  BY <1>3, <1>4
<1>6. Written(kept, 0, "unlink", left, synced', manifest')
  BY <1>5 DEF Written
<1>7. CASE sync' = sync /\ DOMAIN synced' \subseteq DOMAIN synced
           /\ \A id \in DOMAIN synced' : synced'[id] = synced[id]
  <2>1. DOMAIN synced' \subseteq Applicable /\ \A id \in DOMAIN synced' : synced'[id] \in {"whole", "torn"}
    BY <1>2, <1>7
  <2> QED  BY <1>4, <1>6, <1>7, <1>5, <2>1, SyncGoesOn
<1>8. CASE synced = <<>> /\ manifest = <<>> /\ sync' = [sync EXCEPT !.pc = "truncate"]
           /\ UNCHANGED <<synced, manifest>>
  <2>1. sync' = [pc |-> "truncate", of |-> release, left |-> left]
    BY <1>8, <1>5
  <2>2. DOMAIN synced' = {} /\ manifest' = <<>>
    BY <1>8
  <2>3. Written(kept, 0, "truncate", left, synced', manifest')
    BY <1>6, <2>2 DEF Written
  <2>4. DOMAIN synced' \subseteq Applicable /\ \A id \in DOMAIN synced' : synced'[id] \in {"whole", "torn"}
    BY <2>2
  <2> QED  BY <1>4, <2>1, <2>3, <2>4, SyncGoesOn
<1> QED  BY <1>7, <1>8 DEF Content!Unlink

LEMMA WriteKeepsSync ==
  ASSUME SyncInv, Content!WriteRule
  PROVE  SyncInv'
<1>1. sync.pc \in {"truncate", "write"} /\ sync.left # <<>> /\ manifest' = manifest
  BY DEF Content!WriteRule
<1>2. /\ DOMAIN synced \subseteq Applicable /\ \A id \in DOMAIN synced : synced[id] \in {"whole", "torn"}
  BY DEF SyncInv
<1>3. PICK phase \in {"truncate", "write"} : phase = sync.pc
  BY <1>1
<1>4. PICK release \in Releases : \E left \in Seq({release[i] : i \in DOMAIN release}), n \in Nat :
        /\ sync = [pc |-> phase, of |-> release, left |-> left]
        /\ Written(Content!Kept(release), n, phase, left, synced, manifest)
  BY <1>3, SyncIs
<1>5. PICK kept : kept = Content!Kept(release)
  OBVIOUS
<1>6. PICK left \in Seq({release[i] : i \in DOMAIN release}), n \in Nat :
        /\ sync = [pc |-> phase, of |-> release, left |-> left]
        /\ Written(kept, n, phase, left, synced, manifest)
  BY <1>4, <1>5
<1>7. sync.pc = phase /\ sync.left = left /\ Written(kept, n, phase, left, synced, manifest)
  BY <1>6
<1>8. /\ Len(kept) \in Nat /\ \A k \in 1..Len(kept) : kept[k].id \in Applicable
      /\ \A k, l \in 1..Len(kept) : kept[k].id = kept[l].id => k = l
  BY <1>5, KeptIs
<1>9. /\ Len(left) \in Nat /\ Len(left) > 0 /\ n + 1 \in 1..Len(kept) /\ left[1] = kept[n + 1]
  <2>1. Len(left) > 0 /\ Len(left) \in Nat
    BY <1>1, <1>7, EmptySeq, LenProperties
  <2> QED  BY <1>7, <1>8, <2>1 DEF Written
<1>10. PICK rest : rest = Tail(left)
  OBVIOUS
<1>11. /\ rest \in Seq({release[i] : i \in DOMAIN release}) /\ Len(rest) = Len(left) - 1
      /\ \A i \in 1..Len(rest) : rest[i] = left[i + 1]
  <2>1. left # <<>>
    BY <1>1, <1>7
  <2>2. PICK S : S = {release[i] : i \in DOMAIN release}
    OBVIOUS
  <2>3. left \in Seq(S)
    BY <2>2
  <2>4. /\ Tail(left) \in Seq(S) /\ Len(Tail(left)) = Len(left) - 1
        /\ \A i \in 1..Len(Tail(left)) : Tail(left)[i] = left[i + 1]
    BY <2>1, <2>3, HeadTailProperties
  <2> QED  BY <1>10, <2>2, <2>4
<1>12. PICK id : id = kept[n + 1].id
  OBVIOUS
<1>13. id \in Applicable /\ \A k \in 1..n : k \in 1..Len(kept) /\ kept[k].id # id
  BY <1>8, <1>9, <1>12
<1>14. {kept[k].id : k \in 1..(n + 1)} = {kept[k].id : k \in 1..n} \union {id}
  <2>1. 1..(n + 1) = 1..n \union {n + 1}
    OBVIOUS
  <2> QED  BY <1>12, <2>1
<1>15. CASE phase = "truncate"
  <2>1. synced' = [x \in DOMAIN synced \union {id} |-> IF x = id THEN "torn" ELSE synced[x]]
        /\ sync' = [sync EXCEPT !.pc = "write"]
    BY <1>7, <1>9, <1>12, <1>15 DEF Content!WriteRule, Content!Put
  <2>2. sync' = [pc |-> "write", of |-> release, left |-> left]
    BY <1>6, <2>1
  <2>3. DOMAIN synced = {kept[k].id : k \in 1..n} /\ manifest = <<>>
        /\ \A k \in 1..n : synced[kept[k].id] = "whole"
    BY <1>7, <1>15 DEF Written
  <2>4. DOMAIN synced' = {kept[k].id : k \in 1..(n + 1)}
    BY <1>14, <2>1, <2>3
  <2>5. \A k \in 1..n : synced'[kept[k].id] = "whole"
    BY <1>13, <2>1, <2>3
  <2>6. Written(kept, n, "write", left, synced', manifest')
    <3>1. n < Len(kept) /\ manifest' = <<>>
      BY <1>1, <1>8, <1>9, <2>3
    <3> QED  BY <1>7, <2>4, <2>5, <3>1 DEF Written
  <2>7. DOMAIN synced' \subseteq Applicable /\ \A x \in DOMAIN synced' : synced'[x] \in {"whole", "torn"}
    BY <1>2, <1>13, <2>1
  <2> QED  BY <1>5, <2>2, <2>6, <2>7, SyncGoesOn
<1>16. CASE phase = "write"
  <2>1. synced' = [x \in DOMAIN synced \union {id} |-> IF x = id THEN "whole" ELSE synced[x]]
        /\ sync' = [sync EXCEPT !.pc = "truncate", !.left = Tail(sync.left)]
    BY <1>7, <1>9, <1>12, <1>16 DEF Content!WriteRule, Content!Put
  <2>2. sync' = [pc |-> "truncate", of |-> release, left |-> rest]
    BY <1>6, <1>10, <2>1
  <2>3. DOMAIN synced = {kept[k].id : k \in 1..(n + 1)} /\ manifest = <<>>
        /\ \A k \in 1..n : synced[kept[k].id] = "whole"
    BY <1>7, <1>16 DEF Written
  <2>4. DOMAIN synced' = {kept[k].id : k \in 1..(n + 1)}
    BY <1>14, <2>1, <2>3
  <2>5. ASSUME NEW k \in 1..(n + 1)  PROVE synced'[kept[k].id] = "whole"
    <3>1. k = n + 1 \/ k \in 1..n
      OBVIOUS
    <3>2. kept[k].id \in DOMAIN synced
      BY <2>3
    <3> QED  BY <1>12, <2>1, <2>3, <3>1, <3>2
  <2>6. Written(kept, n + 1, "truncate", rest, synced', manifest')
    <3>1. Len(rest) = Len(kept) - (n + 1) /\ n + 1 \in 0..Len(kept) /\ manifest' = <<>>
      BY <1>1, <1>7, <1>8, <1>9, <1>11, <2>3 DEF Written
    <3>2. ASSUME NEW i \in 1..Len(rest)  PROVE rest[i] = kept[(n + 1) + i]
      <4>2. Len(rest) = Len(left) - 1 /\ Len(left) \in Nat
        BY <1>9, <1>11
      <4>1. i + 1 \in 1..Len(left) /\ n + (i + 1) = (n + 1) + i
        BY <4>2
      <4> QED  BY <1>7, <1>11, <4>1 DEF Written
    <3> QED  BY <2>4, <2>5, <3>1, <3>2 DEF Written
  <2>7. DOMAIN synced' \subseteq Applicable /\ \A x \in DOMAIN synced' : synced'[x] \in {"whole", "torn"}
    BY <1>2, <1>13, <2>1
  <2>8. PICK m : m = n + 1
    OBVIOUS
  <2>9. Written(kept, m, "truncate", rest, synced', manifest')
    BY <2>6, <2>8
  <2>10. rest \in Seq({release[i] : i \in DOMAIN release})
    BY <1>11
  <2> QED  BY <1>5, <2>2, <2>7, <2>9, <2>10, SyncGoesOn
<1> QED  BY <1>15, <1>16

\* A sync counts its files: as many as rules, since no two have one id.
LEMMA FilesCounted ==
  ASSUME NEW kept, Len(kept) \in Nat, NEW ids, ids = {kept[k].id : k \in 1..Len(kept)},
         \A k, l \in 1..Len(kept) : kept[k].id = kept[l].id => k = l
  PROVE  Cardinality(ids) = Len(kept)
<1>1. PICK n \in Nat : n = Len(kept)
  OBVIOUS
<1>2. PICK named : named = [k \in 1..n |-> kept[k].id]
  OBVIOUS
<1>3. named \in [1..n -> ids]
  BY <1>1, <1>2
<1>4. IsInjective(named)
  BY <1>1, <1>2 DEF IsInjective
<1>5. \A id \in ids : \E k \in 1..n : named[k] = id
  BY <1>1, <1>2
<1>6. named \in Bijection(1..n, ids)
  BY <1>3, <1>4, <1>5 DEF Bijection, Injection, Surjection
<1>7. ExistsBijection(1..n, ids)
  BY <1>6 DEF ExistsBijection
<1>8. IsFiniteSet(1..n) /\ Cardinality(1..n) = n
  <2>1. \A m \in Nat : Cardinality(1..m) = m
    BY FS_Interval
  <2>2. \A m \in Nat : IsFiniteSet(1..m)
    BY FS_Interval
  <2> QED  BY <2>1, <2>2
<1> QED  BY <1>1, <1>7, <1>8, FS_Bijection

LEMMA ManifestKeepsSync ==
  ASSUME SyncInv, Content!WriteManifest
  PROVE  SyncInv'
<1>1. /\ sync.pc = "truncate" /\ sync.left = <<>> /\ manifest' = <<Content!Manifest(sync.of)>>
      /\ sync' = Content!Off /\ synced' = synced
  BY DEF Content!WriteManifest
<1>2. /\ DOMAIN synced \subseteq Applicable /\ \A id \in DOMAIN synced : synced[id] \in {"whole", "torn"}
  BY DEF SyncInv
<1>3. PICK release \in Releases : \E left \in Seq({release[i] : i \in DOMAIN release}), n \in Nat :
        /\ sync = [pc |-> "truncate", of |-> release, left |-> left]
        /\ Written(Content!Kept(release), n, "truncate", left, synced, manifest)
  BY <1>1, SyncIs
<1>4. PICK kept : kept = Content!Kept(release)
  OBVIOUS
<1>5. PICK left \in Seq({release[i] : i \in DOMAIN release}), n \in Nat :
        /\ sync = [pc |-> "truncate", of |-> release, left |-> left]
        /\ Written(kept, n, "truncate", left, synced, manifest)
  BY <1>3, <1>4
<1>6. PICK m : m = Content!Manifest(release)
  OBVIOUS
<1>7. /\ Len(kept) \in Nat /\ \A k, l \in 1..Len(kept) : kept[k].id = kept[l].id => k = l
      /\ m.imported = Len(kept)
      /\ Len(kept) < Limit => m.candidates = Len(kept) + m.na + m.unsupported
  BY <1>4, <1>6, KeptIs
<1>8. n = Len(kept)
  <2>1. Len(left) = 0
    BY <1>1, <1>5
  <2> QED  BY <1>5, <1>7, <2>1 DEF Written
<1>9. DOMAIN synced = {kept[k].id : k \in 1..Len(kept)}
      /\ \A k \in 1..Len(kept) : synced[kept[k].id] = "whole"
  BY <1>5, <1>8 DEF Written
<1>10. Cardinality(DOMAIN synced) = Len(kept)
  <2>1. PICK ids : ids = {kept[k].id : k \in 1..Len(kept)}
    OBVIOUS
  <2> QED  BY <1>7, <1>9, <2>1, FilesCounted
<1>11. Content!Cardinality(DOMAIN synced') = Len(kept)
  BY <1>1, <1>10, SameSizes
<1>12. manifest'[1] = m
  BY <1>1, <1>5, <1>6
<1>13. \A id \in DOMAIN synced' : synced'[id] = "whole"
  BY <1>1, <1>9
<1>14. Content!SyncAuditable'
  BY <1>7, <1>11, <1>12, <1>13 DEF Content!SyncAuditable
<1> QED  BY <1>1, <1>2, <1>14 DEF SyncInv

LEMMA SyncKept ==
  ASSUME SyncInv, Content!Next
  PROVE  SyncInv'
<1>1. CASE \/ Content!StartUpdate \/ Content!TruncateCache \/ Content!WriteCache \/ Content!WriteFails
           \/ Content!LoadMatrix \/ Content!StartLoad \/ Content!SaveIntel \/ Content!StartPipeline \/ Content!EditRules
           \/ \E ok \in BOOLEAN : Content!FetchFeed(ok)
           \/ \E got \in {<<>>, <<{}>>, <<Published>>} : Content!FetchIntel(got)
           \/ \E feed \in Content!Feed : Content!Publish(feed)
  <2>1. UNCHANGED <<synced, manifest, sync, cut>>
    BY <1>1 DEF Content!StartUpdate, Content!TruncateCache, Content!WriteCache, Content!WriteFails,
                Content!LoadMatrix, Content!StartLoad, Content!SaveIntel, Content!StartPipeline, Content!EditRules,
                Content!FetchFeed, Content!FetchIntel, Content!Publish, Content!files
  <2> QED  BY <2>1, SyncAside
<1>2. CASE Content!Kill
  <2>1. CASE UNCHANGED <<sync, cut>>
    <3>1. UNCHANGED <<synced, manifest, sync, cut>>
      BY <1>2, <2>1 DEF Content!Kill, Content!files
    <3> QED  BY <3>1, SyncAside
  <2>2. CASE sync' = Content!Off /\ cut' = TRUE
    <3>1. UNCHANGED <<synced, manifest>>
      BY <1>2 DEF Content!Kill, Content!files
    <3> QED  BY <2>2, <3>1 DEF SyncInv, Content!SyncAuditable
  <2> QED  BY <1>2, <2>1, <2>2 DEF Content!Kill
<1> QED  BY <1>1, <1>2, StartKeepsSync, UnlinkKeepsSync, WriteKeepsSync, ManifestKeepsSync DEF Content!Next

FeedInv == UpdateInv /\ SyncInv /\ Content!PipelineReadsWhole

LEMMA FeedBegins ==
  ASSUME Content!Init
  PROVE  FeedInv
<1>1. Content!PipelineReadsWhole
  BY DEF Content!Init, Content!PipelineReadsWhole
<1> QED  BY <1>1, UpdateBegins, SyncBegins DEF FeedInv

LEMMA PipelineReads ==
  ASSUME FeedInv, Content!StartPipeline
  PROVE  Content!PipelineReadsWhole'
<1>1. PICK l : l = [rules |-> Content!MergeRules,
                    warned |-> {id \in DOMAIN synced : synced[id] = "torn"},
                    kev |-> Content!Held("kev"), intel |-> intel, known |-> DOMAIN synced]
  OBVIOUS
<1>2. loaded'[1] = l
  BY <1>1 DEF Content!StartPipeline
<1>3. l.kev \in 0..MaxVersion
  <2>1. cache["kev"] \in 0..(MaxVersion + 1)
    BY FeedBounds DEF FeedInv, UpdateInv, UpdateTypes
  <2> QED  BY <1>1, <2>1, FeedBounds DEF Content!Held
<1>4. \A id \in Curated : l.rules[id] = "curated"
  BY <1>1 DEF Content!MergeRules
<1>5. DOMAIN l.rules = Curated \union {id \in DOMAIN synced : synced[id] = "whole"}
  BY <1>1 DEF Content!MergeRules, Content!LoadSyncedRules
<1>6. DOMAIN l.rules \ Curated \subseteq Applicable
  BY <1>5 DEF FeedInv, SyncInv
<1>7. l.known = {id \in DOMAIN l.rules : id \in l.known} \union l.warned
  <2>1. l.known = DOMAIN synced /\ l.warned = {id \in DOMAIN synced : synced[id] = "torn"}
    BY <1>1
  <2>2. \A id \in DOMAIN synced : synced[id] = "whole" \/ synced[id] = "torn"
    BY DEF FeedInv, SyncInv
  <2> QED  BY <1>5, <2>1, <2>2
<1> QED  BY <1>2, <1>3, <1>4, <1>6, <1>7 DEF Content!PipelineReadsWhole, Applicable

LEMMA PipelineKeeps ==
  ASSUME Content!PipelineReadsWhole, loaded' = loaded
  PROVE  Content!PipelineReadsWhole'
  BY DEF Content!PipelineReadsWhole

LEMMA FeedKept ==
  ASSUME FeedInv, Content!Next
  PROVE  FeedInv'
<1>1. UpdateInv' /\ SyncInv'
  BY UpdateKept, SyncKept DEF FeedInv
<1>2. Content!StartPipeline \/ loaded' = loaded
  BY DEF Content!Next, Content!StartUpdate, Content!TruncateCache, Content!WriteCache, Content!WriteFails,
         Content!LoadMatrix, Content!StartLoad, Content!SaveIntel, Content!FetchFeed,
         Content!FetchIntel, Content!StartSync, Content!Unlink, Content!WriteRule,
         Content!WriteManifest, Content!EditRules, Content!Kill, Content!Publish
<1>3. Content!PipelineReadsWhole'
  BY <1>2, PipelineReads, PipelineKeeps DEF FeedInv
<1> QED  BY <1>1, <1>3 DEF FeedInv

LEMMA FeedUnchanged ==
  ASSUME FeedInv, UNCHANGED feedVars
  PROVE  FeedInv'
<1>1. UNCHANGED <<cache, update, report, version>> /\ UNCHANGED <<synced, manifest, sync, cut>>
      /\ loaded' = loaded
  BY DEF feedVars
<1>2. \A f \in Content!Feed : version[f] <= version'[f]
  BY <1>1, FeedBounds DEF FeedInv, UpdateInv, UpdateTypes
<1>3. UpdateInv'
  BY <1>1, <1>2, UpdateAside DEF FeedInv, UpdateInv, UpdateTypes
<1> QED  BY <1>1, <1>3, SyncAside, PipelineKeeps DEF FeedInv

LEMMA FeedSafe ==
  ASSUME FeedInv
  PROVE  FeedsHonest
  BY DEF FeedInv, UpdateInv, SyncInv, FeedsHonest
-------------------------------------------------------------------------------
(* The sources side by side.                                               *)

SourcesInv == TailInv /\ ObjectInv /\ PollInv /\ FeedInv

LEMMA SourcesBegin ==
  ASSUME Init
  PROVE  SourcesInv
  BY TailBegins, ObjectBegins, PollBegins, FeedBegins DEF Init, PollInit, SourcesInv

LEMMA SourcesKept ==
  ASSUME SourcesInv, [Next]_vars
  PROVE  SourcesInv'
<1> USE DEF SourcesInv
<1>1. CASE PollStep
  BY <1>1, PollKept, ObjectUnchanged, TailUnchanged, FeedUnchanged DEF PollStep
<1>2. CASE BucketStep
  BY <1>2, ObjectKept, PollUnchanged, TailUnchanged, FeedUnchanged DEF BucketStep
<1>3. CASE TailStep
  BY <1>3, TailKept, PollUnchanged, ObjectUnchanged, FeedUnchanged DEF TailStep
<1>4. CASE QueueStep
  BY <1>4, TailUnchanged, PollUnchanged, ObjectUnchanged, FeedUnchanged DEF QueueStep
<1>5. CASE JournalStep
  BY <1>5, TailUnchanged, PollUnchanged, ObjectUnchanged, FeedUnchanged DEF JournalStep
<1>6. CASE FeedStep
  BY <1>6, FeedKept, TailUnchanged, PollUnchanged, ObjectUnchanged DEF FeedStep
<1>7. CASE UNCHANGED vars
  BY <1>7, TailUnchanged, PollUnchanged, ObjectUnchanged, FeedUnchanged DEF vars
<1> QED  BY <1>1, <1>2, <1>3, <1>4, <1>5, <1>6, <1>7 DEF Next

LEMMA SourcesHold == Spec => []SourcesInv
<1>1. Init => SourcesInv
  BY SourcesBegin
<1>2. SourcesInv /\ [Next]_vars => SourcesInv'
  BY SourcesKept
<1> QED  BY <1>1, <1>2, PTL DEF Spec

\* However records come late, pages run out, requests fail, files rotate and
\* processes die, a resume point (the state file of an API connector or a bucket,
\* the offset of a tailed file: each poll() of connectors.py) only passes what was
\* fetched, or what the allowances of NothingSkipped name.
THEOREM SourcesSkipNothing == Spec => []NothingSkipped
<1>1. SourcesInv => NothingSkipped
  BY TailSafe, ObjectSafe, PollSafe DEF SourcesInv, NothingSkipped
<1> QED  BY <1>1, SourcesHold, PTL

\* While state files are written and no process dies, no event is processed
\* twice, though every resume point overlaps what was read: the ids and keys a
\* state file remembers (_filter_seen) reach back far enough.
THEOREM SourcesReplayNothing == Spec => []NothingReplayed
<1>1. SourcesInv => NothingReplayed
  BY TailSafe, ObjectSafe, PollSafe DEF SourcesInv, NothingReplayed
<1> QED  BY <1>1, SourcesHold, PTL

\* However often an update, a load or a sync is started and killed, the report
\* of an update, what a pipeline loads and the manifest of a sync say what is
\* so (update_job.py run_once, sigma_sync.py sync_rules, pipeline.py).
THEOREM FeedsSaySo == Spec => []FeedsHonest
<1>1. SourcesInv => FeedsHonest
  BY FeedSafe DEF SourcesInv
<1> QED  BY <1>1, SourcesHold, PTL
===============================================================================
