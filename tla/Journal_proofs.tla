----------------------------- MODULE Journal_proofs -----------------------------
(***************************************************************************)
(* The event journal, for any number of writers, bursts, torn writes and    *)
(* truncations: its sequence numbers count the records a reader finds, but  *)
(* for those of which a tear spared all but the newline, and a record whose *)
(* append returned is found. And, with it, the types of all sources, those  *)
(* shown in the modules extended here and the journal's.                    *)
(***************************************************************************)
EXTENDS Sources_proofs, DurableQueue_proofs, FiniteSetTheorems, SequenceTheorems, TLAPS
-------------------------------------------------------------------------------
(* The file: texts at odd positions, newlines at even ones; only the last  *)
(* piece of a torn file is not followed by a newline.                      *)

Piece == {Archive!Newline, Archive!Fragment} \union [text : {"record"}, id : Nat, seq : Int]

Lines(f) ==
  /\ f \in Seq(Piece)
  /\ \A i \in 1..Len(f) : f[i] = Archive!Newline <=> i % 2 = 0

\* The records among the first n pieces.
UpTo(f, n) == {i \in 1..n : f[i].text = "record"}
Between(f, a, b) == {i \in (a + 1)..b : f[i].text = "record"}

\* Those among them of which a tear took the newline, and how near a number is to
\* the count of all: short by no more than those.
ShortIn(f, S, n) == {i \in UpTo(f, n) : f[i].id \in S}
Near(x, f, S, n) ==
  /\ x \in Int /\ x <= Cardinality(UpTo(f, n))
  /\ Cardinality(UpTo(f, n)) <= x + Cardinality(ShortIn(f, S, n))

\* A record whose newline is missing was spared by a tear.
EndsSpared(f, S) == Len(f) % 2 = 1 /\ f[Len(f)].text = "record" => f[Len(f)].id \in S

JournalWriters ==
  \A w \in Writers :
    /\ scanned[w] \in Nat /\ count[w] \in Nat /\ scanned[w] % 2 = 0
    /\ w \notin unaware => scanned[w] <= Len(journalFile)

\* Only who had counted something can fail to notice an emptied file.
JournalUnaware == \A w \in unaware : scanned[w] > 0

\* Who holds the lock has caught up, and has ended a torn line.
JournalHeld ==
  journalLock # None =>
    journalLock \in Writers /\ journalLock \notin unaware /\ scanned[journalLock] = Len(journalFile)

JournalCounts ==
  ~lookedLate => \A w \in Writers \ unaware : Near(count[w], journalFile, spared, scanned[w])

JournalNumbers ==
  ~lookedLate =>
    \A i \in UpTo(journalFile, Len(journalFile)) :
      Near(journalFile[i].seq, journalFile, spared, i - 1)

JournalKept ==
  appended \subseteq {journalFile[i].id : i \in UpTo(journalFile, Len(journalFile))}

JournalInv ==
  /\ Lines(journalFile) /\ EndsSpared(journalFile, spared)
  /\ JournalWriters /\ JournalUnaware /\ JournalHeld
  /\ attempted \in Nat /\ lookedLate \in BOOLEAN /\ unaware \subseteq Writers
  /\ DOMAIN scanned = Writers /\ DOMAIN count = Writers
  /\ JournalCounts /\ JournalNumbers /\ JournalKept
-------------------------------------------------------------------------------
LEMMA SameArchiveCardinality == \A S : Archive!Cardinality(S) = Cardinality(S)
  BY DEF Archive!Cardinality, Cardinality

LEMMA JournalBounds ==
  None \notin Writers /\ MaxBurst \in Nat \ {0}
  BY IntakeAssumption DEF Archive!JournalAssumption

LEMMA Parity ==
  /\ \A i \in Nat : i % 2 = 0 \/ i % 2 = 1
  /\ \A i \in Int : i % 2 = 0 => (i + 1) % 2 = 1 /\ (i - 1) % 2 = 1
  /\ \A i \in Int : i % 2 = 1 => (i + 1) % 2 = 0 /\ (i - 1) % 2 = 0
  /\ \A i, j \in Nat : i % 2 = 0 => (i + j) % 2 = j % 2
  OBVIOUS

\* A record is at an odd position.
LEMMA RecordsOdd ==
  ASSUME NEW f, Lines(f), NEW i \in 1..Len(f), f[i].text = "record"
  PROVE  i % 2 = 1
<1>1. f[i] # Archive!Newline
  BY DEF Archive!Newline
<1> QED  BY <1>1, Parity DEF Lines

LEMMA UpToFinite ==
  ASSUME NEW f, NEW n \in Nat
  PROVE  IsFiniteSet(UpTo(f, n)) /\ Cardinality(UpTo(f, n)) \in Nat
<1>1. IsFiniteSet(1..n) /\ UpTo(f, n) \subseteq 1..n
  BY FS_Interval DEF UpTo
<1> QED  BY <1>1, FS_Subset, FS_CardinalityType

\* What a scan from a line's end finds.
LEMMA ScanFinds ==
  ASSUME Lines(journalFile), NEW a \in Nat, a % 2 = 0, NEW b \in Nat, b <= Len(journalFile)
  PROVE  Archive!RecordsIn(a, b) = Between(journalFile, a, b)
<1> SUFFICES ASSUME NEW i \in (a + 1)..b, journalFile[i].text = "record"
             PROVE  /\ i = a + 1 \/ journalFile[i - 1] = Archive!Newline
                    /\ i = b \/ journalFile[i + 1] = Archive!Newline
  BY DEF Archive!RecordsIn, Between
<1>1. Len(journalFile) \in Nat /\ i \in 1..Len(journalFile)
  BY LenProperties DEF Lines
<1>2. i % 2 = 1
  BY <1>1, RecordsOdd
<1>3. (i - 1) % 2 = 0 /\ (i + 1) % 2 = 0
  BY <1>1, <1>2, Parity
<1>4. i # a + 1 => i - 1 \in 1..Len(journalFile)
  BY <1>1
<1>5. i # b => i + 1 \in 1..Len(journalFile)
  BY <1>1
<1> QED  BY <1>3, <1>4, <1>5 DEF Lines

LEMMA ReaderFinds ==
  ASSUME Lines(journalFile)
  PROVE  Archive!Readable = UpTo(journalFile, Len(journalFile))
<1>1. Len(journalFile) \in Nat
  BY LenProperties DEF Lines
<1> QED  BY <1>1, ScanFinds DEF Archive!Readable, UpTo, Between

\* Counting goes on where it stopped.
LEMMA CountOn ==
  ASSUME NEW f, NEW a \in Nat, NEW b \in Nat, a <= b
  PROVE  /\ IsFiniteSet(Between(f, a, b))
         /\ Cardinality(UpTo(f, b)) = Cardinality(UpTo(f, a)) + Cardinality(Between(f, a, b))
<1> DEFINE more == Between(f, a, b)
<1>1. UpTo(f, b) = UpTo(f, a) \union more /\ UpTo(f, a) \intersect more = {}
      /\ more \subseteq UpTo(f, b)
  BY DEF UpTo, Between
<1>2. IsFiniteSet(UpTo(f, a)) /\ Cardinality(UpTo(f, a)) \in Nat
  BY UpToFinite
<1>3. IsFiniteSet(more)
  BY <1>1, UpToFinite, FS_Subset
<1> HIDE DEF more
<1>4. Cardinality(UpTo(f, a) \union more)
        = Cardinality(UpTo(f, a)) + Cardinality(more) - Cardinality(UpTo(f, a) \intersect more)
  BY <1>2, <1>3, FS_Union
<1>5. Cardinality(UpTo(f, a) \intersect more) = 0 /\ Cardinality(more) \in Nat
  BY <1>1, <1>3, FS_EmptySet, FS_CardinalityType
<1>6. Cardinality(UpTo(f, b)) = Cardinality(UpTo(f, a)) + Cardinality(more)
  BY <1>1, <1>2, <1>4, <1>5
<1> QED  BY <1>3, <1>6 DEF more

LEMMA ShortFinite ==
  ASSUME NEW f, NEW S, NEW n \in Nat
  PROVE  IsFiniteSet(ShortIn(f, S, n)) /\ Cardinality(ShortIn(f, S, n)) \in Nat
<1>1. ShortIn(f, S, n) \subseteq UpTo(f, n)
  BY DEF ShortIn
<1> QED  BY <1>1, UpToFinite, FS_Subset, FS_CardinalityType

\* What was near stays near: in a file that begins the same, with more spared.
LEMMA NearKeeps ==
  ASSUME NEW f, NEW g, NEW S, NEW T, S \subseteq T, NEW n \in Nat,
         \A i \in 1..n : g[i] = f[i], NEW x, Near(x, f, S, n)
  PROVE  Near(x, g, T, n)
<1>1. UpTo(g, n) = UpTo(f, n) /\ ShortIn(f, S, n) \subseteq ShortIn(g, T, n)
  BY DEF UpTo, ShortIn
<1>2. Cardinality(ShortIn(f, S, n)) <= Cardinality(ShortIn(g, T, n))
  BY <1>1, ShortFinite, FS_Subset
<1>3. /\ Cardinality(ShortIn(f, S, n)) \in Nat /\ Cardinality(ShortIn(g, T, n)) \in Nat
      /\ Cardinality(UpTo(f, n)) \in Nat
  BY ShortFinite, UpToFinite
<1> QED  BY <1>1, <1>2, <1>3 DEF Near

\* And further on, with as many more counted as there are.
LEMMA NearMore ==
  ASSUME NEW f, NEW S, NEW a \in Nat, NEW b \in Nat, a <= b, NEW d \in Nat,
         Cardinality(UpTo(f, b)) = Cardinality(UpTo(f, a)) + d, NEW x, Near(x, f, S, a)
  PROVE  Near(x + d, f, S, b)
<1>1. ShortIn(f, S, a) \subseteq ShortIn(f, S, b)
  BY DEF UpTo, ShortIn
<1>2. Cardinality(ShortIn(f, S, a)) <= Cardinality(ShortIn(f, S, b))
  BY <1>1, ShortFinite, FS_Subset
<1>3. /\ Cardinality(ShortIn(f, S, a)) \in Nat /\ Cardinality(ShortIn(f, S, b)) \in Nat
      /\ Cardinality(UpTo(f, a)) \in Nat
  BY ShortFinite, UpToFinite
<1> QED  BY <1>2, <1>3 DEF Near

\* Nothing is nearer than the empty count at the start.
LEMMA NearStart ==
  ASSUME NEW f, NEW S
  PROVE  Near(0, f, S, 0)
<1>1. UpTo(f, 0) = {} /\ ShortIn(f, S, 0) = {}
  BY DEF UpTo, ShortIn
<1> QED  BY <1>1, FS_EmptySet DEF Near
-------------------------------------------------------------------------------
(* Looking at the file.                                                    *)

LEMMA GreatestIs ==
  ASSUME NEW S \in SUBSET Int, NEW m \in S, \A x \in S : x <= m
  PROVE  Archive!Max(S) = m
<1>1. \A y \in S : m >= y
  OBVIOUS
<1>2. Archive!Max(S) \in S /\ \A y \in S : Archive!Max(S) >= y
  BY <1>1 DEF Archive!Max
<1>3. m \in Int /\ Archive!Max(S) \in Int /\ Archive!Max(S) <= m /\ Archive!Max(S) >= m
  BY <1>2
<1> HIDE DEF Archive!Max
<1> QED  BY <1>3

\* The scan ends after the last newline.
LastLine(f) == IF Len(f) % 2 = 0 THEN Len(f) ELSE Len(f) - 1

LEMMA ScanEnds ==
  ASSUME JournalInv, NEW w \in Writers
  PROVE  /\ Len(journalFile) \in Nat /\ LastLine(journalFile) \in Nat
         /\ LastLine(journalFile) % 2 = 0 /\ LastLine(journalFile) <= Len(journalFile)
         /\ Archive!ScanFrom(w) \in Nat /\ Archive!ScanFrom(w) % 2 = 0
         /\ Archive!ScanFrom(w) <= LastLine(journalFile)
         /\ Archive!ScanTo(w) = LastLine(journalFile)
<1> USE DEF JournalInv
<1>1. Len(journalFile) \in Nat
  BY LenProperties DEF Lines
<1>2. LastLine(journalFile) \in Nat /\ LastLine(journalFile) % 2 = 0
      /\ LastLine(journalFile) <= Len(journalFile)
      /\ Len(journalFile) <= LastLine(journalFile) + 1
  <2>1. CASE Len(journalFile) % 2 = 0
    BY <1>1, <2>1 DEF LastLine
  <2>2. CASE Len(journalFile) % 2 = 1
    <3>1. Len(journalFile) # 0 /\ (Len(journalFile) - 1) % 2 = 0
      BY <1>1, <2>2, Parity
    <3>2. LastLine(journalFile) = Len(journalFile) - 1
      BY <2>2 DEF LastLine
    <3> QED  BY <1>1, <3>1, <3>2
  <2> QED  BY <1>1, <2>1, <2>2, Parity
<1>3. Archive!ScanFrom(w) \in Nat /\ Archive!ScanFrom(w) % 2 = 0
      /\ Archive!ScanFrom(w) <= Len(journalFile)
  BY <1>1 DEF JournalWriters, Archive!ScanFrom
<1>4. Archive!ScanFrom(w) <= LastLine(journalFile)
  BY <1>1, <1>3, Parity DEF LastLine
<1> DEFINE ends == {Archive!ScanFrom(w)} \union
                   {i \in (Archive!ScanFrom(w) + 1)..Len(journalFile) : journalFile[i] = Archive!Newline}
<1>5. LastLine(journalFile) \in ends
  <2>1. CASE LastLine(journalFile) = Archive!ScanFrom(w)
    BY <2>1
  <2>2. CASE LastLine(journalFile) # Archive!ScanFrom(w)
    <3>1. LastLine(journalFile) \in (Archive!ScanFrom(w) + 1)..Len(journalFile)
      BY <1>1, <1>2, <1>3, <1>4, <2>2
    <3>2. LastLine(journalFile) \in 1..Len(journalFile)
      BY <1>1, <1>3, <3>1
    <3>3. journalFile[LastLine(journalFile)] = Archive!Newline
      BY <1>2, <3>2 DEF Lines
    <3> QED  BY <3>1, <3>3
  <2> QED  BY <2>1, <2>2
<1>6. ASSUME NEW x \in ends  PROVE x \in Int /\ x <= LastLine(journalFile)
  <2>1. CASE x = Archive!ScanFrom(w)
    BY <1>3, <1>4, <2>1
  <2>2. CASE x \in (Archive!ScanFrom(w) + 1)..Len(journalFile) /\ journalFile[x] = Archive!Newline
    <3>1. x \in 1..Len(journalFile)
      BY <1>1, <1>3, <2>2
    <3>2. x % 2 = 0
      BY <2>2, <3>1 DEF Lines
    <3> QED  BY <1>1, <3>1, <3>2, Parity DEF LastLine
  <2> QED  BY <2>1, <2>2
<1>7. Archive!ScanTo(w) = LastLine(journalFile)
  <2>1. Archive!Max(ends) = LastLine(journalFile)
    <3> HIDE DEF ends
    <3> QED  BY <1>5, <1>6, GreatestIs
  <2> QED  BY <2>1 DEF Archive!ScanTo
<1> QED  BY <1>1, <1>2, <1>3, <1>4, <1>7

\* A torn line holds a record only if a tear spared it.
LEMMA TornIsShort ==
  ASSUME JournalInv, NEW x, Near(x, journalFile, spared, LastLine(journalFile))
  PROVE  Near(x, journalFile, spared, Len(journalFile))
<1> USE DEF JournalInv
<1>1. PICK f, L, n : f = journalFile /\ L = Len(f) /\ n = LastLine(f)
  OBVIOUS
<1>2. L \in Nat /\ (L % 2 = 0 \/ L % 2 = 1)
  BY <1>1, LenProperties, Parity DEF Lines
<1>3. CASE L % 2 = 0
  BY <1>1, <1>3 DEF LastLine
<1>4. CASE L % 2 = 1
  <2>1. n = L - 1 /\ L \in Nat \ {0} /\ n \in Nat
    BY <1>1, <1>2, <1>4 DEF LastLine
  <2>2. CASE f[L].text # "record"
    <3>1. UpTo(f, L) = UpTo(f, n)
      BY <2>1, <2>2 DEF UpTo
    <3> QED  BY <1>1, <3>1 DEF Near, ShortIn
  <2>3. CASE f[L].text = "record"
    <3>1. /\ UpTo(f, L) = UpTo(f, n) \union {L} /\ L \notin UpTo(f, n)
          /\ ShortIn(f, spared, L) = ShortIn(f, spared, n) \union {L} /\ L \notin ShortIn(f, spared, n)
      <4>1. f[L].id \in spared
        BY <1>1, <1>4, <2>3 DEF EndsSpared
      <4> QED  BY <2>1, <2>3, <4>1 DEF UpTo, ShortIn
    <3>2. /\ Cardinality(UpTo(f, L)) = Cardinality(UpTo(f, n)) + 1
          /\ Cardinality(ShortIn(f, spared, L)) = Cardinality(ShortIn(f, spared, n)) + 1
      BY <2>1, <3>1, UpToFinite, ShortFinite, FS_AddElement
    <3>3. Cardinality(UpTo(f, n)) \in Nat /\ Cardinality(ShortIn(f, spared, n)) \in Nat
      BY <2>1, UpToFinite, ShortFinite
    <3> QED  BY <1>1, <3>2, <3>3 DEF Near
  <2> QED  BY <2>2, <2>3
<1> QED  BY <1>2, <1>3, <1>4

\* Unless it looks too late, a writer that looks has then counted every record.
LEMMA LookCounts ==
  ASSUME JournalInv, NEW w \in Writers, Archive!Look(w)
  PROVE  /\ Archive!Caught(w) \in Nat
         /\ lookedLate' \in BOOLEAN /\ (lookedLate => lookedLate')
         /\ ~lookedLate' => Near(Archive!Caught(w), journalFile, spared, Archive!ScanTo(w))
<1> USE DEF JournalInv
<1>1. /\ Len(journalFile) \in Nat
      /\ Archive!ScanFrom(w) \in Nat /\ Archive!ScanFrom(w) % 2 = 0
      /\ Archive!ScanTo(w) \in Nat /\ Archive!ScanTo(w) <= Len(journalFile)
      /\ Archive!ScanFrom(w) <= Archive!ScanTo(w)
  BY ScanEnds
<1> DEFINE found == Between(journalFile, Archive!ScanFrom(w), Archive!ScanTo(w))
<1>2. Archive!RecordsIn(Archive!ScanFrom(w), Archive!ScanTo(w)) = found
  BY <1>1, ScanFinds
<1>3. /\ IsFiniteSet(found)
      /\ Cardinality(UpTo(journalFile, Archive!ScanTo(w)))
           = Cardinality(UpTo(journalFile, Archive!ScanFrom(w))) + Cardinality(found)
  BY <1>1, CountOn
<1>4. Cardinality(found) \in Nat
  BY <1>3, FS_CardinalityType
<1>5. Archive!Caught(w) = Archive!CountedSoFar(w) + Cardinality(found)
  BY <1>2, SameArchiveCardinality DEF Archive!Caught
<1>6. Archive!CountedSoFar(w) \in Nat
  BY DEF Archive!CountedSoFar, JournalWriters
<1>7. ASSUME ~lookedLate'
      PROVE  Near(Archive!CountedSoFar(w), journalFile, spared, Archive!ScanFrom(w))
  <2>1. ~lookedLate /\ ~(w \in unaware /\ Len(journalFile) >= scanned[w])
    BY <1>7 DEF Archive!Look
  <2>2. CASE Len(journalFile) < scanned[w]
    BY <2>2, NearStart DEF Archive!CountedSoFar, Archive!ScanFrom
  <2>3. CASE ~(Len(journalFile) < scanned[w])
    <3>1. w \notin unaware
      BY <1>1, <2>1, <2>3 DEF JournalWriters
    <3> QED  BY <2>1, <2>3, <3>1 DEF Archive!CountedSoFar, Archive!ScanFrom, JournalCounts
  <2> QED  BY <2>2, <2>3
<1> HIDE DEF found
<1>8. lookedLate' \in BOOLEAN /\ (lookedLate => lookedLate')
  BY DEF Archive!Look
<1>9. ~lookedLate' => Near(Archive!CountedSoFar(w) + Cardinality(found), journalFile, spared,
                           Archive!ScanTo(w))
  BY <1>1, <1>3, <1>4, <1>7, NearMore
<1> QED  BY <1>4, <1>5, <1>6, <1>8, <1>9
-------------------------------------------------------------------------------
(* Growing the file.                                                       *)

\* Pieces are only added at the end: what was counted stays counted.
LEMMA Prefix ==
  ASSUME NEW S, NEW f, NEW s, f \in Seq(S), s \in Seq(S)
  PROVE  /\ f \o s \in Seq(S) /\ Len(f) \in Nat /\ Len(s) \in Nat
         /\ Len(f \o s) = Len(f) + Len(s)
         /\ \A i \in 1..Len(f) : (f \o s)[i] = f[i]
         /\ \A i \in 1..Len(s) : (f \o s)[Len(f) + i] = s[i]
<1>1. f \o s \in Seq(S) /\ Len(f) \in Nat /\ Len(s) \in Nat /\ Len(f \o s) = Len(f) + Len(s)
  BY ConcatProperties, LenProperties
<1> QED  BY <1>1, ConcatProperties

LEMMA UpToSame ==
  ASSUME NEW f, NEW g, NEW n \in Nat, \A i \in 1..n : g[i] = f[i]
  PROVE  \A m \in 0..n : UpTo(g, m) = UpTo(f, m)
  BY DEF UpTo

\* The texts of m entries, each followed by its newline, are m.
LEMMA OddsCounted ==
  \A a, m \in Nat : a % 2 = 0 => Cardinality({i \in (a + 1)..(a + 2 * m) : i % 2 = 1}) = m
<1> SUFFICES ASSUME NEW a \in Nat, NEW m \in Nat, a % 2 = 0
             PROVE  Cardinality({i \in (a + 1)..(a + 2 * m) : i % 2 = 1}) = m
  OBVIOUS
<1> DEFINE odds == {i \in (a + 1)..(a + 2 * m) : i % 2 = 1}
           nth == [k \in 1..m |-> a + 2 * k - 1]
<1>1. nth \in Bijection(1..m, odds)
  <2>1. \A k \in 1..m : a + 2 * k - 1 \in odds
    OBVIOUS
  <2>2. \A j, k \in 1..m : nth[j] = nth[k] => j = k
    OBVIOUS
  <2>3. ASSUME NEW i \in odds  PROVE \E k \in 1..m : nth[k] = i
    <3>1. PICK j \in Nat : i = a + j /\ j \in 1..(2 * m)
      OBVIOUS
    <3>2. j % 2 = 1
      BY <3>1, Parity
    <3>3. (j + 1) \div 2 \in 1..m /\ 2 * ((j + 1) \div 2) = j + 1
      BY <3>1, <3>2
    <3>4. nth[(j + 1) \div 2] = i
      BY <3>1, <3>3
    <3> QED  BY <3>3, <3>4
  <2>4. nth \in [1..m -> odds]
    BY <2>1
  <2> HIDE DEF odds, nth
  <2> QED  BY <2>2, <2>3, <2>4 DEF Bijection, Injection, Surjection, IsInjective
<1>2. IsFiniteSet(1..m) /\ Cardinality(1..m) = m
  BY FS_Interval
<1> HIDE DEF odds, nth
<1>3. ExistsBijection(1..m, odds)
  BY <1>1 DEF ExistsBijection
<1>4. Cardinality(odds) = m
  BY <1>2, <1>3, FS_Bijection
<1> QED  BY <1>4 DEF odds

\* What a write, whole or torn, adds: k records and perhaps part of another, or
\* all of it but the newline.
Adds(w, n, k, s) ==
  /\ s \in Seq(Piece) /\ Len(s) \in {2 * k, 2 * k + 1}
  /\ \A i \in 1..(2 * k) : s[i] = Archive!Entries(w, n)[i]
  /\ Len(s) = 2 * k + 1 =>
       \/ s[2 * k + 1] = Archive!Fragment
       \/ /\ s[2 * k + 1] = Archive!Record(attempted + k + 1, count[w] + k)
          /\ attempted + k + 1 \in spared'
  /\ journalFile' = journalFile \o s

LEMMA EntriesAre ==
  ASSUME NEW w, NEW n \in Nat
  PROVE  /\ \A i \in 1..(2 * n) : i % 2 = 0 => Archive!Entries(w, n)[i] = Archive!Newline
         /\ \A j \in 1..n : Archive!Entries(w, n)[2 * j - 1] = Archive!Record(attempted + j, count[w] + j - 1)
<1>1. \A i \in 1..(2 * n) : i % 2 = 0 => Archive!Entries(w, n)[i] = Archive!Newline
  BY DEF Archive!Entries
<1>2. ASSUME NEW j \in 1..n
      PROVE  Archive!Entries(w, n)[2 * j - 1] = Archive!Record(attempted + j, count[w] + j - 1)
  <2>1. PICK i \in 1..(2 * n) : i = 2 * j - 1
    OBVIOUS
  <2>2. i % 2 = 1 /\ (i + 1) \div 2 = j /\ i \div 2 = j - 1
    BY <2>1
  <2>3. Archive!Entries(w, n)[i] = Archive!Record(attempted + (i + 1) \div 2, count[w] + i \div 2)
    BY <2>2 DEF Archive!Entries
  <2> QED  BY <2>1, <2>2, <2>3
<1> QED  BY <1>1, <1>2

LEMMA Grows ==
  ASSUME JournalInv, NEW w \in Writers, journalLock = w,
         NEW n \in Nat, NEW k \in 0..n, NEW s, Adds(w, n, k, s)
  PROVE  /\ Lines(journalFile') /\ Len(journalFile) \in Nat
         /\ Len(journalFile') \in {Len(journalFile) + 2 * k, Len(journalFile) + 2 * k + 1}
         /\ \A m \in 0..Len(journalFile) : UpTo(journalFile', m) = UpTo(journalFile, m)
         /\ \A i \in 1..Len(journalFile) : journalFile'[i] = journalFile[i]
         /\ EndsSpared(journalFile', spared')
         /\ \A j \in 1..k : journalFile'[Len(journalFile) + 2 * j - 1] =
                              Archive!Record(attempted + j, count[w] + j - 1)
         /\ \A i \in UpTo(journalFile', Len(journalFile')) :
              \/ i <= Len(journalFile)
              \/ \E j \in 1..(k + 1) : /\ i = Len(journalFile) + 2 * j - 1
                                      /\ journalFile'[i] = Archive!Record(attempted + j, count[w] + j - 1)
         /\ \A m \in 0..k : Cardinality(UpTo(journalFile', Len(journalFile) + 2 * m)) =
                              Cardinality(UpTo(journalFile, Len(journalFile))) + m
<1> USE DEF JournalInv
<1>1. PICK L : L = Len(journalFile)
  OBVIOUS
<1>2. PICK f, g : f = journalFile /\ g = journalFile'
  OBVIOUS
<1>3. /\ f \in Seq(Piece) /\ g = f \o s /\ L = Len(f) /\ s \in Seq(Piece)
      /\ Len(s) \in {2 * k, 2 * k + 1}
  BY <1>1, <1>2 DEF Adds, Lines
<1>4. /\ g \in Seq(Piece) /\ L \in Nat /\ Len(g) = L + Len(s) /\ Len(g) \in {L + 2 * k, L + 2 * k + 1}
      /\ \A i \in 1..L : g[i] = f[i]
      /\ \A i \in 1..Len(s) : g[L + i] = s[i]
  <2>1. /\ f \o s \in Seq(Piece) /\ Len(f) \in Nat /\ Len(s) \in Nat
        /\ Len(f \o s) = Len(f) + Len(s)
        /\ \A i \in 1..Len(f) : (f \o s)[i] = f[i]
        /\ \A i \in 1..Len(s) : (f \o s)[Len(f) + i] = s[i]
    BY <1>3, Prefix
  <2>2. g \in Seq(Piece) /\ L \in Nat /\ Len(g) = L + Len(s)
    BY <1>3, <2>1
  <2>3. Len(g) \in {L + 2 * k, L + 2 * k + 1}
    <3>1. Len(s) = 2 * k \/ Len(s) = 2 * k + 1
      BY <1>3
    <3>2. 2 * k \in Nat
      OBVIOUS
    <3>3. CASE Len(s) = 2 * k
      BY <2>2, <3>2, <3>3
    <3>4. CASE Len(s) = 2 * k + 1
      BY <2>2, <3>2, <3>4
    <3> QED  BY <3>1, <3>3, <3>4
  <2>4. (\A i \in 1..L : g[i] = f[i]) /\ \A i \in 1..Len(s) : g[L + i] = s[i]
    BY <1>3, <2>1, Zenon
  <2> QED  BY <2>2, <2>3, <2>4
<1>5. L % 2 = 0
  <2>1. journalLock # None
    BY JournalBounds
  <2> QED  BY <1>1, <2>1 DEF JournalHeld, JournalWriters
<1>6. \A j \in 1..k : g[L + 2 * j - 1] = Archive!Record(attempted + j, count[w] + j - 1)
  <2>1. SUFFICES ASSUME NEW j \in 1..k
                 PROVE  g[L + 2 * j - 1] = Archive!Record(attempted + j, count[w] + j - 1)
    OBVIOUS
  <2>2. 2 * j - 1 \in 1..(2 * k) /\ 2 * j - 1 \in 1..Len(s) /\ j \in 1..n
    BY <1>3
  <2>3. s[2 * j - 1] = Archive!Record(attempted + j, count[w] + j - 1)
    BY <2>2, EntriesAre DEF Adds
  <2>4. L + 2 * j - 1 = L + (2 * j - 1)
    BY <1>4
  <2> QED  BY <1>4, <2>2, <2>3, <2>4
<1>7. \A i \in 1..(2 * k) : i % 2 = 0 => g[L + i] = Archive!Newline
  <2>1. \A i \in 1..(2 * k) : i \in 1..Len(s) /\ i \in 1..(2 * n)
    BY <1>3
  <2> QED  BY <1>4, <2>1, EntriesAre, ZenonT(40) DEF Adds
<1>8. ASSUME NEW i \in 1..(2 * k), i % 2 = 1
      PROVE  \E j \in 1..k : i = 2 * j - 1 /\ g[L + i] = Archive!Record(attempted + j, count[w] + j - 1)
  <2>1. PICK j \in 1..k : i = 2 * j - 1
    <3>1. (i + 1) \div 2 \in 1..k /\ 2 * ((i + 1) \div 2) - 1 = i
      BY <1>8
    <3> QED  BY <3>1
  <2>2. L + i = L + 2 * j - 1
    BY <1>4, <2>1
  <2> QED  BY <1>6, <2>1, <2>2
<1>9. ASSUME NEW i \in (L + 1)..Len(g)
      PROVE  \/ /\ i = L + 2 * k + 1 /\ i = Len(g) /\ i % 2 = 1
                /\ \/ g[i] = Archive!Fragment
                   \/ /\ g[i] = Archive!Record(attempted + k + 1, count[w] + k)
                      /\ attempted + k + 1 \in spared'
             \/ i % 2 = 0 /\ g[i] = Archive!Newline
             \/ i % 2 = 1 /\ \E j \in 1..k : i = L + 2 * j - 1
                  /\ g[i] = Archive!Record(attempted + j, count[w] + j - 1)
  <2>1. PICK h \in 1..Len(s) : i = L + h
    <3>1. i - L \in 1..Len(s) /\ i = L + (i - L)
      BY <1>3, <1>4
    <3> QED  BY <3>1
  <2>2. i % 2 = h % 2 /\ (h % 2 = 0 \/ h % 2 = 1)
    BY <1>4, <1>5, <2>1, Parity, SMTT(30)
  <2>3. CASE h = 2 * k + 1
    <3>1. Len(s) = 2 * k + 1 /\ h % 2 = 1
      BY <1>3, <2>1, <2>3
    <3> QED  BY <1>4, <2>1, <2>2, <2>3, <3>1 DEF Adds
  <2>4. CASE h \in 1..(2 * k) /\ h % 2 = 0
    BY <1>7, <2>1, <2>2, <2>4
  <2>5. CASE h \in 1..(2 * k) /\ h % 2 = 1
    <3>1. PICK j \in 1..k : h = 2 * j - 1 /\ g[L + h] = Archive!Record(attempted + j, count[w] + j - 1)
      BY <1>8, <2>5
    <3> QED  BY <1>4, <2>1, <2>2, <2>5, <3>1
  <2>6. h = 2 * k + 1 \/ h \in 1..(2 * k)
    <3>1. PICK d \in Nat : d = 2 * k
      OBVIOUS
    <3>2. Len(s) \in {d, d + 1} /\ h \in 1..Len(s)
      BY <3>1 DEF Adds
    <3>3. h = d + 1 \/ h \in 1..d
      BY <3>1, <3>2
    <3> QED  BY <3>1, <3>3
  <2> QED  BY <2>2, <2>3, <2>4, <2>5, <2>6
<1>10. Archive!Fragment # Archive!Newline /\ Archive!Fragment.text # "record"
       /\ Archive!Newline.text # "record"
       /\ \A x, y : Archive!Record(x, y).text = "record" /\ Archive!Record(x, y) # Archive!Newline
  <2>1. Archive!Fragment.text = "fragment" /\ Archive!Newline.text = "newline"
        /\ \A x, y : Archive!Record(x, y).text = "record"
    BY DEF Archive!Fragment, Archive!Newline, Archive!Record
  <2> QED  BY <2>1
<1>11. Lines(g)
  <2>1. ASSUME NEW i \in 1..Len(g)  PROVE g[i] = Archive!Newline <=> i % 2 = 0
    <3>1. CASE i \in 1..L
      BY <1>1, <1>2, <1>4, <3>1 DEF Lines
    <3>2. CASE i \in (L + 1)..Len(g)
      BY <1>9, <1>10, <3>2
    <3> QED  BY <1>4, <3>1, <3>2
  <2> QED  BY <1>4, <2>1 DEF Lines
<1>15. EndsSpared(g, spared')
  <2> SUFFICES ASSUME Len(g) % 2 = 1, g[Len(g)].text = "record"  PROVE g[Len(g)].id \in spared'
    BY DEF EndsSpared
  <2>1. (L + 2 * k) % 2 = 0
    <3>1. (2 * k) % 2 = 0 /\ 2 * k \in Nat
      OBVIOUS
    <3> QED  BY <1>4, <1>5, <3>1, Parity
  <2>2. Len(g) = L + 2 * k + 1 /\ Len(g) \in (L + 1)..Len(g)
    <3>1. Len(g) # L + 2 * k
      BY <2>1
    <3>2. Len(g) = L + 2 * k + 1
      BY <1>4, <3>1
    <3>3. 2 * k \in Nat
      OBVIOUS
    <3> QED  BY <1>4, <3>2, <3>3
  <2>3. \A j \in 1..k : L + 2 * k + 1 # L + 2 * j - 1
    BY <1>4
  <2>4. /\ g[Len(g)] = Archive!Record(attempted + k + 1, count[w] + k)
        /\ attempted + k + 1 \in spared'
    BY <1>9, <1>10, <2>2, <2>3
  <2> QED  BY <2>4 DEF Archive!Record
<1>12. \A m \in 0..L : UpTo(g, m) = UpTo(f, m)
  BY <1>4, UpToSame
<1>13. ASSUME NEW i \in UpTo(g, Len(g)), ~(i <= L)
       PROVE  \E j \in 1..(k + 1) : i = L + 2 * j - 1
                /\ g[i] = Archive!Record(attempted + j, count[w] + j - 1)
  <2>1. i \in (L + 1)..Len(g) /\ g[i].text = "record"
    BY <1>4, <1>13 DEF UpTo
  <2>2. CASE i = L + 2 * k + 1 /\ g[i] = Archive!Record(attempted + k + 1, count[w] + k)
    <3>1. PICK j : j = k + 1
      OBVIOUS
    <3>2. j \in 1..(k + 1) /\ attempted + j = attempted + k + 1 /\ count[w] + j - 1 = count[w] + k
          /\ L + 2 * j - 1 = L + 2 * k + 1
      <4>1. count[w] \in Nat /\ attempted \in Nat
        BY DEF JournalWriters
      <4> QED  BY <1>4, <3>1, <4>1
    <3> QED  BY <2>2, <3>2
  <2>3. CASE \E j \in 1..k : i = L + 2 * j - 1 /\ g[i] = Archive!Record(attempted + j, count[w] + j - 1)
    <3>1. \A j \in 1..k : j \in 1..(k + 1)
      OBVIOUS
    <3> QED  BY <2>3, <3>1
  <2> QED  BY <1>9, <1>10, <2>1, <2>2, <2>3
<1>14. ASSUME NEW m \in 0..k
       PROVE  Cardinality(UpTo(g, L + 2 * m)) = Cardinality(UpTo(f, L)) + m
  <2>1. Between(g, L, L + 2 * m) = {i \in (L + 1)..(L + 2 * m) : i % 2 = 1}
    <3>1. ASSUME NEW i \in (L + 1)..(L + 2 * m)
          PROVE  g[i].text = "record" <=> i % 2 = 1
      <4>1. i \in (L + 1)..Len(g) /\ i # L + 2 * k + 1
        BY <1>4, SMTT(30)
      <4>2. \/ i % 2 = 0 /\ g[i] = Archive!Newline
            \/ i % 2 = 1 /\ \E j \in 1..k : g[i] = Archive!Record(attempted + j, count[w] + j - 1)
        BY <1>9, <4>1
      <4>3. CASE i % 2 = 0 /\ g[i] = Archive!Newline
        BY <1>10, <4>3
      <4>4. CASE i % 2 = 1 /\ \E j \in 1..k : g[i] = Archive!Record(attempted + j, count[w] + j - 1)
        BY <1>10, <4>4
      <4> QED  BY <4>2, <4>3, <4>4
    <3> QED  BY <3>1 DEF Between
  <2>5. m \in Nat
    OBVIOUS
  <2>2. Cardinality(Between(g, L, L + 2 * m)) = m
    BY <2>5, <1>4, <1>5, <2>1, OddsCounted, Zenon
  <2>3. L + 2 * m \in Nat /\ L <= L + 2 * m
    BY <1>4
  <2>4. Cardinality(UpTo(g, L + 2 * m)) = Cardinality(UpTo(g, L)) + Cardinality(Between(g, L, L + 2 * m))
    BY <1>4, <2>3, CountOn
  <2> QED  BY <1>4, <1>12, <2>2, <2>4
<1> QED  BY <1>1, <1>2, <1>4, <1>6, <1>11, <1>12, <1>13, <1>14, <1>15
-------------------------------------------------------------------------------
(* The steps.                                                              *)

\* A writer looks; it may also end a torn line.
LEMMA LookKeeps ==
  ASSUME JournalInv, NEW w \in Writers, Archive!Look(w), journalLock = None,
         journalLock' \in {None, w},
         \/ /\ journalFile' = journalFile
            /\ scanned' = [scanned EXCEPT ![w] = Archive!ScanTo(w)]
            /\ journalLock' = w => ~Archive!Torn(w)
         \/ /\ journalFile' = Append(journalFile, Archive!Newline) /\ Archive!Torn(w)
            /\ scanned' = [scanned EXCEPT ![w] = Len(journalFile) + 1],
         count' = [count EXCEPT ![w] = Archive!Caught(w)],
         UNCHANGED <<attempted, appended, spared>>
  PROVE  JournalInv'
<1> USE DEF JournalInv
<1>1. PICK f, g, L : f = journalFile /\ g = journalFile' /\ L = Len(journalFile)
  OBVIOUS
<1>2. /\ L \in Nat /\ L = Len(f) /\ Lines(f)
      /\ Archive!ScanTo(w) \in Nat /\ Archive!ScanTo(w) % 2 = 0 /\ Archive!ScanTo(w) <= L
      /\ Archive!ScanTo(w) = LastLine(journalFile)
  BY <1>1, ScanEnds
<1>4. /\ Archive!Caught(w) \in Nat
      /\ lookedLate' \in BOOLEAN /\ (lookedLate => lookedLate')
      /\ ~lookedLate' => Near(Archive!Caught(w), f, spared, Archive!ScanTo(w))
  BY <1>1, LookCounts
<1>3. ~lookedLate' => Near(Archive!Caught(w), f, spared, L)
  BY <1>1, <1>2, <1>4, TornIsShort
<1>5. unaware' = unaware \ {w}
  BY DEF Archive!Look
<1>6. /\ Lines(g) /\ Len(g) \in Nat /\ Len(g) >= L
      /\ scanned'[w] \in Nat /\ scanned'[w] % 2 = 0 /\ scanned'[w] <= Len(g)
      /\ journalLock' = w => scanned'[w] = Len(g)
      /\ \A m \in 0..L : UpTo(g, m) = UpTo(f, m)
      /\ \A i \in 1..L : g[i] = f[i]
      /\ UpTo(g, Len(g)) = UpTo(f, L) /\ EndsSpared(g, spared)
      /\ ~lookedLate' => Near(Archive!Caught(w), g, spared, scanned'[w])
  <2>1. CASE /\ journalFile' = journalFile
             /\ scanned' = [scanned EXCEPT ![w] = Archive!ScanTo(w)]
             /\ journalLock' = w => ~Archive!Torn(w)
    <3>1. g = f /\ scanned'[w] = Archive!ScanTo(w)
      BY <1>1, <2>1
    <3>2. journalLock' = w => Archive!ScanTo(w) = L
      BY <1>1, <1>2, <2>1 DEF Archive!Torn
    <3> QED  BY <1>1, <1>2, <1>4, <3>1, <3>2
  <2>2. CASE /\ journalFile' = Append(journalFile, Archive!Newline) /\ Archive!Torn(w)
             /\ scanned' = [scanned EXCEPT ![w] = Len(journalFile) + 1]
    <3>1. scanned'[w] = L + 1 /\ g = Append(f, Archive!Newline) /\ f \in Seq(Piece)
          /\ Archive!Newline \in Piece
      BY <1>1, <1>2, <2>2 DEF Lines, Piece
    <3>2. /\ g \in Seq(Piece) /\ Len(g) = L + 1 /\ g[L + 1] = Archive!Newline
          /\ \A i \in 1..L : g[i] = f[i]
      BY <1>2, <3>1, AppendProperties
    <3>3. L % 2 = 1
      <4>1. LastLine(journalFile) < L
        BY <1>1, <1>2, <2>2 DEF Archive!Torn
      <4> QED  BY <1>1, <1>2, <4>1, Parity DEF LastLine
    <3>4. (L + 1) % 2 = 0
      BY <1>2, <3>3, Parity
    <3>5. Lines(g)
      <4>1. ASSUME NEW i \in 1..Len(g)  PROVE g[i] = Archive!Newline <=> i % 2 = 0
        <5>1. CASE i \in 1..L
          BY <1>2, <3>2, <5>1 DEF Lines
        <5>2. CASE i = L + 1
          BY <3>2, <3>4, <5>2
        <5> QED  BY <1>2, <3>2, <5>1, <5>2
      <4> QED  BY <3>2, <3>4, <4>1 DEF Lines
    <3>6. \A m \in 0..L : UpTo(g, m) = UpTo(f, m)
      BY <1>2, <3>2, UpToSame
    <3>7. UpTo(g, L + 1) = UpTo(f, L)
      <4>1. Archive!Newline.text # "record"
        BY DEF Archive!Newline
      <4> QED  BY <1>2, <3>2, <4>1 DEF UpTo
    <3>8. EndsSpared(g, spared)
      BY <3>2, <3>4 DEF EndsSpared
    <3>9. ASSUME ~lookedLate'  PROVE Near(Archive!Caught(w), g, spared, L + 1)
      <4>1. Near(Archive!Caught(w), g, spared, L)
        BY <1>2, <1>3, <3>2, <3>9, NearKeeps
      <4>2. Cardinality(UpTo(g, L + 1)) = Cardinality(UpTo(g, L)) + 0
        <5>1. UpTo(g, L + 1) = UpTo(g, L) /\ Cardinality(UpTo(g, L)) \in Nat
          BY <1>2, <3>6, <3>7, UpToFinite
        <5> QED  BY <5>1
      <4>3. Near(Archive!Caught(w) + 0, g, spared, L + 1)
        <5>1. L \in Nat /\ L + 1 \in Nat /\ L <= L + 1 /\ 0 \in Nat
          BY <1>2
        <5> QED  BY <4>1, <4>2, <5>1, NearMore
      <4> QED  BY <1>4, <4>3
    <3> QED  BY <1>2, <3>1, <3>2, <3>4, <3>5, <3>6, <3>7, <3>8, <3>9
  <2> QED  BY <2>1, <2>2
<1>7. /\ DOMAIN scanned' = Writers /\ DOMAIN count' = Writers
      /\ count'[w] = Archive!Caught(w)
      /\ \A v \in Writers : v # w => scanned'[v] = scanned[v] /\ count'[v] = count[v]
  OBVIOUS
<1>8. JournalWriters'
  BY <1>1, <1>2, <1>4, <1>5, <1>6, <1>7 DEF JournalWriters
<1>9. JournalHeld'
  BY <1>1, <1>5, <1>6 DEF JournalHeld
<1>10. JournalCounts'
  <2> SUFFICES ASSUME ~lookedLate', NEW v \in Writers \ unaware'
               PROVE  Near(count'[v], g, spared, scanned'[v])
    BY <1>1 DEF JournalCounts
  <2>1. CASE v = w
    BY <1>6, <1>7, <2>1
  <2>2. CASE v # w
    <3>1. v \notin unaware /\ ~lookedLate
      BY <1>4, <1>5, <2>2
    <3>2. scanned[v] \in 0..L
      BY <1>1, <1>2, <3>1 DEF JournalWriters
    <3>3. Near(count[v], f, spared, scanned[v])
      BY <1>1, <3>1 DEF JournalCounts
    <3>4. \A i \in 1..scanned[v] : g[i] = f[i]
      BY <1>2, <1>6, <3>2
    <3>5. Near(count[v], g, spared, scanned[v])
      BY <3>2, <3>3, <3>4, NearKeeps
    <3> QED  BY <1>7, <2>2, <3>5
  <2> QED  BY <2>1, <2>2
<1>11. JournalNumbers'
  <2> SUFFICES ASSUME ~lookedLate', NEW i \in UpTo(g, Len(g))
               PROVE  Near(g[i].seq, g, spared, i - 1)
    BY <1>1 DEF JournalNumbers
  <2>1. i \in UpTo(f, L) /\ i \in 1..L /\ i - 1 \in 0..L
    BY <1>2, <1>6 DEF UpTo
  <2>2. Near(f[i].seq, f, spared, i - 1)
    BY <1>1, <1>4, <2>1 DEF JournalNumbers
  <2>3. \A h \in 1..(i - 1) : g[h] = f[h]
    BY <1>2, <1>6, <2>1
  <2>4. Near(f[i].seq, g, spared, i - 1)
    BY <2>1, <2>2, <2>3, NearKeeps
  <2> QED  BY <1>6, <2>1, <2>4
<1>13. JournalUnaware'
  BY <1>5, <1>7 DEF JournalUnaware
<1>12. JournalKept'
  <2>1. \A i \in UpTo(f, L) : i \in UpTo(g, Len(g)) /\ g[i].id = f[i].id
    BY <1>2, <1>6 DEF UpTo
  <2>2. appended \subseteq {f[i].id : i \in UpTo(f, L)}
    BY <1>1 DEF JournalKept
  <2>3. appended \subseteq {g[i].id : i \in UpTo(g, Len(g))}
    BY <2>1, <2>2
  <2> QED  BY <1>1, <2>3 DEF JournalKept
<1> QED  BY <1>1, <1>4, <1>5, <1>6, <1>7, <1>8, <1>9, <1>10, <1>11, <1>12, <1>13

\* A write, whole or torn: the writer has counted all that is there, or is told
\* of nothing, or starts anew.
LEMMA AddsKeep ==
  ASSUME JournalInv, NEW w \in Writers, journalLock = w, journalLock' = None,
         NEW n \in Nat, NEW k \in 0..n, NEW s, Adds(w, n, k, s),
         attempted' = attempted + n, spared \subseteq spared', UNCHANGED <<unaware, lookedLate>>,
         DOMAIN scanned' = Writers, DOMAIN count' = Writers,
         \A v \in Writers \ {w} : scanned'[v] = scanned[v] /\ count'[v] = count[v],
         \/ Len(s) = 2 * k /\ scanned'[w] = scanned[w] + 2 * k /\ count'[w] = count[w] + k
         \/ scanned'[w] = scanned[w] /\ count'[w] = count[w]
         \/ scanned'[w] = 0 /\ count'[w] = 0,
         appended' \subseteq appended \union ((attempted + 1)..(attempted + k))
  PROVE  JournalInv'
<1> USE DEF JournalInv
<1>1. PICK f, g, L : f = journalFile /\ g = journalFile' /\ L = Len(journalFile)
  OBVIOUS
<1>2. /\ Lines(g) /\ L \in Nat /\ L = Len(f) /\ Len(g) \in {L + 2 * k, L + 2 * k + 1}
      /\ \A m \in 0..L : UpTo(g, m) = UpTo(f, m)
      /\ \A i \in 1..L : g[i] = f[i]
      /\ \A j \in 1..k : g[L + 2 * j - 1] = Archive!Record(attempted + j, count[w] + j - 1)
      /\ EndsSpared(g, spared')
      /\ \A i \in UpTo(g, Len(g)) :
           \/ i <= L
           \/ \E j \in 1..(k + 1) : i = L + 2 * j - 1 /\ g[i] = Archive!Record(attempted + j, count[w] + j - 1)
      /\ \A m \in 0..k : Cardinality(UpTo(g, L + 2 * m)) = Cardinality(UpTo(f, L)) + m
  BY <1>1, Grows
<1>3. Len(g) \in Nat /\ Len(g) >= L /\ 2 * k \in Nat
  <2>1. 2 * k \in Nat
    OBVIOUS
  <2> QED  BY <1>2, <2>1
<1>4. scanned[w] = L /\ L % 2 = 0 /\ w \notin unaware /\ count[w] \in Nat
      /\ (~lookedLate => Near(count[w], f, spared, L))
  <2>1. journalLock # None
    BY JournalBounds
  <2> QED  BY <1>1, <2>1 DEF JournalHeld, JournalWriters, JournalCounts
<1>5. JournalWriters'
  <2>1. scanned'[w] \in Nat /\ count'[w] \in Nat /\ scanned'[w] % 2 = 0 /\ scanned'[w] <= Len(g)
    <3>1. CASE Len(s) = 2 * k /\ scanned'[w] = scanned[w] + 2 * k /\ count'[w] = count[w] + k
      <4>1. (2 * k) % 2 = 0
        OBVIOUS
      <4>2. (L + 2 * k) % 2 = 0
        BY <1>2, <1>3, <1>4, <4>1, Parity
      <4>3. Len(g) >= L + 2 * k
        BY <1>2, <1>3
      <4> QED  BY <1>2, <1>3, <1>4, <3>1, <4>2, <4>3
    <3>2. CASE scanned'[w] = scanned[w] /\ count'[w] = count[w]
      BY <1>2, <1>3, <1>4, <3>2
    <3>3. CASE scanned'[w] = 0 /\ count'[w] = 0
      BY <1>3, <3>3
    <3> QED  BY <3>1, <3>2, <3>3
  <2>2. ASSUME NEW v \in Writers \ {w}
        PROVE  /\ scanned'[v] \in Nat /\ count'[v] \in Nat /\ scanned'[v] % 2 = 0
               /\ v \notin unaware => scanned'[v] <= Len(g)
    <3>1. /\ scanned[v] \in Nat /\ count[v] \in Nat /\ scanned[v] % 2 = 0
          /\ v \notin unaware => scanned[v] <= L
          /\ scanned'[v] = scanned[v] /\ count'[v] = count[v]
      BY <1>1 DEF JournalWriters
    <3> QED  BY <1>2, <1>3, <3>1
  <2> QED  BY <1>1, <2>1, <2>2 DEF JournalWriters
<1>6. JournalCounts'
  <2> SUFFICES ASSUME ~lookedLate, NEW v \in Writers \ unaware
               PROVE  Near(count'[v], g, spared', scanned'[v])
    BY <1>1 DEF JournalCounts
  <2>1. CASE v # w
    <3>1. scanned'[v] = scanned[v] /\ count'[v] = count[v] /\ scanned[v] \in 0..L
      BY <1>1, <1>2, <2>1 DEF JournalWriters
    <3>2. Near(count[v], f, spared, scanned[v])
      BY <1>1 DEF JournalCounts
    <3>3. \A i \in 1..scanned[v] : g[i] = f[i]
      BY <1>2, <3>1
    <3>4. Near(count[v], g, spared', scanned[v])
      BY <3>1, <3>2, <3>3, NearKeeps
    <3> QED  BY <3>1, <3>4
  <2>5. Near(count[w], g, spared', L)
    BY <1>2, <1>4, NearKeeps
  <2>2. CASE v = w /\ scanned'[w] = scanned[w] + 2 * k /\ count'[w] = count[w] + k
    <3>1. Cardinality(UpTo(g, L + 2 * k)) = Cardinality(UpTo(g, L)) + k
      BY <1>2
    <3>2. L + 2 * k \in Nat /\ L <= L + 2 * k
      BY <1>2, <1>3
    <3>3. Near(count[w] + k, g, spared', L + 2 * k)
      BY <1>2, <2>5, <3>1, <3>2, NearMore
    <3> QED  BY <1>4, <2>2, <3>3
  <2>3. CASE v = w /\ scanned'[w] = scanned[w] /\ count'[w] = count[w]
    BY <1>4, <2>3, <2>5
  <2>4. CASE v = w /\ scanned'[w] = 0 /\ count'[w] = 0
    BY <2>4, NearStart
  <2> QED  BY <2>1, <2>2, <2>3, <2>4
<1>7. JournalNumbers'
  <2> SUFFICES ASSUME ~lookedLate, NEW i \in UpTo(g, Len(g))
               PROVE  Near(g[i].seq, g, spared', i - 1)
    BY <1>1 DEF JournalNumbers
  <2>1. CASE i <= L
    <3>1. i \in 1..L /\ i - 1 \in 0..L /\ g[i].text = "record" /\ g[i] = f[i]
      BY <1>2, <1>3, <2>1 DEF UpTo
    <3>2. i \in UpTo(f, L)
      BY <1>2, <3>1 DEF UpTo
    <3>3. Near(f[i].seq, f, spared, i - 1)
      BY <1>1, <3>2 DEF JournalNumbers
    <3>4. \A h \in 1..(i - 1) : g[h] = f[h]
      BY <1>2, <3>1
    <3>5. Near(f[i].seq, g, spared', i - 1)
      BY <3>1, <3>3, <3>4, NearKeeps
    <3> QED  BY <3>1, <3>5
  <2>2. ASSUME NEW j \in 1..(k + 1), i = L + 2 * j - 1,
               g[i] = Archive!Record(attempted + j, count[w] + j - 1)
        PROVE  Near(g[i].seq, g, spared', i - 1)
    <3>1. j - 1 \in 0..k /\ i - 1 = L + 2 * (j - 1) /\ j - 1 \in Nat
          /\ i - 1 \in Nat /\ L <= i - 1
      BY <1>2, <2>2
    <3>2. Cardinality(UpTo(g, i - 1)) = Cardinality(UpTo(g, L)) + (j - 1)
      <4>1. Cardinality(UpTo(g, i - 1)) = Cardinality(UpTo(f, L)) + (j - 1)
        BY <1>2, <3>1
      <4> QED  BY <1>2, <4>1
    <3>3. Near(count[w], g, spared', L)
      BY <1>2, <1>4, NearKeeps
    <3>4. Near(count[w] + (j - 1), g, spared', i - 1)
      BY <1>2, <3>1, <3>2, <3>3, NearMore
    <3>5. g[i].seq = count[w] + (j - 1)
      <4>1. g[i].seq = count[w] + j - 1
        BY <2>2 DEF Archive!Record
      <4> QED  BY <1>4, <4>1
    <3> QED  BY <3>4, <3>5
  <2> QED  BY <1>2, <2>1, <2>2
<1>8. JournalKept'
  <2>1. \A i \in UpTo(f, L) : i \in UpTo(g, Len(g)) /\ g[i].id = f[i].id
    BY <1>2, <1>3 DEF UpTo
  <2>2. appended \subseteq {f[i].id : i \in UpTo(f, L)}
    BY <1>1 DEF JournalKept
  <2>3. ASSUME NEW j \in 1..k
        PROVE  L + 2 * j - 1 \in UpTo(g, Len(g)) /\ g[L + 2 * j - 1].id = attempted + j
    <3>4. g[L + 2 * j - 1] = Archive!Record(attempted + j, count[w] + j - 1)
      BY <1>2
    <3>1. g[L + 2 * j - 1].text = "record" /\ g[L + 2 * j - 1].id = attempted + j
      BY <3>4 DEF Archive!Record
    <3>2. L + 2 * j - 1 \in 1..(L + 2 * k)
      BY <1>2
    <3>3. L + 2 * j - 1 \in 1..Len(g)
      BY <1>2, <1>3, <3>2, SMTT(30)
    <3> QED  BY <3>1, <3>3 DEF UpTo
  <2>4. ASSUME NEW x \in (attempted + 1)..(attempted + k)
        PROVE  x \in {g[i].id : i \in UpTo(g, Len(g))}
    <3>1. x - attempted \in 1..k /\ attempted + (x - attempted) = x
      OBVIOUS
    <3> QED  BY <2>3, <3>1
  <2>5. appended' \subseteq {g[i].id : i \in UpTo(g, Len(g))}
    BY <2>1, <2>2, <2>4
  <2> QED  BY <1>1, <2>5 DEF JournalKept
<1>9. JournalHeld'
  BY DEF JournalHeld
<1>10. JournalUnaware'
  BY <1>4 DEF JournalUnaware
<1> QED  BY <1>1, <1>2, <1>5, <1>6, <1>7, <1>8, <1>9, <1>10

LEMMA WriteKeeps ==
  ASSUME JournalInv, NEW w \in Writers, NEW n \in 1..MaxBurst, Archive!Write(w, n)
  PROVE  JournalInv'
<1> USE DEF JournalInv
<1>1. PICK s : s = Archive!Entries(w, n)
  OBVIOUS
<1>2. n \in Nat /\ n \in 0..n /\ attempted \in Nat /\ count[w] \in Nat /\ scanned[w] \in Nat
  BY JournalBounds DEF JournalWriters
<1>3. s \in Seq(Piece) /\ Len(s) = 2 * n
  <2>1. \A i \in 1..(2 * n) :
          (IF i % 2 = 0 THEN Archive!Newline
           ELSE Archive!Record(attempted + (i + 1) \div 2, count[w] + i \div 2)) \in Piece
    BY <1>2 DEF Piece, Archive!Record
  <2>2. 2 * n \in Nat /\ s \in [1..(2 * n) -> Piece]
    BY <1>1, <1>2, <2>1 DEF Archive!Entries
  <2> QED  BY <2>2, SeqDef, LenProperties
<1>4. Adds(w, n, n, s)
  <2>1. Len(s) # 2 * n + 1
    BY <1>2, <1>3
  <2> QED  BY <1>1, <1>3, <2>1 DEF Adds, Archive!Write
<1>5. /\ journalLock = w /\ journalLock' = None /\ attempted' = attempted + n
      /\ UNCHANGED <<unaware, lookedLate>>
      /\ DOMAIN scanned' = Writers /\ DOMAIN count' = Writers
      /\ \A v \in Writers \ {w} : scanned'[v] = scanned[v] /\ count'[v] = count[v]
      /\ scanned'[w] = scanned[w] + 2 * n /\ count'[w] = count[w] + n
      /\ appended' = appended \union ((attempted + 1)..(attempted + n)) /\ spared' = spared
  BY DEF Archive!Write, Archive!Holds
<1> QED  BY <1>2, <1>3, <1>4, <1>5, AddsKeep

\* What a tear leaves begins like what was to be written.
LEMMA RemainsAre ==
  ASSUME NEW w, NEW n \in Nat, NEW k \in 0..(n - 1), NEW whole \in BOOLEAN,
         NEW S, Archive!Entries(w, n) \in Seq(S), Archive!Fragment \in S
  PROVE  LET e == Archive!Entries(w, n)
             s == Archive!Remains(w, k, whole)
         IN  /\ s \in Seq(S) /\ Len(s) = 2 * k + 1
             /\ \A i \in 1..(2 * k) : s[i] = e[i]
             /\ s[2 * k + 1] = IF whole THEN e[2 * k + 1] ELSE Archive!Fragment
<1>1. PICK e, s, d, N : /\ e = Archive!Entries(w, n) /\ s = Archive!Remains(w, k, whole)
                        /\ d = 2 * k /\ N = 2 * n
  OBVIOUS
<1>2. d \in Nat /\ N \in Nat /\ d + 2 <= N
  BY <1>1
<1>3. e = [i \in 1..N |-> e[i]] /\ \A i \in 1..N : e[i] \in S
  <2>1. e = [i \in 1..N |-> e[i]]
    BY <1>1 DEF Archive!Entries
  <2>2. Len(e) = N
    BY <1>1, <1>2, <2>1, LenProperties
  <2> QED  BY <1>1, <2>1, <2>2, ElementOfSeq
<1>4. ASSUME NEW m \in 0..n
      PROVE  /\ Archive!Entries(w, m) \in Seq(S) /\ Len(Archive!Entries(w, m)) = 2 * m
             /\ \A i \in 1..(2 * m) : Archive!Entries(w, m)[i] = e[i]
  <2>1. PICK h, b : h = Archive!Entries(w, m) /\ b = 2 * m
    OBVIOUS
  <2>2. b \in Nat /\ b <= N
    BY <1>1, <2>1
  <2>3. h = [i \in 1..b |-> e[i]]
    <3>1. \A i \in 1..b : i \in 1..N
      BY <1>2, <2>2
    <3> QED  BY <1>1, <2>1, <3>1 DEF Archive!Entries
  <2>4. h \in [1..b -> S]
    BY <1>2, <1>3, <2>2, <2>3
  <2>5. h \in Seq(S) /\ Len(h) = b
    BY <2>2, <2>4, SeqDef, LenProperties
  <2> QED  BY <2>1, <2>3, <2>5
<1>5. CASE whole
  <2>1. PICK h : h = Archive!Entries(w, k + 1)
    OBVIOUS
  <2>2. h \in Seq(S) /\ Len(h) = d + 2 /\ \A i \in 1..(d + 2) : h[i] = e[i]
    <3>1. k + 1 \in 0..n /\ 2 * (k + 1) = d + 2
      BY <1>1
    <3> QED  BY <1>4, <2>1, <3>1
  <2>3. s = SubSeq(h, 1, d + 1)
    BY <1>1, <1>5, <2>1 DEF Archive!Remains
  <2>4. s \in Seq(S) /\ Len(s) = d + 1 /\ \A i \in 1..(d + 1) : s[i] = h[i]
    BY <1>2, <2>2, <2>3, SubSeqProperties
  <2>5. s[d + 1] = e[d + 1] /\ \A i \in 1..d : s[i] = e[i]
    <3>1. d + 1 \in 1..(d + 1) /\ \A i \in 1..(d + 1) : i \in 1..(d + 2)
      BY <1>2
    <3>2. \A i \in 1..d : i \in 1..(d + 1)
      BY <1>2
    <3> QED  BY <2>2, <2>4, <3>1, <3>2
  <2> QED  BY <1>1, <1>5, <2>4, <2>5
<1>6. CASE ~whole
  <2>1. PICK h, q : h = Archive!Entries(w, k) /\ q = SubSeq(h, 1, d)
    OBVIOUS
  <2>2. h \in Seq(S) /\ Len(h) = d /\ \A i \in 1..d : h[i] = e[i]
    <3>1. k \in 0..n
      OBVIOUS
    <3> QED  BY <1>1, <1>4, <2>1, <3>1
  <2>3. q \in Seq(S) /\ Len(q) = d /\ \A i \in 1..d : q[i] = h[i]
    BY <1>2, <2>1, <2>2, SubSeqProperties
  <2>4. s = Append(q, Archive!Fragment)
    BY <1>1, <1>6, <2>1 DEF Archive!Remains
  <2>5. /\ s \in Seq(S) /\ Len(s) = d + 1 /\ s[d + 1] = Archive!Fragment
        /\ \A i \in 1..d : s[i] = q[i]
    BY <1>2, <2>3, <2>4, AppendProperties
  <2> QED  BY <1>1, <1>2, <1>6, <2>2, <2>3, <2>5
<1> QED  BY <1>5, <1>6

LEMMA TearKeeps ==
  ASSUME JournalInv, NEW w \in Writers, NEW n \in 1..MaxBurst, Archive!Tear(w, n)
  PROVE  JournalInv'
<1> USE DEF JournalInv
<1>1. PICK e : e = Archive!Entries(w, n)
  OBVIOUS
<1>2. n \in Nat /\ attempted \in Nat /\ count[w] \in Nat /\ scanned[w] \in Nat
  BY JournalBounds DEF JournalWriters
<1>3. e \in Seq(Piece) /\ Len(e) = 2 * n
  <2>1. \A i \in 1..(2 * n) :
          (IF i % 2 = 0 THEN Archive!Newline
           ELSE Archive!Record(attempted + (i + 1) \div 2, count[w] + i \div 2)) \in Piece
    BY <1>2 DEF Piece, Archive!Record
  <2>2. 2 * n \in Nat /\ e \in [1..(2 * n) -> Piece]
    BY <1>1, <1>2, <2>1 DEF Archive!Entries
  <2> QED  BY <2>2, SeqDef, LenProperties
<1>4. PICK k \in 0..(n - 1), whole \in BOOLEAN :
        /\ journalFile' = journalFile \o Archive!Remains(w, k, whole)
        /\ spared' = IF whole THEN spared \union {attempted + k + 1} ELSE spared
  BY DEF Archive!Tear
<1>5. PICK s : s = Archive!Remains(w, k, whole)
  OBVIOUS
<1>6. k \in 0..n /\ 2 * k \in Nat
  BY <1>2
<1>8. Archive!Fragment \in Piece
  BY DEF Piece
<1>9. /\ s \in Seq(Piece) /\ Len(s) = 2 * k + 1 /\ \A i \in 1..(2 * k) : s[i] = e[i]
      /\ s[2 * k + 1] = IF whole THEN e[2 * k + 1] ELSE Archive!Fragment
  BY <1>1, <1>2, <1>3, <1>5, <1>8, RemainsAre
<1>7. e[2 * k + 1] = Archive!Record(attempted + k + 1, count[w] + k)
  <2>1. PICK j : j = k + 1
    OBVIOUS
  <2>2. j \in 1..n /\ 2 * j - 1 = 2 * k + 1 /\ attempted + j = attempted + k + 1
        /\ count[w] + j - 1 = count[w] + k
    BY <1>2, <2>1
  <2>3. e[2 * j - 1] = Archive!Record(attempted + j, count[w] + j - 1)
    BY <1>1, <1>2, <2>2, EntriesAre
  <2> QED  BY <2>2, <2>3
<1>10. Adds(w, n, k, s)
  <2>1. \/ s[2 * k + 1] = Archive!Fragment
        \/ /\ s[2 * k + 1] = Archive!Record(attempted + k + 1, count[w] + k)
           /\ attempted + k + 1 \in spared'
    BY <1>4, <1>7, <1>9
  <2>2. Len(s) \in {2 * k, 2 * k + 1} /\ journalFile' = journalFile \o s
    BY <1>4, <1>5, <1>9
  <2> QED  BY <1>1, <1>9, <2>1, <2>2 DEF Adds
<1>11. /\ journalLock = w /\ journalLock' = None /\ attempted' = attempted + n
       /\ spared \subseteq spared'
       /\ UNCHANGED <<unaware, lookedLate>> /\ appended' = appended
       /\ DOMAIN scanned' = Writers /\ DOMAIN count' = Writers
       /\ \A v \in Writers \ {w} : scanned'[v] = scanned[v] /\ count'[v] = count[v]
       /\ \/ scanned'[w] = scanned[w] /\ count'[w] = count[w]
          \/ scanned'[w] = 0 /\ count'[w] = 0
  BY <1>4 DEF Archive!Tear, Archive!Holds
<1> QED  BY <1>2, <1>6, <1>10, <1>11, AddsKeep

LEMMA RestartKeeps ==
  ASSUME JournalInv, NEW w \in Writers, Archive!Restart(w)
  PROVE  JournalInv'
<1> USE DEF JournalInv, Archive!Restart
<1>1. Len(journalFile) \in Nat
  BY LenProperties DEF Lines
<1>2. Lines(journalFile)' /\ EndsSpared(journalFile, spared)' /\ JournalNumbers' /\ JournalKept'
  BY DEF Lines, EndsSpared, JournalNumbers, JournalKept
<1>3. JournalWriters'
  BY <1>1 DEF JournalWriters
<1>4. JournalHeld'
  BY DEF JournalHeld
<1>5. JournalCounts'
  BY NearStart DEF JournalCounts
<1>6. JournalUnaware'
  BY DEF JournalUnaware
<1> QED  BY <1>2, <1>3, <1>4, <1>5, <1>6

LEMMA TruncateKeeps ==
  ASSUME JournalInv, Archive!Truncate
  PROVE  JournalInv'
<1> USE DEF JournalInv, Archive!Truncate
<1>1. PICK g : g = journalFile'
  OBVIOUS
<1>2. g = <<>> /\ g \in Seq(Piece) /\ Len(g) = 0
  BY <1>1
<1>3. Lines(g) /\ \A n \in {0} : UpTo(g, n) = {}
  BY <1>2 DEF Lines, UpTo
<1>4. JournalWriters'
  BY <1>1, <1>2 DEF JournalWriters
<1>5. JournalHeld'
  BY DEF JournalHeld
<1>6. UpTo(g, Len(g)) = {} /\ EndsSpared(g, spared')
  BY <1>2 DEF UpTo, EndsSpared
<1>8. JournalCounts'
  <2> SUFFICES ASSUME ~lookedLate, NEW w \in Writers \ unaware'
               PROVE  Near(count[w], g, spared', scanned[w])
    BY <1>1 DEF JournalCounts
  <2>1. scanned[w] = 0
    BY DEF JournalWriters
  <2>2. w \notin unaware
    BY <2>1 DEF JournalUnaware
  <2>3. Near(count[w], journalFile, spared, 0)
    BY <2>1, <2>2 DEF JournalCounts
  <2>4. UpTo(journalFile, 0) = {} /\ ShortIn(journalFile, spared, 0) = {} /\ Cardinality({}) = 0
    BY FS_EmptySet DEF UpTo, ShortIn
  <2>5. count[w] = 0
    <3>1. PICK x, c, d : /\ x = count[w] /\ c = Cardinality(UpTo(journalFile, 0))
                         /\ d = Cardinality(ShortIn(journalFile, spared, 0))
      OBVIOUS
    <3>2. x \in Int /\ x <= c /\ c <= x + d
      BY <2>3, <3>1 DEF Near
    <3>3. c = 0 /\ d = 0
      BY <2>4, <3>1, Zenon
    <3> QED  BY <3>1, <3>2, <3>3
  <2> QED  BY <2>1, <2>5, NearStart
<1>9. JournalNumbers' /\ JournalKept'
  BY <1>1, <1>6 DEF JournalNumbers, JournalKept
<1>10. JournalUnaware' /\ unaware' \subseteq Writers
  BY DEF JournalUnaware
<1> QED  BY <1>1, <1>3, <1>4, <1>5, <1>6, <1>8, <1>9, <1>10
-------------------------------------------------------------------------------
(* The journal, and all of it.                                             *)

LEMMA JournalBegins ==
  ASSUME Archive!Init
  PROVE  JournalInv
<1> USE DEF Archive!Init
<1>1. Len(journalFile) = 0 /\ journalFile \in Seq(Piece)
  OBVIOUS
<1>2. UpTo(journalFile, 0) = {}
  BY DEF UpTo
<1>3. Lines(journalFile) /\ EndsSpared(journalFile, spared)
  BY <1>1 DEF Lines, EndsSpared
<1>4. JournalWriters /\ JournalUnaware /\ JournalHeld
  BY <1>1 DEF JournalWriters, JournalUnaware, JournalHeld
<1>5. JournalCounts /\ JournalNumbers /\ JournalKept
  BY <1>1, <1>2, NearStart DEF JournalCounts, JournalNumbers, JournalKept
<1> QED  BY <1>3, <1>4, <1>5 DEF JournalInv

\* A record is readable if its append returned, and numbers count records, all
\* but those spared by a tear.
LEMMA JournalSafe ==
  ASSUME JournalInv
  PROVE  JournalReadable
<1>1. /\ Lines(journalFile) /\ Len(journalFile) \in Nat
      /\ Archive!Readable = UpTo(journalFile, Len(journalFile))
  BY ReaderFinds, LenProperties DEF JournalInv, Lines
<1>2. ASSUME ~lookedLate, NEW i \in Archive!Readable
      PROVE  LET before == Archive!Before(Archive!Readable, i)
                 passed == Archive!Cardinality({j \in before : journalFile[j].id \in spared})
             IN  /\ journalFile[i].seq <= Archive!Cardinality(before)
                 /\ Archive!Cardinality(before) <= journalFile[i].seq + passed
  <2>1. Archive!Before(Archive!Readable, i) = UpTo(journalFile, i - 1)
    BY <1>1 DEF UpTo, Archive!Before
  <2>2. Near(journalFile[i].seq, journalFile, spared, i - 1)
    BY <1>1, <1>2 DEF JournalInv, JournalNumbers
  <2> QED  BY <2>1, <2>2, SameArchiveCardinality DEF Near, ShortIn
<1>3. Archive!SeqIsPosition
  BY <1>2 DEF Archive!SeqIsPosition
<1>4. Archive!AppendedReadable
  BY <1>1 DEF Archive!AppendedReadable, JournalInv, JournalKept
<1> QED  BY <1>3, <1>4 DEF JournalReadable

\* Looking and leaving it at that.
LEMMA SequenceKeeps ==
  ASSUME JournalInv, NEW w \in Writers, Archive!Sequence(w)
  PROVE  JournalInv'
<1>1. None \notin Writers
  BY JournalBounds
<1>2. /\ Archive!Look(w) /\ journalLock = None /\ journalLock' = None /\ journalFile' = journalFile
      /\ scanned' = [scanned EXCEPT ![w] = Archive!ScanTo(w)]
      /\ count' = [count EXCEPT ![w] = Archive!Caught(w)]
      /\ UNCHANGED <<attempted, appended, spared>>
  BY DEF Archive!Sequence
<1>3. journalLock' \in {None, w} /\ (journalLock' = w => ~Archive!Torn(w))
  BY <1>1, <1>2
<1> QED  BY <1>2, <1>3, LookKeeps

\* Looking, and ending a torn line, with the lock in one's hands.
LEMMA StartKeeps ==
  ASSUME JournalInv, NEW w \in Writers, Archive!StartAppend(w)
  PROVE  JournalInv'
<1>1. /\ Archive!Look(w) /\ journalLock = None /\ journalLock' = w
      /\ count' = [count EXCEPT ![w] = Archive!Caught(w)]
      /\ UNCHANGED <<attempted, appended, spared>>
  BY DEF Archive!StartAppend
<1>2. journalLock' \in {None, w}
  BY <1>1
<1>3. CASE Archive!Torn(w)
  <2>1. /\ journalFile' = Append(journalFile, Archive!Newline)
        /\ scanned' = [scanned EXCEPT ![w] = Len(journalFile) + 1]
    BY <1>3 DEF Archive!StartAppend
  <2> QED  BY <1>1, <1>2, <1>3, <2>1, LookKeeps
<1>4. CASE ~Archive!Torn(w)
  <2>1. journalFile' = journalFile /\ scanned' = [scanned EXCEPT ![w] = Archive!ScanTo(w)]
    BY <1>4 DEF Archive!StartAppend
  <2> QED  BY <1>1, <1>2, <1>4, <2>1, LookKeeps
<1> QED  BY <1>3, <1>4

LEMMA JournalStepKept ==
  ASSUME JournalInv, Archive!Next
  PROVE  JournalInv'
<1>1. ASSUME NEW w \in Writers, Archive!Sequence(w) \/ Archive!StartAppend(w) \/ Archive!Restart(w)
      PROVE  JournalInv'
  BY <1>1, SequenceKeeps, StartKeeps, RestartKeeps
<1>2. ASSUME NEW w \in Writers, NEW n \in 1..MaxBurst, Archive!Write(w, n) \/ Archive!Tear(w, n)
      PROVE  JournalInv'
  BY <1>2, WriteKeeps, TearKeeps
<1> QED  BY <1>1, <1>2, TruncateKeeps DEF Archive!Next

LEMMA JournalUnchanged ==
  ASSUME JournalInv, UNCHANGED journalVars
  PROVE  JournalInv'
<1> USE DEF journalVars, JournalInv
<1>1. /\ Lines(journalFile)' /\ EndsSpared(journalFile, spared)'
      /\ JournalWriters' /\ JournalUnaware' /\ JournalHeld'
  BY DEF Lines, EndsSpared, JournalWriters, JournalUnaware, JournalHeld
<1>2. JournalCounts' /\ JournalNumbers' /\ JournalKept'
  BY DEF JournalCounts, JournalNumbers, JournalKept
<1> QED  BY <1>1, <1>2

LEMMA JournalInvariant == Spec => []JournalInv
<1>1. Init => JournalInv
  BY JournalBegins DEF Init
<1>2. ASSUME JournalInv, [Next]_vars
      PROVE  JournalInv'
  <2>1. CASE JournalStep
    BY <1>2, <2>1, JournalStepKept DEF JournalStep
  <2>2. CASE PollStep \/ BucketStep \/ TailStep \/ QueueStep \/ FeedStep
    <3>1. UNCHANGED journalVars
      BY <2>2 DEF PollStep, BucketStep, TailStep, QueueStep, FeedStep
    <3> QED  BY <1>2, <3>1, JournalUnchanged
  <2>3. CASE UNCHANGED vars
    <3>1. UNCHANGED journalVars
      BY <2>3 DEF vars
    <3> QED  BY <1>2, <3>1, JournalUnchanged
  <2> QED  BY <1>2, <2>1, <2>2, <2>3 DEF Next
<1> QED  BY <1>1, <1>2, PTL DEF Spec

\* However many processes share the journal, and however often a crash, a full
\* disk or an operator interrupts them: sequence numbers count the records a
\* reader finds, but for those of which a tear took just the newline, unless a
\* writer looked too late to notice an emptied file; and a record whose append
\* returned is found (archive.py).
THEOREM JournalReads == Spec => []JournalReadable
<1>1. JournalInv => JournalReadable
  BY JournalSafe
<1>2. Spec => []JournalInv
  BY JournalInvariant
<1> QED  BY <1>1, <1>2, PTL
-------------------------------------------------------------------------------
(* The types of all sources, the journal's among them: what a writer counted *)
(* and what it has yet to count are together no more than what was ever      *)
(* handed to an append.                                                      *)

Texts(n) == {Archive!Newline, Archive!Fragment} \union
            {Archive!Record(id, seq) : id \in 1..n, seq \in 0..n}

\* A newline that a torn line still lacks.
Unended(f) == IF Len(f) > 0 /\ f[Len(f)] # Archive!Newline THEN 1 ELSE 0

\* The records after the first n pieces.
After(f, n) == Between(f, n, Len(f))

JournalTypes ==
  /\ journalFile \in Seq(Texts(attempted))
  /\ scanned \in [Writers -> 0..(3 * attempted)]
  /\ count \in [Writers -> 0..attempted]
  /\ journalLock \in Writers \union {None}
  /\ attempted \in 0..MaxEntries
  /\ appended \subseteq 1..attempted /\ spared \subseteq 1..attempted
  /\ unaware \subseteq Writers /\ lookedLate \in BOOLEAN
  /\ tears \in 0..MaxTears /\ truncations \in 0..MaxTruncations

JournalSized ==
  /\ Len(journalFile) + Unended(journalFile) <= 3 * attempted
  /\ Cardinality(After(journalFile, 0)) <= attempted
  /\ \A w \in Writers : count[w] + Cardinality(After(journalFile, scanned[w])) <= attempted

\* Who holds the lock has scanned the whole file.
JournalScanned == journalLock # None => scanned[journalLock] = Len(journalFile)

SizesInv == JournalTypes /\ JournalSized /\ JournalScanned

LEMMA SizeBounds ==
  /\ None \notin Writers /\ MaxBurst \in Nat \ {0}
  /\ MaxEntries \in Nat /\ MaxTears \in Nat /\ MaxTruncations \in Nat
  BY IntakeAssumption DEF Archive!JournalAssumption

LEMMA SizesAre ==
  ASSUME SizesInv
  PROVE  /\ attempted \in Nat /\ attempted <= MaxEntries
         /\ Len(journalFile) \in Nat /\ Len(journalFile) <= 3 * attempted
         /\ \A i \in 1..Len(journalFile) : journalFile[i] \in Texts(attempted)
         /\ \A w \in Writers : /\ scanned[w] \in Nat /\ scanned[w] <= 3 * attempted
                               /\ count[w] \in Nat /\ count[w] <= attempted
<1> USE DEF SizesInv, JournalTypes
<1>1. attempted \in Nat /\ attempted <= MaxEntries /\ 3 * attempted \in Nat
  BY SizeBounds
<1>2. /\ Len(journalFile) \in Nat
      /\ \A i \in 1..Len(journalFile) : journalFile[i] \in Texts(attempted)
  BY LenProperties, ElementOfSeq
<1>3. Unended(journalFile) \in {0, 1}
  BY DEF Unended
<1>4. Len(journalFile) <= 3 * attempted
  BY <1>1, <1>2, <1>3 DEF JournalSized
<1> QED  BY <1>1, <1>2, <1>4

LEMMA AfterFinite ==
  ASSUME NEW f, Len(f) \in Nat, NEW n \in Nat
  PROVE  IsFiniteSet(After(f, n)) /\ Cardinality(After(f, n)) \in Nat
<1>1. IsFiniteSet(1..Len(f)) /\ After(f, n) \subseteq 1..Len(f)
  BY FS_Interval DEF After, Between
<1> QED  BY <1>1, FS_Subset, FS_CardinalityType

\* Looking counts no more than there is.
LEMMA ScanWithin ==
  ASSUME SizesInv, NEW w \in Writers
  PROVE  /\ Archive!ScanTo(w) \in Nat /\ Archive!ScanTo(w) <= Len(journalFile)
         /\ Archive!Caught(w) \in Nat
         /\ Archive!Caught(w) + Cardinality(After(journalFile, Archive!ScanTo(w))) <= attempted
         /\ Archive!Torn(w) => Unended(journalFile) = 1
<1>1. PICK L, a, b, f : /\ L = Len(journalFile) /\ a = Archive!ScanFrom(w) /\ b = Archive!ScanTo(w)
                        /\ f = journalFile
  OBVIOUS
<1>2. L \in Nat /\ scanned[w] \in Nat /\ count[w] \in Nat /\ attempted \in Nat
  BY <1>1, SizesAre
<1>3. a \in Nat /\ a <= L
  BY <1>1, <1>2 DEF Archive!ScanFrom
<1> DEFINE ends == {a} \union {i \in (a + 1)..L : f[i] = Archive!Newline}
<1>4. b \in ends /\ \A x \in ends : x <= b
  <2>1. ends \in SUBSET Int /\ ends # {}
    BY <1>2, <1>3
  <2>2. \E x \in ends : \A y \in ends : x >= y
    <3> DEFINE later == {i \in (a + 1)..L : f[i] = Archive!Newline}
    <3>1. later \in SUBSET (1..L) /\ ends = {a} \union later /\ \A x \in later : x >= a
      BY <1>2, <1>3
    <3> HIDE DEF later, ends
    <3>2. CASE later = {}
      BY <1>3, <3>1, <3>2
    <3>3. CASE later # {}
      <4>1. PICK m \in later : \A x \in later : x <= m
        BY <1>2, <3>1, <3>3, GreatestChosen
      <4>2. m \in ends /\ \A y \in ends : m >= y
        BY <1>2, <1>3, <3>1, <4>1
      <4> QED  BY <4>2
    <3> QED  BY <3>2, <3>3
  <2>3. b = Archive!Max(ends)
    BY <1>1 DEF Archive!ScanTo
  <2> HIDE DEF ends
  <2>4. Archive!Max(ends) \in ends /\ \A y \in ends : Archive!Max(ends) >= y
    BY <2>2 DEF Archive!Max
  <2> QED  BY <2>1, <2>3, <2>4
<1>5. b \in Nat /\ a <= b /\ b <= L
  BY <1>2, <1>3, <1>4
<1>6. Archive!Torn(w) => Unended(journalFile) = 1
  <2> SUFFICES ASSUME b < L PROVE L > 0 /\ f[L] # Archive!Newline
    BY <1>1 DEF Archive!Torn, Unended
  <2>1. L \in (a + 1)..L
    BY <1>2, <1>3, <1>5
  <2> QED  BY <1>2, <1>4, <1>5, <2>1
<1> DEFINE base == Archive!CountedSoFar(w)
           left == After(f, a)
           upto == Between(f, a, b)
           rest == After(f, b)
           found == Archive!RecordsIn(a, b)
<1>7. base \in Nat /\ base + Cardinality(left) <= attempted
  <2>1. CASE L < scanned[w]
    <3>1. base = 0 /\ a = 0
      BY <1>1, <2>1 DEF Archive!CountedSoFar, Archive!ScanFrom
    <3>2. Cardinality(left) \in Nat /\ Cardinality(left) <= attempted
      BY <1>1, <1>2, <3>1, AfterFinite DEF SizesInv, JournalSized
    <3> QED  BY <1>2, <3>1, <3>2
  <2>2. CASE ~(L < scanned[w])
    <3>1. base = count[w] /\ a = scanned[w]
      BY <1>1, <2>2 DEF Archive!CountedSoFar, Archive!ScanFrom
    <3> QED  BY <1>1, <1>2, <3>1 DEF SizesInv, JournalSized
  <2> QED  BY <2>1, <2>2
<1>8. /\ left = upto \union rest /\ upto \intersect rest = {} /\ found \subseteq upto
      /\ IsFiniteSet(left)
  <2>1. found \subseteq upto
    BY <1>1 DEF Archive!RecordsIn, Between
  <2>2. left = upto \union rest /\ upto \intersect rest = {}
    BY <1>1, <1>2, <1>3, <1>5 DEF After, Between
  <2> QED  BY <1>1, <1>2, <1>3, <2>1, <2>2, AfterFinite
<1>9. Archive!Caught(w) = base + Cardinality(found)
  BY <1>1, SameArchiveCardinality DEF Archive!Caught
<1> HIDE DEF base, left, upto, rest, found
<1>10. /\ IsFiniteSet(upto) /\ IsFiniteSet(rest) /\ IsFiniteSet(found)
       /\ Cardinality(upto) \in Nat /\ Cardinality(rest) \in Nat /\ Cardinality(found) \in Nat
       /\ Cardinality(found) <= Cardinality(upto)
  <2>1. upto \subseteq left /\ rest \subseteq left
    BY <1>8
  <2>2. IsFiniteSet(upto) /\ IsFiniteSet(rest)
    BY <1>8, <2>1, FS_Subset
  <2> QED  BY <1>8, <2>2, FS_Subset, FS_CardinalityType
<1>11. Cardinality(left) = Cardinality(upto) + Cardinality(rest)
  <2>1. Cardinality(upto \union rest)
          = Cardinality(upto) + Cardinality(rest) - Cardinality(upto \intersect rest)
    BY <1>10, FS_Union
  <2>2. Cardinality(upto \intersect rest) = 0
    BY <1>8, FS_EmptySet
  <2> QED  BY <1>8, <1>10, <2>1, <2>2
<1>12. /\ Archive!Caught(w) \in Nat
       /\ Archive!Caught(w) + Cardinality(rest) <= attempted
  BY <1>2, <1>7, <1>9, <1>10, <1>11
<1> QED  BY <1>1, <1>5, <1>6, <1>12 DEF rest

\* Texts stay what they are while more records are handed in.
LEMMA TextsGrow ==
  ASSUME NEW m \in Nat, NEW n \in Nat, m <= n
  PROVE  Texts(m) \subseteq Texts(n) /\ \A f \in Seq(Texts(m)) : f \in Seq(Texts(n))
<1>1. \A id \in 1..m, seq \in 0..m : id \in 1..n /\ seq \in 0..n
  OBVIOUS
<1>2. Texts(m) \subseteq Texts(n)
  BY <1>1 DEF Texts
<1>3. ASSUME NEW f \in Seq(Texts(m))  PROVE f \in Seq(Texts(n))
  <2>1. Len(f) \in Nat /\ f \in [1..Len(f) -> Texts(m)]
    BY LenProperties
  <2>2. f \in [1..Len(f) -> Texts(n)]
    BY <1>2, <2>1
  <2> QED  BY <2>1, <2>2, SeqDef
<1> QED  BY <1>2, <1>3

\* A longer file has no more records to count than before and those that came.
LEMMA MoreCounted ==
  ASSUME NEW f, NEW g, Len(f) \in Nat, Len(g) \in Nat, Len(f) <= Len(g),
         \A i \in 1..Len(f) : g[i] = f[i], NEW k \in Nat,
         \A i \in (Len(f) + 1)..Len(g) : g[i].text = "record" => \E j \in 1..k : i = Len(f) + 2 * j - 1,
         NEW n \in Nat
  PROVE  Cardinality(After(g, n)) <= Cardinality(After(f, n)) + k
<1>1. PICK L : L = Len(f)
  OBVIOUS
<1> DEFINE nth == [j \in 1..k |-> L + 2 * j - 1]
           came == {nth[j] : j \in 1..k}
<1>2. IsFiniteSet(came) /\ Cardinality(came) <= k /\ Cardinality(came) \in Nat
  <2>1. nth \in Surjection(1..k, came)
    BY DEF Surjection
  <2> HIDE DEF came, nth
  <2>2. IsFiniteSet(1..k) /\ Cardinality(1..k) = k
    <3>1. 1 \in Int /\ k \in Int
      OBVIOUS
    <3>2. IsFiniteSet(1..k) /\ Cardinality(1..k) = IF 1 > k THEN 0 ELSE k - 1 + 1
      BY <3>1, FS_Interval, Zenon
    <3> QED  BY <3>2
  <2>3. IsFiniteSet(came) /\ Cardinality(came) <= Cardinality(1..k)
    BY <2>1, <2>2, FS_Surjection
  <2> QED  BY <2>2, <2>3, FS_CardinalityType
<1>3. After(g, n) \subseteq After(f, n) \union came
  <2> SUFFICES ASSUME NEW i \in After(g, n), i \notin After(f, n) PROVE i \in came
    OBVIOUS
  <2>1. i \in (n + 1)..Len(g) /\ g[i].text = "record"
    BY DEF After, Between
  <2>2. ~(i <= L)
    BY <1>1, <2>1 DEF After, Between
  <2>3. PICK j \in 1..k : i = L + 2 * j - 1
    BY <1>1, <2>1, <2>2
  <2> QED  BY <2>3
<1> HIDE DEF came, nth
<1>4. IsFiniteSet(After(f, n)) /\ Cardinality(After(f, n)) \in Nat
      /\ Cardinality(After(g, n)) \in Nat
  BY AfterFinite
<1>5. /\ IsFiniteSet(After(f, n) \union came)
      /\ Cardinality(After(f, n) \union came)
           = Cardinality(After(f, n)) + Cardinality(came) - Cardinality(After(f, n) \intersect came)
  BY <1>2, <1>4, FS_Union
<1>6. Cardinality(After(f, n) \intersect came) \in Nat
  BY <1>4, FS_Intersection, FS_CardinalityType
<1>7. Cardinality(After(g, n)) <= Cardinality(After(f, n) \union came)
  BY <1>3, <1>5, FS_Subset
<1> QED  BY <1>2, <1>4, <1>5, <1>6, <1>7

\* A writer looks; it may also end a torn line.
LEMMA LookSized ==
  ASSUME SizesInv, NEW w \in Writers, Archive!Look(w), journalLock = None,
         journalLock' \in {None, w},
         \/ /\ journalFile' = journalFile
            /\ scanned' = [scanned EXCEPT ![w] = Archive!ScanTo(w)]
            /\ journalLock' = w => ~Archive!Torn(w)
         \/ /\ journalFile' = Append(journalFile, Archive!Newline) /\ Archive!Torn(w)
            /\ scanned' = [scanned EXCEPT ![w] = Len(journalFile) + 1],
         count' = [count EXCEPT ![w] = Archive!Caught(w)],
         UNCHANGED <<attempted, appended, spared, tears, truncations>>
  PROVE  SizesInv'
<1>1. PICK f, g, L, a, to, found : /\ f = journalFile /\ g = journalFile' /\ L = Len(f)
                                   /\ a = attempted /\ to = scanned'[w] /\ found = Archive!Caught(w)
  OBVIOUS
<1>2. /\ L \in Nat /\ a \in Nat /\ f \in Seq(Texts(a)) /\ L <= 3 * a
      /\ L + Unended(f) <= 3 * a /\ Unended(f) \in {0, 1}
      /\ \A v \in Writers : /\ scanned[v] \in Nat /\ scanned[v] <= 3 * a
                            /\ count[v] \in Nat /\ count[v] <= a
      /\ Cardinality(After(f, 0)) <= a
      /\ \A v \in Writers : count[v] + Cardinality(After(f, scanned[v])) <= a
  BY <1>1, SizesAre DEF SizesInv, JournalTypes, JournalSized, Unended
<1>3. /\ Archive!ScanTo(w) \in Nat /\ Archive!ScanTo(w) <= L /\ found \in Nat
      /\ found + Cardinality(After(f, Archive!ScanTo(w))) <= a
      /\ Archive!Torn(w) => Unended(f) = 1
  BY <1>1, ScanWithin
<1>4. /\ scanned \in [Writers -> 0..(3 * a)] /\ count \in [Writers -> 0..a]
  BY <1>1 DEF SizesInv, JournalTypes
<1>5. /\ scanned' = [scanned EXCEPT ![w] = to] /\ count' = [count EXCEPT ![w] = found]
      /\ attempted' = a
  BY <1>1, <1>4
<1>6. /\ g \in Seq(Texts(a)) /\ Len(g) \in Nat /\ Len(g) + Unended(g) <= 3 * a
      /\ to \in Nat /\ to <= 3 * a /\ (journalLock' = w => to = Len(g))
      /\ Cardinality(After(g, 0)) <= Cardinality(After(f, 0))
      /\ \A v \in Writers : Cardinality(After(g, scanned[v])) <= Cardinality(After(f, scanned[v]))
      /\ found + Cardinality(After(g, to)) <= a
  <2>1. CASE /\ journalFile' = journalFile
             /\ scanned' = [scanned EXCEPT ![w] = Archive!ScanTo(w)]
             /\ journalLock' = w => ~Archive!Torn(w)
    <3>1. g = f /\ to = Archive!ScanTo(w)
      BY <1>1, <1>4, <2>1
    <3>2. /\ Cardinality(After(f, 0)) \in Nat
          /\ \A v \in Writers : Cardinality(After(f, scanned[v])) \in Nat
      BY <1>1, <1>2, AfterFinite
    <3>3. journalLock' = w => to = L
      BY <1>1, <1>3, <2>1, <3>1 DEF Archive!Torn
    <3> QED  BY <1>1, <1>2, <1>3, <3>1, <3>2, <3>3
  <2>2. CASE /\ journalFile' = Append(journalFile, Archive!Newline) /\ Archive!Torn(w)
             /\ scanned' = [scanned EXCEPT ![w] = Len(journalFile) + 1]
    <3>1. to = L + 1 /\ g = Append(f, Archive!Newline) /\ Archive!Newline \in Texts(a)
      BY <1>1, <1>4, <2>2 DEF Texts
    <3>2. /\ g \in Seq(Texts(a)) /\ Len(g) = L + 1 /\ g[L + 1] = Archive!Newline
          /\ \A i \in 1..L : g[i] = f[i]
      BY <1>1, <1>2, <3>1, AppendProperties
    <3>3. Unended(f) = 1 /\ Unended(g) = 0
      BY <1>2, <1>3, <2>2, <3>2 DEF Unended
    <3>4. \A i \in (L + 1)..Len(g) : g[i].text # "record"
      <4>1. Archive!Newline.text # "record"
        BY DEF Archive!Newline
      <4> QED  BY <1>2, <3>2, <4>1
    <3>5. ASSUME NEW n \in Nat
          PROVE  /\ Cardinality(After(g, n)) <= Cardinality(After(f, n))
                 /\ Cardinality(After(f, n)) \in Nat /\ Cardinality(After(g, n)) \in Nat
      <4>1. Len(g) \in Nat /\ Len(f) <= Len(g)
        BY <1>1, <1>2, <3>2
      <4>2. Cardinality(After(f, n)) \in Nat /\ Cardinality(After(g, n)) \in Nat
        BY <1>1, <1>2, <4>1, AfterFinite
      <4>3. Cardinality(After(g, n)) <= Cardinality(After(f, n)) + 0
        BY <1>1, <1>2, <3>2, <3>4, <4>1, MoreCounted
      <4> QED  BY <4>2, <4>3
    <3>6. /\ Cardinality(After(g, 0)) <= Cardinality(After(f, 0))
          /\ \A v \in Writers : Cardinality(After(g, scanned[v])) <= Cardinality(After(f, scanned[v]))
          /\ Cardinality(After(f, Archive!ScanTo(w))) \in Nat
      BY <1>2, <1>3, <3>5
    <3>7. Cardinality(After(g, to)) = 0
      <4>1. After(g, to) = {}
        BY <1>2, <3>1, <3>2 DEF After, Between
      <4> QED  BY <4>1, FS_EmptySet
    <3>8. found <= a
      BY <1>2, <1>3, <3>6
    <3>9. L + 1 <= 3 * a
      BY <1>2, <3>3
    <3> QED  BY <1>2, <1>3, <3>1, <3>2, <3>3, <3>6, <3>7, <3>8, <3>9
  <2> QED  BY <2>1, <2>2
<1>7. /\ Cardinality(After(f, 0)) \in Nat /\ Cardinality(After(g, 0)) \in Nat
      /\ Cardinality(After(g, to)) \in Nat
      /\ \A v \in Writers : /\ Cardinality(After(f, scanned[v])) \in Nat
                            /\ Cardinality(After(g, scanned[v])) \in Nat
  BY <1>1, <1>2, <1>6, AfterFinite
<1>8. JournalSized'
  <2>1. Cardinality(After(g, 0)) <= a
    BY <1>2, <1>6, <1>7
  <2>2. ASSUME NEW v \in Writers  PROVE count'[v] + Cardinality(After(g, scanned'[v])) <= a
    <3>1. CASE v = w
      <4>1. count'[v] = found /\ scanned'[v] = to
        BY <1>4, <1>5, <3>1
      <4> QED  BY <1>6, <4>1
    <3>2. CASE v # w
      <4>1. count'[v] = count[v] /\ scanned'[v] = scanned[v]
        BY <1>4, <1>5, <3>2
      <4> QED  BY <1>2, <1>6, <1>7, <4>1, SMTT(30)
    <3> QED  BY <3>1, <3>2
  <2>3. JournalSized' = (/\ Len(g) + Unended(g) <= 3 * a
                         /\ Cardinality(After(g, 0)) <= a
                         /\ \A v \in Writers : count'[v] + Cardinality(After(g, scanned'[v])) <= a)
    BY <1>1, <1>5 DEF JournalSized, Unended, After, Between
  <2> QED  BY <1>6, <2>1, <2>2, <2>3
<1>9. JournalTypes'
  <2>1. found <= a /\ found \in 0..a /\ to \in 0..(3 * a)
    BY <1>2, <1>3, <1>6, <1>7
  <2>2. scanned' \in [Writers -> 0..(3 * a)] /\ count' \in [Writers -> 0..a]
    BY <1>4, <1>5, <2>1
  <2>3. unaware' \subseteq Writers /\ lookedLate' \in BOOLEAN
    BY DEF Archive!Look, SizesInv, JournalTypes
  <2> QED  BY <1>1, <1>5, <1>6, <2>2, <2>3 DEF SizesInv, JournalTypes
<1>10. JournalScanned'
  BY <1>1, <1>4, <1>5, <1>6 DEF JournalScanned
<1> QED  BY <1>8, <1>9, <1>10 DEF SizesInv

\* A write, whole or torn, of at most n records by who holds the lock.
LEMMA AddsSized ==
  ASSUME SizesInv, NEW w \in Writers, journalLock = w, journalLock' = None,
         NEW n \in Nat, n >= 1, attempted' = attempted + n, attempted' <= MaxEntries,
         NEW s \in Seq(Texts(attempted + n)), Len(s) <= 2 * n,
         \A i \in 1..Len(s) : s[i].text = "record" => \E j \in 1..n : i = 2 * j - 1,
         journalFile' = journalFile \o s,
         UNCHANGED <<unaware, lookedLate, truncations>>, tears' \in 0..MaxTears,
         \/ /\ Len(s) = 2 * n
            /\ scanned' = [scanned EXCEPT ![w] = @ + 2 * n] /\ count' = [count EXCEPT ![w] = @ + n]
         \/ scanned' = scanned /\ count' = count
         \/ scanned' = [scanned EXCEPT ![w] = 0] /\ count' = [count EXCEPT ![w] = 0],
         appended' \subseteq appended \union ((attempted + 1)..(attempted + n)),
         spared' \subseteq spared \union ((attempted + 1)..(attempted + n))
  PROVE  SizesInv'
<1>1. PICK f, g, L, a, m : /\ f = journalFile /\ g = journalFile' /\ L = Len(f)
                           /\ a = attempted /\ m = Len(s)
  OBVIOUS
<1>2. /\ L \in Nat /\ a \in Nat /\ f \in Seq(Texts(a)) /\ L <= 3 * a
      /\ L + Unended(f) <= 3 * a
      /\ \A v \in Writers : /\ scanned[v] \in Nat /\ scanned[v] <= 3 * a
                            /\ count[v] \in Nat /\ count[v] <= a
      /\ Cardinality(After(f, 0)) <= a
      /\ \A v \in Writers : count[v] + Cardinality(After(f, scanned[v])) <= a
      /\ scanned \in [Writers -> 0..(3 * a)] /\ count \in [Writers -> 0..a]
  BY <1>1, SizesAre DEF SizesInv, JournalTypes, JournalSized
<1>3. m \in Nat /\ m <= 2 * n /\ scanned[w] = L
  BY <1>1, SizeBounds, LenProperties DEF SizesInv, JournalScanned
<1>4. f \in Seq(Texts(a + n)) /\ s \in Seq(Texts(a + n))
  BY <1>1, <1>2, <1>3, TextsGrow
<1>5. /\ g \in Seq(Texts(a + n)) /\ Len(g) = L + m
      /\ \A i \in 1..L : g[i] = f[i]
      /\ \A h \in 1..m : g[L + h] = s[h]
  <2>1. /\ f \o s \in Seq(Texts(a + n)) /\ Len(f \o s) = Len(f) + Len(s)
        /\ \A i \in 1..Len(f) : (f \o s)[i] = f[i]
        /\ \A i \in 1..Len(s) : (f \o s)[Len(f) + i] = s[i]
    BY <1>4, Prefix
  <2> QED  BY <1>1, <2>1
<1>6. \A i \in (L + 1)..Len(g) : g[i].text = "record" => \E j \in 1..n : i = L + 2 * j - 1
  <2> SUFFICES ASSUME NEW i \in (L + 1)..Len(g), g[i].text = "record"
               PROVE  \E j \in 1..n : i = L + 2 * j - 1
    OBVIOUS
  <2>1. PICK h : h = i - L
    OBVIOUS
  <2>2. h \in 1..m /\ g[L + h] = s[h] /\ i = L + h
    <3>1. h \in 1..m /\ i = L + h
      BY <1>2, <1>3, <1>5, <2>1
    <3> QED  BY <1>5, <3>1
  <2>3. PICK j \in 1..n : h = 2 * j - 1
    BY <1>1, <2>2
  <2>4. i = L + 2 * j - 1
    BY <1>2, <2>2, <2>3
  <2> QED  BY <2>4
<1>7. Len(g) \in Nat /\ L <= Len(g) /\ Len(f) \in Nat
  BY <1>1, <1>2, <1>3, <1>5
<1>8. ASSUME NEW i \in Nat
      PROVE  /\ Cardinality(After(g, i)) <= Cardinality(After(f, i)) + n
             /\ Cardinality(After(f, i)) \in Nat /\ Cardinality(After(g, i)) \in Nat
  <2>1. Cardinality(After(f, i)) \in Nat /\ Cardinality(After(g, i)) \in Nat
    BY <1>7, AfterFinite
  <2>2. Cardinality(After(g, i)) <= Cardinality(After(f, i)) + n
    <3>1. /\ Len(f) <= Len(g) /\ \A j \in 1..Len(f) : g[j] = f[j]
          /\ \A j \in (Len(f) + 1)..Len(g) :
               g[j].text = "record" => \E h \in 1..n : j = Len(f) + 2 * h - 1
      BY <1>1, <1>5, <1>6, <1>7
    <3> QED  BY <1>7, <3>1, MoreCounted
  <2> QED  BY <2>1, <2>2
<1>9. Len(g) + Unended(g) <= 3 * (a + n)
  <2>1. 3 * (a + n) = 3 * a + 3 * n /\ 3 * n >= 2 * n + 1
    BY <1>2, <1>3
  <2>2. Unended(g) \in {0, 1}
    BY DEF Unended
  <2> QED  BY <1>2, <1>3, <1>5, <2>1, <2>2, SMTT(30)
<1>10. /\ Cardinality(After(g, 0)) <= a + n
       /\ \A v \in Writers : count[v] + Cardinality(After(g, scanned[v])) <= a + n
  <2>1. Cardinality(After(g, 0)) <= a + n
    <3>1. 0 \in Nat
      OBVIOUS
    <3>2. /\ Cardinality(After(g, 0)) <= Cardinality(After(f, 0)) + n
          /\ Cardinality(After(f, 0)) \in Nat /\ Cardinality(After(g, 0)) \in Nat
      BY <1>8, <3>1
    <3> QED  BY <1>2, <1>3, <3>2
  <2>2. ASSUME NEW v \in Writers  PROVE count[v] + Cardinality(After(g, scanned[v])) <= a + n
    <3>1. scanned[v] \in Nat
      BY <1>2
    <3>2. /\ Cardinality(After(g, scanned[v])) <= Cardinality(After(f, scanned[v])) + n
          /\ Cardinality(After(f, scanned[v])) \in Nat /\ Cardinality(After(g, scanned[v])) \in Nat
      BY <1>8, <3>1
    <3>3. count[v] \in Nat /\ count[v] + Cardinality(After(f, scanned[v])) <= a
      BY <1>2
    <3>4. a \in Nat /\ n \in Nat
      BY <1>2, <1>3
    <3> QED  BY <3>2, <3>3, <3>4
  <2> QED  BY <2>1, <2>2
<1>11. /\ scanned' \in [Writers -> 0..(3 * (a + n))] /\ count' \in [Writers -> 0..(a + n)]
       /\ \A v \in Writers : count'[v] + Cardinality(After(g, scanned'[v])) <= a + n
  <2>1. /\ 0..(3 * a) \subseteq 0..(3 * (a + n)) /\ 0..a \subseteq 0..(a + n)
        /\ 0 \in 0..(3 * (a + n)) /\ 0 \in 0..(a + n)
    <3>1. a \in Nat
      BY <1>2
    <3>2. PICK b, c, d : b = 3 * a /\ c = 3 * (a + n) /\ d = a + n
      OBVIOUS
    <3>3. b \in Nat /\ c \in Nat /\ d \in Nat /\ b <= c /\ a <= d
      <4>1. d = a + n /\ c = 3 * d /\ d \in Nat /\ a <= d /\ b = 3 * a
        BY <3>1, <3>2
      <4> QED  BY <3>1, <4>1
    <3>4. 0..b \subseteq 0..c /\ 0..a \subseteq 0..d /\ 0 \in 0..c /\ 0 \in 0..d
      BY <3>1, <3>3
    <3> QED  BY <3>2, <3>4
  <2>2. scanned \in [Writers -> 0..(3 * (a + n))] /\ count \in [Writers -> 0..(a + n)]
    BY <1>2, <2>1
  <2>3. CASE /\ m = 2 * n
             /\ scanned' = [scanned EXCEPT ![w] = @ + 2 * n] /\ count' = [count EXCEPT ![w] = @ + n]
    <3>1. /\ scanned[w] + 2 * n \in 0..(3 * (a + n)) /\ count[w] + n \in 0..(a + n)
      <4>1. PICK x, y : x = scanned[w] /\ y = count[w]
        OBVIOUS
      <4>2. x \in Nat /\ x <= 3 * a /\ y \in Nat /\ y <= a /\ a \in Nat
        BY <1>2, <4>1
      <4>3. x + 2 * n \in 0..(3 * (a + n)) /\ y + n \in 0..(a + n)
        BY <4>2, SMTT(30)
      <4> QED  BY <4>1, <4>3
    <3>2. After(g, L + 2 * n) = {}
      BY <1>2, <1>5, <2>3 DEF After, Between
    <3>3. Cardinality(After(g, L + 2 * n)) = 0
      BY <3>2, FS_EmptySet
    <3>4. ASSUME NEW v \in Writers  PROVE count'[v] + Cardinality(After(g, scanned'[v])) <= a + n
      <4>1. CASE v = w
        <5>1. count'[v] = count[w] + n /\ scanned'[v] = L + 2 * n
          BY <1>2, <1>3, <2>3, <4>1
        <5> QED  BY <1>2, <1>3, <3>1, <3>3, <5>1
      <4>2. CASE v # w
        <5>1. count'[v] = count[v] /\ scanned'[v] = scanned[v]
          BY <1>2, <2>3, <4>2
        <5> QED  BY <1>10, <5>1
      <4> QED  BY <4>1, <4>2
    <3> QED  BY <2>2, <2>3, <3>1, <3>4
  <2>4. CASE scanned' = scanned /\ count' = count
    BY <1>10, <2>2, <2>4
  <2>5. CASE scanned' = [scanned EXCEPT ![w] = 0] /\ count' = [count EXCEPT ![w] = 0]
    <3>1. ASSUME NEW v \in Writers  PROVE count'[v] + Cardinality(After(g, scanned'[v])) <= a + n
      <4>1. CASE v = w
        <5>1. count'[v] = 0 /\ scanned'[v] = 0
          BY <1>2, <2>5, <4>1
        <5>2. 0 \in Nat /\ Cardinality(After(g, 0)) \in Nat
          BY <1>8
        <5> QED  BY <1>10, <5>1, <5>2
      <4>2. CASE v # w
        <5>1. count'[v] = count[v] /\ scanned'[v] = scanned[v]
          BY <1>2, <2>5, <4>2
        <5> QED  BY <1>10, <5>1
      <4> QED  BY <4>1, <4>2
    <3> QED  BY <2>1, <2>2, <2>5, <3>1
  <2> QED  BY <1>1, <2>3, <2>4, <2>5
<1>12. attempted' = a + n
  BY <1>1
<1>13. JournalSized'
  <2>1. JournalSized' = (/\ Len(g) + Unended(g) <= 3 * (a + n)
                         /\ Cardinality(After(g, 0)) <= a + n
                         /\ \A v \in Writers : count'[v] + Cardinality(After(g, scanned'[v])) <= a + n)
    BY <1>1, <1>12 DEF JournalSized, Unended, After, Between
  <2> QED  BY <1>9, <1>10, <1>11, <2>1
<1>14. JournalTypes'
  <2>1. a + n \in 0..MaxEntries
    <3>1. a \in Nat /\ a + n <= MaxEntries /\ MaxEntries \in Nat
      BY <1>2, <1>12, SizeBounds
    <3> QED  BY <3>1
  <2>2. appended' \subseteq 1..(a + n) /\ spared' \subseteq 1..(a + n)
    <3>1. appended \subseteq 1..a /\ spared \subseteq 1..a
      BY <1>1 DEF SizesInv, JournalTypes
    <3>2. \A x \in 1..a : x \in 1..(a + n)
      BY <1>2, <1>3
    <3>3. \A x \in (a + 1)..(a + n) : x \in 1..(a + n)
      BY <1>2, <1>3
    <3> QED  BY <1>1, <3>1, <3>2, <3>3
  <2> QED  BY <1>1, <1>5, <1>11, <1>12, <2>1, <2>2 DEF SizesInv, JournalTypes
<1>15. JournalScanned'
  BY DEF JournalScanned
<1> QED  BY <1>13, <1>14, <1>15 DEF SizesInv

\* What an append would write.
LEMMA EntriesTexts ==
  ASSUME SizesInv, NEW w \in Writers, NEW n \in Nat, n >= 1
  PROVE  LET e == Archive!Entries(w, n)
         IN  /\ e \in Seq(Texts(attempted + n)) /\ Len(e) = 2 * n
             /\ \A i \in 1..Len(e) : e[i].text = "record" => \E j \in 1..n : i = 2 * j - 1
<1> DEFINE e == Archive!Entries(w, n)
<1>1. PICK a, c, d : a = attempted /\ c = count[w] /\ d = a + n
  OBVIOUS
<1>2. a \in Nat /\ c \in Nat /\ c <= a
  BY <1>1, SizesAre
<1>3. d \in Nat /\ 2 * n \in Nat
  BY <1>1, <1>2
<1>4. e = [i \in 1..(2 * n) |->
             IF i % 2 = 0 THEN Archive!Newline ELSE Archive!Record(a + (i + 1) \div 2, c + i \div 2)]
  BY <1>1 DEF Archive!Entries
<1>5. ASSUME NEW i \in 1..(2 * n)
      PROVE  /\ i % 2 = 0 => e[i] = Archive!Newline
             /\ i % 2 # 0 => \E j \in 1..n : i = 2 * j - 1 /\ e[i] = Archive!Record(a + j, c + i \div 2)
             /\ c + i \div 2 \in 0..d
  <2>1. i \div 2 \in 0..n /\ c + i \div 2 \in 0..d
    BY <1>1, <1>2
  <2>2. CASE i % 2 # 0
    <3>1. PICK j : j = (i + 1) \div 2
      OBVIOUS
    <3>2. j \in 1..n /\ i = 2 * j - 1
      BY <2>2, <3>1
    <3>3. e[i] = Archive!Record(a + j, c + i \div 2)
      BY <1>4, <2>2, <3>1
    <3> QED  BY <2>1, <2>2, <3>2, <3>3
  <2>3. CASE i % 2 = 0
    BY <1>4, <2>1, <2>3
  <2> QED  BY <2>2, <2>3
<1> HIDE DEF e
<1>6. \A i \in 1..(2 * n) : e[i] \in Texts(d)
  <2> SUFFICES ASSUME NEW i \in 1..(2 * n) PROVE e[i] \in Texts(d)
    OBVIOUS
  <2>1. CASE i % 2 = 0
    BY <1>5, <2>1 DEF Texts
  <2>2. CASE i % 2 # 0
    <3>1. PICK j \in 1..n : e[i] = Archive!Record(a + j, c + i \div 2)
      BY <1>5, <2>2
    <3>2. a + j \in 1..d /\ c + i \div 2 \in 0..d
      BY <1>1, <1>2, <1>5
    <3> QED  BY <3>1, <3>2 DEF Texts
  <2> QED  BY <2>1, <2>2
<1>7. e \in Seq(Texts(d)) /\ Len(e) = 2 * n
  <2>1. e \in [1..(2 * n) -> Texts(d)]
    BY <1>4, <1>6
  <2> QED  BY <1>3, <2>1, SeqDef, LenProperties
<1>8. ASSUME NEW i \in 1..(2 * n), e[i].text = "record"  PROVE \E j \in 1..n : i = 2 * j - 1
  <2>1. Archive!Newline.text # "record"
    BY DEF Archive!Newline
  <2> QED  BY <1>5, <1>8, <2>1
<1> QED  BY <1>1, <1>7, <1>8 DEF e

LEMMA WriteSized ==
  ASSUME SizesInv, NEW w \in Writers, NEW n \in 1..MaxBurst, Archive!Write(w, n)
  PROVE  SizesInv'
<1>1. n \in Nat /\ n >= 1
  BY SizeBounds
<1>2. PICK s : s = Archive!Entries(w, n)
  OBVIOUS
<1>3. /\ s \in Seq(Texts(attempted + n)) /\ Len(s) = 2 * n
      /\ \A i \in 1..Len(s) : s[i].text = "record" => \E j \in 1..n : i = 2 * j - 1
  BY <1>1, <1>2, EntriesTexts
<1>4. /\ journalLock = w /\ journalLock' = None /\ attempted' = attempted + n
      /\ attempted' <= MaxEntries /\ journalFile' = journalFile \o s
      /\ UNCHANGED <<unaware, lookedLate, truncations>> /\ tears' = tears
      /\ scanned' = [scanned EXCEPT ![w] = @ + 2 * n] /\ count' = [count EXCEPT ![w] = @ + n]
      /\ appended' = appended \union ((attempted + 1)..(attempted + n)) /\ spared' = spared
  BY <1>2 DEF Archive!Write, Archive!Holds
<1>5. tears' \in 0..MaxTears
  BY <1>4 DEF SizesInv, JournalTypes
<1>6. Len(s) <= 2 * n
  BY <1>1, <1>3
<1> QED  BY <1>1, <1>3, <1>4, <1>5, <1>6, AddsSized

LEMMA TearSized ==
  ASSUME SizesInv, NEW w \in Writers, NEW n \in 1..MaxBurst, Archive!Tear(w, n)
  PROVE  SizesInv'
<1>1. n \in Nat /\ n >= 1
  BY SizeBounds
<1>2. PICK e, S : e = Archive!Entries(w, n) /\ S = Texts(attempted + n)
  OBVIOUS
<1>3. /\ e \in Seq(S) /\ Len(e) = 2 * n
      /\ \A i \in 1..Len(e) : e[i].text = "record" => \E j \in 1..n : i = 2 * j - 1
  BY <1>1, <1>2, EntriesTexts
<1>4. PICK k \in 0..(n - 1), whole \in BOOLEAN :
        /\ journalFile' = journalFile \o Archive!Remains(w, k, whole)
        /\ spared' = IF whole THEN spared \union {attempted + k + 1} ELSE spared
  BY DEF Archive!Tear
<1>5. PICK s, m : s = Archive!Remains(w, k, whole) /\ m = 2 * k
  OBVIOUS
<1>6. Archive!Fragment \in S
  BY <1>2 DEF Texts
<1>7. /\ s \in Seq(S) /\ Len(s) <= 2 * n
      /\ \A i \in 1..Len(s) : s[i].text = "record" => \E j \in 1..n : i = 2 * j - 1
  <2>1. /\ s \in Seq(S) /\ Len(s) = m + 1 /\ \A i \in 1..m : s[i] = e[i]
        /\ s[m + 1] = IF whole THEN e[m + 1] ELSE Archive!Fragment
    BY <1>1, <1>2, <1>3, <1>5, <1>6, RemainsAre
  <2>2. m \in Nat /\ m + 1 <= 2 * n /\ 2 * n \in Nat
    BY <1>1, <1>5
  <2>3. ASSUME NEW i \in 1..(m + 1), s[i].text = "record"  PROVE \E j \in 1..n : i = 2 * j - 1
    <3>1. Archive!Fragment.text # "record"
      BY DEF Archive!Fragment
    <3>2. i \in 1..Len(e) /\ (i \in 1..m \/ i = m + 1)
      BY <1>3, <2>2
    <3>3. s[i] = e[i]
      BY <2>1, <2>3, <3>1, <3>2
    <3> QED  BY <1>3, <2>3, <3>2, <3>3
  <2> QED  BY <2>1, <2>2, <2>3
<1>8. /\ journalLock = w /\ journalLock' = None /\ attempted' = attempted + n
      /\ attempted' <= MaxEntries /\ tears < MaxTears /\ tears' = tears + 1
      /\ UNCHANGED <<unaware, lookedLate, truncations>> /\ appended' = appended
      /\ \/ scanned' = scanned /\ count' = count
         \/ scanned' = [scanned EXCEPT ![w] = 0] /\ count' = [count EXCEPT ![w] = 0]
  BY DEF Archive!Tear, Archive!Holds
<1>9. tears' \in 0..MaxTears
  BY <1>8, SizeBounds DEF SizesInv, JournalTypes
<1>10. appended' \subseteq appended \union ((attempted + 1)..(attempted + n))
  BY <1>8
<1>11. spared' \subseteq spared \union ((attempted + 1)..(attempted + n))
  <2>1. attempted \in Nat
    BY SizesAre
  <2>2. attempted + k + 1 \in (attempted + 1)..(attempted + n)
    BY <1>1, <2>1
  <2> QED  BY <1>4, <2>2
<1> QED  BY <1>1, <1>2, <1>4, <1>5, <1>7, <1>8, <1>9, <1>10, <1>11, AddsSized

LEMMA RestartSized ==
  ASSUME SizesInv, NEW w \in Writers, Archive!Restart(w)
  PROVE  SizesInv'
<1> USE DEF Archive!Restart
<1>1. attempted \in Nat /\ 0 \in 0..(3 * attempted) /\ 0 \in 0..attempted
  BY SizesAre
<1>2. JournalTypes'
  BY <1>1 DEF SizesInv, JournalTypes
<1>3. ASSUME NEW v \in Writers
      PROVE  count'[v] + Cardinality(After(journalFile, scanned'[v])) <= attempted
  <2>1. CASE v = w
    <3>1. count'[v] = 0 /\ scanned'[v] = 0
      BY <2>1 DEF SizesInv, JournalTypes
    <3>2. Len(journalFile) \in Nat /\ 0 \in Nat
      BY SizesAre
    <3>3. Cardinality(After(journalFile, 0)) \in Nat
      BY <3>2, AfterFinite
    <3> QED  BY <3>1, <3>3 DEF SizesInv, JournalSized
  <2>2. CASE v # w
    BY <2>2 DEF SizesInv, JournalTypes, JournalSized
  <2> QED  BY <2>1, <2>2
<1>4. JournalSized'
  BY <1>3 DEF SizesInv, JournalSized, Unended, After, Between
<1>5. JournalScanned'
  BY DEF SizesInv, JournalTypes, JournalScanned
<1> QED  BY <1>2, <1>4, <1>5 DEF SizesInv

LEMMA TruncateSized ==
  ASSUME SizesInv, Archive!Truncate
  PROVE  SizesInv'
<1> USE DEF Archive!Truncate
<1>1. PICK a, g : a = attempted /\ g = journalFile'
  OBVIOUS
<1>2. a \in Nat /\ g = <<>> /\ Len(g) = 0 /\ g \in Seq(Texts(a))
  BY <1>1, SizesAre
<1>3. \A x : x \in Nat => After(g, x) = {}
  BY <1>2 DEF After, Between
<1>4. Cardinality({}) = 0
  BY FS_EmptySet
<1>5. Cardinality(After(g, 0)) = 0
  <2>1. After(g, 0) = {}
    BY <1>3
  <2> QED  BY <1>4, <2>1
<1>6. ASSUME NEW v \in Writers  PROVE count[v] + Cardinality(After(g, scanned[v])) <= a
  <2>1. scanned[v] \in Nat /\ count[v] \in Nat /\ count[v] <= a
    BY <1>1, SizesAre
  <2>2. Cardinality(After(g, scanned[v])) = 0
    BY <1>3, <1>4, <2>1
  <2> QED  BY <2>1, <2>2
<1>7. Unended(g) = 0
  BY <1>2 DEF Unended
<1>8. JournalSized'
  <2>1. JournalSized' = (/\ Len(g) + Unended(g) <= 3 * a
                         /\ Cardinality(After(g, 0)) <= a
                         /\ \A v \in Writers : count[v] + Cardinality(After(g, scanned[v])) <= a)
    BY <1>1 DEF JournalSized, Unended, After, Between
  <2>2. 0 + 0 <= 3 * a /\ 0 <= a
    BY <1>2
  <2> QED  BY <1>2, <1>5, <1>6, <1>7, <2>1, <2>2
<1>9. JournalTypes'
  BY <1>1, <1>2, SizeBounds DEF SizesInv, JournalTypes
<1>10. JournalScanned'
  BY DEF JournalScanned
<1> QED  BY <1>8, <1>9, <1>10 DEF SizesInv

LEMMA SequenceSized ==
  ASSUME SizesInv, NEW w \in Writers, Archive!Sequence(w)
  PROVE  SizesInv'
<1>1. None \notin Writers
  BY SizeBounds
<1>2. /\ Archive!Look(w) /\ journalLock = None /\ journalLock' = None /\ journalFile' = journalFile
      /\ scanned' = [scanned EXCEPT ![w] = Archive!ScanTo(w)]
      /\ count' = [count EXCEPT ![w] = Archive!Caught(w)]
      /\ UNCHANGED <<attempted, appended, spared, tears, truncations>>
  BY DEF Archive!Sequence
<1>3. journalLock' \in {None, w} /\ (journalLock' = w => ~Archive!Torn(w))
  BY <1>1, <1>2
<1> QED  BY <1>2, <1>3, LookSized

LEMMA StartSized ==
  ASSUME SizesInv, NEW w \in Writers, Archive!StartAppend(w)
  PROVE  SizesInv'
<1>1. /\ Archive!Look(w) /\ journalLock = None /\ journalLock' = w
      /\ count' = [count EXCEPT ![w] = Archive!Caught(w)]
      /\ UNCHANGED <<attempted, appended, spared, tears, truncations>>
  BY DEF Archive!StartAppend
<1>2. journalLock' \in {None, w}
  BY <1>1
<1>3. CASE Archive!Torn(w)
  <2>1. /\ journalFile' = Append(journalFile, Archive!Newline)
        /\ scanned' = [scanned EXCEPT ![w] = Len(journalFile) + 1]
    BY <1>3 DEF Archive!StartAppend
  <2> QED  BY <1>1, <1>2, <1>3, <2>1, LookSized
<1>4. CASE ~Archive!Torn(w)
  <2>1. journalFile' = journalFile /\ scanned' = [scanned EXCEPT ![w] = Archive!ScanTo(w)]
    BY <1>4 DEF Archive!StartAppend
  <2> QED  BY <1>1, <1>2, <1>4, <2>1, LookSized
<1> QED  BY <1>3, <1>4

LEMMA SizesStepKept ==
  ASSUME SizesInv, Archive!Next
  PROVE  SizesInv'
<1>1. ASSUME NEW w \in Writers, Archive!Sequence(w) \/ Archive!StartAppend(w) \/ Archive!Restart(w)
      PROVE  SizesInv'
  BY <1>1, SequenceSized, StartSized, RestartSized
<1>2. ASSUME NEW w \in Writers, NEW n \in 1..MaxBurst, Archive!Write(w, n) \/ Archive!Tear(w, n)
      PROVE  SizesInv'
  BY <1>2, WriteSized, TearSized
<1> QED  BY <1>1, <1>2, TruncateSized DEF Archive!Next

LEMMA SizesUnchanged ==
  ASSUME SizesInv, UNCHANGED journalVars
  PROVE  SizesInv'
  BY DEF journalVars, SizesInv, JournalTypes, JournalSized, JournalScanned, Unended, After, Between

LEMMA SizesBegin ==
  ASSUME Archive!Init
  PROVE  SizesInv
<1> USE DEF Archive!Init
<1>1. PICK f : f = journalFile
  OBVIOUS
<1>2. f = <<>> /\ Len(f) = 0 /\ f \in Seq(Texts(0))
  BY <1>1
<1>3. After(f, 0) = {} /\ Cardinality({}) = 0 /\ Unended(f) = 0
  BY <1>2, FS_EmptySet DEF After, Between, Unended
<1>4. JournalTypes
  <2>1. attempted = 0 /\ journalFile \in Seq(Texts(attempted))
    BY <1>1, <1>2
  <2>2. 0 \in 0..(3 * attempted) /\ 0 \in 0..attempted /\ attempted \in 0..MaxEntries
    BY <2>1, SizeBounds
  <2>3. scanned \in [Writers -> 0..(3 * attempted)] /\ count \in [Writers -> 0..attempted]
    BY <2>2
  <2>4. /\ journalLock \in Writers \union {None} /\ appended \subseteq 1..attempted
        /\ spared \subseteq 1..attempted
        /\ unaware \subseteq Writers /\ lookedLate \in BOOLEAN
        /\ tears \in 0..MaxTears /\ truncations \in 0..MaxTruncations
    <3>1. journalLock \in Writers \union {None} /\ appended \subseteq 1..attempted
          /\ spared \subseteq 1..attempted
      OBVIOUS
    <3>2. unaware \subseteq Writers /\ lookedLate \in BOOLEAN
      OBVIOUS
    <3>3. tears \in 0..MaxTears /\ truncations \in 0..MaxTruncations
      BY SizeBounds
    <3> QED  BY <3>1, <3>2, <3>3
  <2> HIDE DEF Archive!Init
  <2> QED  BY <2>1, <2>2, <2>3, <2>4 DEF JournalTypes
<1>5. JournalSized
  <2>1. attempted = 0 /\ Len(journalFile) = 0 /\ Unended(journalFile) = 0
        /\ Cardinality(After(journalFile, 0)) = 0
    BY <1>1, <1>2, <1>3
  <2>2. ASSUME NEW w \in Writers  PROVE count[w] + Cardinality(After(journalFile, scanned[w])) <= attempted
    <3>1. count[w] = 0 /\ scanned[w] = 0
      OBVIOUS
    <3> QED  BY <2>1, <3>1
  <2>3. Len(journalFile) + Unended(journalFile) <= 3 * attempted
        /\ Cardinality(After(journalFile, 0)) <= attempted
    <3>1. 0 + 0 <= 3 * 0 /\ 0 <= 0
      OBVIOUS
    <3> QED  BY <2>1, <3>1, Zenon
  <2> HIDE DEF Archive!Init
  <2> QED  BY <2>2, <2>3 DEF JournalSized
<1>6. JournalScanned
  BY DEF JournalScanned
<1> QED  BY <1>4, <1>5, <1>6 DEF SizesInv

LEMMA SizesInvariant == Spec => []SizesInv
<1>1. Init => SizesInv
  BY SizesBegin DEF Init
<1>2. ASSUME SizesInv, [Next]_vars
      PROVE  SizesInv'
  <2>1. CASE JournalStep
    BY <1>2, <2>1, SizesStepKept DEF JournalStep
  <2>2. CASE PollStep \/ BucketStep \/ TailStep \/ QueueStep \/ FeedStep
    <3>1. UNCHANGED journalVars
      BY <2>2 DEF PollStep, BucketStep, TailStep, QueueStep, FeedStep
    <3> QED  BY <1>2, <3>1, SizesUnchanged
  <2>3. CASE UNCHANGED vars
    <3>1. UNCHANGED journalVars
      BY <2>3 DEF vars
    <3> QED  BY <1>2, <3>1, SizesUnchanged
  <2> QED  BY <1>2, <2>1, <2>2, <2>3 DEF Next
<1> QED  BY <1>1, <1>2, PTL DEF Spec

\* The types of the parts are in what was shown of each.
LEMMA TypesFollow ==
  ASSUME SourcesInv, DurableInv, SizesInv
  PROVE  TypeOK
<1>1. Poll!TypeOK
  <2>1. /\ seen \in Seq(Poll!Records) /\ events \in Seq(Poll!Records)
        /\ file \in [cursor : Poll!Cursors, seen : Seq(Poll!Records)] /\ Len(file.seen) <= SeenCap
        /\ kind \in Kinds /\ server \in 0..MaxRecords /\ horizon \in 0..server
        /\ pc \in {"idle", "page", "save", "returned"} /\ url \in 0..MaxRecords /\ cursor \in Poll!Cursors
        /\ pages \in 0..MaxPages /\ attempt \in 1..MaxRetries /\ refreshed \in BOOLEAN
        /\ ingested \in [Poll!Records -> 0..2] /\ dropped \subseteq Poll!Records
    BY DEF SourcesInv, PollInv, PollTypes
  <2>2. ASSUME NEW q \in Seq(Poll!Records)  PROVE Poll!SetOf(q) \subseteq Poll!Records
    <3>1. Len(q) \in Nat /\ \A i \in 1..Len(q) : q[i] \in Poll!Records
      BY LenProperties, ElementOfSeq
    <3> QED  BY <3>1 DEF Poll!SetOf
  <2> QED  BY <2>1, <2>2 DEF Poll!TypeOK
<1>2. Bucket!TypeOK
  <2>1. /\ objects \subseteq Bucket!Keys /\ late \subseteq objects /\ objectsDropped \subseteq Bucket!Keys
        /\ objectFile \in [last : 0..MaxKey, seen : Seq(Bucket!Keys)] /\ Len(objectFile.seen) <= SeenKeys
        /\ objectPc \in {"idle", "list", "read", "save", "returned"}
        /\ last \in 0..MaxKey /\ objectEvents \in Seq(Bucket!Keys) /\ Len(todo) <= MaxObjects
        /\ objectsIngested \in [Bucket!Keys -> 0..2]
    BY DEF SourcesInv, ObjectInv, ObjectTypes
  <2>2. Bucket!ToSet(objectEvents) \subseteq Bucket!Keys
    <3>1. Len(objectEvents) \in Nat /\ \A i \in 1..Len(objectEvents) : objectEvents[i] \in Bucket!Keys
      BY <2>1, LenProperties, ElementOfSeq
    <3> QED  BY <3>1 DEF Bucket!ToSet
  <2> QED  BY <2>1, <2>2 DEF Bucket!TypeOK
<1>3. Tail_!TypeOK /\ Queue!TypeOK
  BY DEF SourcesInv, TailInv, DurableInv
<1>4. Archive!TypeOK
  <2>1. attempted \in Nat /\ attempted <= MaxEntries /\ MaxEntries \in Nat
    BY SizesAre, SizeBounds
  <2>2. /\ 0..(3 * attempted) \subseteq 0..(3 * MaxEntries) /\ 0..attempted \subseteq 0..MaxEntries
    <3>1. 3 * attempted <= 3 * MaxEntries /\ 3 * attempted \in Nat /\ 3 * MaxEntries \in Nat
      BY <2>1
    <3> QED  BY <2>1, <3>1
  <2>3. /\ scanned \in [Writers -> 0..(3 * MaxEntries)] /\ count \in [Writers -> 0..MaxEntries]
    BY <2>2 DEF SizesInv, JournalTypes
  <2>4. \A i \in 1..Len(journalFile) : journalFile[i] \in Texts(attempted)
    BY SizesAre
  <2> QED  BY <2>3, <2>4 DEF SizesInv, JournalTypes, Texts, Archive!TypeOK
<1> QED  BY <1>1, <1>2, <1>3, <1>4 DEF TypeOK

\* The windows of ids and keys, the resume points, the counters and rows of the
\* queue and what each writer of the journal has scanned and counted stay within
\* their bounds, for any sizes (connectors.py, event_queue.py, archive.py).
THEOREM SourcesTyped == Spec => []TypeOK
<1>1. SourcesInv /\ DurableInv /\ SizesInv => TypeOK
  BY TypesFollow
<1>2. Spec => []DurableInv
  BY DurableInvariant
<1> QED  BY <1>1, <1>2, SourcesHold, SizesInvariant, PTL
===============================================================================
