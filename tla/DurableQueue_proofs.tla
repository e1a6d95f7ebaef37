-------------------------- MODULE DurableQueue_proofs --------------------------
(***************************************************************************)
(* The durable queue, for any number of processes, threads, rows and        *)
(* failures: the bounds on what waits and on what is kept acknowledged, and *)
(* what a push, an operator and a compaction may never do to a row.         *)
(***************************************************************************)
EXTENDS MCIntake, FiniteSetTheorems, WellFoundedInduction, TLAPS
-------------------------------------------------------------------------------
(* Sums, as sets of pairs: f[x] of them for each x.                         *)

Tokens(S, n, f) == {x \in S \X (1..n) : x[2] <= f[x[1]]}

LEMMA CountTo == \A n \in Nat : IsFiniteSet(1..n) /\ Cardinality(1..n) = n
  BY FS_Interval

LEMMA CountFrom ==
  \A a, n \in Nat : IsFiniteSet((a + 1)..(a + n)) /\ Cardinality((a + 1)..(a + n)) = n
  BY FS_Interval

LEMMA TokensFinite ==
  ASSUME NEW S, IsFiniteSet(S), NEW n \in Nat, NEW f
  PROVE  IsFiniteSet(Tokens(S, n, f)) /\ Cardinality(Tokens(S, n, f)) <= Cardinality(S) * n
<1>1. IsFiniteSet(1..n) /\ Cardinality(1..n) = n
  BY FS_Interval
<1>2. IsFiniteSet(S \X (1..n)) /\ Cardinality(S \X (1..n)) = Cardinality(S) * n
  BY <1>1, FS_Product
<1> QED  BY <1>2, FS_Subset DEF Tokens

\* The pairs of one element apart.
LEMMA TokensApart ==
  ASSUME NEW S, IsFiniteSet(S), NEW n \in Nat, NEW f, NEW p \in S, f[p] \in 0..n
  PROVE  /\ Cardinality(Tokens(S, n, f)) = Cardinality(Tokens(S \ {p}, n, f)) + f[p]
         /\ Cardinality(Tokens(S \ {p}, n, f)) \in Nat
<1> DEFINE rest == Tokens(S \ {p}, n, f)
           mine == {p} \X (1..f[p])
<1>7. f[p] \in Nat
  OBVIOUS
<1>1. IsFiniteSet(rest) /\ Cardinality(rest) \in Nat
  <2>1. IsFiniteSet(S \ {p})
    BY FS_RemoveElement
  <2>2. IsFiniteSet(rest)
    BY <2>1, TokensFinite
  <2> QED  BY <2>2, FS_CardinalityType
<1>2. IsFiniteSet(mine) /\ Cardinality(mine) = f[p]
  <2>1. IsFiniteSet(1..f[p]) /\ Cardinality(1..f[p]) = f[p]
    BY <1>7, CountTo, Zenon
  <2>2. IsFiniteSet({p}) /\ Cardinality({p}) = 1
    BY FS_Singleton
  <2>3. Cardinality({p} \X (1..f[p])) = 1 * f[p] /\ IsFiniteSet({p} \X (1..f[p]))
    BY <2>1, <2>2, FS_Product
  <2> QED  BY <2>3
<1>3. Tokens(S, n, f) = rest \union mine
  <2>1. ASSUME NEW x \in Tokens(S, n, f)  PROVE x \in rest \union mine
    BY <2>1 DEF Tokens
  <2>2. ASSUME NEW x \in rest  PROVE x \in Tokens(S, n, f)
    BY <2>2 DEF Tokens
  <2>3. ASSUME NEW x \in mine  PROVE x \in Tokens(S, n, f)
    BY <2>3 DEF Tokens
  <2> QED  BY <2>1, <2>2, <2>3
<1>4. rest \intersect mine = {}
  BY DEF Tokens
<1>5. Cardinality(rest \union mine) = Cardinality(rest) + Cardinality(mine) - Cardinality(rest \intersect mine)
  BY <1>1, <1>2, FS_Union
<1>6. Cardinality(rest \intersect mine) = 0
  BY <1>4, FS_EmptySet
<1> HIDE DEF rest, mine
<1>8. Cardinality(rest \union mine) = Cardinality(rest) + f[p]
  BY <1>1, <1>2, <1>5, <1>6, <1>7
<1> QED  BY <1>1, <1>3, <1>8 DEF rest

\* Only the values at the elements of S count.
LEMMA TokensSame ==
  ASSUME NEW S, NEW n \in Nat, NEW f, NEW g, \A x \in S : f[x] = g[x]
  PROVE  Tokens(S, n, f) = Tokens(S, n, g)
<1>1. \A x \in S \X (1..n) : f[x[1]] = g[x[1]]
  OBVIOUS
<1> QED  BY <1>1 DEF Tokens

\* One element's value changes.
LEMMA TokensChange ==
  \A S, f, g : \A n \in Nat : \A p \in S :
    IsFiniteSet(S) /\ f[p] \in 0..n /\ g[p] \in 0..n /\ (\A x \in S \ {p} : f[x] = g[x]) =>
      /\ Cardinality(Tokens(S, n, g)) = Cardinality(Tokens(S, n, f)) - f[p] + g[p]
      /\ Cardinality(Tokens(S, n, f)) \in Nat /\ Cardinality(Tokens(S, n, g)) \in Nat
      /\ Cardinality(Tokens(S, n, f)) >= f[p]
<1> SUFFICES ASSUME NEW S, NEW f, NEW g, NEW n \in Nat, NEW p \in S, IsFiniteSet(S),
                    f[p] \in 0..n, g[p] \in 0..n, \A x \in S \ {p} : f[x] = g[x]
             PROVE  /\ Cardinality(Tokens(S, n, g)) = Cardinality(Tokens(S, n, f)) - f[p] + g[p]
                    /\ Cardinality(Tokens(S, n, f)) \in Nat /\ Cardinality(Tokens(S, n, g)) \in Nat
                    /\ Cardinality(Tokens(S, n, f)) >= f[p]
  OBVIOUS
<1>1. Tokens(S \ {p}, n, f) = Tokens(S \ {p}, n, g)
  BY TokensSame
<1>2. /\ Cardinality(Tokens(S, n, f)) = Cardinality(Tokens(S \ {p}, n, f)) + f[p]
      /\ Cardinality(Tokens(S \ {p}, n, f)) \in Nat
  BY TokensApart
<1>3. Cardinality(Tokens(S, n, g)) = Cardinality(Tokens(S \ {p}, n, g)) + g[p]
  BY TokensApart
<1> QED  BY <1>1, <1>2, <1>3
-------------------------------------------------------------------------------
(* The inductive invariant.                                                *)

SmallerOf(a, b) == IF a < b THEN a ELSE b

\* A thread between a check and its write holds its process's lock.
QueueLocked ==
  /\ \A t \in Threads : queuePc[t] \in {"insert", "delete"} <=> lock[Queue!ProcOf[t]] = t
  /\ \A p \in Procs : lock[p] # None => Queue!ProcOf[lock[p]] = p

QueueOwing == \A t \in Threads : queuePc[t] # "count" => owed[t] = 0

\* The rows a process may add for the push it is in.
Inserting(p) == lock[p] # None /\ queuePc[lock[p]] = "insert"
BurstOf == [p \in Queue!Sharers |-> IF Inserting(p) THEN SmallerOf(MaxBurst, room[lock[p]]) ELSE 0]
InFlight == Tokens(Queue!Sharers, MaxBurst, BurstOf)

\* Alone, a process finds room for what it inserts; several exceed the bound by
\* what the others had in flight.
QueueRoom ==
  Cardinality(Queue!Sharers) = 1 =>
    \A t \in Threads : queuePc[t] = "insert" => room[t] = Queue!RoomNow

QueueWaiting ==
  Queue!Operators = {} =>
    Cardinality(Queue!Pending) + Cardinality(InFlight)
      <= MaxPending + (Cardinality(Queue!Sharers) - 1) * MaxBurst

\* Acknowledged rows that no compaction under way will delete.
Beyond == {o \in Queue!RowsIn("acked") : \A t \in Threads : queuePc[t] = "delete" => o > ceiling[t]}
Owing == Tokens(Threads, MaxOffset, owed)

\* While nobody is about to read a ceiling, they were counted, or will be.
QueueAcked ==
  (\A t \in Threads : queuePc[t] # "compact") /\ (\A p \in Queue!Sharers : acks[p] < CompactAfter)
    => Cardinality(Beyond) <= 1 + Cardinality(Queue!Counted) + Cardinality(Owing)

QueueCeilings ==
  Queue!OperatorsKeepOut => \A t \in Threads : queuePc[t] = "delete" => ceiling[t] < Queue!Checkpoint

DurableInv ==
  /\ Queue!TypeOK /\ QueueLocked /\ QueueOwing
  /\ QueueRoom /\ QueueWaiting /\ QueueAcked /\ QueueCeilings
-------------------------------------------------------------------------------
\* The instance counts as this module does.
LEMMA SameFinite == \A S : Queue!IsFiniteSet(S) <=> IsFiniteSet(S)
  BY DEF Queue!IsFiniteSet, IsFiniteSet

LEMMA SameCardinality == \A S : Queue!Cardinality(S) = Cardinality(S)
  BY DEF Queue!Cardinality, Cardinality

LEMMA DurableBounds ==
  /\ MaxOffset \in Nat /\ MaxPending \in Nat \ {0} /\ MaxBurst \in Nat \ {0}
  /\ CompactAfter \in Nat \ {0} /\ Chunk \in Nat \ {0}
  /\ None \notin Threads /\ IsFiniteSet(Threads) /\ Threads # {}
  /\ Sharings \subseteq [procOf : [Threads -> Procs], operators : SUBSET Threads]
  BY IntakeAssumption, SameFinite DEF Queue!QueueAssumption

LEMMA OffsetsFinite == IsFiniteSet(Queue!Offsets) /\ Cardinality(Queue!Offsets) = MaxOffset
  BY DurableBounds, CountTo DEF Queue!Offsets

\* Rows of any kind can be counted.
LEMMA RowsCounted ==
  \A S \in SUBSET Queue!Offsets : IsFiniteSet(S) /\ Cardinality(S) \in Nat /\ Cardinality(S) <= MaxOffset
<1> SUFFICES ASSUME NEW S \in SUBSET Queue!Offsets
             PROVE  IsFiniteSet(S) /\ Cardinality(S) \in Nat /\ Cardinality(S) <= MaxOffset
  OBVIOUS
<1>1. IsFiniteSet(S) /\ Cardinality(S) <= Cardinality(Queue!Offsets)
  BY OffsetsFinite, FS_Subset
<1> QED  BY <1>1, OffsetsFinite, FS_CardinalityType

LEMMA SharersCounted ==
  ASSUME sharing \in Sharings
  PROVE  /\ Queue!ProcOf \in [Threads -> Procs] /\ Queue!Operators \subseteq Threads
         /\ Queue!Sharers \subseteq Procs /\ \A t \in Threads : Queue!ProcOf[t] \in Queue!Sharers
         /\ IsFiniteSet(Queue!Sharers) /\ Cardinality(Queue!Sharers) \in Nat \ {0}
<1>1. /\ Queue!ProcOf \in [Threads -> Procs] /\ Queue!Operators \subseteq Threads
      /\ Queue!Sharers \subseteq Procs /\ \A t \in Threads : Queue!ProcOf[t] \in Queue!Sharers
  BY DurableBounds DEF Queue!ProcOf, Queue!Operators, Queue!Sharers
<1>2. Queue!ProcOf \in Surjection(Threads, Queue!Sharers)
  BY <1>1 DEF Surjection, Queue!Sharers
<1>3. IsFiniteSet(Queue!Sharers)
  BY <1>2, DurableBounds, FS_Surjection
<1>4. Queue!Sharers # {}
  BY <1>1, DurableBounds
<1> QED  BY <1>1, <1>3, <1>4, FS_CardinalityType, FS_EmptySet

\* What an update of rows leaves.
LEMMA BecomeRows ==
  ASSUME Queue!TypeOK, NEW S \in SUBSET Queue!Offsets,
         NEW status \in {"pending", "acked", "dead", "gone"}, row' = Queue!Become(S, status)
  PROVE  /\ row' \in [Queue!Offsets -> {"free", "pending", "acked", "dead", "gone"}]
         /\ \A o \in Queue!Offsets : row'[o] = IF o \in S THEN status ELSE row[o]
  BY DEF Queue!TypeOK, Queue!Become
-------------------------------------------------------------------------------
LEMMA RoomTyped == ASSUME Queue!TypeOK PROVE
  /\ Queue!RoomNow \in 0..MaxPending
  /\ Cardinality(Queue!Pending) \in Nat
  /\ Queue!RoomNow # 0 => Queue!RoomNow = MaxPending - Cardinality(Queue!Pending)
<1>1. Cardinality(Queue!Pending) \in Nat
  BY RowsCounted DEF Queue!Pending, Queue!RowsIn
<1> QED  BY <1>1, SameCardinality, DurableBounds DEF Queue!RoomNow

LEMMA GreatestChosen ==
  ASSUME NEW n \in Nat, NEW S \in SUBSET (1..n), S # {}
  PROVE  Queue!Max(S) \in S /\ \A x \in S : x <= Queue!Max(S)
<1> DEFINE below == {k \in 0..n : \E x \in S : x + k = n}
<1>1. below \subseteq Nat /\ below # {}
  <2>1. PICK x \in S : TRUE
    OBVIOUS
  <2>2. n - x \in 0..n /\ x + (n - x) = n
    BY <2>1
  <2> QED  BY <2>2
<1>2. PICK least \in below : \A y \in below : ~(<<y, least>> \in OpToRel(<, Nat))
  BY <1>1, WFMin, NatLessThanWellFounded
<1>3. ASSUME NEW y \in below  PROVE least <= y
  <2>1. SUFFICES ASSUME y < least  PROVE FALSE
    OBVIOUS
  <2>2. <<y, least>> \in Nat \X Nat /\ <<y, least>>[1] < <<y, least>>[2]
    BY <1>1, <2>1
  <2>3. <<y, least>> \in OpToRel(<, Nat)
    BY <2>2, Zenon DEF OpToRel
  <2> QED  BY <1>2, <2>3
<1>4. PICK m \in S : m + least = n
  OBVIOUS
<1>5. ASSUME NEW x \in S  PROVE m >= x
  <2>1. n - x \in below
    OBVIOUS
  <2>2. least <= n - x
    BY <1>3, <2>1
  <2>3. x \in 1..n /\ m \in 1..n /\ least \in 0..n
    OBVIOUS
  <2> HIDE DEF below
  <2> QED  BY <1>4, <2>2, <2>3
<1> QED  BY <1>5 DEF Queue!Max

LEMMA CheckpointIs ==
  ASSUME NEW rows \in [Queue!Offsets -> {"free", "pending", "acked", "dead", "gone"}]
  PROVE  /\ Queue!CheckpointOf(rows) \in 0..MaxOffset
         /\ Queue!CheckpointOf(rows) # 0 => rows[Queue!CheckpointOf(rows)] = "acked"
         /\ \A o \in Queue!Offsets : rows[o] = "acked" => o <= Queue!CheckpointOf(rows)
<1> DEFINE acked == {o \in Queue!Offsets : rows[o] = "acked"}
<1>0. Queue!CheckpointOf(rows) = IF acked = {} THEN 0 ELSE Queue!Max(acked)
  BY DEF Queue!CheckpointOf
<1>1. CASE acked = {}
  BY <1>0, <1>1, DurableBounds
<1>2. CASE acked # {}
  <2>1. Queue!Max(acked) \in acked /\ \A o \in acked : o <= Queue!Max(acked)
    BY <1>2, DurableBounds, GreatestChosen DEF Queue!Offsets
  <2> QED  BY <1>0, <1>2, <2>1 DEF Queue!Offsets
<1> QED  BY <1>1, <1>2
-------------------------------------------------------------------------------
(* Types, locks and what is owed.                                          *)

LEMMA DurableTyped ==
  ASSUME DurableInv, Queue!Next
  PROVE  Queue!TypeOK' /\ QueueLocked' /\ QueueOwing'
<1> USE DEF DurableInv, Queue!Take, Queue!LockFree, Queue!Release, Queue!Go, Queue!ProcOf
<1>0. /\ \A t \in Threads : Queue!ProcOf[t] \in Procs
      /\ Queue!Sharers \subseteq Procs
      /\ None \notin Threads
  BY SharersCounted, DurableBounds DEF Queue!TypeOK
<1>1. ASSUME NEW t \in Threads, Queue!PushCheck(t)
      PROVE  Queue!TypeOK' /\ QueueLocked' /\ QueueOwing'
  <2> USE <1>1 DEF Queue!PushCheck
  <2>1. Queue!RoomNow \in 0..MaxPending
    BY RoomTyped
  <2>2. Queue!TypeOK'
    BY <1>0, <2>1 DEF Queue!TypeOK
  <2>3. QueueLocked'
    BY <1>0 DEF Queue!TypeOK, QueueLocked
  <2>4. QueueOwing'
    BY DEF Queue!TypeOK, QueueOwing
  <2> QED  BY <2>2, <2>3, <2>4
<1>2. ASSUME NEW t \in Threads, NEW burst \in 1..MaxBurst, Queue!PushInsert(t, burst)
      PROVE  Queue!TypeOK' /\ QueueLocked' /\ QueueOwing'
  <2> USE <1>2 DEF Queue!PushInsert
  <2> DEFINE accepted == IF burst < room[t] THEN burst ELSE room[t]
  <2>1. accepted \in Nat /\ lastOffset \in 0..MaxOffset /\ lastOffset + accepted \in 0..MaxOffset
    BY DurableBounds DEF Queue!TypeOK
  <2>2. (lastOffset + 1)..(lastOffset + accepted) \subseteq Queue!Offsets
    BY <2>1, DurableBounds DEF Queue!Offsets
  <2>3. /\ row' \in [Queue!Offsets -> {"free", "pending", "acked", "dead", "gone"}]
        /\ \A o \in Queue!Offsets :
             row'[o] = IF o \in (lastOffset + 1)..(lastOffset + accepted) THEN "pending" ELSE row[o]
    <3>1. row' = Queue!Become((lastOffset + 1)..(lastOffset + accepted), "pending")
      OBVIOUS
    <3> HIDE DEF accepted
    <3> QED  BY <2>2, <3>1, BecomeRows
  <2>4. \A o \in Queue!Offsets : row'[o] = "free" <=> o > lastOffset + accepted
    <3>1. \A o \in Queue!Offsets : o \in Int /\ (row[o] = "free" <=> o > lastOffset)
      BY DEF Queue!TypeOK, Queue!Offsets
    <3> HIDE DEF accepted
    <3> QED  BY <2>1, <2>3, <3>1
  <2>5. lastOffset' = lastOffset + accepted /\ room' = [room EXCEPT ![t] = 0]
    OBVIOUS
  <2>6. Queue!TypeOK'
    <3>1. lastOffset' \in 0..MaxOffset /\ \A o \in Queue!Offsets : row'[o] = "free" <=> o > lastOffset'
      BY <2>1, <2>4, <2>5, Zenon
    <3>2. /\ lock' \in [Procs -> Threads \union {None}]
          /\ queuePc' \in [Threads -> {"idle", "insert", "count", "compact", "delete"}]
          /\ room' \in [Threads -> 0..MaxPending]
      BY <1>0, DurableBounds DEF Queue!TypeOK
    <3>3. /\ sharing' \in Sharings
          /\ acks' \in [Procs -> 0..(CompactAfter + MaxOffset)]
          /\ owed' \in [Threads -> 0..MaxOffset]
          /\ ceiling' \in [Threads -> -1..MaxOffset]
      BY DEF Queue!TypeOK
    <3> QED  BY <2>3, <3>1, <3>2, <3>3, Zenon DEF Queue!TypeOK
  <2>7. QueueLocked'
    BY <1>0 DEF Queue!TypeOK, QueueLocked
  <2>8. QueueOwing'
    BY DEF Queue!TypeOK, QueueOwing
  <2> QED  BY <2>6, <2>7, <2>8
<1>3. ASSUME NEW t \in Threads, Queue!PushRefused(t)
      PROVE  Queue!TypeOK' /\ QueueLocked' /\ QueueOwing'
  <2> USE <1>3 DEF Queue!PushRefused
  <2>1. Queue!TypeOK'
    BY <1>0, DurableBounds DEF Queue!TypeOK
  <2>2. QueueLocked'
    BY <1>0 DEF Queue!TypeOK, QueueLocked
  <2>3. QueueOwing'
    BY DEF Queue!TypeOK, QueueOwing
  <2> QED  BY <2>1, <2>2, <2>3
<1>4. ASSUME NEW t \in Threads, NEW batch \in SUBSET Queue!Pending, Queue!AckMany(t, batch)
      PROVE  Queue!TypeOK' /\ QueueLocked' /\ QueueOwing'
  <2> USE <1>4 DEF Queue!AckMany
  <2>1. batch \subseteq Queue!Offsets /\ \A o \in batch : row[o] = "pending"
    BY DEF Queue!Pending, Queue!RowsIn
  <2>2. Queue!Cardinality(batch) \in 0..MaxOffset
    BY <2>1, RowsCounted, SameCardinality, DurableBounds
  <2>3. /\ row' \in [Queue!Offsets -> {"free", "pending", "acked", "dead", "gone"}]
        /\ \A o \in Queue!Offsets : row'[o] = IF o \in batch THEN "acked" ELSE row[o]
    BY <2>1, BecomeRows
  <2>4. Queue!TypeOK'
    BY <1>0, <2>1, <2>2, <2>3 DEF Queue!TypeOK
  <2>5. QueueLocked'
    BY <1>0 DEF Queue!TypeOK, QueueLocked
  <2>6. QueueOwing'
    BY DEF Queue!TypeOK, QueueOwing
  <2> QED  BY <2>4, <2>5, <2>6
<1>5. ASSUME NEW t \in Threads, Queue!CountAcks(t)
      PROVE  Queue!TypeOK' /\ QueueLocked' /\ QueueOwing'
  <2> USE <1>5 DEF Queue!CountAcks
  <2>1. Queue!TypeOK'
    BY <1>0, DurableBounds DEF Queue!TypeOK
  <2>2. QueueLocked'
    BY <1>0 DEF Queue!TypeOK, QueueLocked
  <2>3. QueueOwing'
    BY DEF Queue!TypeOK, QueueOwing
  <2> QED  BY <2>1, <2>2, <2>3
<1>6. ASSUME NEW t \in Threads, Queue!ReadCeiling(t)
      PROVE  Queue!TypeOK' /\ QueueLocked' /\ QueueOwing'
  <2> USE <1>6 DEF Queue!ReadCeiling
  <2>1. Queue!CeilingNow \in -1..MaxOffset
    BY CheckpointIs, DurableBounds DEF Queue!CeilingNow, Queue!Checkpoint, Queue!TypeOK
  <2>2. Queue!TypeOK'
    BY <1>0, <2>1 DEF Queue!TypeOK
  <2>3. QueueLocked'
    BY <1>0 DEF Queue!TypeOK, QueueLocked
  <2>4. QueueOwing'
    BY DEF Queue!TypeOK, QueueOwing
  <2> QED  BY <2>2, <2>3, <2>4
<1>7. ASSUME NEW t \in Threads, Queue!DeleteChunk(t)
      PROVE  Queue!TypeOK' /\ QueueLocked' /\ QueueOwing'
  <2> USE <1>7 DEF Queue!DeleteChunk
  <2>1. PICK victims \in SUBSET Queue!Deletable(t) : row' = Queue!Become(victims, "gone")
    BY DEF Queue!kSubset
  <2>2. victims \subseteq Queue!Offsets /\ \A o \in victims : row[o] = "acked"
    BY DEF Queue!Deletable, Queue!RowsIn
  <2>3. /\ row' \in [Queue!Offsets -> {"free", "pending", "acked", "dead", "gone"}]
        /\ \A o \in Queue!Offsets : row'[o] = IF o \in victims THEN "gone" ELSE row[o]
    BY <2>1, <2>2, BecomeRows
  <2>4. Queue!TypeOK'
    BY <1>0, <2>2, <2>3, DurableBounds DEF Queue!TypeOK
  <2>5. QueueLocked'
    BY <1>0 DEF Queue!TypeOK, QueueLocked
  <2>6. QueueOwing'
    BY DEF Queue!TypeOK, QueueOwing
  <2> QED  BY <2>4, <2>5, <2>6
<1>8. ASSUME NEW t \in Threads, Queue!CompactFails(t)
      PROVE  Queue!TypeOK' /\ QueueLocked' /\ QueueOwing'
  <2> USE <1>8 DEF Queue!CompactFails
  <2>1. Queue!TypeOK'
    BY <1>0, DurableBounds DEF Queue!TypeOK, Queue!AcksAfterFailure
  <2>2. QueueLocked'
    BY <1>0 DEF Queue!TypeOK, QueueLocked
  <2>3. QueueOwing'
    BY DEF Queue!TypeOK, QueueOwing
  <2> QED  BY <2>1, <2>2, <2>3
<1>9. ASSUME NEW t \in Threads,
             Queue!DeadLetter(t) \/ Queue!Requeue(t) \/ \E upTo \in Queue!Offsets : Queue!Compact(t, upTo)
      PROVE  Queue!TypeOK' /\ QueueLocked' /\ QueueOwing'
  <2>1. PICK S \in SUBSET Queue!Offsets, status \in {"pending", "acked", "dead", "gone"} :
          (\A o \in S : row[o] # "free") /\ row' = Queue!Become(S, status)
    <3>1. CASE Queue!DeadLetter(t)
      <4>1. PICK o \in Queue!Pending : row' = Queue!Become({o}, "dead")
        BY <3>1 DEF Queue!DeadLetter
      <4>2. {o} \subseteq Queue!Offsets /\ row[o] = "pending"
        BY DEF Queue!Pending, Queue!RowsIn
      <4> QED  BY <4>1, <4>2
    <3>2. CASE Queue!Requeue(t)
      BY <3>2 DEF Queue!Requeue, Queue!RowsIn
    <3>3. CASE \E upTo \in Queue!Offsets : Queue!Compact(t, upTo)
      BY <3>3 DEF Queue!Compact, Queue!RowsIn
    <3> QED  BY <1>9, <3>1, <3>2, <3>3
  <2>2. /\ row' \in [Queue!Offsets -> {"free", "pending", "acked", "dead", "gone"}]
        /\ \A o \in Queue!Offsets : row'[o] = IF o \in S THEN status ELSE row[o]
    BY <2>1, BecomeRows
  <2>3. UNCHANGED <<sharing, lastOffset, acks, lock, queuePc, room, owed, ceiling, faults>>
    BY <1>9 DEF Queue!DeadLetter, Queue!Requeue, Queue!Compact
  <2>4. Queue!TypeOK'
    BY <2>1, <2>2, <2>3 DEF Queue!TypeOK
  <2>5. QueueLocked' /\ QueueOwing'
    BY <2>3 DEF QueueLocked, QueueOwing
  <2> QED  BY <2>4, <2>5
<1>10. ASSUME NEW p \in Queue!Sharers, Queue!Reopen(p)
       PROVE  Queue!TypeOK' /\ QueueLocked' /\ QueueOwing'
  <2> USE <1>10 DEF Queue!Reopen
  <2>1. Queue!Cardinality(Queue!RowsIn("acked")) \in 0..MaxOffset
    BY RowsCounted, SameCardinality, DurableBounds DEF Queue!RowsIn
  <2>2. Queue!TypeOK'
    BY <1>0, <2>1, DurableBounds DEF Queue!TypeOK
  <2>3. QueueLocked'
    BY <1>0 DEF Queue!TypeOK, QueueLocked
  <2>4. QueueOwing'
    BY DEF Queue!TypeOK, QueueOwing
  <2> QED  BY <2>2, <2>3, <2>4
<1> QED  BY <1>1, <1>2, <1>3, <1>4, <1>5, <1>6, <1>7, <1>8, <1>9, <1>10 DEF Queue!Next, Queue!Step
-------------------------------------------------------------------------------
(* One process, one lock.                                                  *)

LEMMA AloneShares ==
  ASSUME Queue!TypeOK, Cardinality(Queue!Sharers) = 1, NEW t \in Threads, NEW u \in Threads
  PROVE  Queue!ProcOf[t] = Queue!ProcOf[u]
<1>1. /\ IsFiniteSet(Queue!Sharers)
      /\ Queue!ProcOf[t] \in Queue!Sharers /\ Queue!ProcOf[u] \in Queue!Sharers
  BY SharersCounted DEF Queue!TypeOK
<1>2. PICK p : Queue!Sharers = {p}
  BY <1>1, FS_Singleton
<1> QED  BY <1>1, <1>2

LEMMA AloneExcludes ==
  ASSUME Queue!TypeOK, QueueLocked, Cardinality(Queue!Sharers) = 1,
         NEW u \in Threads, queuePc[u] \in {"insert", "delete"},
         NEW t \in Threads, t # u
  PROVE  ~Queue!LockFree(t) /\ queuePc[t] \notin {"insert", "delete"}
<1>1. Queue!ProcOf[t] = Queue!ProcOf[u]
  BY AloneShares
<1>2. lock[Queue!ProcOf[u]] = u /\ u # None
  BY DurableBounds DEF QueueLocked
<1> QED  BY <1>1, <1>2 DEF QueueLocked, Queue!LockFree

LEMMA SharingFixed == Queue!Next => sharing' = sharing
  BY DEF Queue!Next, Queue!Step, Queue!PushCheck, Queue!PushInsert,
         Queue!PushRefused, Queue!AckMany, Queue!CountAcks, Queue!ReadCeiling, Queue!DeleteChunk,
         Queue!CompactFails, Queue!DeadLetter, Queue!Requeue, Queue!Compact, Queue!Reopen

\* A step of one thread leaves the others where they are.
LEMMA OthersStay ==
  ASSUME Queue!TypeOK, NEW t \in Threads, Queue!Step(t), NEW u \in Threads, u # t
  PROVE  /\ queuePc'[u] = queuePc[u] /\ room'[u] = room[u]
         /\ owed'[u] = owed[u] /\ ceiling'[u] = ceiling[u]
<1> USE DEF Queue!TypeOK, Queue!Go
<1>1. CASE \/ Queue!PushCheck(t) \/ Queue!PushRefused(t) \/ Queue!CountAcks(t)
           \/ Queue!ReadCeiling(t) \/ Queue!DeleteChunk(t) \/ Queue!CompactFails(t)
  BY <1>1 DEF Queue!PushCheck, Queue!PushRefused, Queue!CountAcks, Queue!ReadCeiling,
              Queue!DeleteChunk, Queue!CompactFails
<1>2. CASE \/ \E burst \in 1..MaxBurst : Queue!PushInsert(t, burst)
           \/ \E batch \in SUBSET Queue!Pending : Queue!AckMany(t, batch)
  BY <1>2 DEF Queue!PushInsert, Queue!AckMany
<1>3. CASE \/ Queue!DeadLetter(t) \/ Queue!Requeue(t)
           \/ \E upTo \in Queue!Offsets : Queue!Compact(t, upTo)
  BY <1>3 DEF Queue!DeadLetter, Queue!Requeue, Queue!Compact
<1> QED  BY <1>1, <1>2, <1>3 DEF Queue!Step

LEMMA DurableRoom ==
  ASSUME DurableInv, Queue!Next
  PROVE  QueueRoom'
<1> SUFFICES ASSUME Cardinality(Queue!Sharers') = 1, NEW u \in Threads, queuePc'[u] = "insert"
             PROVE  room'[u] = Queue!RoomNow'
  BY DEF QueueRoom
<1> USE DEF DurableInv, Queue!TypeOK, Queue!Go
<1>1. Queue!Sharers' = Queue!Sharers
  BY SharingFixed DEF Queue!Sharers, Queue!ProcOf
<1>2. Cardinality(Queue!Sharers) = 1
  BY <1>1
<1>3. ASSUME queuePc[u] = "insert"  PROVE FALSE
  <2>1. \A t \in Threads : t # u => ~Queue!LockFree(t) /\ queuePc[t] \notin {"insert", "delete"}
    BY <1>2, <1>3, AloneExcludes
  <2>2. \A p \in Queue!Sharers : p = Queue!ProcOf[u]
    BY <1>2, AloneShares DEF Queue!Sharers
  <2>3. ASSUME NEW p \in Queue!Sharers, Queue!Reopen(p)  PROVE FALSE
    BY <2>2, <2>3 DEF Queue!Reopen
  <2>4. ASSUME NEW t \in Threads, Queue!Step(t)  PROVE FALSE
    BY <1>3, <2>1, <2>4
       DEF Queue!Step, Queue!PushCheck, Queue!PushInsert, Queue!PushRefused, Queue!AckMany,
           Queue!CountAcks, Queue!ReadCeiling, Queue!DeleteChunk, Queue!CompactFails,
           Queue!DeadLetter, Queue!Requeue, Queue!Compact, Queue!Take
  <2> QED  BY <2>3, <2>4 DEF Queue!Next
<1>4. Queue!PushCheck(u)
  <2>1. ASSUME NEW p \in Queue!Sharers, Queue!Reopen(p)  PROVE FALSE
    BY <1>3, <2>1 DEF Queue!Reopen
  <2>2. PICK t \in Threads : Queue!Step(t)
    BY <2>1 DEF Queue!Next
  <2> QED
    BY <1>3, <2>2
       DEF Queue!Step, Queue!PushCheck, Queue!PushInsert, Queue!PushRefused, Queue!AckMany,
           Queue!CountAcks, Queue!ReadCeiling, Queue!DeleteChunk, Queue!CompactFails,
           Queue!DeadLetter, Queue!Requeue, Queue!Compact
<1>5. room'[u] = Queue!RoomNow /\ row' = row
  BY <1>4 DEF Queue!PushCheck
<1> QED  BY <1>5 DEF Queue!RoomNow, Queue!Pending, Queue!RowsIn
-------------------------------------------------------------------------------
(* Compaction and the checkpoint.                                          *)

LEMMA CheckpointGrows ==
  ASSUME Queue!TypeOK, Queue!TypeOK', Queue!Checkpoint # 0 => row'[Queue!Checkpoint] = "acked"
  PROVE  /\ Queue!CheckpointOf(row) \in Int /\ Queue!CheckpointOf(row') \in Int
         /\ Queue!CheckpointOf(row') >= Queue!CheckpointOf(row)
<1>1. Queue!CheckpointOf(row) \in 0..MaxOffset
  BY CheckpointIs DEF Queue!TypeOK
<1>2. /\ Queue!CheckpointOf(row') \in 0..MaxOffset
      /\ \A o \in Queue!Offsets : row'[o] = "acked" => o <= Queue!CheckpointOf(row')
  BY CheckpointIs DEF Queue!TypeOK
<1> QED  BY <1>1, <1>2, DurableBounds DEF Queue!Checkpoint, Queue!Offsets

\* What a chunk deletes lies below the checkpoint.
LEMMA ChunkBelow ==
  ASSUME Queue!TypeOK, Queue!TypeOK', NEW t \in Threads, Queue!DeleteChunk(t),
         ceiling[t] < Queue!Checkpoint
  PROVE  Queue!CheckpointOf(row') = Queue!CheckpointOf(row)
<1>1. PICK victims \in SUBSET Queue!Deletable(t) : row' = Queue!Become(victims, "gone")
  BY DEF Queue!kSubset, Queue!DeleteChunk
<1>2. \A o \in Queue!Offsets : row'[o] = IF o \in victims THEN "gone" ELSE row[o]
  BY <1>1, BecomeRows DEF Queue!Deletable, Queue!RowsIn
<1>3. /\ Queue!CheckpointOf(row) \in 0..MaxOffset /\ ceiling[t] \in Int
      /\ Queue!CheckpointOf(row) # 0 => row[Queue!CheckpointOf(row)] = "acked"
      /\ \A o \in Queue!Offsets : row[o] = "acked" => o <= Queue!CheckpointOf(row)
  BY CheckpointIs, DurableBounds DEF Queue!TypeOK
<1>4. /\ Queue!CheckpointOf(row') \in 0..MaxOffset
      /\ Queue!CheckpointOf(row') # 0 => row'[Queue!CheckpointOf(row')] = "acked"
      /\ \A o \in Queue!Offsets : row'[o] = "acked" => o <= Queue!CheckpointOf(row')
  BY CheckpointIs DEF Queue!TypeOK
<1>5. Queue!CheckpointOf(row) # 0 => row'[Queue!CheckpointOf(row)] = "acked"
  BY <1>2, <1>3, DurableBounds DEF Queue!Deletable, Queue!Offsets, Queue!Checkpoint
<1>6. Queue!CheckpointOf(row') # 0 => row[Queue!CheckpointOf(row')] = "acked"
  BY <1>2, <1>4, DurableBounds DEF Queue!Offsets
<1> QED  BY <1>3, <1>4, <1>5, <1>6, DurableBounds DEF Queue!Offsets

LEMMA DurableCeilings ==
  ASSUME DurableInv, Queue!Next, Queue!TypeOK'
  PROVE  QueueCeilings'
<1> SUFFICES ASSUME Queue!OperatorsKeepOut', NEW u \in Threads, queuePc'[u] = "delete"
             PROVE  ceiling'[u] < Queue!Checkpoint'
  BY DEF QueueCeilings
<1> USE DEF DurableInv, Queue!Go
<1>1. sharing' = sharing
  BY SharingFixed
<1>2. Queue!OperatorsKeepOut
  BY <1>1 DEF Queue!OperatorsKeepOut, Queue!Operators, Queue!Sharers, Queue!ProcOf
<1>3. CASE Queue!ReadCeiling(u)
  <2>1. ceiling'[u] = Queue!Checkpoint - 1 /\ row' = row
    BY <1>3 DEF Queue!ReadCeiling, Queue!CeilingNow, Queue!TypeOK
  <2>2. Queue!Checkpoint \in Int /\ Queue!Checkpoint' = Queue!Checkpoint
    BY <2>1, CheckpointIs DEF Queue!Checkpoint, Queue!TypeOK
  <2> QED  BY <2>1, <2>2
<1>4. CASE ~Queue!ReadCeiling(u)
  <2>1. queuePc[u] = "delete" /\ ceiling'[u] = ceiling[u]
    <3>1. CASE \E p \in Queue!Sharers : Queue!Reopen(p)
      BY <3>1 DEF Queue!Reopen, Queue!TypeOK
    <3>2. ASSUME NEW t \in Threads, Queue!Step(t)
          PROVE  queuePc[u] = "delete" /\ ceiling'[u] = ceiling[u]
      <4>1. CASE t # u
        BY <3>2, <4>1, OthersStay
      <4>2. CASE t = u /\ ~Queue!DeadLetter(t) /\ ~Queue!Requeue(t)
                       /\ ~\E upTo \in Queue!Offsets : Queue!Compact(t, upTo)
        BY <1>4, <3>2, <4>2
           DEF Queue!Step, Queue!PushCheck, Queue!PushInsert, Queue!PushRefused, Queue!AckMany,
               Queue!CountAcks, Queue!DeleteChunk, Queue!CompactFails, Queue!TypeOK
      <4>3. CASE Queue!DeadLetter(t) \/ Queue!Requeue(t)
                   \/ \E upTo \in Queue!Offsets : Queue!Compact(t, upTo)
        BY <4>3 DEF Queue!DeadLetter, Queue!Requeue, Queue!Compact
      <4> QED  BY <4>1, <4>2, <4>3
    <3> QED  BY <3>1, <3>2 DEF Queue!Next
  <2>2. ceiling[u] < Queue!Checkpoint /\ ceiling[u] \in Int
    BY <1>2, <2>1 DEF QueueCeilings, Queue!TypeOK
  <2>3. Queue!Checkpoint' = Queue!CheckpointOf(row') /\ Queue!Checkpoint = Queue!CheckpointOf(row)
    BY DEF Queue!Checkpoint
  <2>4. SUFFICES /\ Queue!CheckpointOf(row) \in Int /\ Queue!CheckpointOf(row') \in Int
                 /\ Queue!CheckpointOf(row') >= Queue!CheckpointOf(row)
    BY <2>1, <2>2, <2>3
  <2>5. Queue!Checkpoint # 0 => Queue!Checkpoint \in Queue!Offsets /\ row[Queue!Checkpoint] = "acked"
    <3>1. /\ Queue!CheckpointOf(row) \in 0..MaxOffset
          /\ Queue!CheckpointOf(row) # 0 => row[Queue!CheckpointOf(row)] = "acked"
      BY CheckpointIs DEF Queue!TypeOK
    <3> QED  BY <3>1, DurableBounds DEF Queue!Checkpoint, Queue!Offsets
  <2>6. ASSUME \A o \in Queue!Offsets : row[o] = "acked" => row'[o] = "acked"
        PROVE  /\ Queue!CheckpointOf(row) \in Int /\ Queue!CheckpointOf(row') \in Int
               /\ Queue!CheckpointOf(row') >= Queue!CheckpointOf(row)
    BY <2>5, <2>6, CheckpointGrows
  <2>7. ASSUME NEW t \in Threads, Queue!DeleteChunk(t)
        PROVE  /\ Queue!CheckpointOf(row) \in Int /\ Queue!CheckpointOf(row') \in Int
               /\ Queue!CheckpointOf(row') >= Queue!CheckpointOf(row)
    <3>1. ceiling[t] < Queue!Checkpoint
      BY <1>2, <2>7 DEF QueueCeilings, Queue!DeleteChunk
    <3>2. Queue!CheckpointOf(row') = Queue!CheckpointOf(row)
      BY <2>7, <3>1, ChunkBelow
    <3>3. Queue!CheckpointOf(row) \in Int
      BY CheckpointIs DEF Queue!TypeOK
    <3> QED  BY <3>2, <3>3
  <2>8. ASSUME NEW t \in Threads, NEW upTo \in Queue!Offsets, Queue!Compact(t, upTo)
        PROVE  FALSE
    <3>1. t \in Queue!Operators /\ Queue!LockFree(t) /\ queuePc[t] = "idle"
      BY <2>8 DEF Queue!Compact
    <3>2. Cardinality(Queue!Sharers) = 1
      BY <1>2, <3>1, SameCardinality DEF Queue!OperatorsKeepOut
    <3> QED  BY <2>1, <3>1, <3>2, AloneExcludes
  <2>9. ASSUME NEW t \in Threads, NEW burst \in 1..MaxBurst, Queue!PushInsert(t, burst)
        PROVE  \A o \in Queue!Offsets : row[o] = "acked" => row'[o] = "acked"
    BY <2>9, DurableBounds DEF Queue!PushInsert, Queue!Become, Queue!TypeOK, Queue!Offsets
  <2>10. ASSUME NEW t \in Threads, NEW batch \in SUBSET Queue!Pending, Queue!AckMany(t, batch)
         PROVE  \A o \in Queue!Offsets : row[o] = "acked" => row'[o] = "acked"
    BY <2>10 DEF Queue!AckMany, Queue!Become, Queue!TypeOK
  <2>11. ASSUME NEW t \in Threads, Queue!DeadLetter(t) \/ Queue!Requeue(t)
         PROVE  \A o \in Queue!Offsets : row[o] = "acked" => row'[o] = "acked"
    BY <2>11 DEF Queue!DeadLetter, Queue!Requeue, Queue!Become, Queue!Pending, Queue!RowsIn
  <2>12. ASSUME row' = row
         PROVE  \A o \in Queue!Offsets : row[o] = "acked" => row'[o] = "acked"
    BY <2>12
  <2>13. ASSUME NEW t \in Threads,
                \/ Queue!PushCheck(t) \/ Queue!PushRefused(t) \/ Queue!CountAcks(t)
                \/ Queue!ReadCeiling(t) \/ Queue!CompactFails(t)
         PROVE  row' = row
    BY <2>13 DEF Queue!PushCheck, Queue!PushRefused, Queue!CountAcks, Queue!ReadCeiling,
                 Queue!CompactFails
  <2>14. ASSUME NEW p \in Queue!Sharers, Queue!Reopen(p)  PROVE row' = row
    BY <2>14 DEF Queue!Reopen
  <2> QED
    BY <2>6, <2>7, <2>8, <2>9, <2>10, <2>11, <2>12, <2>13, <2>14, Zenon
       DEF Queue!Next, Queue!Step
<1> QED  BY <1>3, <1>4
-------------------------------------------------------------------------------
(* What waits.                                                             *)

LEMMA BurstsTyped ==
  ASSUME Queue!TypeOK, QueueLocked
  PROVE  \A p \in Queue!Sharers : BurstOf[p] \in 0..MaxBurst
<1> SUFFICES ASSUME NEW p \in Queue!Sharers  PROVE BurstOf[p] \in 0..MaxBurst
  OBVIOUS
<1>1. p \in Procs
  BY SharersCounted DEF Queue!TypeOK
<1>2. Inserting(p) => room[lock[p]] \in 0..MaxPending
  BY <1>1 DEF Inserting, Queue!TypeOK
<1> QED  BY <1>2, DurableBounds DEF BurstOf, SmallerOf

\* A step of one process leaves what the others have in flight.
LEMMA BurstsElsewhere ==
  ASSUME DurableInv, NEW t \in Threads, Queue!Step(t),
         NEW q \in Queue!Sharers, q # Queue!ProcOf[t]
  PROVE  BurstOf'[q] = BurstOf[q]
<1> USE DEF DurableInv
<1>1. q \in Procs /\ Queue!ProcOf[t] \in Procs
  BY SharersCounted DEF Queue!TypeOK
<1>2. sharing' = sharing /\ Queue!Sharers' = Queue!Sharers
  BY SharingFixed DEF Queue!Next, Queue!Sharers, Queue!ProcOf
<1>3. lock'[q] = lock[q]
  <2>1. CASE \/ Queue!PushCheck(t) \/ Queue!PushRefused(t) \/ Queue!CountAcks(t)
             \/ Queue!ReadCeiling(t) \/ Queue!DeleteChunk(t) \/ Queue!CompactFails(t)
    BY <1>1, <2>1 DEF Queue!PushCheck, Queue!PushRefused, Queue!CountAcks, Queue!ReadCeiling,
                Queue!DeleteChunk, Queue!CompactFails, Queue!Take, Queue!Release, Queue!TypeOK
  <2>2. CASE \/ \E burst \in 1..MaxBurst : Queue!PushInsert(t, burst)
             \/ \E batch \in SUBSET Queue!Pending : Queue!AckMany(t, batch)
    BY <1>1, <2>2 DEF Queue!PushInsert, Queue!AckMany, Queue!Release, Queue!TypeOK
  <2>3. CASE \/ Queue!DeadLetter(t) \/ Queue!Requeue(t)
             \/ \E upTo \in Queue!Offsets : Queue!Compact(t, upTo)
    BY <2>3 DEF Queue!DeadLetter, Queue!Requeue, Queue!Compact
  <2> QED  BY <2>1, <2>2, <2>3 DEF Queue!Step
<1>4. ASSUME lock[q] # None
      PROVE  queuePc'[lock[q]] = queuePc[lock[q]] /\ room'[lock[q]] = room[lock[q]]
  <2>1. lock[q] \in Threads /\ lock[q] # t
    BY <1>1, <1>4 DEF QueueLocked, Queue!TypeOK
  <2> QED  BY <2>1, OthersStay
<1> QED  BY <1>2, <1>3, <1>4 DEF BurstOf, Inserting

LEMMA InFlightChanges ==
  ASSUME DurableInv, Queue!TypeOK', QueueLocked', sharing' = sharing,
         NEW p \in Queue!Sharers,
         \A q \in Queue!Sharers \ {p} : BurstOf'[q] = BurstOf[q]
  PROVE  /\ Cardinality(InFlight') = Cardinality(InFlight) - BurstOf[p] + BurstOf'[p]
         /\ Cardinality(InFlight) \in Nat /\ Cardinality(InFlight') \in Nat
         /\ BurstOf[p] \in 0..MaxBurst /\ BurstOf'[p] \in 0..MaxBurst
<1>1. Queue!Sharers' = Queue!Sharers
  BY DEF Queue!Sharers, Queue!ProcOf
<1>2. BurstOf[p] \in 0..MaxBurst
  BY BurstsTyped DEF DurableInv
<1>3. BurstOf'[p] \in 0..MaxBurst
  <2>1. p \in Procs
    BY SharersCounted DEF DurableInv, Queue!TypeOK
  <2>2. Inserting(p)' => room'[lock'[p]] \in 0..MaxPending
    BY <2>1 DEF Inserting, Queue!TypeOK
  <2> QED  BY <1>1, <2>2, DurableBounds DEF BurstOf, SmallerOf
<1>4. IsFiniteSet(Queue!Sharers) /\ MaxBurst \in Nat
  BY SharersCounted, DurableBounds DEF DurableInv, Queue!TypeOK
<1>5. InFlight = Tokens(Queue!Sharers, MaxBurst, BurstOf)
      /\ InFlight' = Tokens(Queue!Sharers, MaxBurst, BurstOf')
  BY <1>1 DEF InFlight, Tokens
<1>6. \A q \in Queue!Sharers \ {p} : BurstOf[q] = BurstOf'[q]
  OBVIOUS
<1>7. /\ Cardinality(Tokens(Queue!Sharers, MaxBurst, BurstOf')) =
           Cardinality(Tokens(Queue!Sharers, MaxBurst, BurstOf)) - BurstOf[p] + BurstOf'[p]
      /\ Cardinality(Tokens(Queue!Sharers, MaxBurst, BurstOf)) \in Nat
      /\ Cardinality(Tokens(Queue!Sharers, MaxBurst, BurstOf')) \in Nat
  <2>1. PICK f, g : f = BurstOf /\ g = BurstOf'
    OBVIOUS
  <2>2. f[p] \in 0..MaxBurst /\ g[p] \in 0..MaxBurst /\ \A q \in Queue!Sharers \ {p} : f[q] = g[q]
    BY <1>2, <1>3, <1>6, <2>1
  <2>3. /\ Cardinality(Tokens(Queue!Sharers, MaxBurst, g)) =
             Cardinality(Tokens(Queue!Sharers, MaxBurst, f)) - f[p] + g[p]
        /\ Cardinality(Tokens(Queue!Sharers, MaxBurst, f)) \in Nat
        /\ Cardinality(Tokens(Queue!Sharers, MaxBurst, g)) \in Nat
    BY <1>4, <2>2, TokensChange
  <2> QED  BY <2>1, <2>3
<1> QED  BY <1>2, <1>3, <1>5, <1>7
\* A push adds no more rows than it was let.
LEMMA InsertAdds ==
  ASSUME DurableInv, NEW t \in Threads, NEW burst \in 1..MaxBurst, Queue!PushInsert(t, burst)
  PROVE  \E accepted \in 0..MaxBurst :
           /\ accepted <= room[t] /\ accepted <= burst
           /\ lastOffset' = lastOffset + accepted
           /\ Cardinality(Queue!Pending') \in Nat /\ Cardinality(Queue!Pending) \in Nat
           /\ Cardinality(Queue!Pending') <= Cardinality(Queue!Pending) + accepted
<1> USE DEF DurableInv
<1> DEFINE accepted == IF burst < room[t] THEN burst ELSE room[t]
           added == (lastOffset + 1)..(lastOffset + accepted)
<1>1. accepted \in 0..MaxBurst /\ accepted <= room[t] /\ accepted <= burst
  BY DurableBounds DEF Queue!TypeOK
<1>2. lastOffset \in 0..MaxOffset /\ lastOffset + accepted \in 0..MaxOffset
      /\ lastOffset' = lastOffset + accepted /\ row' = Queue!Become(added, "pending")
  BY DurableBounds DEF Queue!TypeOK, Queue!PushInsert
<1> HIDE DEF accepted
<1>3. added \subseteq Queue!Offsets
  BY <1>1, <1>2, DurableBounds DEF Queue!Offsets
<1>4. IsFiniteSet(added) /\ Cardinality(added) = accepted
  <2>1. accepted \in Nat /\ lastOffset \in Nat
    BY <1>1, <1>2, DurableBounds
  <2> QED  BY <2>1, CountFrom, Zenon
<1> HIDE DEF added
<1>5. \A o \in Queue!Offsets : row'[o] = IF o \in added THEN "pending" ELSE row[o]
  BY <1>2, <1>3, BecomeRows
<1>6. Queue!Pending' = Queue!Pending \union added
  BY <1>3, <1>5 DEF Queue!Pending, Queue!RowsIn, Queue!Offsets
<1>7. IsFiniteSet(Queue!Pending) /\ Cardinality(Queue!Pending) \in Nat
  BY RowsCounted DEF Queue!Pending, Queue!RowsIn
<1>8. IsFiniteSet(Queue!Pending \intersect added) /\ Cardinality(Queue!Pending \intersect added) \in Nat
  BY <1>7, FS_Intersection, FS_CardinalityType
<1>9. Cardinality(Queue!Pending \union added) =
        Cardinality(Queue!Pending) + Cardinality(added) - Cardinality(Queue!Pending \intersect added)
  BY <1>4, <1>7, FS_Union
<1>10. Cardinality(Queue!Pending') \in Nat
  BY <1>3, <1>6, RowsCounted DEF Queue!Pending, Queue!RowsIn
<1>11. Cardinality(Queue!Pending') <= Cardinality(Queue!Pending) + accepted
  <2>1. accepted \in Nat
    BY <1>1, DurableBounds
  <2> QED  BY <1>4, <1>6, <1>7, <1>8, <1>9, <2>1
<1> QED  BY <1>1, <1>2, <1>7, <1>10, <1>11

\* When rows only leave the waiting, fewer wait.
LEMMA WaitingShrinks ==
  ASSUME DurableInv, \A o \in Queue!Offsets : row'[o] = "pending" => row[o] = "pending"
  PROVE  /\ Cardinality(Queue!Pending') \in Nat /\ Cardinality(Queue!Pending) \in Nat
         /\ Cardinality(Queue!Pending') <= Cardinality(Queue!Pending)
<1>1. Queue!Pending' \subseteq Queue!Pending /\ Queue!Pending \subseteq Queue!Offsets
  BY DEF Queue!Pending, Queue!RowsIn, Queue!Offsets
<1>2. IsFiniteSet(Queue!Pending) /\ Cardinality(Queue!Pending) \in Nat
  BY <1>1, RowsCounted
<1>3. Cardinality(Queue!Pending') \in Nat
  BY <1>1, RowsCounted
<1> QED  BY <1>1, <1>2, <1>3, FS_Subset

\* Every step other than the check of a push adds no more rows than it takes
\* from what was in flight.
LEMMA BurstPays ==
  ASSUME DurableInv, Queue!TypeOK', Queue!Operators = {},
         NEW t \in Threads, Queue!Step(t), ~Queue!PushCheck(t)
  PROVE  \E accepted \in Nat :
           /\ BurstOf'[Queue!ProcOf[t]] + accepted <= BurstOf[Queue!ProcOf[t]]
           /\ Cardinality(Queue!Pending') \in Nat /\ Cardinality(Queue!Pending) \in Nat
           /\ Cardinality(Queue!Pending') <= Cardinality(Queue!Pending) + accepted
<1> USE DEF DurableInv
<1>0. PICK p \in Procs : p = Queue!ProcOf[t]
  BY SharersCounted DEF Queue!TypeOK
<1>1. /\ p \in Queue!Sharers /\ t # None /\ t \notin Queue!Operators
      /\ sharing' = sharing /\ Queue!Sharers' = Queue!Sharers /\ BurstOf[p] \in 0..MaxBurst
  BY <1>0, SharersCounted, DurableBounds, SharingFixed, BurstsTyped
     DEF Queue!Next, Queue!Sharers, Queue!ProcOf, Queue!TypeOK
<1>2. /\ BurstOf'[p] = IF Inserting(p)' THEN SmallerOf(MaxBurst, room'[lock'[p]]) ELSE 0
      /\ BurstOf[p] = IF Inserting(p) THEN SmallerOf(MaxBurst, room[lock[p]]) ELSE 0
  BY <1>1 DEF BurstOf
<1>3. queuePc[t] = "insert" => lock[p] = t
  BY <1>0 DEF QueueLocked
<1>4. ASSUME \A o \in Queue!Offsets : row'[o] = "pending" => row[o] = "pending",
             BurstOf'[p] <= BurstOf[p]
      PROVE  \E accepted \in Nat :
               /\ BurstOf'[p] + accepted <= BurstOf[p]
               /\ Cardinality(Queue!Pending') \in Nat /\ Cardinality(Queue!Pending) \in Nat
               /\ Cardinality(Queue!Pending') <= Cardinality(Queue!Pending) + accepted
  <2>1. /\ Cardinality(Queue!Pending') \in Nat /\ Cardinality(Queue!Pending) \in Nat
        /\ Cardinality(Queue!Pending') <= Cardinality(Queue!Pending)
    BY <1>4, WaitingShrinks
  <2>2. BurstOf'[p] \in Int
    <3>1. Inserting(p)' => room'[lock'[p]] \in 0..MaxPending
      BY DEF Inserting, Queue!TypeOK
    <3> QED  BY <1>2, <3>1, DurableBounds DEF SmallerOf
  <2> WITNESS 0 \in Nat
  <2> QED  BY <1>1, <1>4, <2>1, <2>2
<1>5. ASSUME NEW burst \in 1..MaxBurst, Queue!PushInsert(t, burst)
      PROVE  \E accepted \in Nat :
               /\ BurstOf'[p] + accepted <= BurstOf[p]
               /\ Cardinality(Queue!Pending') \in Nat /\ Cardinality(Queue!Pending) \in Nat
               /\ Cardinality(Queue!Pending') <= Cardinality(Queue!Pending) + accepted
  <2>1. PICK accepted \in 0..MaxBurst :
           /\ accepted <= room[t]
           /\ Cardinality(Queue!Pending') \in Nat /\ Cardinality(Queue!Pending) \in Nat
           /\ Cardinality(Queue!Pending') <= Cardinality(Queue!Pending) + accepted
    BY <1>5, InsertAdds
  <2>2. Inserting(p) /\ lock[p] = t /\ ~Inserting(p)'
    BY <1>0, <1>1, <1>3, <1>5 DEF Queue!PushInsert, Queue!Release, Inserting, Queue!TypeOK
  <2>3. BurstOf'[p] = 0 /\ BurstOf[p] = SmallerOf(MaxBurst, room[t]) /\ room[t] \in Nat
    BY <1>2, <2>2, DurableBounds DEF Queue!TypeOK
  <2>4. BurstOf'[p] + accepted <= BurstOf[p] /\ accepted \in Nat
    BY <2>1, <2>3, DurableBounds DEF SmallerOf
  <2> QED  BY <2>1, <2>4
<1>6. CASE Queue!PushRefused(t)
  <2>1. ~Inserting(p)' /\ row' = row
    BY <1>0, <1>6 DEF Queue!PushRefused, Queue!Release, Inserting, Queue!TypeOK
  <2> QED  BY <1>0, <1>1, <1>2, <1>4, <2>1
<1>7. ASSUME Queue!LockFree(t), lock' = lock
      PROVE  BurstOf'[p] <= BurstOf[p]
  BY <1>0, <1>1, <1>2, <1>7 DEF Queue!LockFree, Inserting
<1>8. CASE Queue!CountAcks(t)
  BY <1>0, <1>4, <1>7, <1>8 DEF Queue!CountAcks
<1>9. ASSUME NEW batch \in SUBSET Queue!Pending, Queue!AckMany(t, batch)
      PROVE  /\ \A o \in Queue!Offsets : row'[o] = "pending" => row[o] = "pending"
             /\ BurstOf'[p] <= BurstOf[p]
  <2>1. \A o \in Queue!Offsets : row'[o] = "pending" => row[o] = "pending"
    BY <1>9 DEF Queue!AckMany, Queue!Become
  <2> QED  BY <1>7, <1>9, <2>1 DEF Queue!AckMany
<1>10. CASE Queue!DeadLetter(t)
  <2>1. \A o \in Queue!Offsets : row'[o] = "pending" => row[o] = "pending"
    BY <1>10 DEF Queue!DeadLetter, Queue!Become
  <2> QED  BY <1>0, <1>4, <1>7, <1>10, <2>1 DEF Queue!DeadLetter
<1>11. CASE Queue!ReadCeiling(t)
  <2>1. ~Inserting(p)' /\ row' = row
    BY <1>0, <1>11 DEF Queue!ReadCeiling, Queue!Take, Queue!Go, Inserting, Queue!TypeOK
  <2> QED  BY <1>0, <1>1, <1>2, <1>4, <2>1
<1>12. CASE Queue!DeleteChunk(t) \/ Queue!CompactFails(t)
  <2>1. ~Inserting(p)'
    BY <1>0, <1>12 DEF Queue!DeleteChunk, Queue!CompactFails, Queue!Release, Inserting, Queue!TypeOK
  <2>2. \A o \in Queue!Offsets : row'[o] = "pending" => row[o] = "pending"
    BY <1>12 DEF Queue!DeleteChunk, Queue!CompactFails, Queue!Become
  <2> QED  BY <1>0, <1>1, <1>2, <1>4, <2>1, <2>2
<1> QED
  BY <1>0, <1>1, <1>4, <1>5, <1>6, <1>8, <1>9, <1>10, <1>11, <1>12
     DEF Queue!Step, Queue!Requeue, Queue!Compact

LEMMA DurableWaiting ==
  ASSUME DurableInv, Queue!Next, Queue!TypeOK', QueueLocked'
  PROVE  QueueWaiting'
<1> USE DEF DurableInv
<1> DEFINE n == Cardinality(Queue!Sharers)
<1>0. sharing' = sharing /\ Queue!Sharers' = Queue!Sharers /\ Queue!Operators' = Queue!Operators
  BY SharingFixed DEF Queue!Sharers, Queue!ProcOf, Queue!Operators
<1>1. /\ IsFiniteSet(Queue!Sharers) /\ n \in Nat \ {0}
      /\ \A t \in Threads : Queue!ProcOf[t] \in Queue!Sharers
  BY SharersCounted DEF Queue!TypeOK
<1>2. SUFFICES ASSUME Queue!Operators = {}
               PROVE  Cardinality(Queue!Pending') + Cardinality(InFlight') <= MaxPending + (n - 1) * MaxBurst
  BY <1>0 DEF QueueWaiting
<1>3. /\ Cardinality(Queue!Pending) + Cardinality(InFlight) <= MaxPending + (n - 1) * MaxBurst
      /\ MaxPending \in Nat /\ MaxBurst \in Nat /\ (n - 1) * MaxBurst \in Nat
  <2>1. \A a, b \in Nat : a * b \in Nat
    OBVIOUS
  <2>2. n - 1 \in Nat /\ MaxBurst \in Nat /\ MaxPending \in Nat
    BY <1>1, DurableBounds
  <2> QED  BY <1>2, <2>1, <2>2 DEF QueueWaiting
<1> HIDE DEF n
<1>4. ASSUME NEW t \in Threads, Queue!PushCheck(t)
      PROVE  Cardinality(Queue!Pending') + Cardinality(InFlight') <= MaxPending + (n - 1) * MaxBurst
  <2>1. PICK p \in Queue!Sharers : p = Queue!ProcOf[t]
    BY <1>1
  <2>2. p \in Procs /\ t # None /\ Queue!RoomNow \in 0..MaxPending
    BY <2>1, SharersCounted, DurableBounds, RoomTyped DEF Queue!TypeOK
  <2>3. /\ Queue!Pending' = Queue!Pending /\ Inserting(p)' /\ ~Inserting(p)
        /\ room'[lock'[p]] = Queue!RoomNow
    BY <1>4, <2>1, <2>2 DEF Queue!PushCheck, Queue!Take, Queue!LockFree, Queue!Go, Inserting,
       Queue!TypeOK, Queue!Pending, Queue!RowsIn
  <2>4. BurstOf[p] = 0 /\ BurstOf'[p] = SmallerOf(MaxBurst, Queue!RoomNow)
    BY <1>0, <2>3 DEF BurstOf
  <2>5. \A q \in Queue!Sharers \ {p} : BurstOf'[q] = BurstOf[q]
    BY <1>4, <2>1, BurstsElsewhere DEF Queue!Step
  <2>6. /\ Cardinality(InFlight') = Cardinality(InFlight) + BurstOf'[p]
        /\ Cardinality(InFlight) \in Nat /\ Cardinality(InFlight') \in Nat
    BY <1>0, <2>4, <2>5, InFlightChanges
  <2>7. Cardinality(InFlight) <= (n - 1) * MaxBurst
    <3>1. Cardinality(InFlight) = Cardinality(Tokens(Queue!Sharers \ {p}, MaxBurst, BurstOf)) + BurstOf[p]
          /\ Cardinality(Tokens(Queue!Sharers \ {p}, MaxBurst, BurstOf)) \in Nat
      <4>1. BurstOf[p] \in 0..MaxBurst
        BY BurstsTyped
      <4> QED  BY <1>1, <1>3, <4>1, TokensApart DEF InFlight
    <3>2. IsFiniteSet(Queue!Sharers \ {p}) /\ Cardinality(Queue!Sharers \ {p}) = n - 1
      BY <1>1, FS_RemoveElement DEF n
    <3>3. Cardinality(Tokens(Queue!Sharers \ {p}, MaxBurst, BurstOf))
            <= Cardinality(Queue!Sharers \ {p}) * MaxBurst
      BY <1>3, <3>2, TokensFinite
    <3> QED  BY <2>4, <3>1, <3>2, <3>3
  <2>8. CASE Queue!RoomNow = 0
    <3>1. BurstOf'[p] = 0
      BY <2>4, <2>8, DurableBounds DEF SmallerOf
    <3> QED  BY <1>3, <2>3, <2>6, <3>1
  <2>9. CASE Queue!RoomNow # 0
    <3>1. Queue!RoomNow = MaxPending - Cardinality(Queue!Pending) /\ Cardinality(Queue!Pending) \in Nat
      BY <2>9, RoomTyped
    <3>2. BurstOf'[p] <= Queue!RoomNow /\ BurstOf'[p] \in Nat
      BY <1>3, <2>2, <2>4 DEF SmallerOf
    <3> QED  BY <1>3, <2>3, <2>6, <2>7, <3>1, <3>2
  <2> QED  BY <2>8, <2>9
<1>5. ASSUME NEW t \in Threads, Queue!Step(t), ~Queue!PushCheck(t)
      PROVE  Cardinality(Queue!Pending') + Cardinality(InFlight') <= MaxPending + (n - 1) * MaxBurst
  <2>1. PICK p \in Queue!Sharers : p = Queue!ProcOf[t]
    BY <1>1
  <2>2. PICK accepted \in Nat :
           /\ BurstOf'[p] + accepted <= BurstOf[p]
           /\ Cardinality(Queue!Pending') \in Nat /\ Cardinality(Queue!Pending) \in Nat
           /\ Cardinality(Queue!Pending') <= Cardinality(Queue!Pending) + accepted
    BY <1>2, <1>5, <2>1, BurstPays
  <2>3. \A q \in Queue!Sharers \ {p} : BurstOf'[q] = BurstOf[q]
    BY <1>5, <2>1, BurstsElsewhere
  <2>4. /\ Cardinality(InFlight') = Cardinality(InFlight) - BurstOf[p] + BurstOf'[p]
        /\ Cardinality(InFlight) \in Nat /\ Cardinality(InFlight') \in Nat
        /\ BurstOf[p] \in 0..MaxBurst /\ BurstOf'[p] \in 0..MaxBurst
    BY <1>0, <2>3, InFlightChanges
  <2> QED  BY <1>3, <2>2, <2>4
<1>6. ASSUME NEW p \in Queue!Sharers, Queue!Reopen(p)
      PROVE  Cardinality(Queue!Pending') + Cardinality(InFlight') <= MaxPending + (n - 1) * MaxBurst
  <2>1. p \in Procs
    BY SharersCounted DEF Queue!TypeOK
  <2>2. Queue!Pending' = Queue!Pending /\ Cardinality(Queue!Pending) \in Nat
    BY <1>6, RoomTyped DEF Queue!Reopen, Queue!Pending, Queue!RowsIn
  <2>3. BurstOf'[p] = 0
    BY <1>0, <1>6, <2>1 DEF Queue!Reopen, BurstOf, Inserting, Queue!TypeOK
  <2>4. ASSUME NEW q \in Queue!Sharers \ {p}  PROVE BurstOf'[q] = BurstOf[q]
    <3>1. q \in Procs /\ lock'[q] = lock[q]
      BY <1>6, SharersCounted DEF Queue!Reopen, Queue!TypeOK
    <3>2. ASSUME lock[q] # None
          PROVE  queuePc'[lock[q]] = queuePc[lock[q]] /\ room'[lock[q]] = room[lock[q]]
      <4>1. lock[q] \in Threads /\ Queue!ProcOf[lock[q]] = q
        BY <3>1, <3>2 DEF QueueLocked, Queue!TypeOK
      <4> QED  BY <1>6, <4>1 DEF Queue!Reopen, Queue!TypeOK
    <3> QED  BY <1>0, <3>1, <3>2 DEF BurstOf, Inserting
  <2>5. /\ Cardinality(InFlight') = Cardinality(InFlight) - BurstOf[p] + BurstOf'[p]
        /\ Cardinality(InFlight) \in Nat /\ Cardinality(InFlight') \in Nat
        /\ BurstOf[p] \in 0..MaxBurst /\ BurstOf'[p] \in 0..MaxBurst
    BY <1>0, <2>4, InFlightChanges
  <2> QED  BY <1>3, <2>2, <2>3, <2>5
<1> QED  BY <1>4, <1>5, <1>6 DEF Queue!Next
-------------------------------------------------------------------------------
(* What is kept acknowledged.                                              *)

\* Nobody is about to read a ceiling, and no failed compaction is due again.
Settled ==
  (\A t \in Threads : queuePc[t] # "compact") /\ (\A p \in Queue!Sharers : acks[p] < CompactAfter)

LEMMA CountedAre ==
  ASSUME Queue!TypeOK
  PROVE  /\ Queue!Counted = Tokens(Queue!Sharers, CompactAfter, acks)
         /\ Cardinality(Queue!Counted) \in Nat /\ Cardinality(Owing) \in Nat
         /\ IsFiniteSet(Queue!Sharers) /\ IsFiniteSet(Beyond) /\ Cardinality(Beyond) \in Nat
<1>1. Queue!Counted = Tokens(Queue!Sharers, CompactAfter, acks)
  BY DEF Queue!Counted, Tokens
<1>2. IsFiniteSet(Queue!Sharers)
  BY SharersCounted DEF Queue!TypeOK
<1>3. IsFiniteSet(Queue!Counted) /\ IsFiniteSet(Owing)
  BY <1>1, <1>2, DurableBounds, TokensFinite DEF Owing
<1>4. Beyond \subseteq Queue!Offsets
  BY DEF Beyond, Queue!RowsIn
<1> QED  BY <1>1, <1>2, <1>3, <1>4, RowsCounted, FS_CardinalityType

\* When no row is acknowledged and nobody counts or compacts.
LEMMA AckedShrinks ==
  ASSUME DurableInv, Queue!TypeOK', sharing' = sharing, acks' = acks, owed' = owed,
         \A o \in Queue!Offsets : row'[o] = "acked" => row[o] = "acked",
         \A u \in Threads : queuePc'[u] = "compact" <=> queuePc[u] = "compact",
         \A u \in Threads : queuePc[u] = "delete" => queuePc'[u] = "delete" /\ ceiling'[u] = ceiling[u]
  PROVE  QueueAcked'
<1> USE DEF DurableInv
<1>1. /\ Queue!Sharers' = Queue!Sharers /\ Queue!Counted' = Queue!Counted /\ Owing' = Owing
  BY DEF Queue!Sharers, Queue!ProcOf, Queue!Counted, Owing, Tokens
<1>2. Beyond' \subseteq Beyond
  BY DEF Beyond, Queue!RowsIn, Queue!Offsets
<1>3. IsFiniteSet(Beyond) /\ Cardinality(Beyond) \in Nat
      /\ Cardinality(Queue!Counted) \in Nat /\ Cardinality(Owing) \in Nat
  BY CountedAre
<1>4. Cardinality(Beyond') \in Nat /\ Cardinality(Beyond') <= Cardinality(Beyond)
  BY <1>2, <1>3, FS_Subset, FS_CardinalityType
<1>5. ASSUME Settled'  PROVE Settled
  BY <1>1, <1>5 DEF Settled
<1> QED  BY <1>1, <1>3, <1>4, <1>5 DEF QueueAcked, Settled

LEMMA AckManyAcked ==
  ASSUME DurableInv, Queue!TypeOK', NEW t \in Threads,
         NEW batch \in SUBSET Queue!Pending, Queue!AckMany(t, batch)
  PROVE  QueueAcked'
<1> USE DEF DurableInv
<1>1. sharing' = sharing /\ acks' = acks /\ Queue!Sharers' = Queue!Sharers
      /\ Queue!Counted' = Queue!Counted
  BY DEF Queue!AckMany, Queue!Sharers, Queue!ProcOf, Queue!Counted
<1>2. /\ owed[t] = 0 /\ owed'[t] = Cardinality(batch)
      /\ \A u \in Threads \ {t} : owed'[u] = owed[u]
      /\ ceiling' = ceiling /\ queuePc' = [queuePc EXCEPT ![t] = "count"] /\ queuePc[t] = "idle"
  BY SameCardinality DEF Queue!AckMany, QueueOwing, Queue!TypeOK, Queue!Go
<1>3. batch \subseteq Queue!Offsets
      /\ \A o \in Queue!Offsets : row'[o] = IF o \in batch THEN "acked" ELSE row[o]
  BY BecomeRows DEF Queue!AckMany, Queue!Pending, Queue!RowsIn
<1>4. IsFiniteSet(batch) /\ Cardinality(batch) \in 0..MaxOffset
  BY <1>3, RowsCounted, DurableBounds
<1>5. Beyond' \subseteq Beyond \union batch
  BY <1>2, <1>3 DEF Beyond, Queue!RowsIn, Queue!Offsets, Queue!TypeOK
<1>6. /\ IsFiniteSet(Beyond) /\ Cardinality(Beyond) \in Nat
      /\ Cardinality(Queue!Counted) \in Nat /\ Cardinality(Owing) \in Nat
  BY CountedAre
<1>7. IsFiniteSet(Beyond \union batch)
      /\ Cardinality(Beyond \union batch) <= Cardinality(Beyond) + Cardinality(batch)
  <2>1. Cardinality(Beyond \union batch) =
          Cardinality(Beyond) + Cardinality(batch) - Cardinality(Beyond \intersect batch)
        /\ IsFiniteSet(Beyond \union batch)
    BY <1>4, <1>6, FS_Union
  <2>2. Cardinality(Beyond \intersect batch) \in Nat
    BY <1>6, FS_Intersection, FS_CardinalityType
  <2> QED  BY <1>4, <1>6, <2>1, <2>2
<1>8. Cardinality(Beyond') \in Nat /\ Cardinality(Beyond \union batch) \in Nat
      /\ Cardinality(Beyond') <= Cardinality(Beyond \union batch)
  BY <1>5, <1>7, FS_Subset, FS_CardinalityType
<1>9. Cardinality(Owing') = Cardinality(Owing) + Cardinality(batch)
  <2>1. PICK f, g : f = owed /\ g = owed'
    OBVIOUS
  <2>2. f[t] = 0 /\ g[t] \in 0..MaxOffset /\ \A u \in Threads \ {t} : f[u] = g[u]
    BY <1>2, <1>4, <2>1
  <2>3. f[t] \in 0..MaxOffset
    BY <2>2, DurableBounds
  <2>4. Cardinality(Tokens(Threads, MaxOffset, g)) = Cardinality(Tokens(Threads, MaxOffset, f)) - f[t] + g[t]
        /\ Cardinality(Tokens(Threads, MaxOffset, f)) \in Nat
    BY <2>2, <2>3, DurableBounds, TokensChange
  <2> QED  BY <1>2, <1>4, <2>1, <2>2, <2>4 DEF Owing
<1>10. ASSUME Settled'  PROVE Settled
  BY <1>1, <1>2, <1>10 DEF Settled, Queue!TypeOK
<1> QED  BY <1>1, <1>4, <1>6, <1>7, <1>8, <1>9, <1>10 DEF QueueAcked, Settled

LEMMA CountAcksAcked ==
  ASSUME DurableInv, Queue!TypeOK', NEW t \in Threads, Queue!CountAcks(t)
  PROVE  QueueAcked'
<1> SUFFICES ASSUME Settled'
             PROVE  Cardinality(Beyond') <= 1 + Cardinality(Queue!Counted') + Cardinality(Owing')
  BY DEF QueueAcked, Settled
<1> USE DEF DurableInv
<1>1. PICK p \in Queue!Sharers : p = Queue!ProcOf[t] /\ p \in Procs
  BY SharersCounted DEF Queue!TypeOK
<1>2. sharing' = sharing /\ Queue!Sharers' = Queue!Sharers /\ row' = row /\ ceiling' = ceiling
  BY DEF Queue!CountAcks, Queue!Sharers, Queue!ProcOf
<1>3. acks[p] + owed[t] < CompactAfter
  <2>1. acks[p] + owed[t] >= CompactAfter => queuePc'[t] = "compact"
    BY <1>1 DEF Queue!CountAcks, Queue!Go, Queue!TypeOK
  <2>2. acks[p] \in Int /\ owed[t] \in Int /\ CompactAfter \in Int
    BY <1>1, DurableBounds DEF Queue!TypeOK
  <2> QED  BY <2>1, <2>2 DEF Settled
<1>4. /\ acks[p] \in Nat /\ owed[t] \in 0..MaxOffset
      /\ acks'[p] = acks[p] + owed[t] /\ owed'[t] = 0
      /\ \A q \in Queue!Sharers \ {p} : acks'[q] = acks[q]
      /\ \A u \in Threads \ {t} : owed'[u] = owed[u]
  BY <1>1, <1>3, SharersCounted, DurableBounds DEF Queue!CountAcks, Queue!TypeOK
<1>5. Settled /\ Beyond' = Beyond
  <2>1. queuePc[t] = "count" /\ queuePc' = [queuePc EXCEPT ![t] = "idle"]
    <3>1. ~(acks[p] + owed[t] >= CompactAfter)
      BY <1>3, <1>4, DurableBounds
    <3> QED  BY <1>1, <3>1 DEF Queue!CountAcks, Queue!Go
  <2>2. acks[p] < CompactAfter
    BY <1>3, <1>4, DurableBounds
  <2>3. Settled
    BY <1>2, <1>4, <2>1, <2>2 DEF Settled, Queue!TypeOK
  <2>4. Beyond' = Beyond
    BY <1>2, <2>1 DEF Beyond, Queue!RowsIn, Queue!TypeOK
  <2> QED  BY <2>3, <2>4
<1>6. Cardinality(Queue!Counted') = Cardinality(Queue!Counted) + owed[t]
  <2>1. PICK f, g : f = acks /\ g = acks'
    OBVIOUS
  <2>2. f[p] \in 0..CompactAfter /\ g[p] \in 0..CompactAfter /\ \A q \in Queue!Sharers \ {p} : f[q] = g[q]
    BY <1>3, <1>4, <2>1, DurableBounds
  <2>3. Cardinality(Tokens(Queue!Sharers, CompactAfter, g))
          = Cardinality(Tokens(Queue!Sharers, CompactAfter, f)) - f[p] + g[p]
        /\ Cardinality(Tokens(Queue!Sharers, CompactAfter, f)) \in Nat
    BY <2>2, CountedAre, DurableBounds, TokensChange
  <2>4. Queue!Counted = Tokens(Queue!Sharers, CompactAfter, f)
        /\ Queue!Counted' = Tokens(Queue!Sharers, CompactAfter, g)
    BY <1>2, <2>1 DEF Queue!Counted, Tokens
  <2> QED  BY <1>4, <2>1, <2>3, <2>4
<1>7. Cardinality(Owing') = Cardinality(Owing) - owed[t] /\ Cardinality(Owing) >= owed[t]
  <2>1. PICK f, g : f = owed /\ g = owed'
    OBVIOUS
  <2>2. f[t] \in 0..MaxOffset /\ g[t] \in 0..MaxOffset /\ \A u \in Threads \ {t} : f[u] = g[u]
    BY <1>4, <2>1, DurableBounds
  <2>3. Cardinality(Tokens(Threads, MaxOffset, g)) = Cardinality(Tokens(Threads, MaxOffset, f)) - f[t] + g[t]
        /\ Cardinality(Tokens(Threads, MaxOffset, f)) \in Nat
        /\ Cardinality(Tokens(Threads, MaxOffset, f)) >= f[t]
    BY <2>2, DurableBounds, TokensChange
  <2> QED  BY <1>4, <2>1, <2>3, DurableBounds DEF Owing
<1>8. Cardinality(Beyond) <= 1 + Cardinality(Queue!Counted) + Cardinality(Owing)
      /\ Cardinality(Queue!Counted) \in Nat /\ Cardinality(Owing) \in Nat /\ Cardinality(Beyond) \in Nat
  BY <1>5, CountedAre DEF QueueAcked, Settled
<1> QED  BY <1>4, <1>5, <1>6, <1>7, <1>8, DurableBounds

LEMMA ReadCeilingAcked ==
  ASSUME DurableInv, Queue!TypeOK', NEW t \in Threads, Queue!ReadCeiling(t)
  PROVE  QueueAcked'
<1> USE DEF DurableInv
<1>1. ceiling'[t] = Queue!CheckpointOf(row) - 1 /\ queuePc'[t] = "delete" /\ row' = row
      /\ sharing' = sharing
  BY DEF Queue!ReadCeiling, Queue!CeilingNow, Queue!Checkpoint, Queue!Go, Queue!TypeOK
<1>2. Queue!CheckpointOf(row) \in 0..MaxOffset
      /\ \A o \in Queue!Offsets : row[o] = "acked" => o <= Queue!CheckpointOf(row)
  BY CheckpointIs DEF Queue!TypeOK
<1>3. Beyond' \subseteq {Queue!CheckpointOf(row)}
  BY <1>1, <1>2, DurableBounds DEF Beyond, Queue!RowsIn, Queue!Offsets
<1>4. Cardinality(Beyond') <= 1 /\ Cardinality(Beyond') \in Nat
  <2>1. PICK c : c = Queue!CheckpointOf(row)
    OBVIOUS
  <2>2. IsFiniteSet({c}) /\ Cardinality({c}) = 1
    BY FS_Singleton
  <2>3. Cardinality(Beyond') <= Cardinality({c}) /\ IsFiniteSet(Beyond')
    BY <1>3, <2>1, <2>2, FS_Subset
  <2> QED  BY <2>2, <2>3, FS_CardinalityType
<1>5. Cardinality(Queue!Counted') \in Nat /\ Cardinality(Owing') \in Nat
  <2>1. Queue!Sharers' = Queue!Sharers /\ IsFiniteSet(Queue!Sharers)
    BY <1>1, CountedAre DEF Queue!Sharers, Queue!ProcOf
  <2>2. Queue!Counted' = Tokens(Queue!Sharers, CompactAfter, acks')
        /\ Owing' = Tokens(Threads, MaxOffset, owed')
    BY <2>1 DEF Queue!Counted, Tokens, Owing
  <2>3. IsFiniteSet(Queue!Counted') /\ IsFiniteSet(Owing')
    BY <2>1, <2>2, DurableBounds, TokensFinite
  <2> QED  BY <2>3, FS_CardinalityType
<1> QED  BY <1>4, <1>5 DEF QueueAcked

LEMMA DeleteChunkAcked ==
  ASSUME DurableInv, Queue!TypeOK', NEW t \in Threads, Queue!DeleteChunk(t)
  PROVE  QueueAcked'
<1> SUFFICES ASSUME Settled'
             PROVE  Cardinality(Beyond') <= 1 + Cardinality(Queue!Counted') + Cardinality(Owing')
  BY DEF QueueAcked, Settled
<1> USE DEF DurableInv
<1>1. /\ Cardinality(Queue!Deletable(t)) < Chunk
      /\ queuePc[t] = "delete" /\ queuePc' = [queuePc EXCEPT ![t] = "idle"]
      /\ \E victims \in Queue!kSubset(Cardinality(Queue!Deletable(t)), Queue!Deletable(t)) :
           row' = Queue!Become(victims, "gone")
  <2>1. PICK k : k = Cardinality(Queue!Deletable(t))
    OBVIOUS
  <2>2. Queue!Cardinality(Queue!Deletable(t)) = k
    BY <2>1, SameCardinality
  <2>3. /\ queuePc[t] = "delete"
        /\ queuePc' = [queuePc EXCEPT ![t] = IF (IF k < Chunk THEN k ELSE Chunk) < Chunk THEN "idle" ELSE "compact"]
        /\ \E victims \in Queue!kSubset(IF k < Chunk THEN k ELSE Chunk, Queue!Deletable(t)) :
             row' = Queue!Become(victims, "gone")
    BY <2>2 DEF Queue!DeleteChunk, Queue!Go
  <2>4. k < Chunk
    <3>1. queuePc'[t] # "compact"
      BY DEF Settled
    <3> QED  BY <2>3, <3>1, DurableBounds DEF Queue!TypeOK
  <2> QED  BY <2>1, <2>3, <2>4, Zenon
<1>2. /\ sharing' = sharing /\ acks' = acks /\ owed' = owed
      /\ \A u \in Threads : u # t => ceiling'[u] = ceiling[u]
  BY DEF Queue!DeleteChunk, Queue!TypeOK
<1>3. PICK victims \in SUBSET Queue!Deletable(t) :
        Cardinality(victims) = Cardinality(Queue!Deletable(t)) /\ row' = Queue!Become(victims, "gone")
  BY <1>1, SameCardinality DEF Queue!kSubset
<1>4. Queue!Deletable(t) \subseteq Queue!Offsets
  BY DEF Queue!Deletable, Queue!RowsIn
<1>5. victims = Queue!Deletable(t)
  BY <1>3, <1>4, RowsCounted, FS_Subset
<1>6. \A o \in Queue!Offsets : row'[o] = IF o \in Queue!Deletable(t) THEN "gone" ELSE row[o]
  BY <1>3, <1>4, <1>5, BecomeRows
<1>7. Beyond' \subseteq Beyond
  <2>1. SUFFICES ASSUME NEW o \in Beyond'  PROVE o \in Beyond
    OBVIOUS
  <2>2. o \in Queue!Offsets /\ row'[o] = "acked"
        /\ \A u \in Threads : queuePc'[u] = "delete" => o > ceiling'[u]
    BY DEF Beyond, Queue!RowsIn, Queue!Offsets
  <2>3. row[o] = "acked" /\ ~(o <= ceiling[t])
    BY <1>6, <2>2 DEF Queue!Deletable, Queue!RowsIn
  <2>4. o > ceiling[t]
    BY <2>2, <2>3 DEF Queue!Offsets, Queue!TypeOK
  <2>5. ASSUME NEW u \in Threads, u # t, queuePc[u] = "delete"  PROVE o > ceiling[u]
    BY <1>1, <1>2, <2>2, <2>5 DEF Queue!TypeOK
  <2> QED  BY <2>2, <2>3, <2>4, <2>5 DEF Beyond, Queue!RowsIn
<1>8. /\ Queue!Sharers' = Queue!Sharers /\ Queue!Counted' = Queue!Counted /\ Owing' = Owing
  BY <1>2 DEF Queue!Sharers, Queue!ProcOf, Queue!Counted, Owing, Tokens
<1>9. Settled
  BY <1>1, <1>2, <1>8 DEF Settled, Queue!TypeOK
<1>10. IsFiniteSet(Beyond) /\ Cardinality(Beyond) \in Nat
       /\ Cardinality(Queue!Counted) \in Nat /\ Cardinality(Owing) \in Nat
       /\ Cardinality(Beyond) <= 1 + Cardinality(Queue!Counted) + Cardinality(Owing)
  BY <1>9, CountedAre DEF QueueAcked, Settled
<1>11. Cardinality(Beyond') \in Nat /\ Cardinality(Beyond') <= Cardinality(Beyond)
  BY <1>7, <1>10, FS_Subset, FS_CardinalityType
<1> QED  BY <1>8, <1>10, <1>11

LEMMA ReopenAcked ==
  ASSUME DurableInv, Queue!TypeOK', NEW p \in Queue!Sharers, Queue!Reopen(p)
  PROVE  QueueAcked'
<1> SUFFICES ASSUME Settled'
             PROVE  Cardinality(Beyond') <= 1 + Cardinality(Queue!Counted') + Cardinality(Owing')
  BY DEF QueueAcked, Settled
<1> USE DEF DurableInv
<1> DEFINE acked == Queue!RowsIn("acked")
<1>1. acked \subseteq Queue!Offsets /\ IsFiniteSet(acked) /\ Cardinality(acked) \in Nat
  BY RowsCounted DEF Queue!RowsIn
<1>2. sharing' = sharing /\ row' = row /\ acks'[p] = Cardinality(acked)
  BY SharersCounted, SameCardinality DEF Queue!Reopen, Queue!TypeOK
<1>3. Queue!Sharers' = Queue!Sharers /\ IsFiniteSet(Queue!Sharers)
  BY <1>2, CountedAre DEF Queue!Sharers, Queue!ProcOf
<1>4. Beyond' \subseteq acked
  BY <1>2 DEF Beyond, Queue!RowsIn, Queue!Offsets
<1> HIDE DEF acked
<1>5. Cardinality(Beyond') \in Nat /\ Cardinality(Beyond') <= Cardinality(acked)
  BY <1>1, <1>4, FS_Subset, FS_CardinalityType
<1>6. Queue!Counted' = Tokens(Queue!Sharers, CompactAfter, acks')
      /\ Owing' = Tokens(Threads, MaxOffset, owed')
  BY <1>3 DEF Queue!Counted, Tokens, Owing
<1>7. Cardinality(Owing') \in Nat
  BY <1>6, DurableBounds, TokensFinite, FS_CardinalityType
<1>8. Cardinality(Queue!Counted') >= Cardinality(acked) /\ Cardinality(Queue!Counted') \in Nat
  <2>1. PICK g : g = acks'
    OBVIOUS
  <2>2. g[p] \in 0..CompactAfter
    <3>1. acks'[p] < CompactAfter
      BY <1>3 DEF Settled
    <3> QED  BY <1>1, <1>2, <2>1, <3>1, DurableBounds
  <2>3. Cardinality(Tokens(Queue!Sharers, CompactAfter, g))
          = Cardinality(Tokens(Queue!Sharers \ {p}, CompactAfter, g)) + g[p]
        /\ Cardinality(Tokens(Queue!Sharers \ {p}, CompactAfter, g)) \in Nat
    BY <1>3, <2>2, DurableBounds, TokensApart
  <2> QED  BY <1>1, <1>2, <1>6, <2>1, <2>3
<1> QED  BY <1>1, <1>5, <1>7, <1>8

LEMMA DurableAcked ==
  ASSUME DurableInv, Queue!Next, Queue!TypeOK'
  PROVE  QueueAcked'
<1> USE DEF DurableInv, Queue!Go, Queue!TypeOK
<1>0. sharing' = sharing
  BY SharingFixed
<1>1. ASSUME NEW t \in Threads, Queue!PushCheck(t) \/ Queue!PushRefused(t)  PROVE QueueAcked'
  BY <1>1, AckedShrinks DEF Queue!PushCheck, Queue!PushRefused
<1>2. ASSUME NEW t \in Threads, NEW burst \in 1..MaxBurst, Queue!PushInsert(t, burst)
      PROVE  QueueAcked'
  <2>1. \A o \in Queue!Offsets : row'[o] = "acked" => row[o] = "acked"
    BY <1>2 DEF Queue!PushInsert, Queue!Become
  <2> QED  BY <1>2, <2>1, AckedShrinks DEF Queue!PushInsert
<1>3. ASSUME NEW t \in Threads, Queue!CompactFails(t)  PROVE QueueAcked'
  <2>1. PICK p \in Queue!Sharers : p = Queue!ProcOf[t] /\ p \in Procs
    BY SharersCounted
  <2>2. acks'[p] = CompactAfter
    BY <1>3, <2>1 DEF Queue!CompactFails, Queue!AcksAfterFailure
  <2>3. p \in Queue!Sharers'
    BY <1>0, <2>1 DEF Queue!Sharers, Queue!ProcOf
  <2> QED  BY <2>2, <2>3, DurableBounds DEF QueueAcked
<1>4. ASSUME NEW t \in Threads, Queue!DeadLetter(t) \/ Queue!Requeue(t)
                                  \/ \E upTo \in Queue!Offsets : Queue!Compact(t, upTo)
      PROVE  QueueAcked'
  <2>1. \A o \in Queue!Offsets : row'[o] = "acked" => row[o] = "acked"
    BY <1>4 DEF Queue!DeadLetter, Queue!Requeue, Queue!Compact, Queue!Become
  <2> QED  BY <1>4, <2>1, AckedShrinks DEF Queue!DeadLetter, Queue!Requeue, Queue!Compact
<1>5. ASSUME NEW p \in Queue!Sharers, Queue!Reopen(p)  PROVE QueueAcked'
  BY <1>5, ReopenAcked
<1>6. ASSUME NEW t \in Threads, NEW batch \in SUBSET Queue!Pending, Queue!AckMany(t, batch)
      PROVE  QueueAcked'
  BY <1>6, AckManyAcked
<1>7. ASSUME NEW t \in Threads, Queue!CountAcks(t)  PROVE QueueAcked'
  BY <1>7, CountAcksAcked
<1>8. ASSUME NEW t \in Threads, Queue!ReadCeiling(t)  PROVE QueueAcked'
  BY <1>8, ReadCeilingAcked
<1>9. ASSUME NEW t \in Threads, Queue!DeleteChunk(t)  PROVE QueueAcked'
  BY <1>9, DeleteChunkAcked
<1> QED  BY <1>1, <1>2, <1>3, <1>4, <1>5, <1>6, <1>7, <1>8, <1>9 DEF Queue!Next, Queue!Step
-------------------------------------------------------------------------------
(* What the invariant says of a step.                                      *)

LEMMA RowsNotDeleted ==
  ASSUME DurableInv, Queue!Next
  PROVE  \A o \in Queue!Offsets : row[o] \in {"pending", "dead"} => row'[o] # "gone"
<1> USE DEF DurableInv, Queue!TypeOK
<1>1. ASSUME NEW t \in Threads, Queue!DeleteChunk(t)
      PROVE  \A o \in Queue!Offsets : row[o] \in {"pending", "dead"} => row'[o] # "gone"
  <2>1. PICK victims \in SUBSET Queue!Deletable(t) : row' = Queue!Become(victims, "gone")
    BY <1>1 DEF Queue!DeleteChunk, Queue!kSubset
  <2> QED  BY <2>1 DEF Queue!Deletable, Queue!RowsIn, Queue!Become
<1>2. ASSUME NEW t \in Threads, NEW upTo \in Queue!Offsets, Queue!Compact(t, upTo)
      PROVE  \A o \in Queue!Offsets : row[o] \in {"pending", "dead"} => row'[o] # "gone"
  BY <1>2 DEF Queue!Compact, Queue!RowsIn, Queue!Become
<1>3. ASSUME NEW t \in Threads,
             \/ \E burst \in 1..MaxBurst : Queue!PushInsert(t, burst)
             \/ \E batch \in SUBSET Queue!Pending : Queue!AckMany(t, batch)
             \/ Queue!DeadLetter(t) \/ Queue!Requeue(t)
      PROVE  \A o \in Queue!Offsets : row[o] \in {"pending", "dead"} => row'[o] # "gone"
  BY <1>3 DEF Queue!PushInsert, Queue!AckMany, Queue!DeadLetter, Queue!Requeue, Queue!Become
<1>4. ASSUME NEW t \in Threads,
             \/ Queue!PushCheck(t) \/ Queue!PushRefused(t) \/ Queue!CountAcks(t)
             \/ Queue!ReadCeiling(t) \/ Queue!CompactFails(t)
      PROVE  row' = row
  BY <1>4 DEF Queue!PushCheck, Queue!PushRefused, Queue!CountAcks, Queue!ReadCeiling,
              Queue!CompactFails
<1>5. ASSUME NEW p \in Queue!Sharers, Queue!Reopen(p)  PROVE row' = row
  BY <1>5 DEF Queue!Reopen
<1>6. row' = row => \A o \in Queue!Offsets : row[o] \in {"pending", "dead"} => row'[o] # "gone"
  OBVIOUS
<1> QED
  BY <1>1, <1>2, <1>3, <1>4, <1>5, <1>6, Zenon DEF Queue!Next, Queue!Step

LEMMA PushesWithin ==
  ASSUME DurableInv, Queue!Next, lastOffset' > lastOffset, Cardinality(Queue!Sharers) = 1
  PROVE  Cardinality(Queue!Pending') <= MaxPending
<1> USE DEF DurableInv
<1>1. PICK t \in Threads, burst \in 1..MaxBurst : Queue!PushInsert(t, burst)
  <2>1. lastOffset \in Int
    BY DurableBounds DEF Queue!TypeOK
  <2>2. ASSUME NEW t \in Threads, Queue!Step(t)
        PROVE  lastOffset' = lastOffset \/ \E burst \in 1..MaxBurst : Queue!PushInsert(t, burst)
    BY <2>2 DEF Queue!Step, Queue!PushCheck, Queue!PushRefused, Queue!AckMany,
                Queue!CountAcks, Queue!ReadCeiling, Queue!DeleteChunk, Queue!CompactFails,
                Queue!DeadLetter, Queue!Requeue, Queue!Compact
  <2>3. ASSUME NEW p \in Queue!Sharers, Queue!Reopen(p)  PROVE lastOffset' = lastOffset
    BY <2>3 DEF Queue!Reopen
  <2>4. lastOffset' # lastOffset
    BY <2>1
  <2> QED  BY <2>2, <2>3, <2>4 DEF Queue!Next
<1>2. PICK accepted \in 0..MaxBurst :
        /\ accepted <= room[t] /\ lastOffset' = lastOffset + accepted
        /\ Cardinality(Queue!Pending') \in Nat /\ Cardinality(Queue!Pending) \in Nat
        /\ Cardinality(Queue!Pending') <= Cardinality(Queue!Pending) + accepted
  BY <1>1, InsertAdds
<1>3. room[t] = Queue!RoomNow
  BY <1>1 DEF QueueRoom, Queue!PushInsert
<1>4. accepted # 0
  BY <1>2, DurableBounds DEF Queue!TypeOK
<1>5. Queue!RoomNow \in 0..MaxPending
      /\ (Queue!RoomNow # 0 => Queue!RoomNow = MaxPending - Cardinality(Queue!Pending))
  BY RoomTyped
<1> QED  BY <1>2, <1>3, <1>4, <1>5, DurableBounds

LEMMA ChunksKeepCheckpoint ==
  ASSUME DurableInv, Queue!Next, Queue!TypeOK', Queue!OperatorsKeepOut,
         NEW u \in Threads, queuePc[u] = "delete", queuePc'[u] # "delete"
  PROVE  Queue!CheckpointOf(row') = Queue!CheckpointOf(row)
<1> USE DEF DurableInv
<1>1. CASE \E p \in Queue!Sharers : Queue!Reopen(p)
  BY <1>1 DEF Queue!Reopen
<1>2. ASSUME NEW t \in Threads, Queue!Step(t)
      PROVE  Queue!CheckpointOf(row') = Queue!CheckpointOf(row)
  <2>1. t = u
    BY <1>2, OthersStay
  <2>2. Queue!DeleteChunk(u) \/ Queue!CompactFails(u)
    BY <1>2, <2>1 DEF Queue!Step, Queue!PushCheck, Queue!PushInsert, Queue!PushRefused,
       Queue!AckMany, Queue!CountAcks, Queue!ReadCeiling, Queue!DeadLetter, Queue!Requeue,
       Queue!Compact
  <2>3. CASE Queue!DeleteChunk(u)
    <3>1. ceiling[u] < Queue!Checkpoint
      BY DEF QueueCeilings
    <3> QED  BY <2>3, <3>1, ChunkBelow
  <2>4. CASE Queue!CompactFails(u)
    BY <2>4 DEF Queue!CompactFails
  <2> QED  BY <2>2, <2>3, <2>4
<1> QED  BY <1>1, <1>2 DEF Queue!Next
-------------------------------------------------------------------------------
LEMMA DurableBegins == ASSUME Queue!Init PROVE DurableInv
<1> USE DEF Queue!Init
<1>1. Queue!TypeOK
  BY DurableBounds DEF Queue!TypeOK, Queue!Offsets
<1>2. QueueLocked /\ QueueOwing /\ QueueRoom /\ QueueCeilings
  <2>1. \A t \in Threads : Queue!ProcOf[t] \in Procs
    BY <1>1, SharersCounted DEF Queue!TypeOK
  <2> QED  BY <2>1, DurableBounds DEF QueueLocked, QueueOwing, QueueRoom, QueueCeilings
<1>3. /\ IsFiniteSet(Queue!Sharers) /\ Queue!Sharers \subseteq Procs
      /\ Cardinality(Queue!Sharers) \in Nat \ {0}
  BY <1>1, SharersCounted DEF Queue!TypeOK
<1>4. QueueWaiting
  <2>1. Queue!Pending = {}
    BY DEF Queue!Pending, Queue!RowsIn
  <2>2. \A p \in Queue!Sharers : BurstOf[p] = 0
    BY <1>3 DEF BurstOf, Inserting
  <2>3. InFlight = {}
    BY <2>2, DurableBounds DEF InFlight, Tokens
  <2>4. Cardinality({}) = 0
    BY FS_EmptySet
  <2>5. (Cardinality(Queue!Sharers) - 1) * MaxBurst \in Nat
    <3>1. \A a, b \in Nat : a * b \in Nat
      OBVIOUS
    <3>2. Cardinality(Queue!Sharers) - 1 \in Nat /\ MaxBurst \in Nat
      BY <1>3, DurableBounds
    <3> QED  BY <3>1, <3>2
  <2> QED  BY <2>1, <2>3, <2>4, <2>5, DurableBounds DEF QueueWaiting
<1>5. QueueAcked
  <2> SUFFICES ASSUME Settled
               PROVE  Cardinality(Beyond) <= 1 + Cardinality(Queue!Counted) + Cardinality(Owing)
    BY DEF QueueAcked, Settled
  <2>1. PICK p \in Queue!Sharers : TRUE
    BY <1>3, FS_EmptySet
  <2>2. acks[p] = lastOffset /\ lastOffset \in 0..MaxOffset /\ acks[p] < CompactAfter
    BY <1>3, <2>1 DEF Settled
  <2>3. Beyond \subseteq 1..lastOffset
    BY <2>2, DurableBounds DEF Beyond, Queue!RowsIn, Queue!Offsets
  <2>4. IsFiniteSet(1..lastOffset) /\ Cardinality(1..lastOffset) = lastOffset
    BY <2>2, CountTo, DurableBounds
  <2>5. Cardinality(Beyond) <= lastOffset
    BY <2>3, <2>4, FS_Subset
  <2>6. Cardinality(Queue!Counted) >= lastOffset
    <3>1. PICK f : f = acks
      OBVIOUS
    <3>2. f[p] \in 0..CompactAfter
      BY <2>2, <3>1, DurableBounds
    <3>3. Cardinality(Tokens(Queue!Sharers, CompactAfter, f))
            = Cardinality(Tokens(Queue!Sharers \ {p}, CompactAfter, f)) + f[p]
          /\ Cardinality(Tokens(Queue!Sharers \ {p}, CompactAfter, f)) \in Nat
      BY <1>3, <3>2, DurableBounds, TokensApart
    <3> QED  BY <1>1, <2>2, <3>1, <3>3, CountedAre
  <2>7. Cardinality(Queue!Counted) \in Nat /\ Cardinality(Owing) \in Nat /\ Cardinality(Beyond) \in Nat
    BY <1>1, CountedAre
  <2> QED  BY <2>2, <2>5, <2>6, <2>7, DurableBounds
<1> QED  BY <1>1, <1>2, <1>4, <1>5 DEF DurableInv

LEMMA DurableKept ==
  ASSUME DurableInv, Queue!Next
  PROVE  DurableInv'
<1>1. Queue!TypeOK' /\ QueueLocked' /\ QueueOwing'
  BY DurableTyped
<1>2. QueueRoom' /\ QueueWaiting' /\ QueueAcked' /\ QueueCeilings'
  BY <1>1, DurableRoom, DurableWaiting, DurableAcked, DurableCeilings
<1> QED  BY <1>1, <1>2 DEF DurableInv

LEMMA DurableUnchanged == ASSUME DurableInv, UNCHANGED queueVars PROVE DurableInv'
<1> USE DEF DurableInv, queueVars
<1>1. /\ Queue!Sharers' = Queue!Sharers /\ Queue!Pending' = Queue!Pending
      /\ Queue!Operators' = Queue!Operators /\ Queue!RowsIn("acked")' = Queue!RowsIn("acked")
  BY DEF Queue!Sharers, Queue!ProcOf, Queue!Operators, Queue!Pending, Queue!RowsIn
<1>2. Queue!TypeOK'
  BY DEF Queue!TypeOK
<1>3. QueueLocked' /\ QueueOwing'
  BY DEF QueueLocked, QueueOwing, Queue!ProcOf
<1>4. QueueRoom'
  BY <1>1 DEF QueueRoom, Queue!RoomNow
<1>5. QueueWaiting'
  <2>1. InFlight' = InFlight
    BY <1>1 DEF InFlight, BurstOf, Inserting, Tokens
  <2> QED  BY <1>1, <2>1 DEF QueueWaiting
<1>6. QueueAcked'
  BY <1>1 DEF QueueAcked, Beyond, Queue!Counted, Owing, Tokens
<1>7. QueueCeilings'
  BY <1>1 DEF QueueCeilings, Queue!OperatorsKeepOut, Queue!Checkpoint, Queue!CheckpointOf
<1> QED  BY <1>2, <1>3, <1>4, <1>5, <1>6, <1>7

LEMMA DurableSafe == ASSUME DurableInv PROVE QueueBounded
<1> USE DEF DurableInv
<1>1. Queue!PendingBounded
  <2>1. IsFiniteSet(Queue!Sharers)
    BY SharersCounted DEF Queue!TypeOK
  <2>2. Cardinality(InFlight) \in Nat
    BY <2>1, DurableBounds, TokensFinite, FS_CardinalityType DEF InFlight
  <2>3. Cardinality(Queue!Pending) \in Nat
    BY RoomTyped
  <2>4. Cardinality(Queue!Sharers) \in Nat /\ (Cardinality(Queue!Sharers) - 1) * MaxBurst \in Int
    <3>1. \A a, b \in Int : a * b \in Int
      OBVIOUS
    <3>2. Cardinality(Queue!Sharers) \in Nat
      BY <2>1, FS_CardinalityType
    <3> QED  BY <3>1, <3>2, DurableBounds
  <2>5. Queue!Operators = {} =>
          Cardinality(Queue!Pending) <= MaxPending + (Cardinality(Queue!Sharers) - 1) * MaxBurst
    BY <2>2, <2>3, <2>4, DurableBounds DEF QueueWaiting
  <2> QED  BY <2>5, SameCardinality DEF Queue!PendingBounded
<1>2. Queue!AckedRowsBounded
  <2> SUFFICES ASSUME \A t \in Threads : queuePc[t] \in {"idle", "insert"},
                      \A p \in Queue!Sharers : acks[p] < CompactAfter
               PROVE  Cardinality(Queue!RowsIn("acked")) <= 1 + Cardinality(Queue!Counted)
    BY SameCardinality DEF Queue!AckedRowsBounded
  <2>1. Beyond = Queue!RowsIn("acked")
    BY DEF Beyond, Queue!RowsIn
  <2>2. Cardinality(Owing) = 0
    <3>1. \A t \in Threads : owed[t] = 0
      BY DEF QueueOwing
    <3>2. Owing = {}
      BY <3>1, DurableBounds DEF Owing, Tokens
    <3> QED  BY <3>2, FS_EmptySet
  <2>3. Cardinality(Beyond) <= 1 + Cardinality(Queue!Counted) + Cardinality(Owing)
    BY DEF QueueAcked
  <2> QED  BY <2>1, <2>2, <2>3, CountedAre
<1> QED  BY <1>1, <1>2 DEF QueueBounded
-------------------------------------------------------------------------------
LEMMA DurableInvariant == Spec => []DurableInv
<1>1. Init => DurableInv
  BY DurableBegins DEF Init, QueueInit
<1>2. DurableInv /\ [Next]_vars => DurableInv'
  <2> SUFFICES ASSUME DurableInv, [Next]_vars  PROVE DurableInv'
    OBVIOUS
  <2>1. CASE QueueStep
    BY <2>1, DurableKept DEF QueueStep
  <2>2. CASE PollStep \/ BucketStep \/ TailStep \/ JournalStep \/ FeedStep \/ UNCHANGED vars
    <3>1. UNCHANGED queueVars
      BY <2>2 DEF PollStep, BucketStep, TailStep, JournalStep, FeedStep, vars
    <3> QED  BY <3>1, DurableUnchanged
  <2> QED  BY <2>1, <2>2 DEF Next
<1> QED  BY <1>1, <1>2, PTL DEF Spec

\* However many processes and threads share the file, the rows that wait exceed
\* max_pending by at most a burst of every process but one (unless dead letters are
\* requeued), and the acknowledged rows still there were counted: by the lock of
\* each process, and because a chunk that is not full leaves none below its ceiling.
THEOREM QueueStaysBounded == Spec => []QueueBounded
<1>1. DurableInv => QueueBounded
  BY DurableSafe
<1> QED  BY <1>1, DurableInvariant, PTL

\* A waiting row is never deleted, compaction leaves the checkpoint where it is
\* (unless an operator of another process compacts too), and within one process no
\* push exceeds max_pending.
THEOREM RowsKept == Spec => QueueRowsKept
<1>1. DurableInv /\ DurableInv' /\ [Next]_vars =>
        /\ [lastOffset' > lastOffset /\ Queue!Cardinality(Queue!Sharers) = 1 =>
              Queue!Cardinality({o \in Queue!Offsets : row'[o] = "pending"}) <= MaxPending]_(Queue!vars)
        /\ [\A o \in Queue!Offsets : row[o] \in {"pending", "dead"} => row'[o] # "gone"]_(Queue!vars)
        /\ [\A t \in Threads :
              Queue!OperatorsKeepOut /\ queuePc[t] = "delete" /\ queuePc'[t] # "delete" =>
                Queue!CheckpointOf(row') = Queue!CheckpointOf(row)]_(Queue!vars)
  <2> SUFFICES ASSUME DurableInv, DurableInv', [Next]_vars, ~UNCHANGED Queue!vars
               PROVE  /\ lastOffset' > lastOffset /\ Queue!Cardinality(Queue!Sharers) = 1 =>
                           Queue!Cardinality({o \in Queue!Offsets : row'[o] = "pending"}) <= MaxPending
                      /\ \A o \in Queue!Offsets : row[o] \in {"pending", "dead"} => row'[o] # "gone"
                      /\ \A t \in Threads :
                           Queue!OperatorsKeepOut /\ queuePc[t] = "delete" /\ queuePc'[t] # "delete" =>
                             Queue!CheckpointOf(row') = Queue!CheckpointOf(row)
    OBVIOUS
  <2>1. Queue!Next
    BY DEF Next, QueueStep, PollStep, BucketStep, TailStep, JournalStep, FeedStep, vars, queueVars,
           Queue!vars
  <2>2. Queue!Pending' = {o \in Queue!Offsets : row'[o] = "pending"}
    BY DEF Queue!Pending, Queue!RowsIn, Queue!Offsets
  <2>3. lastOffset' > lastOffset /\ Cardinality(Queue!Sharers) = 1 =>
          Cardinality({o \in Queue!Offsets : row'[o] = "pending"}) <= MaxPending
    BY <2>1, <2>2, PushesWithin
  <2>4. \A o \in Queue!Offsets : row[o] \in {"pending", "dead"} => row'[o] # "gone"
    BY <2>1, RowsNotDeleted
  <2>5. \A t \in Threads :
          Queue!OperatorsKeepOut /\ queuePc[t] = "delete" /\ queuePc'[t] # "delete" =>
            Queue!CheckpointOf(row') = Queue!CheckpointOf(row)
    BY <2>1, ChunksKeepCheckpoint DEF DurableInv
  <2> QED  BY <2>3, <2>4, <2>5, SameCardinality
<1> QED
  BY <1>1, DurableInvariant, PTL
     DEF Spec, QueueRowsKept, Queue!PushKeepsBound, Queue!WaitingRowsKept, Queue!CheckpointKept
===============================================================================
