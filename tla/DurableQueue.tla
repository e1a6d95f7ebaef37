----------------------------- MODULE DurableQueue -----------------------------
(***************************************************************************)
(* DurableQueue of src/autosiem/bus.py: the rows of one SQLite file shared *)
(* by the threads of several processes. A process holds one connection and *)
(* one lock; between processes only the database serializes, statement by  *)
(* statement. Acknowledged rows are deleted in chunks once enough of them  *)
(* have been counted. QueueDrain sees the rows without their deletion.     *)
(***************************************************************************)
EXTENDS Integers, FiniteSets, FiniteSetsExt

CONSTANTS
  Procs,        \* processes that have the queue file open
  Threads,      \* their threads
  Sharings,     \* ways to share the file: [procOf |-> [Threads -> Procs], operators |->
                \* the threads that also requeue dead letters and call compact()]
  None,
  MaxOffset,    \* bound of the model: rows ever inserted
  MaxPending,   \* max_pending of push and push_many
  MaxBurst,     \* payloads of one push_many
  CompactAfter, \* COMPACT_AFTER_ACKS
  Chunk,        \* COMPACT_CHUNK
  MaxFaults     \* bound: transactions SQLite refuses during a compaction

\* Assumed by the module that checks this one.
QueueAssumption ==
  /\ Sharings \subseteq [procOf : [Threads -> Procs], operators : SUBSET Threads]
  /\ None \notin Threads /\ IsFiniteSet(Threads) /\ Threads # {}
  /\ MaxOffset \in Nat /\ MaxFaults \in Nat
  /\ {MaxPending, MaxBurst, CompactAfter, Chunk} \subseteq Nat \ {0}

VARIABLES
  sharing,  \* who shares the file, and how; never changes
  last,     \* highest offset ever handed out (AUTOINCREMENT)
  row,      \* the `acked` column; "free" before the insert, "gone" after deletion
  acks,     \* _acks_since_compact of each process
  lock,     \* owner of each process's _lock across statements, or None
  pc,       \* where each thread is
  room,     \* what push_many's pending() found room for
  owed,     \* rows acknowledged but not yet added to acks
  ceiling,  \* the offset up to which the next chunk may delete
  faults

vars == <<sharing, last, row, acks, lock, pc, room, owed, ceiling, faults>>

ProcOf == sharing.procOf
Operators == sharing.operators
Sharers == {ProcOf[t] : t \in Threads}

Offsets == 1..MaxOffset
RowsIn(status) == {o \in Offsets : row[o] = status}
Pending == RowsIn("pending")
Become(S, status) == [o \in Offsets |-> IF o \in S THEN status ELSE row[o]]

\* MAX(offset) of the acknowledged rows, 0 when there is none.
CheckpointOf(rows) ==
  LET acked == {o \in Offsets : rows[o] = "acked"} IN IF acked = {} THEN 0 ELSE Max(acked)
Checkpoint == CheckpointOf(row)

Go(t, where) == pc' = [pc EXCEPT ![t] = where]

LockFree(t) == lock[ProcOf[t]] = None
Take(t) == LockFree(t) /\ lock' = [lock EXCEPT ![ProcOf[t]] = t]
Release(t) == lock' = [lock EXCEPT ![ProcOf[t]] = None]

\* A queue of an older version, which never deleted: every row acknowledged.
Init ==
  /\ sharing \in Sharings
  /\ last \in 0..MaxOffset
  /\ row = [o \in Offsets |-> IF o <= last THEN "acked" ELSE "free"]
  /\ acks = [p \in Procs |-> last]
  /\ lock = [p \in Procs |-> None]
  /\ pc = [t \in Threads |-> "idle"]
  /\ room = [t \in Threads |-> 0]
  /\ owed = [t \in Threads |-> 0]
  /\ ceiling = [t \in Threads |-> 0]
  /\ faults = 0
-------------------------------------------------------------------------------
\* push, push_many: count the pending rows, under the lock, before the insert
\* opens the write transaction.
RoomNow == IF Cardinality(Pending) < MaxPending THEN MaxPending - Cardinality(Pending) ELSE 0

PushCheck(t) ==
  /\ pc[t] = "idle"
  /\ Take(t)
  /\ room' = [room EXCEPT ![t] = RoomNow]
  /\ Go(t, "insert")
  /\ UNCHANGED <<sharing, last, row, acks, owed, ceiling, faults>>

\* Insert what fits of a burst; the rest (or all of it) is refused.
PushInsert(t, burst) ==
  LET accepted == IF burst < room[t] THEN burst ELSE room[t]
  IN  /\ pc[t] = "insert"
      /\ last + accepted <= MaxOffset
      /\ last' = last + accepted
      /\ row' = Become((last + 1)..(last + accepted), "pending")
      /\ room' = [room EXCEPT ![t] = 0]
      /\ Release(t)
      /\ Go(t, "idle")
      /\ UNCHANGED <<sharing, acks, owed, ceiling, faults>>

\* SQLite refuses the insert or its commit: rolled back, nothing is queued.
PushRefused(t) ==
  /\ pc[t] = "insert"
  /\ room' = [room EXCEPT ![t] = 0]
  /\ Release(t)
  /\ Go(t, "idle")
  /\ UNCHANGED <<sharing, last, row, acks, owed, ceiling, faults>>

\* ack_many, first transaction: the rows of a settled batch are acknowledged.
AckMany(t, batch) ==
  /\ pc[t] = "idle" /\ LockFree(t)
  /\ batch # {}
  /\ row' = Become(batch, "acked")
  /\ owed' = [owed EXCEPT ![t] = Cardinality(batch)]
  /\ Go(t, "count")
  /\ UNCHANGED <<sharing, last, acks, lock, room, ceiling, faults>>

\* ack_many, under the lock again: count them; the thread that reaches the
\* threshold takes the count back to zero and compacts.
CountAcks(t) ==
  LET p == ProcOf[t]
      counted == acks[p] + owed[t]
      due == counted >= CompactAfter
  IN  /\ pc[t] = "count" /\ LockFree(t)
      /\ acks' = [acks EXCEPT ![p] = IF due THEN 0 ELSE counted]
      /\ owed' = [owed EXCEPT ![t] = 0]
      /\ Go(t, IF due THEN "compact" ELSE "idle")
      /\ UNCHANGED <<sharing, last, row, lock, room, ceiling, faults>>

\* compact_acked, one chunk: read the ceiling, ...
CeilingAtCheckpoint == Checkpoint  \* mutant: off by one

CeilingNow == Checkpoint - 1

ReadCeiling(t) ==
  /\ pc[t] = "compact"
  /\ Take(t)
  /\ ceiling' = [ceiling EXCEPT ![t] = CeilingNow]
  /\ Go(t, "delete")
  /\ UNCHANGED <<sharing, last, row, acks, room, owed, faults>>

\* ... delete some acknowledged rows below it, a chunk at most, and go on until
\* a chunk is not full.
Deletable(t) == {o \in RowsIn("acked") : o <= ceiling[t]}

DeleteChunk(t) ==
  LET size == IF Cardinality(Deletable(t)) < Chunk THEN Cardinality(Deletable(t)) ELSE Chunk
  IN  /\ pc[t] = "delete"
      /\ \E victims \in kSubset(size, Deletable(t)) : row' = Become(victims, "gone")
      /\ ceiling' = [ceiling EXCEPT ![t] = 0]
      /\ Release(t)
      /\ Go(t, IF size < Chunk THEN "idle" ELSE "compact")
      /\ UNCHANGED <<sharing, last, acks, room, owed, faults>>

\* _compact_quietly: SQLite refuses; the next acknowledgement tries again.
AcksForgotten == 0  \* mutant: a failed compaction is not tried again

AcksAfterFailure == CompactAfter

CompactFails(t) ==
  /\ pc[t] = "delete"
  /\ faults < MaxFaults /\ faults' = faults + 1
  /\ acks' = [acks EXCEPT ![ProcOf[t]] = AcksAfterFailure]
  /\ ceiling' = [ceiling EXCEPT ![t] = 0]
  /\ Release(t)
  /\ Go(t, "idle")
  /\ UNCHANGED <<sharing, last, row, room, owed>>

DeadLetter(t) ==
  /\ pc[t] = "idle" /\ LockFree(t)
  /\ \E o \in Pending : row' = Become({o}, "dead")
  /\ UNCHANGED <<sharing, last, acks, lock, pc, room, owed, ceiling, faults>>

\* requeue_dead_letters: they are pending again, whatever max_pending says.
Requeue(t) ==
  /\ t \in Operators
  /\ pc[t] = "idle" /\ LockFree(t)
  /\ RowsIn("dead") # {}
  /\ row' = Become(RowsIn("dead"), "pending")
  /\ UNCHANGED <<sharing, last, acks, lock, pc, room, owed, ceiling, faults>>

\* compact(max_acked), called by library users: all acknowledged rows up to it.
Compact(t, upTo) ==
  /\ t \in Operators
  /\ pc[t] = "idle" /\ LockFree(t)
  /\ row' = Become({o \in RowsIn("acked") : o <= upTo}, "gone")
  /\ UNCHANGED <<sharing, last, acks, lock, pc, room, owed, ceiling, faults>>

\* A process dies, at any point, and opens the queue again; it counts the
\* acknowledged rows it finds. An open transaction is rolled back by SQLite.
Reopen(p) ==
  LET mine == {t \in Threads : ProcOf[t] = p}
      Reset(f, v) == [t \in Threads |-> IF t \in mine THEN v ELSE f[t]]
  IN  /\ \E t \in mine : pc[t] # "idle"
      /\ acks' = [acks EXCEPT ![p] = Cardinality(RowsIn("acked"))]
      /\ lock' = [lock EXCEPT ![p] = None]
      /\ pc' = Reset(pc, "idle")
      /\ room' = Reset(room, 0) /\ owed' = Reset(owed, 0) /\ ceiling' = Reset(ceiling, 0)
      /\ UNCHANGED <<sharing, last, row, faults>>

Step(t) ==
  \/ PushCheck(t)
  \/ \E burst \in 1..MaxBurst : PushInsert(t, burst)
  \/ PushRefused(t)
  \/ \E batch \in SUBSET Pending : AckMany(t, batch)
  \/ CountAcks(t)
  \/ ReadCeiling(t)
  \/ DeleteChunk(t)
  \/ CompactFails(t)
  \/ DeadLetter(t)
  \/ Requeue(t)
  \/ \E upTo \in Offsets : Compact(t, upTo)

Next == (\E t \in Threads : Step(t)) \/ (\E p \in Sharers : Reopen(p))

Spec == Init /\ [][Next]_vars
-------------------------------------------------------------------------------
TypeOK ==
  /\ sharing \in Sharings
  /\ last \in 0..MaxOffset
  /\ row \in [Offsets -> {"free", "pending", "acked", "dead", "gone"}]
  /\ \A o \in Offsets : row[o] = "free" <=> o > last
  /\ acks \in [Procs -> 0..(CompactAfter + MaxOffset)]
  /\ lock \in [Procs -> Threads \union {None}]
  /\ pc \in [Threads -> {"idle", "insert", "count", "compact", "delete"}]
  /\ room \in [Threads -> 0..MaxPending]
  /\ owed \in [Threads -> 0..MaxOffset]
  /\ ceiling \in [Threads -> -1..MaxOffset]

\* However threads race, the rows that wait never exceed max_pending by more
\* than the burst another process has in flight (the lock is per process).
PendingBounded ==
  Operators = {} =>
    Cardinality(Pending) <= MaxPending + (Cardinality(Sharers) - 1) * MaxBurst

\* With the threads of one process, no push leaves more than max_pending rows
\* waiting, also when requeued dead letters have taken the room meanwhile.
PushKeepsBound ==
  [][last' > last /\ Cardinality(Sharers) = 1 =>
       Cardinality({o \in Offsets : row'[o] = "pending"}) <= MaxPending]_vars

\* A row that waits or was set aside is never deleted, whatever acknowledges,
\* requeues and compacts around it.
WaitingRowsKept ==
  [][\A o \in Offsets : row[o] \in {"pending", "dead"} => row'[o] # "gone"]_vars

\* Automatic compaction leaves the checkpoint where it is, also when rows are
\* acknowledged, out of order, between the reading of its ceiling and its delete;
\* unless an operator of one process can compact while another process does: the
\* newest acknowledged row may then be deleted between the two statements.
OperatorsKeepOut == Operators = {} \/ Cardinality(Sharers) = 1

CheckpointKept ==
  [][\A t \in Threads :
       OperatorsKeepOut /\ pc[t] = "delete" /\ pc'[t] # "delete" =>
         CheckpointOf(row') = CheckpointOf(row)]_vars

\* The file stops growing: when no acknowledgement is being counted and no
\* failed compaction is to be repeated, the acknowledged rows still there are
\* at most those counted towards the next compaction, and the checkpoint.
Counted == {x \in Sharers \X (1..CompactAfter) : x[2] <= acks[x[1]]}  \* as many as counted

AckedRowsBounded ==
  (\A t \in Threads : pc[t] \in {"idle", "insert"}) /\ (\A p \in Sharers : acks[p] < CompactAfter)
    => Cardinality(RowsIn("acked")) <= 1 + Cardinality(Counted)
===============================================================================
