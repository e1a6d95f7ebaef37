-------------------------- MODULE QueueDrain_proofs --------------------------
(***************************************************************************)
(* Durable ingest proved for every queue size, batch size, burst, backend, *)
(* and number of faults and crashes: type correctness, no accepted line is *)
(* lost, an event is stored at most once per process, and what a drain     *)
(* leaves behind. All follow from one inductive invariant: where the drain *)
(* has each line in hand.                                                  *)
(***************************************************************************)
EXTENDS QueueDrain, FiniteSetTheorems, SequenceTheorems, TLAPS

\* The lines the drain holds in a frame or in _held, and has not saved.
InHand == held \union suspects \union UNION todo

\* Lines in hand, saved or not, still wait in the queue.
InHandWait ==
  /\ \A o \in InHand : row[o] = "pending" /\ o \notin unacked
  /\ \A o \in unacked : row[o] = "pending" /\ saved[o] > 0

\* A line is in one place: one part, the held batch, or the suspects.
OnePlace ==
  /\ \A a, b \in todo : a # b => a \intersect b = {}
  /\ held \intersect suspects = {}
  /\ \A a \in todo : a \intersect (held \union suspects) = {}

\* What each point of the drain knows of its frames.
Control ==
  /\ pc \in {"idle", "loop"} => todo = {} /\ suspects = {}
  /\ pc \in {"process", "save"} => unacked = {}
  /\ pc \in {"process", "copy", "ack"} => held = {}
  /\ pc = "setAside" => todo = {}

\* Who may be saved once more by this process: a line neither acknowledged nor
\* owed its acknowledgement was not saved by it yet.
Unsaved ==
  \A o \in Offsets : row[o] # "acked" /\ o \notin unacked => saved[o] <= crashes

\* Markers are never in hand, and the drain believes that something was saved
\* only when something was.
Grounded ==
  /\ \A o \in InHand \union unacked : kind[o] # "marker"
  /\ settled => \E o \in Offsets : saved[o] > 0

IInv ==
  /\ TypeOK
  /\ InHandWait
  /\ OnePlace
  /\ Control
  /\ AckedIsSaved
  /\ SavedOncePerProcess
  /\ Unsaved
  /\ Grounded
-------------------------------------------------------------------------------
(* Facts about the operators.                                              *)

\* The size of a set of offsets is a number.
LEMMA OffsetsFinite ==
  ASSUME NEW S \in SUBSET Offsets
  PROVE  IsFiniteSet(S) /\ Cardinality(S) \in Nat
  <1>1. IsFiniteSet(Offsets)
    BY BackendAssumption, FS_Interval DEF Offsets
  <1> QED BY <1>1, FS_Subset, FS_CardinalityType

\* What fits in the queue is a number of lines.
LEMMA RoomType == Room \in Nat
  <1>1. Cardinality(Pending) \in Nat
    BY OffsetsFinite DEF Pending, RowsIn
  <1> QED BY <1>1, BackendAssumption DEF Room

\* The earliest lines of a set are lines of the set.
LEMMA EarliestOf ==
  ASSUME NEW S, NEW n
  PROVE  Earliest(S, n) \subseteq S
  BY DEF Earliest

\* Cutting the excess off leaves a backlog within its bound.
LEMMA TrimmedBacklog ==
  ASSUME NEW grown \in Seq(Offsets)
  PROVE  LET kept == SubSeq(grown, Excess(grown) + 1, Len(grown))
         IN  kept \in Seq(Offsets) /\ Len(kept) <= MaxPending
  <1>1. Len(grown) \in Nat /\ MaxPending \in Nat /\ MaxPending > 0
    BY BackendAssumption
  <1>2. Excess(grown) \in Nat /\ Excess(grown) <= Len(grown)
    BY <1>1 DEF Excess
  <1>3. \A i \in (Excess(grown) + 1)..Len(grown) : grown[i] \in Offsets
    BY <1>1, <1>2
  <1>4. /\ SubSeq(grown, Excess(grown) + 1, Len(grown)) \in Seq(Offsets)
        /\ Len(SubSeq(grown, Excess(grown) + 1, Len(grown)))
             = IF Excess(grown) + 1 <= Len(grown) THEN Len(grown) - Excess(grown) ELSE 0
    BY <1>1, <1>2, <1>3, SubSeqProperties
  <1> QED BY <1>1, <1>2, <1>4 DEF Excess

\* The events a sequence of offsets names are offsets.
LEMMA RangeOfOffsets ==
  ASSUME NEW s \in Seq(Offsets)
  PROVE  Range(s) \subseteq Offsets
  BY DEF Range

\* A flush keeps the backlog's type and bound.
LEMMA FlushType ==
  ASSUME BackendTypeOK, NEW s \in Seq(Offsets), Len(s) <= MaxPending, Flush(s),
         dropped' \subseteq Offsets
  PROVE  BackendTypeOK'
  <1>1. Range(s) \subseteq Offsets
    BY RangeOfOffsets
  <1>2. Len(<<>>) <= MaxPending /\ <<>> \in Seq(Offsets)
    BY BackendAssumption
  <1> QED BY <1>1, <1>2 DEF Flush, BackendTypeOK

\* So does the flush at the start of a drain, ...
LEMMA FlushBackendType ==
  ASSUME BackendTypeOK, FlushBackend
  PROVE  BackendTypeOK'
  BY FlushType DEF BackendTypeOK, FlushBackend

\* ... and the copy of a saved batch, however the grown backlog is cut.
LEMMA SendType ==
  ASSUME BackendTypeOK, NEW batch \in SUBSET Offsets, SendToBackend(batch)
  PROVE  BackendTypeOK'
  <1>1. CASE ~Backend
    BY <1>1 DEF SendToBackend, BackendTypeOK, backendVars
  <1>2. CASE Backend
    <2>1. PICK events \in InOrder(batch) :
            LET grown == backlog \o events
            IN  /\ dropped' = dropped \union Range(SubSeq(grown, 1, Excess(grown)))
                /\ Flush(SubSeq(grown, Excess(grown) + 1, Len(grown)))
      BY <1>2 DEF SendToBackend
    <2> DEFINE grown == backlog \o events
    <2>2. events \in Seq(Offsets)
      <3>1. Cardinality(batch) \in Nat
        BY OffsetsFinite
      <3>2. events \in [1..Cardinality(batch) -> Offsets]
        BY <2>1 DEF InOrder
      <3> QED BY <3>1, <3>2
    <2>3. grown \in Seq(Offsets)
      BY <2>2, ConcatProperties DEF BackendTypeOK
    <2>4. Excess(grown) \in Nat /\ Excess(grown) <= Len(grown)
      BY <2>3, BackendAssumption, LenProperties DEF Excess
    <2>5. SubSeq(grown, 1, Excess(grown)) \in Seq(Offsets)
      <3>1. \A i \in 1..Excess(grown) : grown[i] \in Offsets
        BY <2>3, <2>4, LenProperties, ElementOfSeq
      <3> QED BY <2>3, <2>4, <3>1, SubSeqProperties, LenProperties
    <2>6. dropped' \subseteq Offsets
      BY <2>1, <2>5, RangeOfOffsets DEF BackendTypeOK
    <2> QED BY <2>1, <2>3, <2>6, TrimmedBacklog, FlushType
  <1> QED BY <1>1, <1>2
-------------------------------------------------------------------------------
(* The drain's frames: bisecting and leaving keep every line in one place. *)

\* A part that no other part, no suspect meets.
Apart(part, parts) ==
  /\ part \in SUBSET Offsets /\ parts \in SUBSET (SUBSET Offsets)
  /\ \A a, b \in parts : a # b => a \intersect b = {}
  /\ \A a \in parts : a \intersect (part \union suspects) = {}
  /\ part \intersect suspects = {}

\* A step after which the frames hold no more than these lines, each in one place.
Frames(lines) ==
  /\ OnePlace'
  /\ InHand' \subseteq lines
  /\ todo' \subseteq SUBSET Offsets /\ suspects' \subseteq Offsets /\ settled' \in BOOLEAN
  /\ pc' \in {"idle", "process", "setAside", "loop"}
  /\ pc' \in {"idle", "setAside", "loop"} => todo' = {}
  /\ pc' \in {"idle", "loop"} => suspects' = {}

\* Bisecting a part leaves each of its lines in one place.
LEMMA BisectKeeps ==
  ASSUME NEW part, NEW parts, TypeOK, Apart(part, parts), Bisect(part, parts), held' = {}
  PROVE  Frames(part \union suspects \union UNION parts)
  <1> USE DEF Apart
  <1> DEFINE left == Earliest(part, Cardinality(part) \div 2)
  <1>1. left \subseteq part
    BY EarliestOf
  <1>2. /\ pc' = IF todo' # {} THEN "process" ELSE IF suspects' # {} THEN "setAside" ELSE "loop"
        /\ settled' \in BOOLEAN
    BY DEF Bisect, Continue, TypeOK
  <1>3. CASE Alone(part)
    <2>1. todo' = parts /\ suspects' = suspects \union part
      BY <1>3 DEF Bisect
    <2>2. OnePlace'
      BY <2>1 DEF OnePlace
    <2> QED BY <1>2, <2>1, <2>2 DEF InHand, Frames, TypeOK
  <1>4. CASE ~Alone(part)
    <2>1. todo' = parts \union {left, part \ left} /\ suspects' = suspects
      BY <1>4 DEF Bisect
    <2>2. \A a \in todo' : a \in parts \/ a = left \/ a = part \ left
      BY <2>1
    <2>3. \A a, b \in todo' : a # b => a \intersect b = {}
      <3>1. \A a \in parts : a \intersect left = {} /\ a \intersect (part \ left) = {}
        BY <1>1
      <3> SUFFICES ASSUME NEW a \in todo', NEW b \in todo', a # b
                   PROVE  a \intersect b = {}
        OBVIOUS
      <3>2. CASE a \in parts /\ b \in parts
        BY <3>2
      <3>3. CASE a \in parts /\ b \notin parts
        BY <2>2, <3>1, <3>3
      <3>4. CASE a \notin parts /\ b \in parts
        BY <2>2, <3>1, <3>4
      <3>5. CASE a \notin parts /\ b \notin parts
        <4>1. a \in {left, part \ left} /\ b \in {left, part \ left}
          BY <2>2, <3>5
        <4>2. (a = left /\ b = part \ left) \/ (a = part \ left /\ b = left)
          BY <4>1
        <4> HIDE DEF left
        <4> QED BY <4>2
      <3> QED BY <3>2, <3>3, <3>4, <3>5
    <2>4. \A a \in todo' : a \intersect suspects = {}
      BY <1>1, <2>2
    <2>5. OnePlace'
      BY <2>1, <2>3, <2>4 DEF OnePlace
    <2>6. UNION todo' \subseteq part \union UNION parts /\ todo' \in SUBSET (SUBSET Offsets)
      BY <1>1, <2>1
    <2> QED BY <1>2, <2>1, <2>5, <2>6 DEF InHand, Frames, TypeOK
  <1> QED BY <1>3, <1>4
-------------------------------------------------------------------------------
(* The inductive invariant: it holds at first, and each action keeps it.   *)

LEMMA InitIInv == Init => IInv
  <1> SUFFICES ASSUME Init PROVE IInv
    OBVIOUS
  <1>1. BackendTypeOK
    <2>1. /\ backlog = <<>> /\ paused = FALSE /\ backendError = FALSE
          /\ dropped = {} /\ copied = {}
      BY DEF Init, BackendInit
    <2>2. <<>> \in Seq(Offsets) /\ Len(<<>>) <= MaxPending
      BY BackendAssumption
    <2> QED BY <2>1, <2>2 DEF BackendTypeOK
  <1>2. last \in 0..MaxOffset /\ MaxOffset \in Nat
    BY BackendAssumption DEF Init
  <1>3. /\ row \in [Offsets -> {"free", "pending", "acked", "dead"}]
        /\ \A o \in Offsets : row[o] = "free" <=> o > last
    BY <1>2 DEF Init, Offsets
  <1>4. saved \in Counts /\ storedBase \in Counts /\ learned \in Counts /\ before \in Counts
    BY DEF Init, Counts
  <1>5. TypeOK
    BY <1>1, <1>2, <1>3, <1>4 DEF Init, TypeOK
  <1>6. InHand = {} /\ unacked = {}
    BY DEF Init, InHand
  <1>7. InHandWait /\ OnePlace /\ Control
    BY <1>6 DEF Init, InHandWait, OnePlace, Control
  <1>8. AckedIsSaved /\ SavedOncePerProcess /\ Unsaved
    BY DEF Init, AckedIsSaved, SavedOncePerProcess, Unsaved
  <1>9. Grounded
    BY <1>6 DEF Init, Grounded
  <1> QED BY <1>9, <1>5, <1>7, <1>8 DEF IInv

\* admit only turns free rows into waiting ones, which were never saved.
LEMMA AdmitIInv ==
  ASSUME IInv, NEW n \in 1..MaxBurst, Admit(n)
  PROVE  IInv'
  <1> DEFINE accepted == IF n < Room THEN n ELSE Room
             new == (last + 1)..(last + accepted)
  <1>1. accepted \in Nat /\ last + accepted \in 0..MaxOffset /\ new \subseteq Offsets
    BY RoomType, BackendAssumption, DrainAssumption DEF Admit, IInv, TypeOK, Offsets
  <1>2. last' = last + accepted
        /\ row' = [o \in Offsets |-> IF o \in new THEN "pending" ELSE row[o]]
    BY DEF Admit
  <1> HIDE DEF accepted
  <1>3. \A o \in Offsets : row'[o] = "free" <=> o > last'
    BY <1>1, <1>2 DEF IInv, TypeOK, Offsets
  <1>4. archiving' \subseteq Offsets
    BY <1>1, DrainAssumption DEF Admit, accepted
  <1>5. TypeOK'
    BY <1>1, <1>2, <1>3, <1>4
    DEF Admit, IInv, TypeOK, BackendTypeOK, backendVars, storeVars, drainVars, Counts
  <1>6. \A o \in new : row[o] = "free"
    BY <1>1 DEF IInv, TypeOK, Offsets
  <1>7. InHandWait' /\ OnePlace' /\ Control'
    BY <1>2 DEF Admit, IInv, TypeOK, InHandWait, OnePlace, Control, InHand, storeVars, drainVars
  <1>8. AckedIsSaved' /\ SavedOncePerProcess' /\ Unsaved'
    BY <1>2, <1>6 DEF Admit, IInv, AckedIsSaved, SavedOncePerProcess, Unsaved, storeVars, drainVars
  <1>9. Grounded'
    BY DEF Admit, IInv, Grounded, InHand, storeVars, drainVars
  <1> QED BY <1>9, <1>5, <1>7, <1>8 DEF IInv

\* Steps of the journal, the store, the clock and an idle drain touch no row,
\* no saved result and nothing the drain holds.
LEMMA SurroundingsIInv ==
  ASSUME IInv, ArchiveBurst \/ StoreFails \/ StoreRecovers \/ RetryTimer \/ StartDrain
  PROVE  IInv'
  <1>1. UNCHANGED <<row, kind, saved, crashes, held, unacked, todo, suspects>>
    BY DEF ArchiveBurst, StoreFails, StoreRecovers, RetryTimer, StartDrain,
           queueVars, storeVars, drainVars, frameVars
  <1>2. BackendTypeOK'
    BY FlushBackendType DEF ArchiveBurst, StoreFails, StoreRecovers, RetryTimer, StartDrain,
       IInv, TypeOK, BackendTypeOK, BackendRetryDue, backendVars
  <1>3. TypeOK'
    BY <1>1, <1>2, DrainAssumption
    DEF ArchiveBurst, StoreFails, StoreRecovers, RetryTimer, StartDrain, IInv, TypeOK, Counts,
        queueVars, archiveVars, storeVars, drainVars, frameVars
  <1>4. pc' = pc \/ (pc = "idle" /\ pc' = "loop")
    BY DEF ArchiveBurst, StoreFails, StoreRecovers, RetryTimer, StartDrain, drainVars
  <1>5. InHandWait' /\ OnePlace' /\ Control'
    BY <1>1, <1>4 DEF IInv, InHandWait, OnePlace, Control, InHand
  <1>6. AckedIsSaved' /\ SavedOncePerProcess' /\ Unsaved'
    BY <1>1 DEF IInv, AckedIsSaved, SavedOncePerProcess, Unsaved
  <1>7. Grounded'
    BY <1>1 DEF ArchiveBurst, StoreFails, StoreRecovers, RetryTimer, StartDrain, IInv, Grounded,
       InHand, drainVars, frameVars
  <1> QED BY <1>7, <1>3, <1>5, <1>6 DEF IInv

\* A drain that ends with an error, whatever failed, drops only its frames.
LEMMA FailureIInv ==
  ASSUME IInv, QueueFails \/ SaveFailsTransiently \/ BlameStore \/ SetAsideFails
  PROVE  IInv'
  <1>1. UNCHANGED <<row, kind, saved, crashes, held, unacked>>
        /\ pc' = "idle" /\ todo' = {} /\ suspects' = {} /\ settled' = FALSE
    BY DEF QueueFails, SaveFailsTransiently, BlameStore, SetAsideFails, Leave, queueVars, storeVars
  <1>2. BackendTypeOK'
    BY DEF QueueFails, SaveFailsTransiently, BlameStore, SetAsideFails, IInv, TypeOK,
       BackendTypeOK, backendVars
  <1>3. /\ UNCHANGED <<last, archived, archiving, store, storedBase, learned, before>>
        /\ faults' = faults \/ faults' = faults + 1
    BY DEF QueueFails, SaveFailsTransiently, BlameStore, SetAsideFails, queueVars,
      archiveVars, storeVars
  <1>4. TypeOK'
    <2>1. /\ todo' \subseteq SUBSET Offsets /\ suspects' \subseteq Offsets /\ settled' \in BOOLEAN
          /\ pc' \in {"idle", "loop", "process", "save", "copy", "ack", "setAside"}
      BY <1>1
    <2>2. faults' \in Nat
      BY <1>3 DEF IInv, TypeOK
    <2>3. {saved', storedBase', learned', before'} \subseteq Counts
      BY <1>1, <1>3 DEF IInv, TypeOK
    <2> QED BY <1>1, <1>2, <1>3, <2>1, <2>2, <2>3 DEF IInv, TypeOK, Offsets, LineKinds
  <1>5. InHandWait' /\ OnePlace' /\ Control'
    BY <1>1 DEF IInv, InHandWait, OnePlace, Control, InHand
  <1>6. AckedIsSaved' /\ SavedOncePerProcess' /\ Unsaved'
    BY <1>1 DEF IInv, AckedIsSaved, SavedOncePerProcess, Unsaved
  <1>7. Grounded'
    BY <1>1 DEF IInv, Grounded, InHand
  <1> QED BY <1>7, <1>4, <1>5, <1>6 DEF IInv

\* An acknowledgement settles lines that are saved, and no line in hand.
LEMMA AckIInv ==
  ASSUME IInv, Ack
  PROVE  IInv'
  <1>1. /\ row' = [o \in Offsets |-> IF o \in unacked THEN "acked" ELSE row[o]]
        /\ unacked' = {}
        /\ UNCHANGED <<kind, saved, crashes, held, todo, suspects>>
    BY DEF Ack, storeVars, frameVars
  <1>2. /\ pc' \in {"idle", "loop", "process", "setAside"} /\ settled' \in BOOLEAN
        /\ pc' = "setAside" => todo' = {}
        /\ pc' \in {"idle", "loop"} => todo' = {} /\ suspects' = {}
        /\ pc' = "process" => held' = {}
    BY <1>1 DEF Ack, Continue, frameVars, IInv, TypeOK, Control
  <1>3. TypeOK'
    BY <1>1, <1>2
    DEF Ack, IInv, TypeOK, BackendTypeOK, InHandWait, Counts, backendVars, archiveVars, storeVars
  <1>4. InHandWait' /\ OnePlace' /\ Control'
    BY <1>1, <1>2 DEF IInv, TypeOK, InHandWait, OnePlace, Control, InHand
  <1>5. AckedIsSaved' /\ SavedOncePerProcess' /\ Unsaved'
    BY <1>1 DEF IInv, InHandWait, AckedIsSaved, SavedOncePerProcess, Unsaved
  <1>6. Grounded'
    <2>1. settled' => settled \/ unacked # {}
      BY DEF Ack, frameVars
    <2>2. \A o \in unacked : o \in Offsets /\ saved[o] > 0
      BY DEF IInv, TypeOK, InHandWait
    <2> QED BY <1>1, <2>1, <2>2 DEF IInv, Grounded, InHand
  <1> QED BY <1>6, <1>3, <1>4, <1>5 DEF IInv

\* Pulling takes waiting lines in hand, all in one part, and settles markers.
LEMMA PullIInv ==
  ASSUME IInv, Pull
  PROVE  IInv'
  <1> DEFINE batch == Earliest(Pending, BatchSize)
             markers == batch \ IngestOf(batch)
  <1>1. /\ batch \subseteq Pending /\ Pending \subseteq Offsets
        /\ \A o \in Pending : row[o] = "pending"
    BY EarliestOf DEF Pending, RowsIn
  <1>2. /\ row' = [o \in Offsets |-> IF o \in markers THEN "acked" ELSE row[o]]
        /\ UNCHANGED <<kind, saved, crashes, held, unacked>>
        /\ unacked = {} /\ held = {} /\ pc = "loop"
    BY DEF Pull, storeVars
  <1>3. \/ todo' = {} /\ suspects' = {} /\ pc' \in {"idle", "loop"} /\ settled' \in BOOLEAN
        \/ /\ todo' = {IngestOf(batch)} /\ suspects' = {}
           /\ pc' = "process" /\ settled' \in BOOLEAN
    BY DEF Pull, Leave, StartSettle, frameVars, IInv, Control, TypeOK
  <1>4. /\ IngestOf(batch) \subseteq batch
        /\ \A o \in markers : kind[o] = "marker"
    BY DEF IngestOf
  <1> HIDE DEF batch, markers
  <1>5. \A o \in markers : row[o] = "pending"
    BY <1>1 DEF markers
  <1>6. TypeOK'
    <2>1. BackendTypeOK'
      BY DEF Pull, IInv, TypeOK, BackendTypeOK, backendVars
    <2>2. \A o \in Offsets : row'[o] = "free" <=> row[o] = "free"
      BY <1>2, <1>5
    <2>3. UNCHANGED <<last, archived, archiving, store, storedBase, learned, before, faults>>
      BY DEF Pull, archiveVars, storeVars
    <2>4. row' \in [Offsets -> {"free", "pending", "acked", "dead"}]
      BY <1>2 DEF IInv, TypeOK
    <2>5. todo' \subseteq SUBSET Offsets /\ suspects' \subseteq Offsets /\ settled' \in BOOLEAN
          /\ pc' \in {"idle", "loop", "process"}
      BY <1>1, <1>3, <1>4
    <2> QED BY <1>2, <2>1, <2>2, <2>3, <2>4, <2>5 DEF IInv, TypeOK
  <1>7. InHand' \subseteq IngestOf(batch)
    BY <1>2, <1>3 DEF InHand
  <1>8. \A o \in IngestOf(batch) : o \notin markers /\ row[o] = "pending" /\ o \in Offsets
    BY <1>1, <1>4 DEF markers
  <1>9. InHandWait' /\ OnePlace' /\ Control'
    BY <1>2, <1>3, <1>7, <1>8 DEF InHandWait, OnePlace, Control
  <1>10. AckedIsSaved' /\ SavedOncePerProcess' /\ Unsaved'
    BY <1>2, <1>4 DEF IInv, AckedIsSaved, SavedOncePerProcess, Unsaved
  <1>11. Grounded'
    <2>1. \A o \in IngestOf(batch) : kind[o] # "marker"
      BY DEF IngestOf
    <2>2. settled' => settled
      BY DEF Pull, Leave, StartSettle, frameVars
    <2> QED BY <1>2, <1>7, <2>1, <2>2 DEF IInv, Grounded
  <1> QED BY <1>11, <1>6, <1>9, <1>10 DEF IInv

\* Processing moves a part to _held; nothing else meets it there.
LEMMA ProcessIInv ==
  ASSUME IInv, Process
  PROVE  IInv'
  <1>1. PICK part \in todo :
          /\ pc = "process" /\ pc' = "save" /\ held' = part /\ todo' = todo \ {part}
          /\ learned' = Learn(learned, part)
          /\ storedBase' = IF store = "up" THEN learned' ELSE storedBase
    BY DEF Process
  <1>2. UNCHANGED <<last, row, kind, archived, archiving, store, saved, unacked, suspects,
                    settled, faults, crashes>> /\ before' = learned
    BY DEF Process, queueVars, archiveVars
  <1>3. BackendTypeOK'
    BY DEF Process, IInv, TypeOK, BackendTypeOK, backendVars
  <1>4. learned' \in Counts /\ before' \in Counts /\ storedBase' \in Counts
    BY <1>1, <1>2 DEF Learn, IInv, TypeOK, Counts
  <1>5. TypeOK'
    BY <1>1, <1>2, <1>3, <1>4 DEF IInv, TypeOK
  <1>6. InHand' \subseteq InHand
    BY <1>1, <1>2 DEF InHand
  <1>7. InHandWait'
    BY <1>2, <1>6 DEF IInv, InHandWait
  <1>8. OnePlace'
    BY <1>1, <1>2 DEF IInv, OnePlace
  <1>9. Control'
    BY <1>1, <1>2 DEF IInv, Control
  <1>10. AckedIsSaved' /\ SavedOncePerProcess' /\ Unsaved'
    BY <1>2 DEF IInv, AckedIsSaved, SavedOncePerProcess, Unsaved
  <1>11. Grounded'
    BY <1>2, <1>6 DEF IInv, Grounded
  <1> QED BY <1>11, <1>5, <1>7, <1>8, <1>9, <1>10 DEF IInv

\* A part in todo meets neither the other parts nor the suspects.
LEMMA PartApart ==
  ASSUME IInv, NEW part \in todo
  PROVE  Apart(part, todo \ {part})
  <1>1. todo \subseteq SUBSET Offsets
    BY DEF IInv, TypeOK
  <1>2. \A a, b \in todo : a # b => a \intersect b = {}
    BY DEF IInv, OnePlace
  <1>3. \A a \in todo : a \intersect suspects = {}
    BY DEF IInv, OnePlace
  <1>4. \A a \in todo \ {part} : a \intersect part = {}
    BY <1>2
  <1> QED BY <1>1, <1>2, <1>3, <1>4 DEF Apart

\* Processing fails: nothing is held by then, and the part is bisected or left.
LEMMA ProcessFailsIInv ==
  ASSUME IInv, ProcessFails
  PROVE  IInv'
  <1>1. PICK part \in todo :
          /\ pc = "process"
          /\ \E seen \in SUBSET part : learned' = Restore(learned, Learn(learned, seen))
          /\ Leave \/ Bisect(part, todo \ {part})
    BY DEF ProcessFails
  <1>2. /\ UNCHANGED <<last, row, kind, archived, archiving, store, saved, storedBase, held,
                       unacked, faults, crashes>>
        /\ before' = learned /\ learned' = learned /\ held = {}
    BY <1>1 DEF ProcessFails, Restore, queueVars, archiveVars, storeVars, IInv, Control
  <1>3. Frames(InHand)
    <2>1. CASE Leave
      BY <1>2, <2>1 DEF Leave, InHand, OnePlace, Frames
    <2>2. CASE Bisect(part, todo \ {part})
      <3>1. Frames(part \union suspects \union UNION (todo \ {part}))
        <4>1. TypeOK /\ held' = {}
          BY <1>2 DEF IInv
        <4> QED BY <2>2, <4>1, PartApart, BisectKeeps
      <3>2. part \union suspects \union UNION (todo \ {part}) \subseteq InHand
        BY DEF InHand
      <3> QED BY <3>1, <3>2 DEF Frames
    <2> QED BY <1>1, <2>1, <2>2
  <1>4. BackendTypeOK'
    BY DEF ProcessFails, IInv, TypeOK, BackendTypeOK, backendVars
  <1>5. TypeOK'
    BY <1>2, <1>3, <1>4 DEF IInv, TypeOK, Frames
  <1>6. InHandWait'
    BY <1>2, <1>3 DEF IInv, InHandWait, Frames
  <1>7. OnePlace' /\ Control'
    BY <1>1, <1>2, <1>3 DEF IInv, Control, Frames
  <1>8. AckedIsSaved' /\ SavedOncePerProcess' /\ Unsaved'
    BY <1>2 DEF IInv, AckedIsSaved, SavedOncePerProcess, Unsaved
  <1>9. Grounded'
    <2>1. settled' => settled
      BY DEF ProcessFails, Leave, Bisect
    <2> QED BY <1>2, <1>3, <2>1 DEF IInv, Grounded, Frames
  <1> QED BY <1>9, <1>5, <1>6, <1>7, <1>8 DEF IInv

\* A save moves the held lines to _unacked, where they are owed only their ack;
\* nothing was owed before, and no line held was saved by this process.
LEMMA SaveIInv ==
  ASSUME IInv, Save
  PROVE  IInv'
  <1>1. /\ saved' = [o \in Offsets |-> IF o \in held THEN saved[o] + 1 ELSE saved[o]]
        /\ held' = {} /\ unacked' = held /\ pc' = "copy"
        /\ UNCHANGED <<last, row, kind, archived, archiving, store, storedBase, learned,
                       before, todo, suspects, settled, faults, crashes>>
    BY DEF Save, queueVars, archiveVars, frameVars
  <1>2. unacked = {}
    BY DEF Save, Saving, IInv, Control
  <1>3. \A o \in held : row[o] = "pending" /\ o \in Offsets
    BY DEF IInv, InHandWait, InHand, TypeOK
  <1>4. \A o \in held : saved[o] \in Nat /\ saved[o] <= crashes
    BY <1>2, <1>3 DEF IInv, Unsaved, TypeOK, Counts
  <1>5. TypeOK'
    <2>1. BackendTypeOK'
      BY DEF Save, IInv, TypeOK, BackendTypeOK, backendVars
    <2>2. saved' \in Counts
      BY <1>1 DEF IInv, TypeOK, Counts
    <2> QED BY <1>1, <2>1, <2>2 DEF IInv, TypeOK
  <1>6. InHandWait'
    <2>1. InHand' \subseteq InHand \ held
      BY <1>1 DEF InHand, IInv, OnePlace
    <2>2. \A o \in unacked' : row'[o] = "pending" /\ saved'[o] > 0
      BY <1>1, <1>3, <1>4
    <2> QED BY <1>1, <2>1, <2>2 DEF IInv, InHandWait
  <1>7. OnePlace' /\ Control'
    BY <1>1 DEF IInv, OnePlace, Control
  <1>8. AckedIsSaved' /\ SavedOncePerProcess' /\ Unsaved'
    <2>1. \A o \in Offsets : saved[o] \in Nat /\ saved'[o] >= saved[o]
      BY <1>1 DEF IInv, TypeOK, Counts
    <2>2. AckedIsSaved'
      BY <1>1, <2>1 DEF IInv, AckedIsSaved
    <2>3. SavedOncePerProcess'
      <3>1. \A o \in Offsets : saved[o] \in Nat /\ saved[o] <= crashes + 1
        BY DEF IInv, TypeOK, Counts, SavedOncePerProcess
      <3>2. crashes \in Nat
        BY DEF IInv, TypeOK
      <3> QED BY <1>1, <1>4, <3>1, <3>2 DEF SavedOncePerProcess
    <2>4. Unsaved'
      BY <1>1, <1>2 DEF IInv, Unsaved
    <2> QED BY <2>2, <2>3, <2>4
  <1>9. Grounded'
    <2>1. InHand' \union unacked' \subseteq InHand
      BY <1>1 DEF InHand
    <2>2. \A o \in Offsets : saved[o] \in Nat /\ saved'[o] >= saved[o]
      BY <1>1 DEF IInv, TypeOK, Counts
    <2> QED BY <1>1, <2>1, <2>2 DEF IInv, Grounded
  <1> QED BY <1>9, <1>5, <1>6, <1>7, <1>8 DEF IInv

\* A save that fails for good drops the result; its lines are bisected, or
\* settled anew, and remain in hand.
LEMMA SaveFailsForGoodIInv ==
  ASSUME IInv, SaveFailsForGood
  PROVE  IInv'
  <1>1. /\ held' = {} /\ learned' = before
        /\ UNCHANGED <<last, row, kind, archived, archiving, store, saved, storedBase, before,
                       unacked, faults, crashes>>
    BY DEF SaveFailsForGood, Restore, queueVars, archiveVars, storeVars
  <1>2. unacked = {} /\ held \subseteq Offsets
    BY DEF SaveFailsForGood, Saving, IInv, Control, TypeOK
  <1>3. Frames(InHand)
    <2>1. CASE pc = "save" /\ Bisect(held, todo)
      <3>1. Apart(held, todo)
        BY DEF IInv, TypeOK, OnePlace, Apart
      <3>2. Frames(held \union suspects \union UNION todo)
        BY <1>1, <2>1, <3>1, BisectKeeps DEF IInv
      <3> QED BY <3>2 DEF InHand
    <2>2. CASE StartSettle(held)
      BY <1>1, <1>2, <2>2 DEF StartSettle, Frames, OnePlace, InHand
    <2> QED BY <2>1, <2>2 DEF SaveFailsForGood
  <1>4. BackendTypeOK'
    BY DEF SaveFailsForGood, IInv, TypeOK, BackendTypeOK, backendVars
  <1>5. TypeOK'
    BY <1>1, <1>3, <1>4 DEF IInv, TypeOK, Frames
  <1>6. InHandWait'
    BY <1>1, <1>3 DEF IInv, InHandWait, Frames
  <1>7. OnePlace' /\ Control'
    BY <1>1, <1>2, <1>3 DEF Control, Frames
  <1>8. AckedIsSaved' /\ SavedOncePerProcess' /\ Unsaved'
    BY <1>1 DEF IInv, AckedIsSaved, SavedOncePerProcess, Unsaved
  <1>9. Grounded'
    <2>1. settled' => settled
      BY DEF SaveFailsForGood, StartSettle, Bisect
    <2> QED BY <1>1, <1>3, <2>1 DEF IInv, Grounded, Frames
  <1> QED BY <1>9, <1>5, <1>6, <1>7, <1>8 DEF IInv

\* The copy for the backend touches only the backend's list.
LEMMA CopyIInv ==
  ASSUME IInv, Copy
  PROVE  IInv'
  <1>1. /\ pc = "copy" /\ pc' = "ack"
        /\ UNCHANGED <<last, row, kind, archived, archiving, store, saved, storedBase, learned,
                       before, held, unacked, todo, suspects, settled, faults, crashes>>
    BY DEF Copy, queueVars, archiveVars, storeVars, frameVars
  <1>2. BackendTypeOK'
    BY SendType DEF Copy, IInv, TypeOK
  <1>3. TypeOK'
    BY <1>1, <1>2 DEF IInv, TypeOK
  <1>4. InHandWait' /\ OnePlace' /\ Control'
    BY <1>1 DEF IInv, InHandWait, OnePlace, Control, InHand
  <1>5. AckedIsSaved' /\ SavedOncePerProcess' /\ Unsaved'
    BY <1>1 DEF IInv, AckedIsSaved, SavedOncePerProcess, Unsaved
  <1>6. Grounded'
    BY <1>1 DEF IInv, Grounded, InHand
  <1> QED BY <1>6, <1>3, <1>4, <1>5 DEF IInv

\* A suspect that is set aside leaves the drain's hands with its row.
LEMMA SetAsideIInv ==
  ASSUME IInv, SetAside
  PROVE  IInv'
  <1>1. PICK o \in suspects :
          /\ pc = "setAside" /\ row' = [row EXCEPT ![o] = "dead"]
          /\ suspects' = suspects \ {o} /\ Continue({}, suspects')
    BY DEF SetAside
  <1>2. UNCHANGED <<last, kind, archived, archiving, store, saved, storedBase, learned,
                    before, held, unacked, todo, settled, faults, crashes>>
    BY DEF SetAside, archiveVars, storeVars
  <1>3. todo = {} /\ o \in Offsets /\ row[o] = "pending" /\ o \notin unacked /\ o \notin held
    BY <1>1 DEF IInv, Control, TypeOK, InHandWait, InHand, OnePlace
  <1>4. pc' = IF suspects' # {} THEN "setAside" ELSE "loop"
    BY <1>1 DEF Continue
  <1>5. row' \in [Offsets -> {"free", "pending", "acked", "dead"}]
        /\ \A q \in Offsets : row'[q] = IF q = o THEN "dead" ELSE row[q]
    BY <1>1, <1>3 DEF IInv, TypeOK
  <1>6. TypeOK'
    <2>1. BackendTypeOK'
      BY DEF SetAside, IInv, TypeOK, BackendTypeOK, backendVars
    <2>2. \A q \in Offsets : row'[q] = "free" <=> q > last'
      BY <1>2, <1>3, <1>5 DEF IInv, TypeOK
    <2> QED BY <1>1, <1>2, <1>4, <1>5, <2>1, <2>2 DEF IInv, TypeOK
  <1>7. InHandWait'
    <2>1. InHand' \subseteq InHand \ {o} /\ InHand \subseteq Offsets
      BY <1>1, <1>2, <1>3 DEF InHand, IInv, TypeOK
    <2> QED BY <1>2, <1>3, <1>5, <2>1 DEF IInv, TypeOK, InHandWait
  <1>8. OnePlace' /\ Control'
    BY <1>1, <1>2, <1>3, <1>4 DEF IInv, OnePlace, Control
  <1>9. AckedIsSaved' /\ SavedOncePerProcess' /\ Unsaved'
    BY <1>2, <1>3, <1>5 DEF IInv, AckedIsSaved, SavedOncePerProcess, Unsaved
  <1>10. Grounded'
    BY <1>1, <1>2 DEF IInv, Grounded, InHand
  <1> QED BY <1>10, <1>6, <1>7, <1>8, <1>9 DEF IInv

\* Requeued dead letters wait again; none of them was saved by this process.
LEMMA RequeueIInv ==
  ASSUME IInv, RequeueDeadLetters
  PROVE  IInv'
  <1>1. /\ row' = [o \in Offsets |-> IF row[o] = "dead" THEN "pending" ELSE row[o]]
        /\ UNCHANGED <<last, kind, archived, archiving, store, saved, storedBase, learned, pc,
                       before, held, unacked, todo, suspects, settled, faults, crashes>>
    BY DEF RequeueDeadLetters, archiveVars, storeVars, drainVars
  <1>2. TypeOK'
    <2>1. BackendTypeOK'
      BY DEF RequeueDeadLetters, IInv, TypeOK, BackendTypeOK, backendVars
    <2> QED BY <1>1, <2>1 DEF IInv, TypeOK
  <1>3. InHand \subseteq Offsets /\ unacked \subseteq Offsets
    BY DEF IInv, TypeOK, InHand
  <1>4. InHandWait' /\ OnePlace' /\ Control'
    BY <1>1, <1>3 DEF IInv, InHandWait, OnePlace, Control, InHand
  <1>5. AckedIsSaved' /\ SavedOncePerProcess' /\ Unsaved'
    BY <1>1 DEF IInv, AckedIsSaved, SavedOncePerProcess, Unsaved
  <1>6. Grounded'
    BY <1>1 DEF IInv, Grounded, InHand
  <1> QED BY <1>6, <1>2, <1>4, <1>5 DEF IInv

\* A new process has nothing in hand, and may save every line once more.
LEMMA CrashIInv ==
  ASSUME IInv, CrashRestart
  PROVE  IInv'
  <1>1. /\ crashes' = crashes + 1 /\ archiving' = {}
        /\ learned' = storedBase /\ before' = storedBase
        /\ held' = {} /\ unacked' = {} /\ pc' = "idle" /\ todo' = {} /\ suspects' = {}
        /\ settled' = FALSE
        /\ UNCHANGED <<last, row, archived, store, saved, storedBase, faults>>
    BY DEF CrashRestart, Leave, storeVars
  <1>2. /\ kind' \in [Offsets -> LineKinds \union {"marker"}]
        /\ \A o \in Offsets : kind'[o] = "marker" <=> kind[o] = "marker"
    BY DEF CrashRestart, IInv, TypeOK, LineKinds
  <1>3. BackendTypeOK'
    <2>1. <<>> \in Seq(Offsets) /\ Len(<<>>) <= MaxPending
      BY BackendAssumption
    <2> QED BY <2>1 DEF CrashRestart, ForgetBackend, IInv, TypeOK, BackendTypeOK
  <1>4. TypeOK'
    <2>1. {saved', storedBase', learned', before'} \subseteq Counts /\ crashes' \in Nat
      BY <1>1 DEF IInv, TypeOK
    <2>2. todo' \subseteq SUBSET Offsets /\ pc' \in {"idle", "loop"} /\ settled' \in BOOLEAN
      BY <1>1
    <2> QED BY <1>1, <1>2, <1>3, <2>1, <2>2 DEF IInv, TypeOK
  <1>5. InHandWait' /\ OnePlace' /\ Control'
    BY <1>1 DEF InHandWait, OnePlace, Control, InHand
  <1>6. AckedIsSaved' /\ SavedOncePerProcess' /\ Unsaved'
    BY <1>1, <1>2 DEF IInv, TypeOK, Counts, AckedIsSaved, SavedOncePerProcess, Unsaved
  <1>7. Grounded'
    BY <1>1 DEF Grounded, InHand
  <1> QED BY <1>7, <1>4, <1>5, <1>6 DEF IInv

\* A step that changes nothing.
LEMMA StutterIInv ==
  ASSUME IInv, UNCHANGED vars
  PROVE  IInv'
  BY DEF IInv, TypeOK, BackendTypeOK, Counts, InHandWait, OnePlace, Control, InHand, AckedIsSaved,
         SavedOncePerProcess, Unsaved, Grounded, vars, backendVars, queueVars,
           archiveVars, storeVars, drainVars

LEMMA NextIInv == IInv /\ [Next]_vars => IInv'
  <1> SUFFICES ASSUME IInv, [Next]_vars PROVE IInv'
    OBVIOUS
  <1>1. CASE \E n \in 1..MaxBurst : Admit(n)
    BY <1>1, AdmitIInv
  <1>2. CASE ArchiveBurst \/ StoreFails \/ StoreRecovers \/ RetryTimer \/ StartDrain
    BY <1>2, SurroundingsIInv
  <1>3. CASE DrainStep
    BY <1>3, AckIInv, PullIInv, ProcessIInv, ProcessFailsIInv, SaveIInv, FailureIInv,
       SaveFailsForGoodIInv, CopyIInv, SetAsideIInv DEF DrainStep
  <1>4. CASE QueueFails \/ SetAsideFails
    BY <1>4, FailureIInv
  <1>5. CASE RequeueDeadLetters
    BY <1>5, RequeueIInv
  <1>6. CASE CrashRestart
    BY <1>6, CrashIInv
  <1>7. CASE UNCHANGED vars
    BY <1>7, StutterIInv
  <1> QED BY <1>1, <1>2, <1>3, <1>4, <1>5, <1>6, <1>7 DEF Next

-------------------------------------------------------------------------------
(* The theorems.                                                           *)

\* What every reachable state of durable ingest satisfies.
LEMMA Inductive == Spec => []IInv
  <1> QED BY InitIInv, NextIInv, PTL DEF Spec

\* Every state component keeps its type, and the event backend's backlog never
\* outgrows queue_max_pending.
THEOREM TypeCorrect == Spec => []TypeOK
  <1>1. IInv => TypeOK
    BY DEF IInv
  <1> QED BY <1>1, Inductive, PTL

\* No accepted line is lost: an acknowledged row's event is in the store, for
\* any number of outages, failed acknowledgements and deaths of the process.
THEOREM NoLineLost == Spec => []AckedIsSaved
  <1>1. IInv => AckedIsSaved
    BY DEF IInv
  <1> QED BY <1>1, Inductive, PTL

\* No retry stores an event twice: one process saves a line at most once.
THEOREM NoDuplicateFromRetries == Spec => []SavedOncePerProcess
  <1>1. IInv => SavedOncePerProcess
    BY DEF IInv
  <1> QED BY <1>1, Inductive, PTL
-------------------------------------------------------------------------------
(* Refinement: every step of durable ingest is a step of at-least-once     *)
(* ingest, or changes nothing it speaks of.                                *)

\* What the phase of a line says of its row.
LEMMA PhaseFacts ==
  ASSUME TypeOK
  PROVE  \A o \in Offsets :
           /\ Phase[o] = "absent" <=> kind[o] = "marker" \/ row[o] = "free"
           /\ Phase[o] = "waiting" <=> kind[o] # "marker" /\ row[o] = "pending"
           /\ Phase[o] = "done" <=> kind[o] # "marker" /\ row[o] = "acked"
           /\ Phase[o] = "aside" <=> kind[o] # "marker" /\ row[o] = "dead"
  BY DEF TypeOK, Phase, PhaseOf

\* A step that leaves rows, kinds, saved results and restarts alone.
LEMMA QuietStep ==
  ASSUME UNCHANGED <<row, kind, saved, crashes>>
  PROVE  UNCHANGED Ingest!vars
  BY DEF Ingest!vars, Phase

LEMMA AdmitRefines ==
  ASSUME IInv, IInv', NEW n \in 1..MaxBurst, Admit(n)
  PROVE  Ingest!Next
  <1> DEFINE accepted == IF n < Room THEN n ELSE Room
             new == (last + 1)..(last + accepted)
             lines == {o \in new : kind[o] # "marker"}
  <1>1. /\ row' = [o \in Offsets |-> IF o \in new THEN "pending" ELSE row[o]]
        /\ UNCHANGED <<kind, saved, crashes>>
    BY DEF Admit, storeVars
  <1>2. accepted \in Nat /\ new \subseteq Offsets /\ \A o \in new : row[o] = "free"
    BY RoomType, BackendAssumption, DrainAssumption DEF Admit, IInv, TypeOK, Offsets
  <1> HIDE DEF new
  <1>3. lines \in SUBSET Ingest!In("absent")
    BY <1>2, PhaseFacts DEF Ingest!In, IInv
  <1>4. Phase' = Ingest!Moved(lines, "waiting")
    BY <1>1, <1>2 DEF Ingest!Moved, Phase, PhaseOf
  <1> QED BY <1>1, <1>3, <1>4 DEF Ingest!Next, Ingest!Accept

LEMMA SaveRefines ==
  ASSUME IInv, IInv', Save
  PROVE  Ingest!Next
  <1>1. /\ saved' = [o \in Offsets |-> IF o \in held THEN saved[o] + 1 ELSE saved[o]]
        /\ UNCHANGED <<row, kind, crashes>>
    BY DEF Save, queueVars
  <1>2. \A o \in held : o \in Offsets /\ Phase[o] = "waiting"
    BY PhaseFacts DEF IInv, TypeOK, InHandWait, Grounded, InHand
  <1>3. \A o \in held : saved[o] <= crashes
    <2>1. unacked = {}
      BY DEF Save, Saving, IInv, Control
    <2> QED BY <2>1 DEF IInv, TypeOK, InHandWait, InHand, Unsaved
  <1>4. held \in SUBSET {o \in Ingest!In("waiting") : saved[o] <= crashes}
    BY <1>2, <1>3 DEF Ingest!In
  <1>5. Phase' = Phase
    BY <1>1 DEF Phase
  <1> QED BY <1>1, <1>4, <1>5 DEF Ingest!Next, Ingest!Store

LEMMA AckRefines ==
  ASSUME IInv, IInv', Ack
  PROVE  Ingest!Next
  <1>1. /\ row' = [o \in Offsets |-> IF o \in unacked THEN "acked" ELSE row[o]]
        /\ UNCHANGED <<kind, saved, crashes>>
    BY DEF Ack, storeVars
  <1>2. \A o \in unacked : o \in Offsets /\ kind[o] # "marker" /\ row[o] = "pending" /\ saved[o] > 0
    BY DEF IInv, TypeOK, InHandWait, Grounded
  <1>3. unacked \in SUBSET {o \in Ingest!In("waiting") : saved[o] > 0}
    BY <1>2, PhaseFacts DEF Ingest!In, IInv
  <1>4. Phase' = Ingest!Moved(unacked, "done")
    BY <1>1, <1>2 DEF Ingest!Moved, Phase, PhaseOf
  <1> QED BY <1>1, <1>3, <1>4 DEF Ingest!Next, Ingest!Finish

\* Pulling settles markers, which the abstract ingest does not know of.
LEMMA PullRefines ==
  ASSUME Pull
  PROVE  UNCHANGED Ingest!vars
  <1>1. \A o \in Offsets : kind[o] # "marker" => row'[o] = row[o]
    BY DEF Pull, IngestOf
  <1>2. UNCHANGED <<kind, saved, crashes>>
    BY DEF Pull, storeVars
  <1> QED BY <1>1, <1>2 DEF Ingest!vars, Phase

LEMMA SetAsideRefines ==
  ASSUME IInv, IInv', SetAside
  PROVE  Ingest!Next
  <1>1. PICK o \in suspects : row' = [row EXCEPT ![o] = "dead"] /\ settled
    BY DEF SetAside, LinesToBlame
  <1>2. UNCHANGED <<kind, saved, crashes>>
    BY DEF SetAside, storeVars
  <1>3. o \in Offsets /\ kind[o] # "marker" /\ row[o] = "pending"
    BY <1>1 DEF IInv, TypeOK, InHandWait, Grounded, InHand
  <1>4. \E l \in Offsets : saved[l] > 0
    BY <1>1 DEF IInv, Grounded
  <1>5. o \in Ingest!In("waiting")
    BY <1>3, PhaseFacts DEF Ingest!In, IInv
  <1>6. Phase' = Ingest!Moved({o}, "aside")
    BY <1>1, <1>2, <1>3 DEF Ingest!Moved, Phase, PhaseOf, IInv, TypeOK
  <1> QED BY <1>2, <1>4, <1>5, <1>6 DEF Ingest!Next, Ingest!PutAside

LEMMA RequeueRefines ==
  ASSUME IInv, IInv', RequeueDeadLetters
  PROVE  Ingest!Next
  <1>1. /\ row' = [o \in Offsets |-> IF row[o] = "dead" THEN "pending" ELSE row[o]]
        /\ UNCHANGED <<kind, saved, crashes>>
    BY DEF RequeueDeadLetters, storeVars
  <1>2. Phase' = Ingest!Moved(Ingest!In("aside"), "waiting")
    <2>1. \A o \in Offsets : o \in Ingest!In("aside") <=> kind[o] # "marker" /\ row[o] = "dead"
      BY PhaseFacts DEF Ingest!In, IInv
    <2> QED BY <1>1, <2>1 DEF Ingest!Moved, Phase, PhaseOf
  <1> QED BY <1>1, <1>2 DEF Ingest!Next, Ingest!PutBack

LEMMA CrashRefines ==
  ASSUME IInv, IInv', CrashRestart
  PROVE  Ingest!Next
  <1>1. crashes' = crashes + 1 /\ UNCHANGED <<row, saved>>
    BY DEF CrashRestart, storeVars
  <1>2. \A o \in Offsets : kind'[o] = "marker" <=> kind[o] = "marker"
    BY DEF CrashRestart, IInv, TypeOK, LineKinds
  <1>3. Phase' = Phase
    BY <1>1, <1>2 DEF Phase
  <1> QED BY <1>1, <1>3 DEF Ingest!Next, Ingest!Restart

LEMMA StepRefines == IInv /\ IInv' /\ [Next]_vars => [Ingest!Next]_(Ingest!vars)
  <1> SUFFICES ASSUME IInv, IInv', [Next]_vars PROVE [Ingest!Next]_(Ingest!vars)
    OBVIOUS
  <1>1. CASE \E n \in 1..MaxBurst : Admit(n)
    BY <1>1, AdmitRefines
  <1>2. CASE DrainStep
    <2>1. CASE Process \/ ProcessFails \/ SaveFailsTransiently \/ SaveFailsForGood
            \/ Copy \/ BlameStore
      BY <2>1, QuietStep DEF Process, ProcessFails, SaveFailsTransiently, SaveFailsForGood, Copy,
         BlameStore, queueVars, storeVars
    <2> QED BY <1>2, <2>1, AckRefines, PullRefines, SaveRefines, SetAsideRefines DEF DrainStep
  <1>3. CASE ArchiveBurst \/ StartDrain \/ QueueFails \/ SetAsideFails \/ StoreFails
          \/ StoreRecovers
             \/ RetryTimer
    BY <1>3, QuietStep DEF ArchiveBurst, StartDrain, QueueFails, SetAsideFails, StoreFails,
       StoreRecovers, RetryTimer, queueVars, storeVars
  <1>4. CASE RequeueDeadLetters
    BY <1>4, RequeueRefines
  <1>5. CASE CrashRestart
    BY <1>5, CrashRefines
  <1>6. CASE UNCHANGED vars
    BY <1>6, QuietStep DEF vars, queueVars, storeVars
  <1> QED BY <1>1, <1>2, <1>3, <1>4, <1>5, <1>6 DEF Next

\* Durable ingest, with its batches, retries, bisection, dead letters, outages
\* and deaths, implements at-least-once ingest.
THEOREM Refinement == Spec => ImplementsIngest
  <1>1. Init => Ingest!Init
    <2> SUFFICES ASSUME Init PROVE Ingest!Init
      OBVIOUS
    <2>1. \A o \in Offsets : kind[o] = "marker" \/ row[o] = "free"
      BY DEF Init, Offsets
    <2> QED BY <2>1 DEF Init, Ingest!Init, Phase, PhaseOf
  <1>2. IInv /\ IInv' /\ [Next]_vars => [Ingest!Next]_(Ingest!vars)
    BY StepRefines
  <1> QED BY <1>1, <1>2, Inductive, PTL DEF Spec, ImplementsIngest, Ingest!Spec
-------------------------------------------------------------------------------
(* What a drain leaves behind besides saved and acknowledged rows, from the *)
(* same invariant: what the behavioral baseline has learned, which lines    *)
(* were set aside, and what the event backend has received.                 *)

\* While the process lives, the baseline before the held batch is the one that
\* learned the saved lines: what a save that fails for good goes back to.
LearnedFromSaved ==
  /\ LearnedOnce
  /\ crashes = 0 /\ (pc = "save" \/ held # {}) => \A o \in Offsets : before[o] = saved[o]

\* Where the store itself never breaks, whoever is suspected fails by itself.
SuspectsFail ==
  ~CanBreak =>
    /\ store # "broken"
    /\ \A o \in suspects : kind[o] \in {"failsProcess", "failsSave"}

OutcomeInv ==
  /\ IInv
  /\ LearnedFromSaved
  /\ SuspectsFail
  /\ NoDeadLettersFromDeadStore
  /\ BackendAccounted
-------------------------------------------------------------------------------
(* What was learned.                                                       *)

\* The steps that touch the baseline, its snapshot, or what is held or saved.
LEMMA LearningSteps ==
  ASSUME [Next]_vars
  PROVE  \/ Process \/ ProcessFails \/ Save \/ SaveFailsForGood \/ CrashRestart
         \/ UNCHANGED <<learned, before, saved, held, crashes>> /\ (pc' = "save" => pc = "save")
  BY DEF Next, DrainStep, Leave, StartSettle, Continue, Admit, ArchiveBurst, StartDrain, Ack, Pull, SaveFailsTransiently, Copy,
         BlameStore, SetAside, QueueFails, SetAsideFails, RequeueDeadLetters, StoreFails,
         StoreRecovers, RetryTimer, vars, storeVars, drainVars

\* Lines in hand were saved by no process before this one's first death.
LEMMA InHandUnsaved ==
  ASSUME IInv, crashes = 0
  PROVE  \A o \in InHand : o \in Offsets /\ saved[o] = 0
  <1>1. \A o \in InHand : o \in Offsets /\ row[o] # "acked" /\ o \notin unacked
    BY DEF IInv, TypeOK, InHand, InHandWait
  <1>2. \A o \in Offsets : saved[o] \in Nat
    BY DEF IInv, TypeOK, Counts
  <1> QED BY <1>1, <1>2 DEF IInv, Unsaved

LEMMA LearningKept ==
  ASSUME IInv, LearnedFromSaved, [Next]_vars
  PROVE  LearnedFromSaved'
  <1>1. CASE Process
    <2>1. PICK part \in todo :
            /\ before' = learned /\ learned' = Learn(learned, part) /\ held' = part
      BY <1>1 DEF Process
    <2>2. held = {} /\ saved' = saved /\ crashes' = crashes
      BY <1>1 DEF Process, IInv, Control
    <2>3. crashes = 0 => \A o \in part : o \in Offsets /\ saved[o] = 0
      BY <2>1, InHandUnsaved DEF InHand
    <2>4. learned \in Counts
      BY DEF IInv, TypeOK
    <2> QED BY <2>1, <2>2, <2>3, <2>4 DEF LearnedFromSaved, LearnedOnce, Learn, Counts
  <1>2. CASE ProcessFails
    <2>1. before' = learned /\ learned' = learned
      BY <1>2 DEF ProcessFails, Restore
    <2>2. held = {} /\ held' = {} /\ saved' = saved /\ crashes' = crashes /\ pc' # "save"
      BY <1>2 DEF ProcessFails, IInv, Control, storeVars, Leave, Bisect, Continue
    <2> QED BY <2>1, <2>2 DEF LearnedFromSaved, LearnedOnce
  <1>3. CASE Save
    <2>1. /\ saved' = [o \in Offsets |-> IF o \in held THEN saved[o] + 1 ELSE saved[o]]
          /\ held' = {} /\ learned' = learned /\ crashes' = crashes /\ pc' = "copy"
      BY <1>3 DEF Save
    <2>2. crashes = 0 => \A o \in held : saved[o] = 0
      BY InHandUnsaved DEF InHand
    <2> QED BY <2>1, <2>2 DEF LearnedFromSaved, LearnedOnce
  <1>4. CASE SaveFailsForGood
    <2>1. learned' = before /\ held' = {} /\ saved' = saved /\ crashes' = crashes
      BY <1>4 DEF SaveFailsForGood, Restore, storeVars
    <2>2. pc = "save" \/ held # {}
      BY <1>4 DEF SaveFailsForGood, Saving
    <2>3. pc' # "save"
      BY <1>4 DEF SaveFailsForGood, StartSettle, Bisect, Continue
    <2> QED BY <2>1, <2>2, <2>3 DEF LearnedFromSaved, LearnedOnce
  <1>5. CASE CrashRestart
    <2>1. crashes' = crashes + 1 /\ crashes \in Nat
      BY <1>5 DEF CrashRestart, IInv, TypeOK
    <2> QED BY <2>1 DEF LearnedFromSaved, LearnedOnce
  <1>6. CASE UNCHANGED <<learned, before, saved, held, crashes>> /\ (pc' = "save" => pc = "save")
    BY <1>6 DEF LearnedFromSaved, LearnedOnce
  <1> QED BY <1>1, <1>2, <1>3, <1>4, <1>5, <1>6, LearningSteps
-------------------------------------------------------------------------------
(* Who is set aside.                                                       *)

\* A line that is alone in its part is all of it.
LEMMA AloneIsOne ==
  ASSUME NEW part \in SUBSET Offsets, Alone(part), NEW o \in part
  PROVE  part = {o}
  BY OffsetsFinite, FS_Singleton DEF Alone

\* The steps that add to the suspects, or change the store or the kind of a line.
LEMMA BlamingSteps ==
  ASSUME [Next]_vars
  PROVE  \/ ProcessFails \/ SaveFailsForGood \/ StoreFails \/ StoreRecovers \/ CrashRestart
         \/ suspects' \subseteq suspects /\ UNCHANGED <<store, kind>>
  BY DEF Next, DrainStep, Leave, StartSettle, Admit, ArchiveBurst, StartDrain, Ack, Pull, Process,
         Save, SaveFailsTransiently, Copy, BlameStore, SetAside, QueueFails, SetAsideFails,
         RequeueDeadLetters, RetryTimer, vars, queueVars, storeVars, frameVars, drainVars

\* What bisecting adds to the suspects is a line alone, so the one that failed.
LEMMA BisectBlames ==
  ASSUME NEW part \in SUBSET Offsets, NEW parts, Bisect(part, parts),
         \E o \in part : kind[o] \in {"failsProcess", "failsSave"}
  PROVE  \A o \in suspects' : o \in suspects \/ kind[o] \in {"failsProcess", "failsSave"}
  <1>1. PICK o \in part : kind[o] \in {"failsProcess", "failsSave"}
    OBVIOUS
  <1>2. CASE Alone(part)
    <2>1. suspects' = suspects \union {o}
      BY <1>1, <1>2, AloneIsOne DEF Bisect
    <2> QED BY <1>1, <2>1
  <1>3. CASE ~Alone(part)
    BY <1>3 DEF Bisect
  <1> QED BY <1>2, <1>3

LEMMA BlameKept ==
  ASSUME IInv, SuspectsFail, [Next]_vars
  PROVE  SuspectsFail'
  <1> SUFFICES ASSUME ~CanBreak
               PROVE  /\ store' # "broken"
                      /\ \A o \in suspects' : kind'[o] \in {"failsProcess", "failsSave"}
    BY DEF SuspectsFail
  <1>1. store # "broken" /\ \A o \in suspects : kind[o] \in {"failsProcess", "failsSave"}
    BY DEF SuspectsFail
  <1>2. CASE ProcessFails
    <2>1. PICK part \in todo :
            \/ Leave
            \/ (\E o \in part : kind[o] = "failsProcess") /\ Bisect(part, todo \ {part})
      BY <1>1, <1>2 DEF ProcessFails
    <2>2. part \in SUBSET Offsets
      BY DEF IInv, TypeOK
    <2>3. CASE Leave
      BY <1>1, <1>2, <2>3 DEF Leave, ProcessFails, queueVars, storeVars
    <2>4. CASE (\E o \in part : kind[o] = "failsProcess") /\ Bisect(part, todo \ {part})
      BY <1>1, <1>2, <2>2, <2>4, BisectBlames DEF ProcessFails, queueVars, storeVars
    <2> QED BY <2>1, <2>3, <2>4
  <1>3. CASE SaveFailsForGood
    <2>1. \E o \in held : kind[o] = "failsSave"
      BY <1>1, <1>3 DEF SaveFailsForGood, Incurable, HeldFails
    <2>2. held \in SUBSET Offsets
      BY DEF IInv, TypeOK
    <2>3. UNCHANGED <<store, kind>> /\ (Bisect(held, todo) \/ StartSettle(held))
      BY <1>3 DEF SaveFailsForGood, queueVars, storeVars
    <2>4. CASE Bisect(held, todo)
      BY <1>1, <2>1, <2>2, <2>3, <2>4, BisectBlames
    <2>5. CASE StartSettle(held)
      BY <1>1, <2>3, <2>5 DEF StartSettle
    <2> QED BY <2>3, <2>4, <2>5
  <1>4. CASE StoreFails \/ StoreRecovers
    BY <1>1, <1>4 DEF StoreFails, StoreRecovers, queueVars, drainVars
  <1>5. CASE CrashRestart
    BY <1>1, <1>5 DEF CrashRestart, Leave, storeVars
  <1>6. CASE suspects' \subseteq suspects /\ UNCHANGED <<store, kind>>
    BY <1>1, <1>6
  <1> QED BY <1>2, <1>3, <1>4, <1>5, <1>6, BlamingSteps

\* The steps by which a row becomes dead, or a saved line is one no more.
LEMMA DeadOnlyFromSetAside ==
  ASSUME IInv, [Next]_vars
  PROVE  \/ SetAside
         \/ \A o \in Offsets : row'[o] = "dead" => row[o] = "dead"
  BY DEF Next, DrainStep, Admit, ArchiveBurst, StartDrain, Ack, Pull, Process, ProcessFails,
         Save, SaveFailsTransiently, SaveFailsForGood, Copy, BlameStore, QueueFails, SetAsideFails,
         RequeueDeadLetters, StoreFails, StoreRecovers, RetryTimer, CrashRestart, vars, queueVars

LEMMA SavedGrows ==
  ASSUME IInv, [Next]_vars
  PROVE  \A o \in Offsets : saved'[o] \in Nat /\ saved[o] \in Nat /\ saved'[o] >= saved[o]
  <1>1. saved' = saved \/ Save
    BY DEF Next, DrainStep, Admit, ArchiveBurst, StartDrain, Ack, Pull, Process, ProcessFails,
         SaveFailsTransiently, SaveFailsForGood, Copy, BlameStore, SetAside, QueueFails,
         SetAsideFails, RequeueDeadLetters, StoreFails, StoreRecovers, RetryTimer, CrashRestart,
         vars, storeVars
  <1>2. saved \in Counts
    BY DEF IInv, TypeOK
  <1> QED BY <1>1, <1>2 DEF Save, Counts

LEMMA DeadLettersKept ==
  ASSUME IInv, NoDeadLettersFromDeadStore, [Next]_vars
  PROVE  NoDeadLettersFromDeadStore'
  <1>1. \A o \in Offsets : saved'[o] = 0 => saved[o] = 0
    BY SavedGrows
  <1>2. CASE SetAside
    <2>1. \E o \in Offsets : saved[o] > 0
      BY <1>2 DEF SetAside, LinesToBlame, IInv, Grounded
    <2>2. \E o \in Offsets : saved'[o] # 0
      BY <1>1, <2>1
    <2> QED BY <2>2 DEF NoDeadLettersFromDeadStore
  <1>3. CASE \A o \in Offsets : row'[o] = "dead" => row[o] = "dead"
    BY <1>1, <1>3 DEF NoDeadLettersFromDeadStore, RowsIn
  <1> QED BY <1>2, <1>3, DeadOnlyFromSetAside

\* A step that sets a line aside sets a suspect aside, which fails by itself.
LEMMA SetAsideFailing ==
  ASSUME IInv, SuspectsFail, [Next]_vars
  PROVE  \A o \in Offsets :
           row[o] = "pending" /\ row'[o] = "dead" =>
             CanBreak \/ kind[o] \in {"failsProcess", "failsSave"}
  <1>1. CASE SetAside
    <2>1. PICK o \in suspects : row' = [row EXCEPT ![o] = "dead"]
      BY <1>1 DEF SetAside
    <2> QED BY <2>1 DEF SuspectsFail, IInv, TypeOK
  <1> QED BY <1>1, DeadOnlyFromSetAside
-------------------------------------------------------------------------------
(* What the event backend got.                                             *)

\* A batch in the order of its offsets names each of its lines.
LEMMA OrderedBatch ==
  ASSUME NEW batch \in SUBSET Offsets, NEW events \in InOrder(batch)
  PROVE  events \in Seq(Offsets) /\ Range(events) = batch
  <1> DEFINE n == Cardinality(batch)
  <1>1. IsFiniteSet(batch) /\ n \in Nat
    BY OffsetsFinite
  <1>2. events \in [1..n -> batch] /\ \A i, j \in 1..n : i < j => events[i] < events[j]
    BY DEF InOrder
  <1>3. events \in Injection(1..n, batch)
    <2>1. ASSUME NEW i \in 1..n, NEW j \in 1..n, events[i] = events[j]
          PROVE  i = j
      <3>1. events[i] \in Offsets /\ events[j] \in Offsets
        BY <1>2
      <3>2. i \in Nat /\ j \in Nat
        BY <1>1
      <3> QED BY <1>2, <2>1, <3>1, <3>2, BackendAssumption DEF Offsets
    <2> QED BY <1>2, <2>1 DEF Injection, IsInjective
  <1>4. Cardinality(1..n) = n
    BY <1>1, FS_Interval
  <1>5. events \in Surjection(1..n, batch)
    BY <1>1, <1>3, <1>4, FS_Injection
  <1>6. Range(events) = batch
    <2>1. DOMAIN events = 1..n
      BY <1>2
    <2> QED BY <1>2, <1>5, <2>1 DEF Surjection, Range
  <1>7. events \in [1..n -> Offsets]
    BY <1>2
  <1> QED BY <1>1, <1>6, <1>7

\* Nothing that joins a list or is cut off its front is forgotten.
LEMMA RangeOfGrown ==
  ASSUME NEW s \in Seq(Offsets), NEW t \in Seq(Offsets)
  PROVE  Range(s \o t) = Range(s) \union Range(t)
  <1>1. Len(s) \in Nat /\ Len(t) \in Nat /\ s \o t \in Seq(Offsets)
    BY ConcatProperties, LenProperties
  <1>2. Len(s \o t) = Len(s) + Len(t)
    BY ConcatProperties
  <1>3. \A i \in 1..Len(s) : (s \o t)[i] = s[i] /\ i \in 1..Len(s \o t)
    BY <1>1, <1>2, ConcatProperties
  <1>4. \A i \in 1..Len(t) : (s \o t)[Len(s) + i] = t[i] /\ Len(s) + i \in 1..Len(s \o t)
    BY <1>1, <1>2, ConcatProperties
  <1>5. \A i \in 1..Len(s \o t) : i \in 1..Len(s) \/ (\E j \in 1..Len(t) : i = Len(s) + j)
    <2> SUFFICES ASSUME NEW i \in 1..Len(s \o t), i \notin 1..Len(s)
                 PROVE  \E j \in 1..Len(t) : i = Len(s) + j
      OBVIOUS
    <2>1. i - Len(s) \in 1..Len(t) /\ i = Len(s) + (i - Len(s))
      BY <1>1, <1>2
    <2> QED BY <2>1
  <1>6. /\ DOMAIN s = 1..Len(s) /\ DOMAIN t = 1..Len(t)
        /\ DOMAIN (s \o t) = 1..Len(s \o t)
    BY <1>1, LenProperties
  <1> QED BY <1>3, <1>4, <1>5, <1>6, ZenonT(40) DEF Range

LEMMA RangeOfCut ==
  ASSUME NEW s \in Seq(Offsets), NEW n \in 0..Len(s)
  PROVE  Range(s) \subseteq Range(SubSeq(s, 1, n)) \union Range(SubSeq(s, n + 1, Len(s)))
  <1>1. Len(s) \in Nat /\ DOMAIN s = 1..Len(s)
    BY LenProperties
  <1>2. \A i \in 1..Len(s) : s[i] \in Offsets
    BY ElementOfSeq
  <1>3. \A i \in 1..n : i \in 1..Len(SubSeq(s, 1, n)) /\ SubSeq(s, 1, n)[i] = s[i]
    BY <1>1, <1>2, SubSeqProperties
  <1>4. \A i \in (n + 1)..Len(s) :
          /\ i - n \in 1..Len(SubSeq(s, n + 1, Len(s)))
          /\ SubSeq(s, n + 1, Len(s))[i - n] = s[i]
    BY <1>1, <1>2, SubSeqProperties
  <1>5. /\ DOMAIN SubSeq(s, 1, n) = 1..Len(SubSeq(s, 1, n))
        /\ DOMAIN SubSeq(s, n + 1, Len(s)) = 1..Len(SubSeq(s, n + 1, Len(s)))
    <2>1. SubSeq(s, 1, n) \in Seq(Offsets) /\ SubSeq(s, n + 1, Len(s)) \in Seq(Offsets)
      BY <1>1, <1>2, SubSeqProperties
    <2> QED BY <2>1, LenProperties
  <1>6. \A i \in 1..Len(s) : i \in 1..n \/ i \in (n + 1)..Len(s)
    BY <1>1
  <1> QED BY <1>1, <1>3, <1>4, <1>5, <1>6 DEF Range

\* What is sent or waits to be sent is a flush's list, or was received before.
LEMMA FlushAccounts ==
  ASSUME NEW events \in Seq(Offsets), Flush(events)
  PROVE  copied \union Range(events) \subseteq copied' \union Range(backlog')
  BY DEF Flush

\* A saved batch that is sent is received, waits, or is dropped.
LEMMA SendAccounts ==
  ASSUME Backend, BackendTypeOK, NEW batch \in SUBSET Offsets, SendToBackend(batch)
  PROVE  copied \union dropped \union Range(backlog) \union batch
           \subseteq copied' \union dropped' \union Range(backlog')
  <1>1. PICK events \in InOrder(batch) :
          LET grown == backlog \o events
          IN  /\ dropped' = dropped \union Range(SubSeq(grown, 1, Excess(grown)))
              /\ Flush(SubSeq(grown, Excess(grown) + 1, Len(grown)))
    BY DEF SendToBackend
  <1> DEFINE grown == backlog \o events
             front == SubSeq(grown, 1, Excess(grown))
             kept == SubSeq(grown, Excess(grown) + 1, Len(grown))
  <1>2. events \in Seq(Offsets) /\ Range(events) = batch
    BY OrderedBatch
  <1>3. grown \in Seq(Offsets) /\ Range(grown) = Range(backlog) \union batch
    BY <1>2, RangeOfGrown, ConcatProperties DEF BackendTypeOK
  <1>4. Excess(grown) \in 0..Len(grown)
    BY <1>3, BackendAssumption, LenProperties DEF Excess
  <1>5. Range(grown) \subseteq Range(front) \union Range(kept)
    BY <1>3, <1>4, RangeOfCut
  <1>6. kept \in Seq(Offsets)
    BY <1>3, TrimmedBacklog
  <1>7. copied \union Range(kept) \subseteq copied' \union Range(backlog')
    BY <1>1, <1>6, FlushAccounts
  <1>8. dropped' = dropped \union Range(front)
    BY <1>1
  <1> QED BY <1>3, <1>5, <1>7, <1>8

\* The steps that touch what is saved or what the backend was sent.
LEMMA BackendSteps ==
  ASSUME [Next]_vars
  PROVE  \/ Save \/ Copy \/ StartDrain \/ CrashRestart
         \/ /\ UNCHANGED <<copied, dropped, backlog, saved, crashes>>
            /\ pc = "copy" => pc' = "copy" /\ unacked' = unacked
  BY DEF Next, DrainStep, Leave, StartSettle, Continue, Admit, ArchiveBurst, Ack, Pull, Process,
         ProcessFails, Bisect, SaveFailsTransiently, SaveFailsForGood, Saving, BlameStore,
         SetAside, QueueFails, UsesQueue, SetAsideFails, RequeueDeadLetters, StoreFails,
         StoreRecovers, RetryTimer, BackendRetryDue, vars, backendVars, storeVars, drainVars

LEMMA BackendKept ==
  ASSUME IInv, BackendAccounted, [Next]_vars
  PROVE  BackendAccounted'
  <1> DEFINE known == copied \union dropped \union Range(backlog)
  <1> SUFFICES ASSUME Backend, crashes' = 0, NEW o \in Offsets, saved'[o] > 0
               PROVE  o \in known' \/ (pc' = "copy" /\ o \in unacked')
    BY DEF BackendAccounted
  <1>1. saved[o] > 0 /\ crashes = 0 => o \in known \/ (pc = "copy" /\ o \in unacked)
    BY DEF BackendAccounted
  <1>2. BackendTypeOK /\ unacked \in SUBSET Offsets /\ crashes \in Nat
    BY DEF IInv, TypeOK
  <1>3. CASE Save
    <2>1. /\ saved' = [p \in Offsets |-> IF p \in held THEN saved[p] + 1 ELSE saved[p]]
          /\ unacked' = held /\ pc' = "copy" /\ pc # "copy" /\ known' = known
          /\ crashes' = crashes
      BY <1>3 DEF Save, Saving, backendVars
    <2> QED BY <1>1, <2>1
  <1>4. CASE Copy
    <2>1. pc = "copy" /\ SendToBackend(unacked) /\ saved' = saved /\ crashes' = crashes
      BY <1>4 DEF Copy, storeVars
    <2>2. known \union unacked \subseteq known'
      BY <1>2, <2>1, SendAccounts
    <2> QED BY <1>1, <2>1, <2>2
  <1>5. CASE StartDrain
    <2>1. /\ pc = "idle" /\ Flush(backlog) /\ dropped' = dropped
          /\ saved' = saved /\ crashes' = crashes
      BY <1>5 DEF StartDrain, FlushBackend, storeVars
    <2>2. known \subseteq known'
      BY <1>2, <2>1, FlushAccounts DEF BackendTypeOK
    <2> QED BY <1>1, <2>1, <2>2
  <1>6. CASE CrashRestart
    BY <1>2, <1>6 DEF CrashRestart
  <1>7. CASE /\ UNCHANGED <<copied, dropped, backlog, saved, crashes>>
             /\ pc = "copy" => pc' = "copy" /\ unacked' = unacked
    BY <1>1, <1>7
  <1> QED BY <1>3, <1>4, <1>5, <1>6, <1>7, BackendSteps
-------------------------------------------------------------------------------
(* The theorems.                                                           *)

LEMMA OutcomeInductive == Spec => []OutcomeInv
  <1>1. Init => OutcomeInv
    <2> SUFFICES ASSUME Init PROVE OutcomeInv
      OBVIOUS
    <2>1. IInv
      BY InitIInv
    <2>2. LearnedFromSaved /\ SuspectsFail /\ BackendAccounted
      BY DEF Init, LearnedFromSaved, LearnedOnce, SuspectsFail, BackendAccounted
    <2>3. NoDeadLettersFromDeadStore
      BY DEF Init, NoDeadLettersFromDeadStore, RowsIn
    <2> QED BY <2>1, <2>2, <2>3 DEF OutcomeInv
  <1>2. OutcomeInv /\ [Next]_vars => OutcomeInv'
    BY NextIInv, LearningKept, BlameKept, DeadLettersKept, BackendKept DEF OutcomeInv
  <1> QED BY <1>1, <1>2, PTL DEF Spec

\* While a process lives, its baseline has learned exactly the lines that are
\* saved or held for saving, each once, whatever failed, was retried or bisected.
THEOREM LearnsOnce == Spec => []LearnedOnce
  <1>1. OutcomeInv => LearnedOnce
    BY DEF OutcomeInv, LearnedFromSaved
  <1> QED BY <1>1, OutcomeInductive, PTL

\* A store that never took anything never empties the queue into dead letters.
THEOREM DeadStoreBlamed == Spec => []NoDeadLettersFromDeadStore
  <1>1. OutcomeInv => NoDeadLettersFromDeadStore
    BY DEF OutcomeInv
  <1> QED BY <1>1, OutcomeInductive, PTL

\* Every event a process stored has reached the backend, waits for it, was
\* counted as dropped, or is about to be sent.
THEOREM NoEventForgotten == Spec => []BackendAccounted
  <1>1. OutcomeInv => BackendAccounted
    BY DEF OutcomeInv
  <1> QED BY <1>1, OutcomeInductive, PTL

\* Where every failure of the store itself is an outage, only a line that cannot
\* be processed or saved is set aside, however outages hit the bisection.
THEOREM OnlyFailingSetAside == Spec => OnlyFailingLinesSetAside
  <1>1. OutcomeInv /\ [Next]_vars =>
          [\A o \in Offsets :
             row[o] = "pending" /\ row'[o] = "dead" =>
               CanBreak \/ kind[o] \in {"failsProcess", "failsSave"}]_vars
    BY SetAsideFailing DEF OutcomeInv
  <1> QED BY <1>1, OutcomeInductive, PTL DEF Spec, OnlyFailingLinesSetAside

\* When a drain stops, what `--replay` reports as saved and not acknowledged is
\* what the drain still owes the queue: nothing else that waits was saved.
THEOREM ReplayReportsOwed == Spec => ReplayCaveat
  <1>1. IInv /\ IInv' /\ [Next]_vars =>
          [pc # "idle" /\ pc' = "idle" /\ crashes' = 0 =>
             {o \in Offsets : row'[o] = "pending" /\ saved'[o] > 0} = unacked']_vars
    <2> SUFFICES ASSUME IInv', crashes' = 0
                 PROVE  {o \in Offsets : row'[o] = "pending" /\ saved'[o] > 0} = unacked'
      OBVIOUS
    <2>1. unacked' \subseteq {o \in Offsets : row'[o] = "pending" /\ saved'[o] > 0}
      BY DEF IInv, TypeOK, InHandWait
    <2>2. \A o \in Offsets : saved'[o] \in Nat
      BY DEF IInv, TypeOK, Counts
    <2>3. \A o \in Offsets : row'[o] = "pending" /\ o \notin unacked' => saved'[o] <= 0
      BY DEF IInv, Unsaved
    <2> QED BY <2>1, <2>2, <2>3
  <1> QED BY <1>1, Inductive, PTL DEF Spec, ReplayCaveat
===============================================================================
