------------------------------- MODULE Journal -------------------------------
(***************************************************************************)
(* The event journal of src/autosiem/archive.py: one JSON-lines file that  *)
(* several JournalFile objects (one per process) append to, each counting  *)
(* only what was written since it last looked, under an exclusive file     *)
(* lock. A write can be torn by a crash or a full disk. The file is a      *)
(* sequence of pieces: the text of a record, a part of such a text, or the *)
(* newline that ends a line.                                               *)
(***************************************************************************)
EXTENDS Integers, Sequences, FiniteSets, FiniteSetsExt, SequencesExt

CONSTANTS
  Writers,         \* JournalFile objects, each in a process of its own
  None,
  MaxBurst,        \* records of one append_many
  MaxRecords,      \* bound of the model: records ever handed to an append
  MaxTears,        \* bound: writes that are torn
  MaxTruncations   \* bound: times an operator empties the file

\* Assumed by the module that checks this one.
JournalAssumption ==
  /\ None \notin Writers
  /\ MaxBurst \in Nat \ {0}
  /\ {MaxRecords, MaxTears, MaxTruncations} \subseteq Nat

VARIABLES
  file,      \* the pieces of the file
  scanned,   \* of each writer: _scanned, pieces of whole lines it has counted
  count,     \* of each writer: _count, records among them
  lock,      \* who holds the file lock, or None
  attempted, \* records handed to an append so far; a record's name is its number
  appended,  \* the records whose append returned, in the present file
  spared,    \* records of it of which a tear took the newline and nothing else
  unaware,   \* writers that have not looked since the file was emptied
  missed,    \* whether one of them looked too late to notice
  tears, truncations

vars == <<file, scanned, count, lock, attempted, appended, spared, unaware, missed,
          tears, truncations>>

Newline == [text |-> "newline"]
Fragment == [text |-> "fragment"]
Record(id, seq) == [text |-> "record", id |-> id, seq |-> seq]

\* _parse over the lines of pieces from+1..to: a line is a record if its text is
\* one whole record and nothing else.
RecordsIn(from, to) ==
  {i \in (from + 1)..to :
     /\ file[i].text = "record"
     /\ i = from + 1 \/ file[i - 1] = Newline
     /\ i = to \/ file[i + 1] = Newline}

\* _entries: what every reader of the journal finds.
Readable == RecordsIn(0, Len(file))

\* _catch_up: where the scan starts, and where its last whole line ends.
ScanFrom(w) == IF Len(file) < scanned[w] THEN 0 ELSE scanned[w]
ScanTo(w) == Max({ScanFrom(w)} \union {i \in (ScanFrom(w) + 1)..Len(file) : file[i] = Newline})
CountedSoFar(w) == IF Len(file) < scanned[w] THEN 0 ELSE count[w]
Caught(w) == CountedSoFar(w) + Cardinality(RecordsIn(ScanFrom(w), ScanTo(w)))

Init ==
  /\ file = <<>>
  /\ scanned = [w \in Writers |-> 0]
  /\ count = [w \in Writers |-> 0]
  /\ lock = None
  /\ attempted = 0
  /\ appended = {} /\ spared = {}
  /\ unaware = {} /\ missed = FALSE
  /\ tears = 0 /\ truncations = 0
------------------------------------------------------------------------------
\* A writer that looks notices that the file was emptied while it is still
\* shorter than what the writer had scanned.
Look(w) ==
  /\ unaware' = unaware \ {w}
  /\ missed' = (missed \/ (w \in unaware /\ Len(file) >= scanned[w]))

\* sequence(): look, and leave the file as it is.
Sequence(w) ==
  /\ lock = None
  /\ scanned' = [scanned EXCEPT ![w] = ScanTo(w)]
  /\ count' = [count EXCEPT ![w] = Caught(w)]
  /\ Look(w)
  /\ UNCHANGED <<file, lock, attempted, appended, spared, tears, truncations>>

Torn(w) == ScanTo(w) < Len(file)

\* append_many up to its write: lock, catch up, and end a torn last line, which is
\* passed over, whatever it holds.
StartAppend(w) ==
  /\ lock = None
  /\ lock' = w
  /\ count' = [count EXCEPT ![w] = Caught(w)]
  /\ file' = IF Torn(w) THEN Append(file, Newline) ELSE file
  /\ scanned' = [scanned EXCEPT ![w] = IF Torn(w) THEN Len(file) + 1 ELSE ScanTo(w)]
  /\ Look(w)
  /\ UNCHANGED <<attempted, appended, spared, tears, truncations>>

\* The pieces of n records, numbered from the writer's count.
Entries(w, n) ==
  [i \in 1..(2 * n) |->
     IF i % 2 = 0 THEN Newline ELSE Record(attempted + (i + 1) \div 2, count[w] + i \div 2)]

WithoutLock(w) == TRUE    \* mutant: the lock does not span the count and the write

Holds(w) == lock = w

\* _write: the entries reach the file, and the lock is released.
Write(w, n) ==
  /\ Holds(w)
  /\ attempted + n <= MaxRecords
  /\ file' = file \o Entries(w, n)
  /\ scanned' = [scanned EXCEPT ![w] = @ + 2 * n]
  /\ count' = [count EXCEPT ![w] = @ + n]
  /\ lock' = None
  /\ attempted' = attempted + n
  /\ appended' = appended \union ((attempted + 1)..(attempted + n))
  /\ UNCHANGED <<spared, unaware, missed, tears, truncations>>

\* What a torn write leaves of its entries: k whole lines, and a part of the next
\* text or all of it, without its newline.
Remains(w, k, whole) ==
  IF whole THEN SubSeq(Entries(w, k + 1), 1, 2 * k + 1)
           ELSE Append(SubSeq(Entries(w, k), 1, 2 * k), Fragment)

\* The disk is full: the write raises, the writer keeps what it had counted. Or
\* the process dies: its successor starts from nothing.
Tear(w, n) ==
  /\ Holds(w)
  /\ tears < MaxTears /\ tears' = tears + 1
  /\ attempted + n <= MaxRecords
  /\ attempted' = attempted + n
  /\ \E k \in 0..(n - 1), whole \in BOOLEAN :
       /\ file' = file \o Remains(w, k, whole)
       /\ spared' = IF whole THEN spared \union {attempted + k + 1} ELSE spared
  /\ \/ UNCHANGED <<scanned, count>>
     \/ /\ scanned' = [scanned EXCEPT ![w] = 0]
        /\ count' = [count EXCEPT ![w] = 0]
  /\ lock' = None
  /\ UNCHANGED <<appended, unaware, missed, truncations>>

\* A process ends between its writes, or with the lock in its hands.
Restart(w) ==
  /\ scanned' = [scanned EXCEPT ![w] = 0]
  /\ count' = [count EXCEPT ![w] = 0]
  /\ lock' = IF lock = w THEN None ELSE lock
  /\ unaware' = unaware \ {w}
  /\ UNCHANGED <<file, attempted, appended, spared, missed, tears, truncations>>

\* The operator empties the file between two appends.
Truncate ==
  /\ lock = None
  /\ file # <<>>
  /\ truncations < MaxTruncations /\ truncations' = truncations + 1
  /\ file' = <<>>
  /\ appended' = {} /\ spared' = {}
  /\ unaware' = {w \in Writers : scanned[w] > 0}
  /\ UNCHANGED <<scanned, count, lock, attempted, missed, tears>>

Next ==
  \/ \E w \in Writers :
       \/ Sequence(w) \/ StartAppend(w) \/ Restart(w)
       \/ \E n \in 1..MaxBurst : Write(w, n) \/ Tear(w, n)
  \/ Truncate

Spec == Init /\ [][Next]_vars
------------------------------------------------------------------------------
TypeOK ==
  /\ \A i \in 1..Len(file) :
       file[i] \in {Newline, Fragment} \union
                   {Record(id, seq) : id \in 1..attempted, seq \in 0..attempted}
  /\ scanned \in [Writers -> 0..(3 * MaxRecords)]
  /\ count \in [Writers -> 0..MaxRecords]
  /\ lock \in Writers \union {None}
  /\ attempted \in 0..MaxRecords
  /\ appended \subseteq 1..attempted /\ spared \subseteq 1..attempted
  /\ unaware \subseteq Writers /\ missed \in BOOLEAN
  /\ tears \in 0..MaxTears /\ truncations \in 0..MaxTruncations

\* Sequence numbers count the records a reader finds, 0, 1, 2, ... in the order
\* of the file, whichever processes wrote them and whatever was torn between,
\* unless a writer did not notice that the file was emptied. Only a line of which
\* a tear took just the newline may be left out: the writer that ends it passes
\* over it, while every reader finds its record.
Before(S, i) == {j \in S : j < i}

SeqIsPosition ==
  ~missed =>
    \A i \in Readable :
      LET position == Cardinality(Before(Readable, i))
          passed   == Cardinality({j \in Before(Readable, i) : file[j].id \in spared})
      IN  file[i].seq <= position /\ position <= file[i].seq + passed

\* Two processes never hand out the same number, as the docstring of JournalFile
\* and the guide to collection have it.
SeqUnique ==
  \A i, j \in Readable : file[i].seq = file[j].seq => i = j

\* A record whose append returned is read back: nothing torn before or after it
\* swallows it.
AppendedReadable ==
  appended \subseteq {file[i].id : i \in Readable}
==============================================================================
