------------------------------ MODULE QueueDrain ------------------------------
(***************************************************************************)
(* Durable ingest: DistributedPipeline.admit and drain_queue over a        *)
(* DurableQueue (src/autosiem/distributed.py, bus.py).                     *)
(*                                                                         *)
(* The receive thread commits bursts of lines to the queue and then        *)
(* archives them; one drain thread pulls batches, processes them (which    *)
(* teaches the behavioral baseline), saves the result, hands a copy to an  *)
(* event backend and acknowledges the rows. Saves and acknowledgements     *)
(* fail, the process dies between any two steps, and a batch that fails    *)
(* for good is bisected until its failing lines are alone; those are set   *)
(* aside as dead letters. The rows are named by their offset; a batch is a *)
(* set of offsets, its order the order of the offsets.                     *)
(***************************************************************************)
EXTENDS BackendCopy

CONSTANTS
  BatchSize,   \* drain_queue(batch_size)
  MaxBurst,    \* lines the receive thread admits at once
  MaxMarkers,  \* bound: archive markers an older version left in the queue
  Archive,     \* whether AUTOSIEM_ARCHIVE_PATH is set
  CanBreak,    \* whether the store may fail with an error that is not transient
  MaxFaults,   \* bound: store outages plus failed queue and archive writes
  MaxCrashes   \* bound: times the process dies and is started again

ASSUME DrainAssumption ==
  /\ BatchSize \in Nat \ {0}
  /\ MaxBurst \in Nat \ {0}
  /\ {MaxMarkers, MaxFaults, MaxCrashes} \subseteq Nat
  /\ Archive \in BOOLEAN
  /\ CanBreak \in BOOLEAN

VARIABLES
  \* The queue file.
  last,       \* highest offset handed out (AUTOINCREMENT)
  row,        \* the `acked` column of each row, "free" before it is inserted
  kind,       \* what the row holds, and how processing it fails
  \* The journal, and the receive thread's burst between queue and journal.
  archived, archiving,
  \* The primary store.
  store,      \* "up", or failing transiently ("outage") or otherwise ("broken")
  saved,      \* committed results that hold the line's event
  storedBase, \* the baseline as last written to the store: lines it has learned
  \* The pipeline's memory.
  learned,    \* times the baseline in memory (and _seen) has learned each line
  \* DistributedPipeline and the frames of drain_queue and _settle.
  pc, held, before, unacked, todo, suspects, settled,
  \* Counters of the bounds.
  faults, crashes

queueVars == <<last, row, kind>>
archiveVars == <<archived, archiving>>
storeVars == <<store, saved, storedBase>>
frameVars == <<todo, suspects, settled>>
drainVars == <<pc, held, before, unacked, todo, suspects, settled>>
vars == <<backendVars, queueVars, archiveVars, storeVars, learned, drainVars,
          faults, crashes>>

LineKinds == {"good", "failsProcess", "failsSave"}
Counts == [Offsets -> Nat]

RowsIn(status) == {o \in Offsets : row[o] = status}
Pending == RowsIn("pending")

\* The lines of the queue that fit, as push_many counts them.
Room == IF Cardinality(Pending) < MaxPending
          THEN MaxPending - Cardinality(Pending) ELSE 0

\* The first n offsets of a set, in the order SELECT ... ORDER BY offset has.
Earliest(S, n) == {o \in S : Cardinality({p \in S : p < o}) < n}

\* AnomalyDetector.update over the lines of a batch.
Learn(counts, batch) ==
  [o \in Offsets |-> IF o \in batch THEN counts[o] + 1 ELSE counts[o]]

RestoreNothing(snapshot, current) == current  \* mutant: the learning is not undone

\* _restore_baseline: what the baseline is after a batch that did not settle.
Restore(snapshot, current) == snapshot

\* The rows of a batch that carry lines; the others are markers of an older
\* version, which the drain acknowledges unread.
IngestOf(batch) == {o \in batch : kind[o] # "marker"}
-------------------------------------------------------------------------------
Init ==
  /\ BackendInit
  /\ last \in 0..MaxMarkers \intersect 0..MaxOffset
  /\ row = [o \in Offsets |-> IF o <= last THEN "pending" ELSE "free"]
  /\ kind \in [Offsets -> LineKinds \union {"marker"}]
  /\ \A o \in Offsets : kind[o] = "marker" <=> o <= last
  /\ archived = {} /\ archiving = {}
  /\ store = "up"
  /\ saved = [o \in Offsets |-> 0]
  /\ storedBase = [o \in Offsets |-> 0]
  /\ learned = [o \in Offsets |-> 0]
  /\ before = [o \in Offsets |-> 0]
  /\ pc = "idle"
  /\ held = {} /\ unacked = {} /\ todo = {} /\ suspects = {}
  /\ settled = FALSE
  /\ faults = 0 /\ crashes = 0

-------------------------------------------------------------------------------
(* The receive thread.                                                     *)

\* admit: push_many in one commit as many of n lines as fit. The refused rest is
\* the caller's to count; a burst that finds no room changes nothing.
Admit(n) ==
  LET accepted == IF n < Room THEN n ELSE Room
      new == (last + 1)..(last + accepted)
  IN  /\ archiving = {}
      /\ accepted > 0
      /\ last + accepted <= MaxOffset
      /\ last' = last + accepted
      /\ row' = [o \in Offsets |-> IF o \in new THEN "pending" ELSE row[o]]
      /\ archiving' = IF Archive THEN new ELSE {}
      /\ UNCHANGED <<backendVars, kind, archived, storeVars, learned, drainVars,
                     faults, crashes>>

\* admit: _archive_lines of what was accepted, in one locked write.
ArchiveBurst ==
  /\ archiving # {}
  /\ archiving' = {}
  /\ \/ archived' = archived \union archiving /\ UNCHANGED faults
     \/ faults < MaxFaults /\ faults' = faults + 1 /\ UNCHANGED archived
  /\ UNCHANGED <<backendVars, queueVars, storeVars, learned, drainVars, crashes>>

-------------------------------------------------------------------------------
(* The drain thread.                                                       *)

\* drain_queue returns or an exception leaves it: its frames and the suspects
\* they collected are gone; _held, _unacked and the rows stay as they are.
Leave ==
  /\ pc' = "idle"
  /\ todo' = {}
  /\ suspects' = {}
  /\ settled' = FALSE

\* _settle_batch(batch) begins.
StartSettle(batch) ==
  /\ pc' = "process"
  /\ todo' = {batch}
  /\ suspects' = {}
  /\ settled' = FALSE

\* Where _settle and _settle_batch go once the part in hand is done with.
Continue(parts, failing) ==
  pc' = IF parts # {} THEN "process" ELSE IF failing # {} THEN "setAside" ELSE "loop"

NeverSplit(part) == TRUE  \* mutant: a failing batch is not bisected

\* _settle's answer to an error that is not transient: a line alone is a
\* suspect, anything larger is settled again in halves, the left one first.
Alone(part) == Cardinality(part) = 1

Bisect(part, parts) ==
  LET left == Earliest(part, Cardinality(part) \div 2)
  IN  /\ todo' = IF Alone(part) THEN parts ELSE parts \union {left, part \ left}
      /\ suspects' = IF Alone(part) THEN suspects \union part ELSE suspects
      /\ Continue(todo', suspects')
      /\ UNCHANGED settled

\* drain_queue is called (by the listener's QueueDrainer, or `--replay`).
StartDrain ==
  /\ pc = "idle"
  /\ pc' = "loop"
  /\ FlushBackend
  /\ UNCHANGED <<queueVars, archiveVars, storeVars, learned, held, before, unacked,
                 frameVars, faults, crashes>>

\* Acknowledge _unacked: at the top of the loop when an earlier attempt failed,
\* else as the last step of _save_held.
Ack ==
  /\ \/ pc = "loop" /\ unacked # {} /\ UNCHANGED <<pc, frameVars>>
     \/ /\ pc = "ack"
        /\ Continue(todo, suspects)
        /\ settled' = (settled \/ unacked # {})
        /\ UNCHANGED <<todo, suspects>>
  /\ row' = [o \in Offsets |-> IF o \in unacked THEN "acked" ELSE row[o]]
  /\ unacked' = {}
  /\ UNCHANGED <<backendVars, last, kind, archiveVars, storeVars, learned, held,
                 before, faults, crashes>>

\* The queue refuses: an acknowledgement, or the next batch and its markers.
UsesQueue == pc = "ack" \/ (pc = "loop" /\ (unacked # {} \/ held = {}))

QueueFailsForgetting ==  \* mutant: _unacked cleared before the write, not after
  /\ UsesQueue
  /\ faults < MaxFaults /\ faults' = faults + 1
  /\ unacked' = {}
  /\ Leave
  /\ UNCHANGED <<backendVars, queueVars, archiveVars, storeVars, learned, held,
                 before, crashes>>

QueueFails ==
  /\ UsesQueue
  /\ faults < MaxFaults /\ faults' = faults + 1
  /\ Leave
  /\ UNCHANGED <<backendVars, queueVars, archiveVars, storeVars, learned, held,
                 before, unacked, crashes>>

\* Nothing is owed to an earlier batch: pull the next one, or return.
Pull ==
  LET batch == Earliest(Pending, BatchSize)
      markers == batch \ IngestOf(batch)
  IN  /\ pc = "loop" /\ unacked = {} /\ held = {}
      /\ row' = [o \in Offsets |-> IF o \in markers THEN "acked" ELSE row[o]]
      /\ \/ batch = {} /\ Leave
         \/ batch # {} /\ IngestOf(batch) = {} /\ UNCHANGED <<pc, frameVars>>
         \/ IngestOf(batch) # {} /\ StartSettle(IngestOf(batch))
      /\ UNCHANGED <<backendVars, last, kind, archiveVars, storeVars, learned, held,
                     before, unacked, faults, crashes>>

\* The part _settle turns to next: halves are settled left to right.
Foremost(part) == \A other \in todo : \E o \in part : \A p \in other : o <= p

\* _settle: snapshot the baseline, then process the part; the result is held.
\* The pipeline writes its baseline to the store; a failure there is logged only.
Process ==
  \E part \in todo :
      /\ pc = "process" /\ Foremost(part)
      /\ \A o \in part : kind[o] # "failsProcess"
      /\ pc' = "save"
      /\ before' = learned
      /\ learned' = Learn(learned, part)
      /\ storedBase' = IF store = "up" THEN learned' ELSE storedBase
      /\ held' = part
      /\ todo' = todo \ {part}
      /\ UNCHANGED <<backendVars, queueVars, archiveVars, store, saved, unacked,
                     suspects, settled, faults, crashes>>

\* _settle: processing raises, by then having learned some of the part's lines.
\* An outage of the store (correlation reads it) ends the drain.
ProcessFails ==
  \E part \in todo :
      /\ pc = "process" /\ Foremost(part)
      /\ before' = learned
      /\ \E seen \in SUBSET part : learned' = Restore(learned, Learn(learned, seen))
      /\ \/ store = "outage" /\ Leave
         \/ /\ store = "broken" \/ \E o \in part : kind[o] = "failsProcess"
            /\ Bisect(part, todo \ {part})
      /\ UNCHANGED <<backendVars, queueVars, archiveVars, storeVars, held, unacked,
                     faults, crashes>>

Saving == pc = "save" \/ (pc = "loop" /\ unacked = {} /\ held # {})
HeldFails == \E o \in held : kind[o] = "failsSave"

IncurableOutage ==  \* mutant: an outage is not recognised as transient
  store # "up" \/ HeldFails

\* The save raises an error that _is_transient does not recognise.
Incurable == store = "broken" \/ (store = "up" /\ HeldFails)

\* _save_held: the result is committed, and from now on only owed its ack.
Save ==
  /\ Saving
  /\ store = "up" /\ ~HeldFails
  /\ saved' = [o \in Offsets |-> IF o \in held THEN saved[o] + 1 ELSE saved[o]]
  /\ held' = {}
  /\ unacked' = held
  /\ pc' = "copy"
  /\ UNCHANGED <<backendVars, queueVars, archiveVars, store, storedBase, learned,
                 before, frameVars, faults, crashes>>

SaveFailsUnacked ==  \* mutant: _unacked assigned before the save, not after
  /\ Saving
  /\ store = "outage"
  /\ Leave
  /\ unacked' = held
  /\ UNCHANGED <<backendVars, queueVars, archiveVars, storeVars, learned, held,
                 before, faults, crashes>>

\* The save fails transiently: the batch stays held for the next drain.
SaveFailsTransiently ==
  /\ Saving
  /\ store = "outage"
  /\ Leave
  /\ UNCHANGED <<backendVars, queueVars, archiveVars, storeVars, learned, held,
                 before, unacked, faults, crashes>>

\* The save fails for good: the result is dropped, its learning undone, and the
\* part is bisected; a batch held by an earlier drain is settled from the start.
SaveFailsForGood ==
  /\ Saving
  /\ Incurable
  /\ held' = {}
  /\ learned' = Restore(before, learned)
  /\ \/ pc = "save" /\ Bisect(held, todo)
     \/ pc = "loop" /\ StartSettle(held)
  /\ UNCHANGED <<backendVars, queueVars, archiveVars, storeVars, before, unacked,
                 faults, crashes>>

\* _save_held: the copy for the event backend, before the ack.
Copy ==
  /\ pc = "copy"
  /\ pc' = "ack"
  /\ SendToBackend(unacked)
  /\ UNCHANGED <<queueVars, archiveVars, storeVars, learned, held, before, unacked,
                 frameVars, faults, crashes>>

BlameLines == TRUE  \* mutant: failing lines set aside although nothing was saved

\* _settle_batch, every part done: with nothing saved the store is to blame, and
\* the error is raised; else the failing lines are set aside one by one.
LinesToBlame == settled

BlameStore ==
  /\ pc = "setAside" /\ ~LinesToBlame
  /\ Leave
  /\ UNCHANGED <<backendVars, queueVars, archiveVars, storeVars, learned, held,
                 before, unacked, faults, crashes>>

SetAside ==
  \E o \in suspects :
      /\ pc = "setAside" /\ LinesToBlame
      /\ \A p \in suspects : o <= p
      /\ row' = [row EXCEPT ![o] = "dead"]
      /\ suspects' = suspects \ {o}
      /\ Continue({}, suspects')
      /\ UNCHANGED <<backendVars, last, kind, archiveVars, storeVars, learned, held,
                     before, unacked, todo, settled, faults, crashes>>

SetAsideFails ==
  /\ pc = "setAside" /\ LinesToBlame
  /\ faults < MaxFaults /\ faults' = faults + 1
  /\ Leave
  /\ UNCHANGED <<backendVars, queueVars, archiveVars, storeVars, learned, held,
                 before, unacked, crashes>>

DrainStep ==
  \/ Ack \/ Pull \/ Process \/ ProcessFails \/ Save \/ SaveFailsTransiently
  \/ SaveFailsForGood \/ Copy \/ BlameStore \/ SetAside
-------------------------------------------------------------------------------
(* Around them: the operator, the store's health, the clock, the process.  *)

\* `autosiem distributed --requeue-dead-letters`, from a process of its own.
RequeueDeadLetters ==
  /\ RowsIn("dead") # {}
  /\ row' = [o \in Offsets |-> IF row[o] = "dead" THEN "pending" ELSE row[o]]
  /\ UNCHANGED <<backendVars, last, kind, archiveVars, storeVars, learned, drainVars,
                 faults, crashes>>

StoreFails ==
  /\ store = "up"
  /\ faults < MaxFaults /\ faults' = faults + 1
  /\ store' \in {"outage"} \union (IF CanBreak THEN {"broken"} ELSE {})
  /\ UNCHANGED <<backendVars, queueVars, archiveVars, saved, storedBase, learned,
                 drainVars, crashes>>

StoreRecovers ==
  /\ store # "up"
  /\ store' = "up"
  /\ UNCHANGED <<backendVars, queueVars, archiveVars, saved, storedBase, learned,
                 drainVars, faults, crashes>>

RetryTimer ==
  /\ BackendRetryDue
  /\ UNCHANGED <<queueVars, archiveVars, storeVars, learned, drainVars, faults, crashes>>

\* kill -9 and a new process, perhaps of a version in which the cause of the
\* failing lines is fixed. What the disk holds is all that is left.
CrashRestart ==
  /\ crashes < MaxCrashes /\ crashes' = crashes + 1
  /\ kind' \in {kind, [o \in Offsets |-> IF kind[o] = "marker" THEN "marker" ELSE "good"]}
  /\ archiving' = {}
  /\ learned' = storedBase /\ before' = storedBase
  /\ held' = {} /\ unacked' = {}
  /\ Leave
  /\ ForgetBackend
  /\ UNCHANGED <<last, row, archived, storeVars, faults>>

Next ==
  \/ \E n \in 1..MaxBurst : Admit(n)
  \/ ArchiveBurst
  \/ StartDrain
  \/ DrainStep
  \/ QueueFails
  \/ SetAsideFails
  \/ RequeueDeadLetters
  \/ StoreFails
  \/ StoreRecovers
  \/ RetryTimer
  \/ CrashRestart

Spec == Init /\ [][Next]_vars
-------------------------------------------------------------------------------
(* Properties.                                                             *)

TypeOK ==
  /\ BackendTypeOK
  /\ last \in 0..MaxOffset
  /\ row \in [Offsets -> {"free", "pending", "acked", "dead"}]
  /\ \A o \in Offsets : row[o] = "free" <=> o > last
  /\ kind \in [Offsets -> LineKinds \union {"marker"}]
  /\ archived \subseteq Offsets /\ archiving \subseteq Offsets
  /\ store \in {"up", "outage", "broken"}
  /\ {saved, storedBase, learned, before} \subseteq Counts
  /\ pc \in {"idle", "loop", "process", "save", "copy", "ack", "setAside"}
  /\ held \subseteq Offsets /\ unacked \subseteq Offsets /\ suspects \subseteq Offsets
  /\ todo \subseteq SUBSET Offsets
  /\ settled \in BOOLEAN
  /\ faults \in Nat /\ crashes \in Nat

\* No accepted line is lost: once a line no longer waits in the queue and is not
\* set aside in it, its event is in the store, whatever failed on the way.
AckedIsSaved ==
  \A o \in Offsets : row[o] = "acked" /\ kind[o] # "marker" => saved[o] > 0

\* Retries never store an event twice. Only a death between the save and the
\* acknowledgement does, so an event is stored at most once per process.
SavedOncePerProcess ==
  \A o \in Offsets : saved[o] <= crashes + 1

\* While the process lives, the baseline in memory has learned exactly the lines
\* whose result is saved or held for saving, each once, however often batches
\* failed, were held, retried or bisected.
LearnedOnce ==
  crashes = 0 =>
    \A o \in Offsets : learned[o] = IF o \in held THEN 1 ELSE saved[o]

\* Where every failure of the store itself is an outage, only a line that cannot
\* be processed or saved is ever set aside, even if outages hit the bisection.
OnlyFailingLinesSetAside ==
  [][\A o \in Offsets :
       row[o] = "pending" /\ row'[o] = "dead" =>
         CanBreak \/ kind[o] \in {"failsProcess", "failsSave"}]_vars

\* A store that never took anything never empties the queue into dead letters.
NoDeadLettersFromDeadStore ==
  (\A o \in Offsets : saved[o] = 0) => RowsIn("dead") = {}

\* Every stored event has reached the backend, waits for it, was counted as
\* dropped, or is on its way there.
BackendAccounted ==
  Backend /\ crashes = 0 =>
    \A o \in Offsets :
      saved[o] > 0 => \/ o \in copied \union dropped \union Range(backlog)
                      \/ pc = "copy" /\ o \in unacked

\* When a drain stops with an error while lines wait, the lines that were saved
\* without being acknowledged are exactly those `distributed --replay` reports
\* as "saved before the queue could acknowledge them", as long as no earlier
\* process died owing acknowledgements.
ReplayCaveat ==
  [][pc # "idle" /\ pc' = "idle" /\ crashes' = 0 =>
       {o \in Offsets : row'[o] = "pending" /\ saved'[o] > 0} = unacked']_vars

\* Durable ingest implements at-least-once ingest.
PhaseOf == [free |-> "absent", pending |-> "waiting", acked |-> "done", dead |-> "aside"]

Phase == [o \in Offsets |-> IF kind[o] = "marker" THEN "absent" ELSE PhaseOf[row[o]]]

Ingest == INSTANCE AtLeastOnceIngest WITH
  Lines <- Offsets, phase <- Phase, copies <- saved, restarts <- crashes

ImplementsIngest == Ingest!Spec

\* The lines the store could not take yet are learned by the baseline once at
\* most, in the store as in memory, however often they are retried.
StoredBaselineLearnsOnce ==
  \A o \in Offsets : storedBase[o] <= 1

\* Every event is journaled before it is processed.
JournaledBeforeProcessed ==
  \A o \in Offsets : learned[o] > 0 => o \in archived
===============================================================================
