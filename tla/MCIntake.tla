------------------------------ MODULE MCIntake ------------------------------
(* Where events and content come from, and what keeps them: the API           *)
(* connectors, the tailed files, the durable queue's rows, the journal, and   *)
(* the feeds.  They share no state: in a behaviour one of them runs, and the  *)
(* others stay as they are at first.                                          *)
EXTENDS Integers, Sequences, FiniteSets

CONSTANTS Kinds, MaxRecords, PageSize, MaxPages, MaxRetries, SeenCap, NoId,   \* ConnectorPoll
          MaxKey, NotLogs, Corrupt, ListBound, MaxObjects, SeenKeys,          \* ObjectPoll
          MaxCrashes, MaxLostSaves,                                           \* both
          TailKinds, MaxLines, MaxGen, MaxRestarts,                           \* FileTail
          Procs, Threads, Sharings, MaxOffset, MaxPending, CompactAfter, Chunk, MaxFaults,
          Writers, MaxEntries, MaxTears, MaxTruncations,                      \* Journal
          MaxBurst, None,                                                     \* the last two
          Curated, Releases, Imported, Published, Limit, MaxVersion, MaxRuns, MaxKills, \* Feeds
          p1, p2, t1, t2

\* Two shapes of sharing a queue: the threads of one process, one of which also
\* requeues and compacts, and two processes.
OneProcess == [procOf |-> [t \in {t1, t2} |-> p1], operators |-> {t2}]
TwoProcesses == [procOf |-> [t \in {t1, t2} |-> IF t = t1 THEN p1 ELSE p2], operators |-> {}]
BothShapes == {OneProcess, TwoProcesses}

\* Two SigmaHQ releases; the second has more applicable rules than the limit,
\* and one with the id of a curated rule.
Candidate(id, class) == [id |-> id, class |-> class]
TwoReleases ==
  {<<Candidate("x", "applicable"), Candidate("n", "fields")>>,
   <<Candidate("y", "applicable"), Candidate("c1", "applicable"), Candidate("z", "applicable"),
     Candidate("s", "syntax")>>}

VARIABLES part,
          kind, server, horizon, file, pc, url, cursor, seen, pages, attempt, refreshed,
          events, ingested, dropped, crashes, lostSaves,
          objects, late, objectFile, objectPc, last, objectSeen, todo, objectEvents,
          objectsIngested, objectsDropped, objectCrashes, objectSaves,
          tailKind, gen, size, offset, offsetGen, delivered, missed, aborted, restarts,
          sharing, lastOffset, row, acks, lock, queuePc, room, owed, ceiling, faults,
          journalFile, scanned, count, journalLock, attempted, appended, spared,
          unaware, lookedLate, tears, truncations,
          version, curatedOk, cache, intel, synced, manifest, update, load, sync, report,
          loaded, cut, runs, kills

pollVars    == <<kind, server, horizon, file, pc, url, cursor, seen, pages, attempt,
                 refreshed, events, ingested, dropped, crashes, lostSaves>>
objectVars  == <<objects, late, objectFile, objectPc, last, objectSeen, todo, objectEvents,
                 objectsIngested, objectsDropped, objectCrashes, objectSaves>>
tailVars    == <<tailKind, gen, size, offset, offsetGen, delivered, missed, aborted,
                 restarts>>
queueVars   == <<sharing, lastOffset, row, acks, lock, queuePc, room, owed, ceiling, faults>>
journalVars == <<journalFile, scanned, count, journalLock, attempted, appended, spared,
                 unaware, lookedLate, tears, truncations>>
feedVars    == <<version, curatedOk, cache, intel, synced, manifest, update, load, sync,
                 report, loaded, cut, runs, kills>>
vars == <<part, pollVars, objectVars, tailVars, queueVars, journalVars, feedVars>>

Poll    == INSTANCE ConnectorPoll
Bucket  == INSTANCE ObjectPoll WITH file <- objectFile, pc <- objectPc, seen <- objectSeen,
                                    events <- objectEvents, ingested <- objectsIngested,
                                    dropped <- objectsDropped, crashes <- objectCrashes,
                                    lostSaves <- objectSaves
Tail_   == INSTANCE FileTail WITH kind <- tailKind
Queue   == INSTANCE DurableQueue WITH last <- lastOffset, pc <- queuePc
Archive == INSTANCE Journal WITH file <- journalFile, lock <- journalLock,
                                 missed <- lookedLate, MaxRecords <- MaxEntries
Content == INSTANCE Feeds

ASSUME IntakeAssumption ==
  /\ Poll!PollAssumption /\ Bucket!ObjectAssumption /\ Tail_!TailAssumption
  /\ Queue!QueueAssumption /\ Archive!JournalAssumption /\ Content!FeedsAssumption

PollInit  == Poll!Init /\ (part # "poll" => kind = CHOOSE k \in Kinds : TRUE)
TailInit  == Tail_!Init /\ (part # "tail" => tailKind = CHOOSE k \in TailKinds : TRUE)
QueueInit == Queue!Init /\ (part # "queue" => lastOffset = 0 /\ sharing = CHOOSE s \in Sharings : TRUE)

Init == /\ part \in {"poll", "bucket", "tail", "queue", "journal", "feeds"}
        /\ PollInit /\ Bucket!Init /\ TailInit /\ QueueInit /\ Archive!Init /\ Content!Init

PollStep == /\ part = "poll" /\ Poll!Next
            /\ UNCHANGED <<part, objectVars, tailVars, queueVars, journalVars, feedVars>>
BucketStep == /\ part = "bucket" /\ Bucket!Next
              /\ UNCHANGED <<part, pollVars, tailVars, queueVars, journalVars, feedVars>>
TailStep == /\ part = "tail" /\ Tail_!Next
            /\ UNCHANGED <<part, pollVars, objectVars, queueVars, journalVars, feedVars>>
QueueStep == /\ part = "queue" /\ Queue!Next
             /\ UNCHANGED <<part, pollVars, objectVars, tailVars, journalVars, feedVars>>
JournalStep == /\ part = "journal" /\ Archive!Next
               /\ UNCHANGED <<part, pollVars, objectVars, tailVars, queueVars, feedVars>>
FeedStep == /\ part = "feeds" /\ Content!Next
            /\ UNCHANGED <<part, pollVars, objectVars, tailVars, queueVars, journalVars>>

Next == PollStep \/ BucketStep \/ TailStep \/ QueueStep \/ JournalStep \/ FeedStep

Spec == Init /\ [][Next]_vars
----------------------------------------------------------------------------
\* The state of every part keeps its type; the windows of ids and keys that the
\* state files remember, and the room of a push, keep their bounds.
TypeOK == /\ Poll!TypeOK /\ Bucket!TypeOK /\ Tail_!TypeOK
          /\ Queue!TypeOK /\ Archive!TypeOK

\* No resume point, of an API, a bucket or a tailed file, passes anything that
\* was not fetched, unless a process died with it, it was not there to be seen
\* (late keys, the lookback window) or a poll cut a line in two.
NothingSkipped == Poll!NoGap /\ Bucket!NoGap /\ Tail_!NoGap

\* While state files are written and no process dies, nothing is processed
\* twice, although resume points overlap what was read.
NothingReplayed == Poll!NoReplay /\ Bucket!NoReplay /\ Tail_!NoReplay

\* However threads and processes race, the rows that wait exceed max_pending by
\* at most the bursts of other processes, and acknowledged rows stay bounded.
QueueBounded == Queue!PendingBounded /\ Queue!AckedRowsBounded

\* A waiting row is never deleted, compaction leaves the checkpoint where it is,
\* and within one process no push exceeds max_pending.
QueueRowsKept == Queue!PushKeepsBound /\ Queue!WaitingRowsKept /\ Queue!CheckpointKept

\* Sequence numbers of the journal count its readable records in file order, but
\* for lines that lost only their newline, and a record whose append returned is
\* read back.
JournalReadable == Archive!SeqIsPosition /\ Archive!AppendedReadable

\* What `update` reports, what a pipeline loads and what a sync's manifest says
\* is so, although every command may be killed while it writes.
FeedsHonest == Content!UpdateHonest /\ Content!PipelineReadsWhole /\ Content!SyncAuditable
=============================================================================
