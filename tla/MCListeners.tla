---------------------------- MODULE MCListeners ----------------------------
(* The components that must make progress by themselves: the listener with a  *)
(* durable queue, the one that buffers in memory, and the event outbox.  They *)
(* share no state: in a behaviour one of them runs, and the listeners that do *)
(* not are stopped.                                                           *)
EXTENDS Integers, Sequences, FiniteSets

CONSTANTS MaxBatch, MaxLines, MaxFailures, ArchiveFaults,         \* QueueListener
          BatchSizes, MaxDatagram, BatchLines,                    \* BatchListener
          Events, Destinations, Savers, Target, Limit, MaxSaves, MaxFaults  \* Outbox

\* One run of `outbox --deliver` for each of two sinks.
OnePerSink == [first |-> "opensearch", second |-> "clickhouse"]

VARIABLES part,
          received, waiting, late, receiver, burst, arrived, waitOver, running, closed, thread,
          retry, closing, failures, archiveFaults,
          maxBatch, read, onTime, reader, inHand, pool, buffer, flushOver, flusher, batch,
          done, failed, finished, main,
          rows, saving, saves, receipts, drains, sink, faults

Queue       == INSTANCE QueueListener WITH faults <- archiveFaults
Memory      == INSTANCE BatchListener WITH MaxLines <- BatchLines, receiver <- reader,
                                           waitOver <- flushOver, closed <- finished
Projections == INSTANCE Outbox

queueVars  == <<received, waiting, late, receiver, burst, arrived, waitOver, running, closed,
                thread, retry, closing, failures, archiveFaults>>
memoryVars == <<maxBatch, read, onTime, reader, inHand, pool, buffer, flushOver, flusher, batch,
                done, failed, finished, main>>
outboxVars == <<rows, saving, saves, receipts, drains, sink, faults>>
vars == <<part, queueVars, memoryVars, outboxVars>>

ASSUME ListenersAssumption == Queue!ListenerAssumption /\ Memory!BatchAssumption
                              /\ Projections!OutboxAssumption

QueueStopped == /\ received = 0 /\ waiting = 0 /\ late = 0 /\ receiver = "ended" /\ burst = 0
                /\ arrived = 0 /\ waitOver = FALSE /\ running = FALSE /\ closed = TRUE
                /\ thread = "stopped" /\ retry = "none" /\ closing = TRUE
                /\ failures = 0 /\ archiveFaults = 0
MemoryStopped == /\ maxBatch = (CHOOSE n \in BatchSizes : TRUE) /\ read = 0 /\ onTime = 0
                 /\ reader = "ended" /\ inHand = <<>> /\ pool = {} /\ buffer = <<>>
                 /\ flushOver = FALSE /\ flusher = "ended" /\ batch = <<>> /\ done = {}
                 /\ failed = {} /\ finished = TRUE /\ main = "stopped"

Init == \/ part = "queue" /\ Queue!Init /\ MemoryStopped /\ Projections!Init
        \/ part = "memory" /\ Memory!Init /\ QueueStopped /\ Projections!Init
        \/ part = "outbox" /\ Projections!Init /\ QueueStopped /\ MemoryStopped

QueueStep  == part = "queue" /\ Queue!Next /\ UNCHANGED <<part, memoryVars, outboxVars>>
MemoryStep == part = "memory" /\ Memory!Next /\ UNCHANGED <<part, queueVars, outboxVars>>
OutboxStep == part = "outbox" /\ Projections!Next /\ UNCHANGED <<part, queueVars, memoryVars>>

Next == QueueStep \/ MemoryStep \/ OutboxStep

\* Threads run, time passes, and a scheduler runs the deliveries.
Fairness == /\ Queue!Fairness /\ Memory!Fairness
            /\ \A d \in DOMAIN Target : WF_vars(OutboxStep /\ Projections!Drain(d))

FairSpec == Init /\ [][Next]_vars /\ Fairness
----------------------------------------------------------------------------
\* The listeners' state keeps its type; no batch is larger than --batch-size.
TypeOK == Queue!TypeOK /\ Memory!TypeOK

\* No thread sleeps without a timeout while lines wait for it (QueueDrainer,
\* BatchingHandler), unless a journal write failed.
NoLostWakeup == Queue!NoLostWakeup /\ Memory!NoLostWakeup

\* An orderly stop settles what was read before it: with a queue, lines stay
\* queued only if the last attempt failed; in memory, each is processed or
\* counted as failed, and with --batch-size 1 so is one read after the stop.
StopSettles == Queue!StopTriesEverything /\ Memory!StopSettlesLines /\ Memory!SingleLosesNothing

\* Without further traffic, and however drains failed before, lines in the
\* queue are drained, and a line read before the stop is processed or counted.
LinesSettle == Queue!KeptDrainedWhenJournaled /\ Memory!LinesSettle

\* Stopping ends: the drainer's or the flusher's thread finishes and is joined.
StopEnds == Queue!StopEnds /\ Memory!StopEnds

\* Every event committed to PostgreSQL gets a receipt for every destination:
\* none is passed over for good because it committed late, its row was locked,
\* or its delivery failed.
EveryEventProjected == Projections!EveryEventProjected

\* A receipt is written only for what the destination holds, although a delivery
\* may be repeated after a kill, a failure or by another deliverer.
ReceiptsTrue == Projections!ReceiptsTrue
=============================================================================
