---------------------------- MODULE QueueListener ----------------------------
(***************************************************************************)
(* `cli listen` with a durable queue: the receive thread admits bursts and *)
(* notifies, QueueDrainer's thread sleeps on a condition variable, drains  *)
(* the queue and retries a failed drain later, and the main thread stops   *)
(* the server and then closes the drainer (src/autosiem/cli.py,            *)
(* listeners.py). The queue is the number of lines that wait in it; what a *)
(* drain does with them is QueueDrain's subject. Time is a deadline that   *)
(* has passed or has not.                                                  *)
(***************************************************************************)
EXTENDS Integers

CONSTANTS
  MaxBatch,      \* QueueDrainer.max_batch
  MaxLines,      \* bound of the model: lines received, earlier runs' included
  MaxFailures,   \* bound: drains that fail
  ArchiveFaults  \* bound: bursts queued whose journal write then fails

\* Assumed by the module that checks this one.
ListenerAssumption ==
  /\ MaxBatch \in Nat \ {0}
  /\ {MaxLines, MaxFailures, ArchiveFaults} \subseteq Nat

VARIABLES
  received,     \* lines admitted to the queue so far
  waiting,      \* lines pending in the queue
  late,         \* those admitted after stop() was called
  receiver,     \* the receive thread: "reading", "handing", or "ended"
  burst,        \* lines queued by the receive thread, not yet notified
  arrived,      \* QueueDrainer._arrived
  waitOver,     \* _first_at + max_wait has passed
  running,      \* SyslogServer._running
  closed,       \* QueueDrainer._closed
  thread,       \* where the drainer's thread is
  retry,        \* retry_at: "none", "later", or "due"
  closing,      \* _run's local of that name
  failures, faults

server == <<received, late, receiver, burst, running, faults>>
drainer == <<arrived, waitOver, thread, retry, closing, failures>>
vars == <<server, drainer, waiting, closed>>

\* The thread evaluates the condition ("check"), sleeps in one of the three waits
\* of _wait_for_work, runs drain_queue ("drain"), has seen the queue empty
\* ("drained"), or has ended.
Asleep == {"sleepIdle", "sleepBatch", "sleepRetry"}

\* `waiting` lines of an earlier run are notified before the server starts.
Init ==
  /\ waiting \in 0..MaxLines
  /\ received = waiting
  /\ arrived = waiting
  /\ late = 0 /\ burst = 0
  /\ receiver = "reading" /\ running = TRUE
  /\ waitOver = FALSE
  /\ closed = FALSE
  /\ thread = "check"
  /\ retry = "none"
  /\ closing = FALSE
  /\ failures = 0 /\ faults = 0
------------------------------------------------------------------------------
(* The receive thread: _serve_bursts, and the admit callback of cli.py.    *)

\* Closing the socket does not wake a thread that is blocked in recvfrom: it may
\* admit one more burst, however long after.
Push(n) ==
  /\ receiver = "reading"
  /\ received + n <= MaxLines
  /\ received' = received + n
  /\ late' = IF running THEN late ELSE late + n
  /\ waiting' = waiting + n
  /\ burst' = n
  /\ receiver' = "handing"
  /\ UNCHANGED <<running, faults, drainer, closed>>

\* The loop goes on while _running is set.
NextRead == receiver' = IF running THEN "reading" ELSE "ended"

\* recvfrom raises because the socket was closed before the thread got there.
SocketClosed ==
  /\ receiver = "reading" /\ ~running
  /\ receiver' = "ended"
  /\ UNCHANGED <<received, late, burst, running, faults, drainer, waiting, closed>>

\* The journal write raises: the burst is queued, counted as failed, and admit
\* never gets to its notify.
ArchiveFails ==
  /\ burst > 0
  /\ faults < ArchiveFaults /\ faults' = faults + 1
  /\ burst' = 0
  /\ NextRead
  /\ UNCHANGED <<received, late, running, drainer, waiting, closed>>

WakesFull(first, total) == total >= MaxBatch  \* mutant: the first line wakes nobody
ArrivalsOf(n) == arrived + waiting  \* mutant: notify(bus.pending()) on every burst

ArrivalsWith(n) == arrived + n

\* QueueDrainer.notify wakes the thread for the first line, which starts the
\* max_wait clock, and for a full batch.
Wakes(first, total) == first \/ total >= MaxBatch

Notify ==
  LET first == arrived = 0
  IN  /\ burst > 0
      /\ arrived' = ArrivalsWith(burst)
      /\ burst' = 0
      /\ waitOver' = IF first THEN FALSE ELSE waitOver
      /\ thread' = IF Wakes(first, arrived') /\ thread \in Asleep THEN "check" ELSE thread
      /\ NextRead
      /\ UNCHANGED <<received, late, running, faults, retry, closing, failures, waiting, closed>>
------------------------------------------------------------------------------
(* QueueDrainer's thread.                                                  *)

\* What _wait_for_work finds, holding the condition's lock.
HasWork ==
  \/ closed
  \/ retry = "due"
  \/ retry = "none" /\ arrived > 0 /\ (arrived >= MaxBatch \/ waitOver)

\* It returns: the arrivals are taken for the drain that starts now.
StartDrain ==
  /\ thread = "check"
  /\ HasWork
  /\ closing' = closed
  /\ arrived' = 0
  /\ thread' = "drain"
  /\ UNCHANGED <<server, waitOver, retry, failures, waiting, closed>>

\* Else it waits: for the retry, for a first line, or for max_wait.
WhichSleep ==
  IF retry = "later" THEN "sleepRetry" ELSE IF arrived = 0 THEN "sleepIdle" ELSE "sleepBatch"

Sleep ==
  /\ thread = "check"
  /\ ~HasWork
  /\ thread' = WhichSleep
  /\ UNCHANGED <<server, arrived, waitOver, retry, closing, failures, waiting, closed>>

\* drain_queue pulls until nothing is left.
Drained ==
  /\ thread = "drain"
  /\ waiting' = 0
  /\ retry' = "none"
  /\ thread' = "drained"
  /\ UNCHANGED <<server, arrived, waitOver, closing, failures, closed>>

\* drain_queue raises, some lines settled: try again after the current delay.
DrainFails ==
  /\ thread = "drain"
  /\ failures < MaxFailures /\ failures' = failures + 1
  /\ waiting' \in 0..waiting
  /\ retry' = "later"
  /\ thread' = "drained"
  /\ UNCHANGED <<server, arrived, waitOver, closing, closed>>

\* The loop ends if closing was true when this drain began.
LastDrain == closing

DrainReturns ==
  /\ thread = "drained"
  /\ thread' = IF LastDrain THEN "stopped" ELSE "check"
  /\ UNCHANGED <<server, arrived, waitOver, retry, closing, failures, waiting, closed>>

TimedOut ==
  /\ \/ thread = "sleepBatch" /\ waitOver
     \/ thread = "sleepRetry" /\ retry = "due"
  /\ thread' = "check"
  /\ UNCHANGED <<server, arrived, waitOver, retry, closing, failures, waiting, closed>>

DrainerStep == StartDrain \/ Sleep \/ Drained \/ DrainFails \/ DrainReturns \/ TimedOut
------------------------------------------------------------------------------
\* The clock: max_wait after the first arrival, and the retry delay.
Tick ==
  /\ \/ arrived > 0 /\ ~waitOver /\ waitOver' = TRUE /\ UNCHANGED retry
     \/ retry = "later" /\ retry' = "due" /\ UNCHANGED waitOver
  /\ UNCHANGED <<server, arrived, thread, closing, failures, waiting, closed>>

\* SIGTERM or Ctrl+C: server.stop() clears _running and closes the socket.
Stop ==
  /\ running
  /\ running' = FALSE
  /\ UNCHANGED <<received, late, receiver, burst, faults, drainer, waiting, closed>>

\* stop() has joined the receive thread or waited five seconds for it, and
\* QueueDrainer.close() wakes the drainer's thread.
Close ==
  /\ ~running /\ ~closed
  /\ closed' = TRUE
  /\ thread' = IF thread \in Asleep THEN "check" ELSE thread
  /\ UNCHANGED <<server, arrived, waitOver, retry, closing, failures, waiting>>

Next ==
  \/ \E n \in 1..MaxLines : Push(n)
  \/ ArchiveFails \/ Notify \/ SocketClosed \/ DrainerStep \/ Tick \/ Stop \/ Close

Spec == Init /\ [][Next]_vars

\* Threads run and time passes; only traffic, failures and the signal are free.
Fairness == WF_vars(Notify) /\ WF_vars(DrainerStep) /\ WF_vars(Tick) /\ WF_vars(Close)

FairSpec == Spec /\ Fairness
------------------------------------------------------------------------------
TypeOK ==
  /\ received \in 0..MaxLines /\ waiting \in 0..received
  /\ late \in 0..received /\ burst \in 0..received
  /\ receiver \in {"reading", "handing", "ended"} /\ running \in BOOLEAN
  /\ arrived \in 0..received
  /\ waitOver \in BOOLEAN /\ closed \in BOOLEAN /\ closing \in BOOLEAN
  /\ thread \in Asleep \union {"check", "drain", "drained", "stopped"}
  /\ retry \in {"none", "later", "due"}
  /\ failures \in 0..MaxFailures /\ faults \in 0..ArchiveFaults

\* No wakeup is lost: the thread sleeps without a timeout only while nothing
\* waits, or the receive thread is about to tell it.
NoLostWakeup ==
  faults = 0 /\ thread = "sleepIdle" /\ burst = 0 => waiting = 0

\* Stopping tries once more everything read before it: lines stay queued after
\* an orderly stop only if that last attempt failed, or they were read late.
StopTriesEverything ==
  thread = "stopped" /\ waiting > late => retry # "none"

\* The queue is kept drained: lines that wait are processed without further
\* traffic, however drains failed before, unless the listener is stopped.
KeptDrained == waiting > 0 ~> (waiting = 0 \/ closed)

\* So it is as long as every burst that was queued was also journaled.
KeptDrainedWhenJournaled ==
  (waiting > 0 /\ faults = 0) ~> (waiting = 0 \/ closed \/ faults > 0)

\* Stopping ends: the drainer's thread finishes and close() returns.
StopEnds == ~running ~> thread = "stopped"
==============================================================================
