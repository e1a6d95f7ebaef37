---------------------------- MODULE BatchListener ----------------------------
(***************************************************************************)
(* `cli listen` without a queue: the receive thread hands lines to a pool  *)
(* of workers, workers parse them and put them in BatchingHandler's        *)
(* buffer, one flusher thread processes batches, and the main thread stops *)
(* the server and then closes the handler (src/autosiem/listeners.py,      *)
(* cli.py). Lines are numbered as they are read; time is a deadline that   *)
(* has passed or has not.                                                  *)
(***************************************************************************)
EXTENDS Integers, Sequences, FiniteSets, SequencesExt

CONSTANTS
  BatchSizes,   \* what max_batch may be; 1 is the mode without a flusher
  MaxDatagram,  \* bound of the model: lines of one datagram
  MaxLines      \* bound: lines read

\* Assumed by the module that checks this one.
BatchAssumption ==
  /\ BatchSizes \subseteq Nat \ {0} /\ BatchSizes # {}
  /\ {MaxDatagram, MaxLines} \subseteq Nat \ {0}

VARIABLES
  maxBatch,  \* BatchingHandler.max_batch; never changes
  read,      \* lines read from the socket: 1..read
  onTime,    \* those read before stop() was called
  receiver,  \* the receive thread: "reading", "handing", or "ended"
  inHand,    \* the lines of its datagram not handed over yet
  pool,      \* lines submitted to the workers and not finished by them
  buffer,    \* BatchingHandler._buffer
  waitOver,  \* _first_at + max_wait has passed
  flusher,   \* the flusher thread, or "none" if max_batch is 1
  batch,     \* the lines it processes
  done, failed,  \* lines processed; lines counted by record_failure
  closed,    \* BatchingHandler._closed
  main       \* the main thread: "up", then the steps of the stop

receiverVars == <<read, onTime, receiver, inHand>>
handlerVars == <<buffer, waitOver, flusher, batch, closed>>
outcome == <<done, failed>>
vars == <<maxBatch, receiverVars, pool, handlerVars, outcome, main>>

Asleep == {"sleepIdle", "sleepBatch"}

Running == main = "up"

Init ==
  /\ maxBatch \in BatchSizes
  /\ read = 0 /\ onTime = 0
  /\ receiver = "reading"
  /\ inHand = <<>> /\ pool = {} /\ buffer = <<>> /\ batch = <<>>
  /\ waitOver = FALSE
  /\ flusher = IF maxBatch > 1 THEN "check" ELSE "none"
  /\ done = {} /\ failed = {}
  /\ closed = FALSE
  /\ main = "up"
------------------------------------------------------------------------------
(* BatchingHandler.__call__, on whichever thread has the line.             *)

Wakes(first) == first \/ Len(buffer) + 1 >= maxBatch

Collect(line) ==
  LET first == buffer = <<>>
  IN  /\ flusher # "none"
      /\ buffer' = Append(buffer, line)
      /\ waitOver' = IF first THEN FALSE ELSE waitOver
      /\ flusher' = IF Wakes(first) /\ flusher \in Asleep THEN "check" ELSE flusher
      /\ UNCHANGED outcome

\* Without a flusher the caller processes the line itself, under _sync_lock.
ProcessAlone(line) ==
  /\ flusher = "none"
  /\ \/ done' = done \union {line} /\ UNCHANGED failed
     \/ failed' = failed \union {line} /\ UNCHANGED done
  /\ UNCHANGED <<buffer, waitOver, flusher>>

\* _process_line: the line does not parse and is counted, or goes to the handler.
HandleLine(line) ==
  \/ Collect(line)
  \/ ProcessAlone(line)
  \/ /\ failed' = failed \union {line}
     /\ UNCHANGED <<done, buffer, waitOver, flusher>>
------------------------------------------------------------------------------
(* The receive thread: SyslogServer._serve.                                *)

\* Closing the socket does not wake a thread already blocked in recvfrom: it
\* still returns one datagram if one arrives.
Receive(n) ==
  /\ receiver = "reading"
  /\ read + n <= MaxLines
  /\ read' = read + n
  /\ onTime' = IF Running THEN read + n ELSE onTime
  /\ inHand' = [i \in 1..n |-> read + i]
  /\ receiver' = "handing"
  /\ UNCHANGED <<maxBatch, handlerVars, outcome, pool, main>>

\* executor.submit, or, once the pool is shut down, the line handled in place.
HandOver(line) ==
  IF main \in {"up", "joining"}
  THEN pool' = pool \union {line} /\ UNCHANGED <<outcome, buffer, waitOver, flusher>>
  ELSE HandleLine(line) /\ UNCHANGED pool

Submit ==
  /\ receiver = "handing"
  /\ HandOver(Head(inHand))
  /\ inHand' = Tail(inHand)
  /\ receiver' = IF inHand' # <<>> THEN "handing" ELSE IF Running THEN "reading" ELSE "ended"
  /\ UNCHANGED <<maxBatch, read, onTime, batch, closed, main>>

\* recvfrom raises because the socket was closed before the thread got there.
SocketClosed ==
  /\ receiver = "reading" /\ ~Running
  /\ receiver' = "ended"
  /\ UNCHANGED <<maxBatch, handlerVars, outcome, read, onTime, inHand, pool, main>>

\* A worker of the pool.
Work ==
  \E line \in pool :
    /\ HandleLine(line)
    /\ pool' = pool \ {line}
    /\ UNCHANGED <<maxBatch, receiverVars, batch, closed, main>>
------------------------------------------------------------------------------
(* The flusher: BatchingHandler._run.                                      *)

BatchReady == Len(buffer) >= maxBatch \/ closed \/ waitOver

Sleep ==
  /\ flusher = "check"
  /\ \/ buffer = <<>> /\ ~closed /\ flusher' = "sleepIdle"
     \/ buffer # <<>> /\ ~BatchReady /\ flusher' = "sleepBatch"
  /\ UNCHANGED <<maxBatch, receiverVars, outcome, pool, buffer, waitOver, batch, closed, main>>

Finished == buffer = <<>> /\ closed

FlusherEnds ==
  /\ flusher = "check"
  /\ Finished
  /\ flusher' = "ended"
  /\ UNCHANGED <<maxBatch, receiverVars, outcome, pool, buffer, waitOver, batch, closed, main>>

BatchSize == IF Len(buffer) < maxBatch THEN Len(buffer) ELSE maxBatch

Forgotten == <<>>           \* mutant: `del self._buffer[:]`

Leftover == SubSeq(buffer, BatchSize + 1, Len(buffer))

\* Take a batch; lines beyond it start a new wait.
Flush ==
  /\ flusher = "check"
  /\ buffer # <<>> /\ BatchReady
  /\ batch' = SubSeq(buffer, 1, BatchSize)
  /\ buffer' = Leftover
  /\ waitOver' = FALSE
  /\ flusher' = "process"
  /\ UNCHANGED <<maxBatch, receiverVars, outcome, pool, closed, main>>

\* process_batch returns, or raises and every line of the batch is counted.
Process ==
  /\ flusher = "process"
  /\ \/ done' = done \union ToSet(batch) /\ UNCHANGED failed
     \/ failed' = failed \union ToSet(batch) /\ UNCHANGED done
  /\ batch' = <<>>
  /\ flusher' = "check"
  /\ UNCHANGED <<maxBatch, receiverVars, pool, buffer, waitOver, closed, main>>

TimedOut ==
  /\ flusher = "sleepBatch" /\ waitOver
  /\ flusher' = "check"
  /\ UNCHANGED <<maxBatch, receiverVars, outcome, pool, buffer, waitOver, batch, closed, main>>

FlusherStep == Sleep \/ FlusherEnds \/ Flush \/ Process \/ TimedOut

\* The clock: max_wait after the first line of the buffer.
Tick ==
  /\ buffer # <<>> /\ ~waitOver
  /\ waitOver' = TRUE
  /\ UNCHANGED <<maxBatch, receiverVars, outcome, pool, buffer, flusher, batch, closed, main>>
------------------------------------------------------------------------------
(* The main thread: SIGTERM or Ctrl+C, server.stop(), BatchingHandler.close(). *)

StopStep(from, to) == main = from /\ main' = to

\* stop(): the receive loop is told to end, and the socket closed.
Stop ==
  /\ StopStep("up", "joining")
  /\ UNCHANGED <<maxBatch, receiverVars, handlerVars, outcome, pool>>

\* join(timeout=5): the thread ended, or it is blocked in recvfrom.
ReceiverGone == receiver # "handing"

JoinReceiver ==
  /\ StopStep("joining", "shutdown")
  /\ ReceiverGone
  /\ UNCHANGED <<maxBatch, receiverVars, handlerVars, outcome, pool>>

DontWait == TRUE    \* mutant: shutdown(wait=False)

WorkersDone == pool = {}

NotNotified == flusher  \* mutant: close() without its notify_all

Woken == IF flusher \in Asleep THEN "check" ELSE flusher

\* shutdown(wait=True) returns, and close() wakes the flusher for the last time.
Close ==
  /\ StopStep("shutdown", "closing")
  /\ WorkersDone
  /\ closed' = TRUE
  /\ flusher' = Woken
  /\ UNCHANGED <<maxBatch, receiverVars, outcome, pool, buffer, waitOver, batch>>

\* close() has joined the flusher: the listener prints its summary and exits.
Stopped ==
  /\ StopStep("closing", "stopped")
  /\ flusher \in {"none", "ended"}
  /\ UNCHANGED <<maxBatch, receiverVars, handlerVars, outcome, pool>>

MainStep == JoinReceiver \/ Close \/ Stopped

Next ==
  \/ \E n \in 1..MaxDatagram : Receive(n)
  \/ Submit \/ SocketClosed \/ Work \/ FlusherStep \/ Tick \/ Stop \/ MainStep

Spec == Init /\ [][Next]_vars

\* Threads run and time passes; traffic and the signal are free.
Fairness ==
  WF_vars(Submit) /\ WF_vars(Work) /\ WF_vars(FlusherStep) /\ WF_vars(Tick) /\ WF_vars(MainStep)

FairSpec == Spec /\ Fairness
------------------------------------------------------------------------------
TypeOK ==
  /\ maxBatch \in BatchSizes
  /\ read \in 0..MaxLines /\ onTime \in 0..read
  /\ receiver \in {"reading", "handing", "ended"}
  /\ {inHand, buffer, batch} \subseteq Seq(1..read)
  /\ {pool, done, failed} \subseteq SUBSET (1..read)
  /\ Len(batch) <= maxBatch
  /\ {waitOver, closed} \subseteq BOOLEAN
  /\ flusher \in Asleep \union {"none", "check", "process", "ended"}
  /\ main \in {"up", "joining", "shutdown", "closing", "stopped"}

\* The flusher sleeps without a timeout only while nothing is buffered, and
\* waits for max_wait only while the batch is not full.
NoLostWakeup ==
  /\ flusher = "sleepIdle" => buffer = <<>>
  /\ flusher = "sleepBatch" => Len(buffer) < maxBatch

\* When the listener has stopped, every line that was read before the stop was
\* processed or counted as failed.
StopSettlesLines ==
  main = "stopped" => 1..onTime \subseteq done \union failed

\* No line is lost uncounted, whenever it was read: once every thread has ended,
\* each was processed or counted.
NoLineLostUncounted ==
  main = "stopped" /\ receiver = "ended" => 1..read \subseteq done \union failed

\* It is so when lines are not batched.
SingleLosesNothing == maxBatch = 1 => NoLineLostUncounted

\* A line is processed or counted without further traffic, stopped or not.
LinesSettle ==
  \A line \in 1..MaxLines : line <= onTime ~> line \in done \union failed

\* The stop ends, whatever is still to be processed.
StopEnds == ~Running ~> main = "stopped"
==============================================================================
