------------------------------ MODULE DrainLoop ------------------------------
(***************************************************************************)
(* QueueDrainer over the durable queue (src/autosiem/listeners.py, cli.py):*)
(* who calls drain_queue, and when. Its thread calls it once lines have    *)
(* been announced, and again after an error; after a drain that returned   *)
(* it sleeps until the next announcement, however many rows wait. The      *)
(* receive thread announces a burst only after it was archived too, and an *)
(* operator's `--requeue-dead-letters` is a process of its own, which can  *)
(* announce nothing. (What the batch size, the timers and `close` do to    *)
(* the same thread is in QueueListener.)                                   *)
(***************************************************************************)
EXTENDS QueueDrain

VARIABLES
  due,    \* _arrived > 0 or retry_at is set: _wait_for_work will return
  untold  \* history: rows that wait while no drain is due or running

loopVars == <<due, untold>>
allVars == <<vars, loopVars>>

Asleep == pc = "idle" /\ ~due

\* QueueDrainer.notify, or the retry set by _run: a drain will run, and it pulls
\* everything that waits.
Announce == due' = TRUE /\ untold' = {}

\* Rows that come to wait with no announcement.
Unannounced(rows) ==
  /\ untold' = untold \union (IF Asleep THEN rows ELSE {})
  /\ UNCHANGED due

\* `listen` announces at its start what an earlier process left in the queue.
LoopInit == Init /\ due = (Pending # {}) /\ untold = {}

\* The receive thread's admit returned and _run_listener.admit notifies, ...
Receive ==
  /\ \E n \in 1..MaxBurst : Admit(n)
  /\ IF archiving' = {} THEN Announce ELSE Unannounced(archiving')

\* ... which it does not if the journal could not be written.
Archived ==
  /\ ArchiveBurst
  /\ IF archived' # archived THEN Announce ELSE UNCHANGED loopVars

\* _run: _wait_for_work returns, _arrived is cleared, and drain_queue is called.
CallDrain ==
  /\ due
  /\ StartDrain
  /\ due' = FALSE
  /\ UNCHANGED untold

\* drain_queue found nothing left to pull, or an error leaves it, which _run
\* answers with a retry.
Drained == pc = "loop" /\ Pending = {}

DrainGoesOn ==
  /\ DrainStep
  /\ IF pc' = "idle" /\ ~Drained THEN Announce ELSE UNCHANGED loopVars

DrainRefused == (QueueFails \/ SetAsideFails) /\ Announce

RequeueUnseen == RequeueDeadLetters /\ Unannounced(RowsIn("dead"))

Health == (StoreFails \/ StoreRecovers \/ RetryTimer) /\ UNCHANGED loopVars

StartAgain == CrashRestart /\ due' = (Pending # {}) /\ untold' = {}

LoopNext ==
  \/ Receive
  \/ Archived
  \/ CallDrain
  \/ DrainGoesOn
  \/ DrainRefused
  \/ RequeueUnseen
  \/ Health
  \/ StartAgain

\* The drainer's thread keeps running while a drain is due or runs, and an
\* outage ends. Nothing makes the operator, the receive thread or a new process
\* take a step, and nothing wakes a sleeping drainer but they.
Fairness ==
  /\ WF_allVars(CallDrain)
  /\ WF_allVars(DrainGoesOn)
  /\ WF_allVars(StoreRecovers /\ UNCHANGED loopVars)

LoopSpec == LoopInit /\ [][LoopNext]_allVars /\ Fairness
-------------------------------------------------------------------------------
(* Properties.                                                             *)

\* A line that can be processed is stored, outages and failing lines beside it
\* notwithstanding, as long as failing lines cannot fill a batch and its row does
\* not wait untold: requeued by another process, or unarchived, while the drainer
\* slept. Such a row waits for the next announcement, and this covers it then.
Failing == {o \in Offsets : kind[o] \in {"failsProcess", "failsSave"}}

GoodLinesStored ==
  \A o \in Offsets :
    (/\ row[o] = "pending" /\ o \notin untold
     /\ kind[o] = "good" /\ Cardinality(Failing) < BatchSize)
      ~> row[o] = "acked"

\* A line that cannot be processed never blocks the lines behind it, as the
\* docstring of drain_queue promises.
GoodLineNotBlocked ==
  \A o \in Offsets :
    (row[o] = "pending" /\ kind[o] = "good" /\ o \notin untold) ~> row[o] = "acked"
===============================================================================
