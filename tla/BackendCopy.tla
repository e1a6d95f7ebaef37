----------------------------- MODULE BackendCopy -----------------------------
(***************************************************************************)
(* The copy of stored events that DistributedPipeline keeps for an         *)
(* alternate event backend (ClickHouse, OpenSearch): a bounded list in     *)
(* memory that is delivered as a whole, left alone for a minute after a    *)
(* failed delivery, and shortened from its old end when it is full.        *)
(* The actions here are conjuncts of the drain's actions (QueueDrain).     *)
(* One event stands for the queue line it came from, named by its offset.  *)
(***************************************************************************)
EXTENDS Integers, Sequences, FiniteSets, Functions

CONSTANTS
  MaxOffset,   \* bound of the model: queue rows ever inserted
  MaxPending,  \* DistributedConfig.queue_max_pending: bounds queue and backlog
  Backend      \* whether an alternate backend is configured

ASSUME BackendAssumption ==
  /\ MaxOffset \in Nat
  /\ MaxPending \in Nat \ {0}
  /\ Backend \in BOOLEAN

VARIABLES
  backlog,       \* _backend_backlog: stored events not yet delivered, oldest first
  paused,        \* now < _backend_retry_at: the backend is being left alone
  backendError,  \* backend_error is not None
  dropped,       \* events given up on past the bound (backend_dropped counts them)
  copied         \* events the backend has received

backendVars == <<backlog, paused, backendError, dropped, copied>>

Offsets == 1..MaxOffset

BackendInit ==
  /\ backlog = <<>>
  /\ paused = FALSE
  /\ backendError = FALSE
  /\ dropped = {}
  /\ copied = {}

\* _flush_backend on the list `events`. A failed call may still have reached
\* the backend: a reply that times out after the insert is a BackendError too.
Flush(events) ==
  \/ /\ ~Backend \/ events = <<>> \/ paused
     /\ backlog' = events
     /\ UNCHANGED <<paused, backendError, copied>>
  \/ /\ Backend /\ events # <<>> /\ ~paused
     /\ backlog' = <<>>
     /\ backendError' = FALSE
     /\ copied' = copied \union Range(events)
     /\ UNCHANGED paused
  \/ /\ Backend /\ events # <<>> /\ ~paused
     /\ backlog' = events
     /\ backendError' = TRUE
     /\ paused' = TRUE
     /\ copied' \in {copied, copied \union Range(events)}

FlushBackend == Flush(backlog) /\ UNCHANGED dropped

ExcessKept(events) == 0  \* mutant: the backlog grows past the bound

\* What _send_to_backend cuts off the old end of the grown backlog.
Excess(events) == IF Len(events) > MaxPending THEN Len(events) - MaxPending ELSE 0

\* The lines of a batch in the order of their offsets: a set of one sequence.
InOrder(batch) ==
  {s \in [1..Cardinality(batch) -> batch] :
     \A i, j \in 1..Cardinality(batch) : i < j => s[i] < s[j]}

SendUnlessPaused(batch) ==  \* mutant: events that meet the pause are not kept
  IF ~Backend \/ paused
    THEN UNCHANGED backendVars
    ELSE \E events \in InOrder(batch) : Flush(backlog \o events) /\ UNCHANGED dropped

\* _send_to_backend(result.events) for the lines of one saved batch, in order.
SendToBackend(batch) ==
  IF ~Backend
    THEN UNCHANGED backendVars
    ELSE \E events \in InOrder(batch) :
           LET grown == backlog \o events
               excess == Excess(grown)
           IN  /\ dropped' = dropped \union Range(SubSeq(grown, 1, excess))
               /\ Flush(SubSeq(grown, excess + 1, Len(grown)))

\* BACKEND_RETRY_SECONDS have passed: the next flush may call the backend again.
BackendRetryDue ==
  /\ paused
  /\ paused' = FALSE
  /\ UNCHANGED <<backlog, backendError, dropped, copied>>

\* The list and its bookkeeping live in memory: a restart starts afresh.
ForgetBackend ==
  /\ backlog' = <<>>
  /\ paused' = FALSE
  /\ backendError' = FALSE
  /\ dropped' = {}
  /\ UNCHANGED copied

BackendTypeOK ==
  /\ backlog \in Seq(Offsets)
  /\ Len(backlog) <= MaxPending
  /\ paused \in BOOLEAN
  /\ backendError \in BOOLEAN
  /\ dropped \subseteq Offsets
  /\ copied \subseteq Offsets
==============================================================================
