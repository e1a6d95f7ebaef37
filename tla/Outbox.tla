------------------------------- MODULE Outbox -------------------------------
(* The event outbox of PostgresStorage and the projections that read it.      *)
(* Saves insert an event and its outbox row in one transaction; runs of       *)
(* `outbox --deliver` send each row a destination has no receipt for, one     *)
(* locked row per transaction.  Sinks are keyed: a document sent twice is one.*)
EXTENDS Naturals, FiniteSetsExt

CONSTANTS Events, Destinations, Savers,
          Target,             \* drainer -> the destination its runs are configured with
          Limit,              \* --limit: rows per run
          MaxSaves, MaxFaults \* bounds of the model

VARIABLES rows,      \* event_outbox: [id, event] of committed transactions
          saving,    \* saver -> the row of its open transaction, a set of one or none
          saves,     \* saves so far; the identity column, which an abort does not give back
          receipts,  \* projection_receipts: <<destination, id>>
          drains,    \* drainer -> [left, pc, wanted, row]
          sink,      \* destination -> events it holds
          faults

vars == <<rows, saving, saves, receipts, drains, sink, faults>>

Drainers == DOMAIN Target

\* Assumed by the module that checks this one.
OutboxAssumption ==
    /\ \A d \in Drainers : Target[d] \in Destinations
    /\ {MaxSaves, MaxFaults} \subseteq Nat

Idle == [left |-> 0, pc |-> "idle", wanted |-> {}, row |-> 0]
Locked == {drains[d].row : d \in Drainers} \ {0}
EventOf(id) == (CHOOSE r \in rows : r.id = id).event
Receipted(to) == {x[2] : x \in {x \in receipts : x[1] = to}}
Go(d, run) == drains' = [drains EXCEPT ![d] = run]

\* save_pipeline_result: one outbox row for an event, in the transaction that
\* inserts it; the transaction may stay open, and abort, while others commit.
Save(s, e) ==
    /\ saving[s] = {} /\ saves < MaxSaves /\ saves' = saves + 1
    /\ \A r \in rows \cup UNION {saving[t] : t \in Savers} : r.event # e
    /\ saving' = [saving EXCEPT ![s] = {[id |-> saves + 1, event |-> e]}]
    /\ UNCHANGED <<rows, receipts, drains, sink, faults>>
EndSave(s, commits) ==
    /\ saving[s] # {}
    /\ rows' = IF commits THEN rows \cup saving[s] ELSE rows
    /\ saving' = [saving EXCEPT ![s] = {}]
    /\ UNCHANGED <<saves, receipts, drains, sink, faults>>

\* _run_postgres_command, from a scheduler.
StartDrain(d) ==
    /\ drains[d].pc = "idle" /\ Go(d, [Idle EXCEPT !.left = Limit, !.pc = "select"])
    /\ UNCHANGED <<rows, saving, saves, receipts, sink, faults>>

\* drain_outbox, per row: the statement's snapshot is older than its lock.
WantedPastLast(d) ==  \* mutant: a cursor instead of receipts
    {r.id : r \in {r \in rows : \A id \in Receipted(Target[d]) : id < r.id}}
Wanted(d) == {r.id : r \in rows} \ Receipted(Target[d])
Select(d) ==
    /\ drains[d].pc = "select"
    /\ Go(d, [drains[d] EXCEPT !.pc = "lock", !.wanted = Wanted(d)])
    /\ UNCHANGED <<rows, saving, saves, receipts, sink, faults>>
LockRow(d) ==
    LET free == drains[d].wanted \ Locked
    IN  /\ drains[d].pc = "lock"
        /\ Go(d, IF free = {} THEN Idle ELSE [drains[d] EXCEPT !.pc = "deliver", !.row = Min(free)])
        /\ UNCHANGED <<rows, saving, saves, receipts, sink, faults>>
\* The sink stores the document and says so.
Deliver(d) ==
    /\ drains[d].pc = "deliver"
    /\ sink' = [sink EXCEPT ![Target[d]] = @ \cup {EventOf(drains[d].row)}]
    /\ Go(d, [drains[d] EXCEPT !.pc = "commit"])
    /\ UNCHANGED <<rows, saving, saves, receipts, faults>>
DeliveredOnce(d) == Destinations \X {drains[d].row}  \* mutant: one mark for all destinations
Receipt(d) == {<<Target[d], drains[d].row>>}
Commit(d) ==
    /\ drains[d].pc = "commit"
    /\ receipts' = receipts \cup Receipt(d)
    /\ Go(d, IF drains[d].left = 1 THEN Idle
             ELSE [Idle EXCEPT !.left = drains[d].left - 1, !.pc = "select"])
    /\ UNCHANGED <<rows, saving, saves, sink, faults>>
\* Delivery fails, with or without effect, or the commit does, or the run dies:
\* the transaction rolls back and the run ends.
Fault(d, stored) ==
    /\ drains[d].pc # "idle" /\ faults < MaxFaults /\ faults' = faults + 1
    /\ stored => drains[d].pc = "deliver"
    /\ sink' = IF stored THEN [sink EXCEPT ![Target[d]] = @ \cup {EventOf(drains[d].row)}] ELSE sink
    /\ Go(d, Idle)
    /\ UNCHANGED <<rows, saving, saves, receipts>>

Init == /\ rows = {} /\ saving = [s \in Savers |-> {}] /\ saves = 0 /\ receipts = {}
        /\ drains = [d \in Drainers |-> Idle] /\ sink = [to \in Destinations |-> {}]
        /\ faults = 0
Next == \/ \E s \in Savers : \/ \E e \in Events : Save(s, e)
                             \/ \E commits \in BOOLEAN : EndSave(s, commits)
        \/ \E d \in Drainers : \/ Select(d) \/ LockRow(d) \/ Deliver(d) \/ Commit(d) \/ StartDrain(d)
                               \/ \E stored \in BOOLEAN : Fault(d, stored)
Drain(d) == Select(d) \/ LockRow(d) \/ Deliver(d) \/ Commit(d) \/ StartDrain(d)
Spec == Init /\ [][Next]_vars
----------------------------------------------------------------------------
\* A receipt means the destination holds the event, whatever failed or ran at
\* the same time, and for each destination of its own; and a destination holds
\* no event of a transaction that did not commit.
ReceiptsTrue ==
    /\ \A x \in receipts : EventOf(x[2]) \in sink[x[1]]
    /\ \A to \in Destinations : sink[to] \subseteq {r.event : r \in rows}

\* While runs are scheduled, every event that is committed reaches every
\* destination: a row that commits after a later one, is locked by a run for
\* another destination or fails once is not passed over for good.
Projected(to, e) == (\E r \in rows : r.event = e) ~> (\E r \in rows : r.event = e /\ <<to, r.id>> \in receipts)
EveryEventProjected == \A to \in Destinations, e \in Events : Projected(to, e)
=============================================================================
