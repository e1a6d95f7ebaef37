-------------------------------- MODULE Triage --------------------------------
(***************************************************************************)
(* The control plane of src/autosiem/storage.py and postgres.py as its     *)
(* clients share it: analysts update incidents and decide proposals, the   *)
(* pipeline saves results and merges findings into stored incidents, and   *)
(* each of them appends to one hash-chained audit log. An operation is one *)
(* transaction, taken statement by statement. SQLite serializes writers    *)
(* from their first write on and lets them read before it; PostgreSQL      *)
(* locks the rows an operation selects and the tail of the audit log.      *)
(***************************************************************************)
EXTENDS Integers, Sequences, FiniteSets, FiniteSetsExt, SequencesExt, TLC

CONSTANTS
  Drivers,      \* a subset of {"sqlite", "postgres"}
  Clients,      \* connections: requests of the API, the pipeline, the CLI
  Incidents, Proposals,
  Analysts,     \* whom an incident can be assigned to
  None,
  MaxMerges,    \* bound of the model: incidents one result merges into
  MaxOps        \* bound: operations started

Items == Incidents \union Proposals

ASSUME TriageAssumption ==
  /\ Drivers \subseteq {"sqlite", "postgres"}
  /\ Incidents \intersect Proposals = {}
  /\ None \notin Clients \union Analysts \union Items
  /\ {MaxMerges, MaxOps} \subseteq Nat

VARIABLES
  driver,    \* which storage; never changes
  row,       \* committed rows of incidents and action_proposals
  log,       \* committed rows of audit_log
  opened,    \* findings whose result opened an incident of their own
  tx,        \* the operation each client runs, and where it is
  rowLock,   \* PostgreSQL: who selected a row for update
  auditLock, \* PostgreSQL: who holds the advisory lock AUDIT_LOCK
  writer,    \* SQLite: whose transaction has begun to write
  wanted,    \* what the committed updates asked for, the latest of each column
  ops

dbVars == <<row, log, opened, wanted>>
lockVars == <<rowLock, auditLock, writer>>
vars == <<driver, dbVars, tx, lockVars, ops>>

\* "investigating" is as "open" here, and "closed" as "resolved".
Mergeable == {"open"}
Statuses == Mergeable \union {"resolved"}
\* The record g with the columns of f written over it; @@, as a definition.
Over(f, g) == [x \in DOMAIN f \union DOMAIN g |-> IF x \in DOMAIN f THEN f[x] ELSE g[x]]

Idle == [pc |-> "idle"]
Busy(c) == tx[c].pc # "idle"

Init ==
  /\ driver \in Drivers
  /\ row = [x \in Items |->
              IF x \in Incidents THEN [status |-> "open", assignee |-> None, findings |-> {}]
              ELSE [status |-> "pending"]]
  /\ log = <<>>
  /\ opened = {}
  /\ tx = [c \in Clients |-> Idle]
  /\ rowLock = [x \in Items |-> None]
  /\ auditLock = None
  /\ writer = None
  /\ wanted = row
  /\ ops = 0
-------------------------------------------------------------------------------
(* Locks.                                                                  *)

Unguarded(c, x) == TRUE  \* mutant: `select` without "for update"

\* "select ... for update" waits for the row; SQLite's select waits for nobody.
RowGranted(c, x) == driver = "postgres" => rowLock[x] \in {None, c}

LockRow(c, x) ==
  /\ RowGranted(c, x)
  /\ rowLock' = IF driver = "postgres" THEN [rowLock EXCEPT ![x] = c] ELSE rowLock

Unserialized(c) == TRUE  \* mutant: no advisory lock, or a write without a transaction

\* pg_advisory_xact_lock; SQLite's audit takes no lock of its own.
AuditGranted(c) == driver = "postgres" => auditLock \in {None, c}

LockAudit(c) ==
  /\ AuditGranted(c)
  /\ auditLock' = IF driver = "postgres" THEN c ELSE auditLock

\* The first write of a transaction makes it SQLite's one writer until it ends.
WriteGranted(c) == driver = "sqlite" => writer \in {None, c}

BeginWrite(c) ==
  /\ WriteGranted(c)
  /\ writer' = IF driver = "sqlite" THEN c ELSE writer

\* mutant: pg_advisory_lock, which outlives the transaction
ReleaseRows(c) ==
  /\ rowLock' = [x \in Items |-> IF rowLock[x] = c THEN None ELSE rowLock[x]]
  /\ writer' = IF writer = c THEN None ELSE writer
  /\ tx' = [tx EXCEPT ![c] = Idle]
  /\ UNCHANGED auditLock

\* The end of a transaction, whichever it is.
Release(c) ==
  /\ rowLock' = [x \in Items |-> IF rowLock[x] = c THEN None ELSE rowLock[x]]
  /\ auditLock' = IF auditLock = c THEN None ELSE auditLock
  /\ writer' = IF writer = c THEN None ELSE writer
  /\ tx' = [tx EXCEPT ![c] = Idle]

Go(c, t) == tx' = [tx EXCEPT ![c] = t]
-------------------------------------------------------------------------------
(* Operations start.                                                       *)

\* op is "update", "decide", "save", "change" (a write that is then audited:
\* a comment, a suppression, a rule's state) or "audit" (nothing but the audit).
Start(c, op, pc, item, change, merges) ==
  /\ ~Busy(c)
  /\ ops < MaxOps /\ ops' = ops + 1
  /\ Go(c, [op |-> op, pc |-> pc, number |-> ops', item |-> item, change |-> change,
            merges |-> merges, seen |-> <<>>, mine |-> <<>>, entries |-> <<>>, tail |-> <<>>,
            own |-> {}])
  /\ UNCHANGED <<driver, dbVars, lockVars>>

UpdateIncident(c) ==
  \E i \in Incidents :
    \E change \in [{"status"} -> Statuses] \union [{"assignee"} -> Analysts] :
      Start(c, "update", "read", i, change, <<>>)

DecideProposal(c) ==
  \E p \in Proposals, decision \in {"approved", "rejected"} :
    Start(c, "decide", "read", p, [status |-> decision], <<>>)

\* The pipeline chooses the incidents to merge into among those it reads as open;
\* the result is saved later. Without a merge the findings open their own incident.
SavePipelineResult(c) ==
  \E S \in kSubset(0, Incidents) \union UNION {kSubset(k, Incidents) : k \in 1..MaxMerges} :
    /\ \A i \in S : row[i].status \in Mergeable
    /\ \E merges \in SetToSeqs(S) : Start(c, "save", "write", None, <<>>, merges)

AuditedChange(c) == Start(c, "change", "write", None, <<>>, <<>>)

\* A change of users is kept in a file; only its audit entry goes to the store.
AuditOnly(c) == Start(c, "audit", "tail", None, <<>>, <<>>)
-------------------------------------------------------------------------------
(* Their statements.                                                       *)

Overridden(t) == FALSE   \* mutant: _terminal_decisions not looked at

\* On PostgreSQL a decision is final: the same one again returns, another raises.
Decided(t) == t.op = "decide" /\ driver = "postgres" /\ row[t.item].status # "pending"

\* _select_row of update_incident and decide_proposal.
Select(c) ==
  LET t == tx[c] IN
  /\ t.pc = "read"
  /\ RowGranted(c, t.item)
  /\ IF Decided(t)
     THEN Release(c)
     ELSE /\ LockRow(c, t.item)
          /\ Go(c, [t EXCEPT !.pc = "write", !.seen = row[t.item]])
          /\ UNCHANGED <<auditLock, writer>>
  /\ UNCHANGED <<driver, dbVars, ops>>

\* The triage columns are written as they were read, but for the changed one.
WholeRow(t) == Over(t.change, t.seen)  \* mutant: the row's document is written back too

Written(t) == Over(t.change, [f \in DOMAIN t.seen \ {"findings"} |-> t.seen[f]])

\* The first write: the update of the row, or the insert of events or of a change.
Write(c) ==
  LET t == tx[c] IN
  /\ t.pc = "write"
  /\ BeginWrite(c)
  /\ Go(c, [t EXCEPT !.pc = IF t.op = "save" /\ t.merges # <<>> THEN "merge" ELSE "tail",
                     !.mine = IF t.item = None THEN <<>> ELSE [x \in {t.item} |-> Written(t)],
                     !.own = IF t.op = "save" /\ t.merges = <<>> THEN {<<t.number, None>>} ELSE {}])
  /\ UNCHANGED <<driver, dbVars, rowLock, auditLock, ops>>

MayMerge(i) == row[i].status \in Mergeable

\* _merge_incident, for each incident in turn: findings are added to what is
\* stored now; one that is no longer open gets none, and they open their own.
Merge(c) ==
  LET t == tx[c]
      i == Head(t.merges)
      finding == <<t.number, i>>
  IN
  /\ t.pc = "merge"
  /\ LockRow(c, i)
  /\ IF MayMerge(i)
     THEN Go(c, [t EXCEPT !.pc = "tail",
                          !.mine = Over([x \in {i} |-> [findings |-> row[i].findings \union {finding}]], @)])
     ELSE Go(c, [t EXCEPT !.pc = IF Tail(t.merges) = <<>> THEN "tail" ELSE "merge",
                          !.merges = Tail(@), !.own = @ \union {finding}])
  /\ UNCHANGED <<driver, dbVars, auditLock, writer, ops>>

\* audit(): the hash of the last row this transaction sees,
ReadTail(c) ==
  LET t == tx[c]
      seen == log \o t.entries
  IN
  /\ t.pc = "tail"
  /\ LockAudit(c)
  /\ Go(c, [t EXCEPT !.pc = "append", !.tail = IF seen = <<>> THEN <<>> ELSE Last(seen).hash])
  /\ UNCHANGED <<driver, dbVars, rowLock, writer, ops>>

\* and the row that links to it. A hash names its row: the operation and how many
\* it had appended.
Entry(t) ==
  [hash |-> <<t.number, Len(t.entries)>>, prev |-> t.tail, op |-> t.op]

AppendAudit(c) ==
  LET t == tx[c] IN
  /\ t.pc = "append"
  /\ BeginWrite(c)
  /\ Go(c, [t EXCEPT !.pc = IF t.merges = <<>> THEN "commit"
                            ELSE IF Tail(t.merges) = <<>> THEN "tail" ELSE "merge",
                     !.merges = IF @ = <<>> THEN @ ELSE Tail(@),
                     !.entries = Append(@, Entry(t))])
  /\ UNCHANGED <<driver, dbVars, rowLock, auditLock, ops>>

Commit(c) ==
  LET t == tx[c] IN
  /\ t.pc = "commit"
  /\ row' = Over([x \in DOMAIN t.mine |-> Over(t.mine[x], row[x])], row)
  /\ log' = log \o t.entries
  /\ opened' = opened \union t.own
  /\ wanted' = IF t.item = None THEN wanted ELSE [wanted EXCEPT ![t.item] = Over(t.change, @)]
  /\ Release(c)
  /\ UNCHANGED <<driver, ops>>

\* A lock somebody else holds was not given up in time: SQLite reports a locked
\* database, PostgreSQL a lock timeout or a deadlock. Nothing is committed, and
\* nothing more happens when a process dies: its transaction is rolled back too.
Blocked(c) ==
  LET t == tx[c] IN
  \/ t.pc = "read" /\ ~RowGranted(c, t.item)
  \/ t.pc = "merge" /\ ~RowGranted(c, Head(t.merges))
  \/ t.pc = "tail" /\ ~AuditGranted(c)
  \/ t.pc \in {"write", "append"} /\ ~WriteGranted(c)

\* Whom it waits for.
Holder(c) ==
  LET t == tx[c] IN
  IF driver = "sqlite" THEN writer ELSE
  CASE t.pc = "read" -> rowLock[t.item]
    [] t.pc = "merge" -> rowLock[Head(t.merges)]
    [] OTHER -> auditLock

TimeOut(c) ==
  /\ Blocked(c)
  /\ Release(c)
  /\ UNCHANGED <<driver, dbVars, ops>>

Begin(c) ==
  UpdateIncident(c) \/ DecideProposal(c) \/ SavePipelineResult(c) \/ AuditedChange(c)
    \/ AuditOnly(c)

Statement(c) ==
  Select(c) \/ Write(c) \/ Merge(c) \/ ReadTail(c) \/ AppendAudit(c) \/ Commit(c)

Next == \E c \in Clients : Begin(c) \/ Statement(c) \/ TimeOut(c)

Spec == Init /\ [][Next]_vars
-------------------------------------------------------------------------------
\* verify_audit_chain: row k links to the row before it.
Linked(k) == log[k].prev = IF k = 1 THEN <<>> ELSE log[k - 1].hash

\* The audit chain is intact while nobody tampers with it.
AuditChainIntact == \A k \in 1..Len(log) : Linked(k)

\* So it is on PostgreSQL, and on SQLite for every row whose transaction had
\* written something before its audit.
AuditChained ==
  \A k \in 1..Len(log) : driver = "postgres" \/ log[k].op # "audit" => Linked(k)

Triage(record) == [f \in DOMAIN record \ {"findings"} |-> record[f]]

\* On PostgreSQL no analyst's change is undone by another's to another column, or
\* by a merge.
NoUpdateLost ==
  driver = "postgres" => \A x \in Items : Triage(row[x]) = Triage(wanted[x])

\* Every finding of a committed result is in an incident, whoever else merged
\* into it and whatever analysts did meanwhile.
Merged == UNION {row[i].findings : i \in Incidents}
SavedFindings ==
  {log[k].hash[1] : k \in {j \in 1..Len(log) : log[j].op = "save"}}

NoFindingLost ==
  \A n \in SavedFindings : \E finding \in Merged \union opened : finding[1] = n

\* A verdict stands: an incident that is no longer open gains no finding, and no
\* incident loses one.
VerdictStands ==
  [][\A i \in Incidents :
       /\ row[i].findings \subseteq row'[i].findings
       /\ row[i].findings # row'[i].findings => row[i].status \in Mergeable]_vars

\* On PostgreSQL a decision on a proposal is final.
DecisionsFinal ==
  [][\A p \in Proposals :
       driver = "postgres" /\ row[p].status # "pending" => row'[p] = row[p]]_vars

\* Whoever waits, waits for a running transaction; and two wait for each other
\* only if one is a result that has dealt with one incident, merged into it or
\* found it closed, and wants another.
DeadlockNeedsMerges ==
  \A c \in Clients :
    Blocked(c) =>
      /\ Holder(c) # c /\ Busy(Holder(c))
      /\ Blocked(Holder(c)) /\ Holder(Holder(c)) = c =>
           \E d \in {c, Holder(c)} :
             tx[d].pc = "merge" /\ (tx[d].entries # <<>> \/ tx[d].own # {})

\* Values the columns and locks take; a client between operations holds no lock.
TypeOK ==
  /\ driver \in Drivers
  /\ \A i \in Incidents : row[i].status \in Statuses /\ row[i].assignee \in Analysts \union {None}
  /\ \A p \in Proposals : row[p].status \in {"pending", "approved", "rejected"}
  /\ \A c \in Clients :
       tx[c].pc \in {"idle", "read", "write", "merge", "tail", "append", "commit"}
  /\ rowLock \in [Items -> Clients \union {None}]
  /\ {auditLock, writer} \subseteq Clients \union {None}
  /\ \A c \in Clients : ~Busy(c) => c \notin {auditLock, writer} \union {rowLock[x] : x \in Items}
  /\ ops \in 0..MaxOps
===============================================================================
