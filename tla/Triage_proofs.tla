----------------------------- MODULE Triage_proofs -----------------------------
(***************************************************************************)
(* The control plane of Triage.tla, for any set of clients, incidents and  *)
(* proposals and for transactions of any length: its audit log is one      *)
(* chain, no analyst's update and no finding is lost, a verdict stands, and *)
(* clients wait for each other only where results merge.                   *)
(*                                                                         *)
(* The argument is two-phase locking. What a transaction has read and will *)
(* write (Reading, Merging, Chaining) stays true of the committed rows     *)
(* because it holds the locks that say so (Holding); and whoever commits   *)
(* holds them, so nobody else's commit can touch what it read.             *)
(***************************************************************************)
EXTENDS Triage, TLAPS

Operations == {"update", "decide", "save", "change", "audit"}
Points == {"read", "write", "merge", "tail", "append", "commit"}
Columns == {"op", "pc", "number", "item", "change", "merges", "seen", "mine", "entries",
            "tail", "own"}

Hashes == Nat \X Nat
AuditRow == [hash : Hashes, prev : Hashes \union {<<>>}, op : Operations]

IncidentColumns == {"status", "assignee", "findings"}

\* A row with the columns of its table.
OfIncident(r) ==
  DOMAIN r = IncidentColumns /\ r.status \in Statuses /\ r.assignee \in Analysts \union {None}
OfProposal(r) ==
  DOMAIN r = {"status"} /\ r.status \in {"pending", "approved", "rejected"}

Tables ==
  /\ DOMAIN row = Items /\ DOMAIN wanted = Items
  /\ \A i \in Incidents : OfIncident(row[i]) /\ DOMAIN wanted[i] = IncidentColumns
  /\ \A p \in Proposals : OfProposal(row[p]) /\ DOMAIN wanted[p] = {"status"}
  /\ log \in Seq(AuditRow)

Globals ==
  /\ driver \in Drivers
  /\ DOMAIN tx = Clients
  /\ rowLock \in [Items -> Clients \union {None}]
  /\ auditLock \in Clients \union {None}
  /\ writer \in Clients \union {None}
  /\ ops \in 0..MaxOps

\* Between operations a client holds nothing.
Free(c) ==
  tx[c].pc = "idle" => auditLock # c /\ writer # c /\ \A x \in Items : rowLock[x] # c

\* The record of a running operation.
Shaped(t) ==
  /\ DOMAIN t = Columns
  /\ t.op \in Operations /\ t.pc \in Points
  /\ t.number \in Nat
  /\ t.merges \in Seq(Incidents)
  /\ t.entries \in Seq(AuditRow)
  /\ t.tail \in Hashes \union {<<>>}

\* What it is asked for, and which statements an operation of its kind has.
Asked(t) ==
  /\ t.op = "update" =>
       /\ t.item \in Incidents
       /\ DOMAIN t.change \subseteq {"status", "assignee"}
       /\ "status" \in DOMAIN t.change => t.change.status \in Statuses
       /\ "assignee" \in DOMAIN t.change => t.change.assignee \in Analysts
  /\ t.op = "decide" =>
       /\ t.item \in Proposals
       /\ DOMAIN t.change = {"status"} /\ t.change.status \in {"approved", "rejected"}
  /\ t.op \notin {"update", "decide"} => t.item = None
  /\ t.pc = "read" => t.item # None
  /\ t.merges # <<>> => t.op = "save"
  /\ t.pc = "merge" => t.merges # <<>>
  /\ t.op = "audit" => t.pc \in {"tail", "append", "commit"}
  /\ t.pc \in {"read", "write"} => t.entries = <<>> /\ t.own = {} /\ DOMAIN t.mine = {}

\* What an update or a decision writes is what it was asked for over what it read.
Reading(t) ==
  /\ t.op = "update" /\ t.pc # "read" => OfIncident(t.seen)
  /\ t.op = "decide" /\ t.pc # "read" => OfProposal(t.seen)
  /\ t.item # None /\ t.pc \notin {"read", "write"} =>
       DOMAIN t.mine = {t.item} /\ t.mine[t.item] = Written(t)

\* What a result writes is the stored findings and its own, into open incidents.
Merging(t) ==
  t.item = None =>
    /\ DOMAIN t.mine \subseteq Incidents
    /\ t.op # "save" => DOMAIN t.mine = {}
    /\ \A i \in DOMAIN t.mine :
         /\ DOMAIN t.mine[i] = {"findings"}
         /\ row[i].findings \subseteq t.mine[i].findings
         /\ row[i].status \in Mergeable

\* Once a result goes on to its audit it has put a finding somewhere.
Placed(t) ==
  \/ \E finding \in t.own : finding[1] = t.number
  \/ \E i \in DOMAIN t.mine : \E finding \in t.mine[i].findings : finding[1] = t.number

Placing(t) == t.op = "save" /\ t.pc \in {"tail", "append", "commit"} => Placed(t)

\* The hash the next row of an audit log links to.
TailOf(s) == IF s = <<>> THEN <<>> ELSE s[Len(s)].hash

\* Its audit rows continue the log, and so will the one it is about to append.
Chaining(t) ==
  /\ \A k \in 1..Len(t.entries) :
       t.entries[k].op = t.op /\ t.entries[k].hash[1] = t.number
  /\ driver = "postgres" \/ t.op # "audit" =>
       /\ \A k \in 1..Len(t.entries) :
            t.entries[k].prev = IF k = 1 THEN TailOf(log) ELSE t.entries[k - 1].hash
       /\ t.pc = "append" =>
            t.tail = IF t.entries = <<>> THEN TailOf(log) ELSE TailOf(t.entries)

\* The locks its statements so far have taken, and no others.
HoldingRows(c) ==
  LET t == tx[c] IN
  driver = "postgres" =>
    /\ \A x \in DOMAIN t.mine : rowLock[x] = c
    /\ t.item # None /\ t.pc # "read" => rowLock[t.item] = c /\ t.seen = row[t.item]
    /\ t.op = "decide" /\ t.pc # "read" => row[t.item].status = "pending"
    /\ \A x \in Items : rowLock[x] = c =>
         /\ t.pc # "read"
         /\ t.op = "save" =>
              t.pc # "write" /\ (t.pc = "merge" => t.entries # <<>> \/ t.own # {})

HoldingAudit(c) ==
  LET t == tx[c] IN
  driver = "postgres" => (auditLock = c <=> t.pc = "append" \/ t.entries # <<>>)

Writing(c) ==
  LET t == tx[c] IN
  driver = "sqlite" =>
    (t.pc \in {"merge", "commit"} \/ (t.op # "audit" /\ t.pc \in {"tail", "append"})
       => writer = c)

Own(c) ==
  /\ tx[c].pc # "idle" =>
       /\ Shaped(tx[c]) /\ Asked(tx[c]) /\ Reading(tx[c])
       /\ Merging(tx[c]) /\ Placing(tx[c]) /\ Chaining(tx[c])
       /\ HoldingRows(c) /\ HoldingAudit(c) /\ Writing(c)
  /\ Free(c)

\* The inductive invariant.
TriageInv ==
  /\ Tables /\ Globals
  /\ \A c \in Clients : Own(c)
  /\ AuditChained /\ NoUpdateLost /\ NoFindingLost
-------------------------------------------------------------------------------
(* What a step does to the record of the operation that takes it.          *)

\* u is the record t after a statement that assigned the given columns.
Keeps(t, u, assigned) ==
  DOMAIN u = Columns /\ \A column \in Columns \ assigned : u[column] = t[column]

\* Writing f over g.
LEMMA Overwritten ==
  ASSUME NEW f, NEW g
  PROVE  /\ DOMAIN Over(f, g) = DOMAIN f \union DOMAIN g
         /\ \A x \in DOMAIN f : Over(f, g)[x] = f[x]
         /\ \A x \in DOMAIN g \ DOMAIN f : Over(f, g)[x] = g[x]
  BY DEF Over

\* A client's record after a statement is what the statement made of it.
LEMMA Went ==
  ASSUME NEW c \in Clients, DOMAIN tx = Clients, NEW t, Go(c, t)
  PROVE  /\ tx'[c] = t
         /\ DOMAIN tx' = Clients
         /\ \A d \in Clients \ {c} : tx'[d] = tx[d]
  BY DEF Go

\* A statement that selects a row for an update or a decision.
LEMMA SelectEffect ==
  ASSUME NEW c \in Clients, DOMAIN tx = Clients, DOMAIN tx[c] = Columns,
         Select(c), ~Decided(tx[c])
  PROVE  /\ Keeps(tx[c], tx'[c], {"pc", "seen"})
         /\ tx[c].pc = "read" /\ tx'[c].pc = "write"
         /\ tx'[c].seen = row[tx[c].item]
  <1> DEFINE u == [tx[c] EXCEPT !.pc = "write", !.seen = row[tx[c].item]]
  <1>1. tx[c].pc = "read" /\ Go(c, u)
    BY DEF Select
  <1>2. Keeps(tx[c], u, {"pc", "seen"}) /\ u.pc = "write" /\ u.seen = row[tx[c].item]
    BY DEF Keeps, Columns
  <1>3. tx'[c] = u
    BY <1>1, Went
  <1> HIDE DEF u
  <1> QED BY <1>1, <1>2, <1>3

LEMMA WriteEffect ==
  ASSUME NEW c \in Clients, DOMAIN tx = Clients, DOMAIN tx[c] = Columns, Write(c)
  PROVE  LET t == tx[c]
             u == tx'[c]
         IN  /\ Keeps(t, u, {"pc", "mine", "own"})
             /\ t.pc = "write"
             /\ u.pc = IF t.op = "save" /\ t.merges # <<>> THEN "merge" ELSE "tail"
             /\ t.item = None => DOMAIN u.mine = {}
             /\ t.item # None => DOMAIN u.mine = {t.item} /\ u.mine[t.item] = Written(t)
             /\ t.op = "save" /\ t.merges = <<>> => u.own = {<<t.number, None>>}
  <1> DEFINE u == [tx[c] EXCEPT
        !.pc = IF tx[c].op = "save" /\ tx[c].merges # <<>> THEN "merge" ELSE "tail",
        !.mine = IF tx[c].item = None THEN <<>> ELSE [x \in {tx[c].item} |-> Written(tx[c])],
        !.own = IF tx[c].op = "save" /\ tx[c].merges = <<>>
                THEN {<<tx[c].number, None>>} ELSE {}]
  <1>1. tx[c].pc = "write" /\ Go(c, u)
    BY DEF Write
  <1>2. /\ Keeps(tx[c], u, {"pc", "mine", "own"})
        /\ u.pc = IF tx[c].op = "save" /\ tx[c].merges # <<>> THEN "merge" ELSE "tail"
        /\ u.mine = IF tx[c].item = None THEN <<>> ELSE [x \in {tx[c].item} |-> Written(tx[c])]
        /\ u.own = IF tx[c].op = "save" /\ tx[c].merges = <<>>
                   THEN {<<tx[c].number, None>>} ELSE {}
    BY DEF Keeps, Columns
  <1>3. tx'[c] = u
    BY <1>1, Went
  <1> HIDE DEF u
  <1> QED BY <1>1, <1>2, <1>3
LEMMA MergeEffect ==
  ASSUME NEW c \in Clients, DOMAIN tx = Clients, DOMAIN tx[c] = Columns, Merge(c)
  PROVE  LET t == tx[c]
             u == tx'[c]
             i == Head(t.merges)
             finding == <<t.number, i>>
         IN  /\ t.pc = "merge"
             /\ MayMerge(i) =>
                  /\ Keeps(t, u, {"pc", "mine"}) /\ u.pc = "tail"
                  /\ DOMAIN u.mine = DOMAIN t.mine \union {i}
                  /\ u.mine[i] = [findings |-> row[i].findings \union {finding}]
                  /\ \A x \in DOMAIN t.mine \ {i} : u.mine[x] = t.mine[x]
             /\ ~MayMerge(i) =>
                  /\ Keeps(t, u, {"pc", "merges", "own"})
                  /\ u.pc = IF Tail(t.merges) = <<>> THEN "tail" ELSE "merge"
                  /\ u.merges = Tail(t.merges)
                  /\ u.own = t.own \union {finding}
  <1> DEFINE i == Head(tx[c].merges)
             finding == <<tx[c].number, i>>
             added == [x \in {i} |-> [findings |-> row[i].findings \union {finding}]]
             merged == [tx[c] EXCEPT !.pc = "tail", !.mine = Over(added, @)]
             closed == [tx[c] EXCEPT !.pc = IF Tail(tx[c].merges) = <<>> THEN "tail" ELSE "merge",
                                     !.merges = Tail(@), !.own = @ \union {finding}]
  <1>1. tx[c].pc = "merge" /\ Go(c, IF MayMerge(i) THEN merged ELSE closed)
    BY DEF Merge
  <1>2. Keeps(tx[c], merged, {"pc", "mine"}) /\ merged.pc = "tail"
        /\ merged.mine = Over(added, tx[c].mine)
    BY DEF Keeps, Columns
  <1>3. /\ Keeps(tx[c], closed, {"pc", "merges", "own"})
        /\ closed.pc = IF Tail(tx[c].merges) = <<>> THEN "tail" ELSE "merge"
        /\ closed.merges = Tail(tx[c].merges)
        /\ closed.own = tx[c].own \union {finding}
    BY DEF Keeps, Columns
  <1>4. tx'[c] = IF MayMerge(i) THEN merged ELSE closed
    BY <1>1, Went
  <1>5. /\ DOMAIN Over(added, tx[c].mine) = DOMAIN tx[c].mine \union {i}
        /\ Over(added, tx[c].mine)[i] = [findings |-> row[i].findings \union {finding}]
        /\ \A x \in DOMAIN tx[c].mine \ {i} : Over(added, tx[c].mine)[x] = tx[c].mine[x]
    <2>1. DOMAIN added = {i} /\ added[i] = [findings |-> row[i].findings \union {finding}]
      OBVIOUS
    <2> HIDE DEF added, i
    <2>2. /\ DOMAIN Over(added, tx[c].mine) = DOMAIN added \union DOMAIN tx[c].mine
          /\ \A x \in DOMAIN added : Over(added, tx[c].mine)[x] = added[x]
          /\ \A x \in DOMAIN tx[c].mine \ DOMAIN added : Over(added, tx[c].mine)[x] = tx[c].mine[x]
      BY Overwritten
    <2> QED BY <2>1, <2>2
  <1> HIDE DEF merged, closed, added
  <1>6. CASE MayMerge(i)
    <2>1. tx'[c] = merged
      BY <1>4, <1>6
    <2> QED BY <1>1, <1>2, <1>5, <1>6, <2>1
  <1>7. CASE ~MayMerge(i)
    <2>1. tx'[c] = closed
      BY <1>4, <1>7
    <2> QED BY <1>1, <1>3, <1>7, <2>1
  <1> QED BY <1>6, <1>7

LEMMA ReadTailEffect ==
  ASSUME NEW c \in Clients, DOMAIN tx = Clients, DOMAIN tx[c] = Columns, ReadTail(c)
  PROVE  LET t == tx[c]
             seen == log \o t.entries
         IN  /\ t.pc = "tail" /\ tx'[c].pc = "append"
             /\ Keeps(t, tx'[c], {"pc", "tail"})
             /\ tx'[c].tail = IF seen = <<>> THEN <<>> ELSE Last(seen).hash
  <1> DEFINE seen == log \o tx[c].entries
             last == IF seen = <<>> THEN <<>> ELSE Last(seen).hash
             u == [tx[c] EXCEPT !.pc = "append", !.tail = last]
  <1>1. tx[c].pc = "tail" /\ Go(c, u)
    BY DEF ReadTail
  <1>2. Keeps(tx[c], u, {"pc", "tail"}) /\ u.pc = "append" /\ u.tail = last
    BY DEF Keeps, Columns
  <1>3. tx'[c] = u
    BY <1>1, Went
  <1> HIDE DEF u
  <1> QED BY <1>1, <1>2, <1>3

LEMMA AppendEffect ==
  ASSUME NEW c \in Clients, DOMAIN tx = Clients, DOMAIN tx[c] = Columns, AppendAudit(c)
  PROVE  LET t == tx[c]
             u == tx'[c]
         IN  /\ t.pc = "append"
             /\ Keeps(t, u, {"pc", "merges", "entries"})
             /\ u.pc = IF t.merges = <<>> THEN "commit"
                       ELSE IF Tail(t.merges) = <<>> THEN "tail" ELSE "merge"
             /\ u.merges = IF t.merges = <<>> THEN <<>> ELSE Tail(t.merges)
             /\ u.entries = Append(t.entries, Entry(t))
  <1> DEFINE next == IF tx[c].merges = <<>> THEN "commit"
                     ELSE IF Tail(tx[c].merges) = <<>> THEN "tail" ELSE "merge"
             u == [tx[c] EXCEPT !.pc = next,
                                !.merges = IF @ = <<>> THEN @ ELSE Tail(@),
                                !.entries = Append(@, Entry(tx[c]))]
  <1>1. tx[c].pc = "append" /\ Go(c, u)
    BY DEF AppendAudit
  <1>2. /\ Keeps(tx[c], u, {"pc", "merges", "entries"}) /\ u.pc = next
        /\ u.merges = IF tx[c].merges = <<>> THEN tx[c].merges ELSE Tail(tx[c].merges)
        /\ u.entries = Append(tx[c].entries, Entry(tx[c]))
    BY DEF Keeps, Columns
  <1>3. tx'[c] = u
    BY <1>1, Went
  <1> HIDE DEF u
  <1> QED BY <1>1, <1>2, <1>3

\* A commit writes its columns over the committed ones, row by row.
LEMMA CommitEffect ==
  ASSUME NEW c \in Clients, DOMAIN row = Items, DOMAIN tx[c].mine \subseteq Items, Commit(c)
  PROVE  /\ DOMAIN row' = Items
         /\ \A x \in Items :
              row'[x] = IF x \in DOMAIN tx[c].mine THEN Over(tx[c].mine[x], row[x]) ELSE row[x]
  <1> DEFINE written == [x \in DOMAIN tx[c].mine |-> Over(tx[c].mine[x], row[x])]
  <1>1. row' = Over(written, row)
    BY DEF Commit
  <1>2. /\ DOMAIN Over(written, row) = DOMAIN written \union DOMAIN row
        /\ \A x \in DOMAIN written : Over(written, row)[x] = written[x]
        /\ \A x \in DOMAIN row \ DOMAIN written : Over(written, row)[x] = row[x]
    BY Overwritten
  <1>3. DOMAIN written = DOMAIN tx[c].mine
        /\ \A x \in DOMAIN tx[c].mine : written[x] = Over(tx[c].mine[x], row[x])
    OBVIOUS
  <1> HIDE DEF written
  <1> QED BY <1>1, <1>2, <1>3

\* The end of a transaction frees its locks and nobody else's.
LEMMA Released ==
  ASSUME NEW c \in Clients, Globals, Release(c)
  PROVE  /\ tx'[c].pc = "idle" /\ Free(c)'
         /\ DOMAIN tx' = Clients
         /\ \A d \in Clients \ {c} : tx'[d] = tx[d]
         /\ rowLock' \in [Items -> Clients \union {None}]
         /\ auditLock' \in Clients \union {None}
         /\ writer' \in Clients \union {None}
  BY TriageAssumption DEF Release, Globals, Free, Idle
\* A selected list of incidents is a sequence of them.
LEMMA ListsOfIncidents ==
  ASSUME NEW S \in kSubset(0, Incidents) \union UNION {kSubset(k, Incidents) : k \in 1..MaxMerges},
         NEW merges \in SetToSeqs(S)
  PROVE  merges \in Seq(Incidents)
  <1>1. S \subseteq Incidents /\ Cardinality(S) \in Nat
    BY TriageAssumption DEF kSubset
  <1>2. merges \in [1..Cardinality(S) -> S]
    BY DEF SetToSeqs
  <1> QED BY <1>1, <1>2

\* An operation starts with nothing read, written or locked.
Started(c, op, pc, item, change, merges) ==
  LET u == tx'[c] IN
  /\ Shaped(u)
  /\ u.op = op /\ u.pc = pc /\ u.item = item /\ u.change = change /\ u.merges = merges
  /\ u.entries = <<>> /\ u.own = {} /\ DOMAIN u.mine = {}
  /\ tx[c].pc = "idle" /\ UNCHANGED <<driver, dbVars, lockVars>> /\ ops' \in 0..MaxOps
  /\ DOMAIN tx' = Clients /\ \A d \in Clients \ {c} : tx'[d] = tx[d]

LEMMA StartEffect ==
  ASSUME NEW c \in Clients, Globals, NEW op \in Operations, NEW pc \in Points, NEW item,
         NEW change, NEW merges \in Seq(Incidents), Start(c, op, pc, item, change, merges)
  PROVE  Started(c, op, pc, item, change, merges)
  <1> DEFINE t == [op |-> op, pc |-> pc, number |-> ops', item |-> item, change |-> change,
                   merges |-> merges, seen |-> <<>>, mine |-> <<>>, entries |-> <<>>,
                   tail |-> <<>>, own |-> {}]
  <1>1. Go(c, t) /\ tx[c].pc = "idle" /\ UNCHANGED <<driver, dbVars, lockVars>>
        /\ ops' \in 0..MaxOps
    BY TriageAssumption DEF Start, Busy, Globals
  <1>2. tx'[c] = t /\ DOMAIN tx' = Clients /\ \A d \in Clients \ {c} : tx'[d] = tx[d]
    <2>1. DOMAIN tx = Clients
      BY DEF Globals
    <2> HIDE DEF t
    <2> QED BY <1>1, <2>1, Went
  <1>3. /\ DOMAIN t = Columns /\ t.op = op /\ t.pc = pc /\ t.item = item /\ t.change = change
        /\ t.merges = merges /\ t.number = ops' /\ t.entries = <<>> /\ t.own = {}
        /\ t.mine = <<>> /\ t.tail = <<>>
    BY DEF Columns
  <1>4. Shaped(t)
    <2> HIDE DEF t
    <2>1. ops' \in Nat /\ <<>> \in Seq(AuditRow)
      BY <1>1, TriageAssumption
    <2> QED BY <1>3, <2>1 DEF Shaped
  <1> HIDE DEF t
  <1> QED BY <1>1, <1>2, <1>3, <1>4 DEF Started

LEMMA BeginEffect ==
  ASSUME NEW c \in Clients, Globals, Begin(c)
  PROVE  LET u == tx'[c] IN
         /\ Shaped(u) /\ Asked(u)
         /\ u.entries = <<>> /\ u.own = {} /\ DOMAIN u.mine = {}
         /\ \/ u.pc = "read" /\ u.op \in {"update", "decide"}
            \/ u.pc = "write" /\ u.item = None
            \/ u.pc = "tail" /\ u.op = "audit" /\ u.item = None
         /\ tx[c].pc = "idle" /\ UNCHANGED <<driver, dbVars, lockVars>> /\ ops' \in 0..MaxOps
         /\ DOMAIN tx' = Clients /\ \A d \in Clients \ {c} : tx'[d] = tx[d]
  <1>0. /\ <<>> \in Seq(Incidents) /\ None \notin Items
        /\ {"update", "decide", "save", "change", "audit"} \subseteq Operations
        /\ {"read", "write", "tail"} \subseteq Points
    BY TriageAssumption DEF Operations, Points
  <1>1. CASE UpdateIncident(c)
    <2>1. PICK i \in Incidents,
               change \in [{"status"} -> Statuses] \union [{"assignee"} -> Analysts] :
                 Start(c, "update", "read", i, change, <<>>)
      BY <1>1 DEF UpdateIncident
    <2>2. DOMAIN change \subseteq {"status", "assignee"}
          /\ ("status" \in DOMAIN change => change.status \in Statuses)
          /\ ("assignee" \in DOMAIN change => change.assignee \in Analysts)
      OBVIOUS
    <2>3. Started(c, "update", "read", i, change, <<>>)
      BY <1>0, <2>1, StartEffect
    <2> QED BY <1>0, <2>2, <2>3 DEF Started, Asked, Items
  <1>2. CASE DecideProposal(c)
    <2>1. PICK p \in Proposals, decision \in {"approved", "rejected"} :
                 Start(c, "decide", "read", p, [status |-> decision], <<>>)
      BY <1>2 DEF DecideProposal
    <2> DEFINE change == [status |-> decision]
    <2>2. DOMAIN change = {"status"} /\ change.status \in {"approved", "rejected"}
      OBVIOUS
    <2> HIDE DEF change
    <2>3. Started(c, "decide", "read", p, change, <<>>)
      BY <1>0, <2>1, StartEffect DEF change
    <2> QED BY <1>0, <2>2, <2>3 DEF Started, Asked, Items
  <1>3. CASE SavePipelineResult(c)
    <2>1. PICK merges \in Seq(Incidents) : Start(c, "save", "write", None, <<>>, merges)
      BY <1>3, ListsOfIncidents DEF SavePipelineResult
    <2>2. Started(c, "save", "write", None, <<>>, merges)
      BY <1>0, <2>1, StartEffect
    <2> QED BY <1>0, <2>2 DEF Started, Asked
  <1>4. CASE AuditedChange(c)
    <2>1. Started(c, "change", "write", None, <<>>, <<>>)
      BY <1>0, <1>4, StartEffect DEF AuditedChange
    <2> QED BY <1>0, <2>1 DEF Started, Asked
  <1>5. CASE AuditOnly(c)
    <2>1. Started(c, "audit", "tail", None, <<>>, <<>>)
      BY <1>0, <1>5, StartEffect DEF AuditOnly
    <2> QED BY <1>0, <2>1 DEF Started, Asked
  <1> QED BY <1>1, <1>2, <1>3, <1>4, <1>5 DEF Begin-------------------------------------------------------------------------------
(* A step of one client, as another one sees it.                           *)

Step(c) == Begin(c) \/ Statement(c) \/ TimeOut(c)

\* The statements that leave a transaction running change its record alone.
LEMMA RunningSteps ==
  ASSUME NEW c \in Clients, Globals,
         (Select(c) /\ ~Decided(tx[c])) \/ Write(c) \/ Merge(c) \/ ReadTail(c) \/ AppendAudit(c)
  PROVE  /\ \E t : Go(c, t)
         /\ UNCHANGED <<driver, dbVars, ops>>
         /\ rowLock' \in [Items -> Clients \union {None}]
         /\ \A x \in Items : rowLock'[x] = rowLock[x] \/ (rowLock[x] \in {None, c} /\ rowLock'[x] = c)
         /\ auditLock' = auditLock \/ (auditLock \in {None, c} /\ auditLock' = c)
         /\ writer' = writer \/ (writer \in {None, c} /\ writer' = c)
  <1> USE TriageAssumption DEF Globals
  <1>1. CASE Select(c) /\ ~Decided(tx[c])
    BY <1>1 DEF Select, LockRow, RowGranted
  <1>2. CASE Write(c)
    BY <1>2 DEF Write, BeginWrite, WriteGranted
  <1>3. CASE Merge(c)
    BY <1>3 DEF Merge, LockRow, RowGranted
  <1>4. CASE ReadTail(c)
    BY <1>4 DEF ReadTail, LockAudit, AuditGranted
  <1>5. CASE AppendAudit(c)
    BY <1>5 DEF AppendAudit, BeginWrite, WriteGranted
  <1> QED BY <1>1, <1>2, <1>3, <1>4, <1>5

\* The statements that end one release its locks; only a commit writes the tables.
LEMMA EndingSteps ==
  ASSUME NEW c \in Clients,
         (Select(c) /\ Decided(tx[c])) \/ Commit(c) \/ TimeOut(c)
  PROVE  Release(c) /\ UNCHANGED <<driver, ops>> /\ (~Commit(c) => UNCHANGED dbVars)
  BY DEF Select, Commit, TimeOut

LEMMA StepKinds ==
  ASSUME NEW c \in Clients, Step(c)
  PROVE  \/ Begin(c)
         \/ (Select(c) /\ ~Decided(tx[c])) \/ Write(c) \/ Merge(c) \/ ReadTail(c) \/ AppendAudit(c)
         \/ (Select(c) /\ Decided(tx[c])) \/ Commit(c) \/ TimeOut(c)
  BY DEF Step, Statement

\* The record and the locks of d are what they were.
Undisturbed(d) ==
  /\ driver' = driver /\ tx'[d] = tx[d]
  /\ \A x \in Items : rowLock'[x] = d <=> rowLock[x] = d
  /\ auditLock' = d <=> auditLock = d
  /\ writer' = d <=> writer = d

LEMMA OthersUndisturbed ==
  ASSUME NEW c \in Clients, NEW d \in Clients \ {c}, Globals, Step(c)
  PROVE  Undisturbed(d)
  <1> USE TriageAssumption DEF Globals, Undisturbed
  <1>1. CASE Begin(c)
    BY <1>1, BeginEffect DEF lockVars
  <1>2. CASE (Select(c) /\ ~Decided(tx[c])) \/ Write(c) \/ Merge(c) \/ ReadTail(c) \/ AppendAudit(c)
    <2>1. PICK t : Go(c, t)
      BY <1>2, RunningSteps
    <2> QED BY <1>2, <2>1, RunningSteps, Went
  <1>3. CASE (Select(c) /\ Decided(tx[c])) \/ Commit(c) \/ TimeOut(c)
    BY <1>3, EndingSteps, Released DEF Release
  <1> QED BY <1>1, <1>2, <1>3, StepKinds

LEMMA GlobalsKept ==
  ASSUME NEW c \in Clients, Globals, Step(c)
  PROVE  Globals'
  <1> USE TriageAssumption DEF Globals
  <1>1. CASE Begin(c)
    BY <1>1, BeginEffect DEF lockVars
  <1>2. CASE (Select(c) /\ ~Decided(tx[c])) \/ Write(c) \/ Merge(c) \/ ReadTail(c) \/ AppendAudit(c)
    <2>1. PICK t : Go(c, t)
      BY <1>2, RunningSteps
    <2> QED BY <1>2, <2>1, RunningSteps, Went
  <1>3. CASE (Select(c) /\ Decided(tx[c])) \/ Commit(c) \/ TimeOut(c)
    BY <1>3, EndingSteps, Released
  <1> QED BY <1>1, <1>2, <1>3, StepKinds

\* While the tables do not change, what a transaction relies on does not either.
LEMMA OwnUndisturbed ==
  ASSUME NEW d \in Clients, Own(d), Undisturbed(d), UNCHANGED dbVars
  PROVE  Own(d)'
  <1>1. row' = row /\ log' = log /\ driver' = driver /\ tx'[d] = tx[d]
    BY DEF dbVars, Undisturbed
  <1>2. Free(d)'
    BY <1>1 DEF Own, Free, Undisturbed
  <1>3. ASSUME tx[d].pc # "idle"
        PROVE  /\ Shaped(tx[d])' /\ Asked(tx[d])' /\ Reading(tx[d])'
               /\ Merging(tx[d])' /\ Placing(tx[d])' /\ Chaining(tx[d])'
               /\ HoldingRows(d)' /\ HoldingAudit(d)' /\ Writing(d)'
    <2>1. Shaped(tx[d])' /\ Asked(tx[d])' /\ Reading(tx[d])'
      BY <1>1, <1>3 DEF Own, Shaped, Asked, Reading, OfIncident, OfProposal, Written
    <2>2. Merging(tx[d])' /\ Placing(tx[d])' /\ Chaining(tx[d])'
      BY <1>1, <1>3 DEF Own, Merging, Placing, Placed, Chaining, TailOf
    <2>3. HoldingRows(d)'
      <3>1. \A x \in DOMAIN tx[d].mine : x \in Items
        BY <1>3 DEF Own, Asked, Reading, Merging, Items, Shaped, Operations
      <3>2. tx[d].item # None => tx[d].item \in Items
        BY <1>3 DEF Own, Asked, Items
      <3> QED BY <1>1, <1>3, <3>1, <3>2 DEF Own, HoldingRows, Undisturbed
    <2>4. HoldingAudit(d)' /\ Writing(d)'
      BY <1>1, <1>3 DEF Own, HoldingAudit, Writing, Undisturbed
    <2> QED BY <2>1, <2>2, <2>3, <2>4
  <1> QED BY <1>1, <1>2, <1>3 DEF Own-------------------------------------------------------------------------------
(* A step of a client, as that client sees it.                             *)

\* The columns a statement did not assign, one by one.
LEMMA Kept ==
  ASSUME NEW t, NEW u, NEW assigned, Keeps(t, u, assigned)
  PROVE  /\ DOMAIN u = Columns
         /\ "op" \in assigned \/ u.op = t.op
         /\ "number" \in assigned \/ u.number = t.number
         /\ "item" \in assigned \/ u.item = t.item
         /\ "change" \in assigned \/ u.change = t.change
         /\ "merges" \in assigned \/ u.merges = t.merges
         /\ "seen" \in assigned \/ u.seen = t.seen
         /\ "mine" \in assigned \/ u.mine = t.mine
         /\ "entries" \in assigned \/ u.entries = t.entries
         /\ "tail" \in assigned \/ u.tail = t.tail
         /\ "own" \in assigned \/ u.own = t.own
  BY DEF Keeps, Columns

LEMMA OwnBegin ==
  ASSUME NEW c \in Clients, Globals, Own(c), Begin(c)
  PROVE  Own(c)'
  <1> DEFINE t == tx[c]
  <1>1. /\ Shaped(t)' /\ Asked(t)'
        /\ t'.entries = <<>> /\ t'.own = {} /\ DOMAIN t'.mine = {}
        /\ \/ t'.pc = "read" /\ t'.op \in {"update", "decide"}
           \/ t'.pc = "write" /\ t'.item = None
           \/ t'.pc = "tail" /\ t'.op = "audit" /\ t'.item = None
        /\ tx[c].pc = "idle" /\ driver' = driver /\ row' = row /\ log' = log
        /\ rowLock' = rowLock /\ auditLock' = auditLock /\ writer' = writer
    BY BeginEffect DEF dbVars, lockVars
  <1>2. auditLock # c /\ writer # c /\ \A x \in Items : rowLock[x] # c
    BY <1>1 DEF Own, Free
  <1>3. t'.pc # "idle" /\ t'.pc # "append"
    BY <1>1
  <1>4. Reading(t)' /\ Merging(t)' /\ Placing(t)'
    BY <1>1, TriageAssumption DEF Reading, Merging, Placing, Asked, Items, Shaped, Operations
  <1>5. Len(t'.entries) = 0
    BY <1>1
  <1>6. Chaining(t)'
    BY <1>1, <1>3, <1>5 DEF Chaining
  <1>7. HoldingRows(c)'
    BY <1>1, <1>2, TriageAssumption DEF HoldingRows, Asked, Items
  <1>8. HoldingAudit(c)' /\ Writing(c)' /\ Free(c)'
    BY <1>1, <1>2, <1>3 DEF HoldingAudit, Writing, Free
  <1> QED BY <1>1, <1>4, <1>6, <1>7, <1>8 DEF Own

LEMMA OwnSelect ==
  ASSUME NEW c \in Clients, Globals, Tables, Own(c), Select(c), ~Decided(tx[c])
  PROVE  Own(c)'
  <1> DEFINE t == tx[c]
  <1>1. t.pc = "read" /\ t.pc # "idle" /\ DOMAIN tx = Clients /\ DOMAIN t = Columns
    BY DEF Select, Own, Globals, Shaped
  <1>2. /\ Shaped(t) /\ Asked(t) /\ Reading(t) /\ Chaining(t)
        /\ HoldingRows(c) /\ HoldingAudit(c)
    BY <1>1 DEF Own
  <1>3. Keeps(t, t', {"pc", "seen"}) /\ t'.pc = "write" /\ t'.seen = row[t.item]
    BY <1>1, SelectEffect
  <1>4. /\ DOMAIN t' = Columns
        /\ t'.op = t.op /\ t'.number = t.number /\ t'.item = t.item /\ t'.change = t.change
        /\ t'.merges = t.merges /\ t'.mine = t.mine /\ t'.entries = t.entries
        /\ t'.tail = t.tail /\ t'.own = t.own
    BY <1>3, Kept
  <1>5. /\ t.op \in {"update", "decide"} /\ t.item \in Items /\ t.item # None
        /\ t.entries = <<>> /\ t.own = {} /\ DOMAIN t.mine = {}
    BY <1>1, <1>2 DEF Asked, Items
  <1>6. /\ driver' = driver /\ row' = row /\ log' = log /\ auditLock' = auditLock
        /\ driver = "postgres" => rowLock' = [rowLock EXCEPT ![t.item] = c]
    BY <1>1 DEF Select, LockRow, dbVars
  <1>7. Shaped(t)' /\ Asked(t)'
    BY <1>2, <1>3, <1>4, <1>5 DEF Shaped, Asked, Points
  <1>8. OfIncident(row[t.item]) \/ t.op # "update"
    BY <1>2, <1>5 DEF Tables, Asked
  <1>9. OfProposal(row[t.item]) \/ t.op # "decide"
    BY <1>2, <1>5 DEF Tables, Asked
  <1>10. Reading(t)' /\ Merging(t)' /\ Placing(t)'
    BY <1>3, <1>4, <1>5, <1>8, <1>9 DEF Reading, Merging, Placing, OfIncident, OfProposal
  <1>11. Chaining(t)'
    BY <1>3, <1>4, <1>5 DEF Chaining
  <1>12. HoldingRows(c)'
    <2>1. driver = "postgres" => rowLock'[t.item] = c
      BY <1>5, <1>6 DEF Globals
    <2>2. t.op = "decide" /\ driver = "postgres" => row[t.item].status = "pending"
      BY DEF Decided
    <2> QED BY <1>3, <1>4, <1>5, <1>6, <2>1, <2>2 DEF HoldingRows
  <1>13. HoldingAudit(c)' /\ Writing(c)' /\ Free(c)'
    BY <1>1, <1>2, <1>3, <1>4, <1>5, <1>6 DEF HoldingAudit, Writing, Free
  <1> QED BY <1>7, <1>10, <1>11, <1>12, <1>13 DEF Own

LEMMA OwnWrite ==
  ASSUME NEW c \in Clients, Globals, Tables, Own(c), Write(c)
  PROVE  Own(c)'
  <1> DEFINE t == tx[c]
  <1>1. t.pc = "write" /\ t.pc # "idle" /\ DOMAIN tx = Clients /\ DOMAIN t = Columns
    BY DEF Write, Own, Globals, Shaped
  <1>2. /\ Shaped(t) /\ Asked(t) /\ Reading(t) /\ Chaining(t)
        /\ HoldingRows(c) /\ HoldingAudit(c)
    BY <1>1 DEF Own
  <1>3. /\ Keeps(t, t', {"pc", "mine", "own"})
        /\ t'.pc = IF t.op = "save" /\ t.merges # <<>> THEN "merge" ELSE "tail"
        /\ t.item = None => DOMAIN t'.mine = {}
        /\ t.item # None => DOMAIN t'.mine = {t.item} /\ t'.mine[t.item] = Written(t)
        /\ t.op = "save" /\ t.merges = <<>> => t'.own = {<<t.number, None>>}
    BY <1>1, WriteEffect
  <1>4. /\ DOMAIN t' = Columns
        /\ t'.op = t.op /\ t'.number = t.number /\ t'.item = t.item /\ t'.change = t.change
        /\ t'.merges = t.merges /\ t'.seen = t.seen /\ t'.entries = t.entries /\ t'.tail = t.tail
    BY <1>3, Kept
  <1>5. t.entries = <<>> /\ t.op # "audit"
    BY <1>1, <1>2 DEF Asked
  <1>6. /\ driver' = driver /\ row' = row /\ log' = log /\ auditLock' = auditLock
        /\ rowLock' = rowLock
        /\ driver = "sqlite" => writer' = c
    BY DEF Write, BeginWrite, dbVars
  <1>7. Shaped(t)' /\ Asked(t)'
    BY <1>2, <1>3, <1>4, <1>5 DEF Shaped, Asked, Points
  <1>8. Written(t)' = Written(t)
    BY <1>4 DEF Written
  <1>9. Reading(t)'
    BY <1>1, <1>2, <1>3, <1>4, <1>8 DEF Reading, OfIncident, OfProposal, Written
  <1>10. Merging(t)'
    BY <1>3, <1>4 DEF Merging
  <1>11. Placing(t)'
    <2>1. t.op = "save" /\ t.merges = <<>> => <<t.number, None>> \in t'.own
      BY <1>3
    <2> QED BY <1>2, <1>3, <1>4, <2>1 DEF Placing, Placed
  <1>12. Chaining(t)'
    BY <1>3, <1>4, <1>5 DEF Chaining
  <1>13. HoldingRows(c)'
    BY <1>1, <1>2, <1>3, <1>4, <1>6 DEF HoldingRows
  <1>14. HoldingAudit(c)' /\ Writing(c)' /\ Free(c)'
    BY <1>1, <1>2, <1>3, <1>4, <1>5, <1>6 DEF HoldingAudit, Writing, Free
  <1> QED BY <1>7, <1>9, <1>10, <1>11, <1>12, <1>13, <1>14 DEF Own
LEMMA OwnMerge ==
  ASSUME NEW c \in Clients, Globals, Tables, Own(c), Merge(c)
  PROVE  Own(c)'
  <1> DEFINE t == tx[c]
             i == Head(t.merges)
             finding == <<t.number, i>>
  <1>1. t.pc = "merge" /\ t.pc # "idle" /\ DOMAIN tx = Clients /\ DOMAIN t = Columns
    BY DEF Merge, Own, Globals, Shaped
  <1>2. /\ Shaped(t) /\ Asked(t) /\ Merging(t) /\ Chaining(t)
        /\ HoldingRows(c) /\ HoldingAudit(c) /\ Writing(c)
    BY <1>1 DEF Own
  <1>3. /\ t.merges # <<>> /\ t.op = "save" /\ t.item = None
        /\ i \in Incidents /\ i \in Items /\ Tail(t.merges) \in Seq(Incidents)
    BY <1>1, <1>2 DEF Asked, Shaped, Items
  <1>4. /\ driver' = driver /\ row' = row /\ log' = log /\ auditLock' = auditLock
        /\ writer' = writer
        /\ driver = "postgres" => rowLock' = [rowLock EXCEPT ![i] = c]
    BY DEF Merge, LockRow, dbVars
  <1>5. driver = "postgres" =>
          rowLock'[i] = c /\ \A x \in Items \ {i} : rowLock'[x] = rowLock[x]
    BY <1>3, <1>4 DEF Globals
  <1>6. CASE MayMerge(i)
    <2>1. /\ Keeps(t, t', {"pc", "mine"}) /\ t'.pc = "tail"
          /\ DOMAIN t'.mine = DOMAIN t.mine \union {i}
          /\ t'.mine[i] = [findings |-> row[i].findings \union {finding}]
          /\ \A x \in DOMAIN t.mine \ {i} : t'.mine[x] = t.mine[x]
      BY <1>1, <1>6, MergeEffect
    <2>2. /\ DOMAIN t' = Columns
          /\ t'.op = t.op /\ t'.number = t.number /\ t'.item = t.item /\ t'.change = t.change
          /\ t'.merges = t.merges /\ t'.seen = t.seen /\ t'.entries = t.entries
          /\ t'.tail = t.tail /\ t'.own = t.own
      BY <2>1, Kept
    <2>3. Shaped(t)' /\ Asked(t)' /\ Reading(t)'
      BY <1>2, <1>3, <2>1, <2>2 DEF Shaped, Asked, Reading, Points
    <2>4. Merging(t)'
      <3>1. DOMAIN [findings |-> row[i].findings \union {finding}] = {"findings"}
            /\ [findings |-> row[i].findings \union {finding}].findings
                 = row[i].findings \union {finding}
        OBVIOUS
      <3>2. \A x \in DOMAIN t'.mine \ {i} : x \in DOMAIN t.mine
        BY <2>1
      <3> HIDE DEF i, finding
      <3> QED BY <1>2, <1>3, <1>4, <1>6, <2>1, <2>2, <3>1, <3>2 DEF Merging, MayMerge
    <2>5. Placing(t)'
      <3>1. finding \in t'.mine[i].findings /\ i \in DOMAIN t'.mine /\ finding[1] = t'.number
        BY <2>1, <2>2
      <3> HIDE DEF i, finding
      <3> QED BY <3>1 DEF Placing, Placed
    <2>6. Chaining(t)'
      BY <1>2, <1>4, <2>1, <2>2 DEF Chaining
    <2>7. HoldingRows(c)'
      <3>1. driver = "postgres" => \A x \in DOMAIN t'.mine : rowLock'[x] = c
        BY <1>2, <1>3, <1>5, <2>1 DEF HoldingRows, Merging, Items
      <3> QED BY <1>3, <1>4, <2>1, <2>2, <3>1 DEF HoldingRows
    <2>8. HoldingAudit(c)' /\ Writing(c)' /\ Free(c)'
      BY <1>1, <1>2, <1>4, <2>1, <2>2 DEF HoldingAudit, Writing, Free
    <2> QED BY <2>3, <2>4, <2>5, <2>6, <2>7, <2>8 DEF Own
  <1>7. CASE ~MayMerge(i)
    <2>1. /\ Keeps(t, t', {"pc", "merges", "own"})
          /\ t'.pc = IF Tail(t.merges) = <<>> THEN "tail" ELSE "merge"
          /\ t'.merges = Tail(t.merges) /\ t'.own = t.own \union {finding}
      BY <1>1, <1>7, MergeEffect
    <2>2. /\ DOMAIN t' = Columns
          /\ t'.op = t.op /\ t'.number = t.number /\ t'.item = t.item /\ t'.change = t.change
          /\ t'.seen = t.seen /\ t'.mine = t.mine /\ t'.entries = t.entries /\ t'.tail = t.tail
      <3>1. Keeps(t, t', {"pc", "merges", "own"})
        BY <2>1
      <3> HIDE DEF t
      <3> QED BY <3>1, Kept
    <2>3. Shaped(t)' /\ Asked(t)' /\ Reading(t)'
      BY <1>2, <1>3, <2>1, <2>2 DEF Shaped, Asked, Reading, Points
    <2>4. Merging(t)'
      BY <1>2, <1>4, <2>2 DEF Merging
    <2>5. finding \in t'.own /\ finding[1] = t'.number
      BY <2>1, <2>2
    <2>6. Placing(t)'
      BY <2>5 DEF Placing, Placed
    <2>7. Chaining(t)'
      BY <1>2, <1>4, <2>1, <2>2 DEF Chaining
    <2>8. HoldingRows(c)'
      <3>1. driver = "postgres" => \A x \in DOMAIN t'.mine : rowLock'[x] = c
        BY <1>2, <1>3, <1>5, <2>2 DEF HoldingRows, Merging, Items
      <3> QED BY <1>3, <1>4, <2>1, <2>2, <2>5, <3>1 DEF HoldingRows
    <2>9. HoldingAudit(c)' /\ Writing(c)' /\ Free(c)'
      BY <1>1, <1>2, <1>4, <2>1, <2>2 DEF HoldingAudit, Writing, Free
    <2> QED BY <2>3, <2>4, <2>6, <2>7, <2>8, <2>9 DEF Own
  <1> QED BY <1>6, <1>7

\* The last of a log and of the rows to come is the last of those, if there are any.
LEMMA TailOfBoth ==
  ASSUME NEW s \in Seq(AuditRow), NEW e \in Seq(AuditRow)
  PROVE  (IF s \o e = <<>> THEN <<>> ELSE Last(s \o e).hash)
           = IF e = <<>> THEN TailOf(s) ELSE TailOf(e)
  <1>1. s \o e \in Seq(AuditRow) /\ Len(s \o e) = Len(s) + Len(e)
    OBVIOUS
  <1>2. CASE e = <<>>
    <2>1. s \o e = s
      BY <1>2
    <2> QED BY <1>2, <2>1 DEF TailOf, Last
  <1>3. CASE e # <<>>
    <2>1. Len(e) > 0 /\ (s \o e)[Len(s) + Len(e)] = e[Len(e)]
      BY <1>3
    <2>2. s \o e # <<>>
      BY <1>1, <2>1
    <2> QED BY <1>1, <1>3, <2>1, <2>2 DEF TailOf, Last
  <1> QED BY <1>2, <1>3

LEMMA TailTyped ==
  ASSUME NEW s \in Seq(AuditRow)
  PROVE  TailOf(s) \in Hashes \union {<<>>}
  <1>1. s # <<>> => s[Len(s)] \in AuditRow
    OBVIOUS
  <1> QED BY <1>1 DEF TailOf, AuditRow

LEMMA OwnReadTail ==
  ASSUME NEW c \in Clients, Globals, Tables, Own(c), ReadTail(c)
  PROVE  Own(c)'
  <1> DEFINE t == tx[c]
  <1>1. t.pc = "tail" /\ t.pc # "idle" /\ DOMAIN tx = Clients /\ DOMAIN t = Columns
    BY DEF ReadTail, Own, Globals, Shaped
  <1>2. /\ Shaped(t) /\ Asked(t) /\ Reading(t) /\ Merging(t) /\ Placing(t) /\ Chaining(t)
        /\ HoldingRows(c) /\ HoldingAudit(c) /\ Writing(c)
    BY <1>1 DEF Own
  <1>3. Keeps(t, t', {"pc", "tail"}) /\ t'.pc = "append"
        /\ t'.tail = IF log \o t.entries = <<>> THEN <<>> ELSE Last(log \o t.entries).hash
    BY <1>1, ReadTailEffect
  <1>4. /\ DOMAIN t' = Columns
        /\ t'.op = t.op /\ t'.number = t.number /\ t'.item = t.item /\ t'.change = t.change
        /\ t'.merges = t.merges /\ t'.seen = t.seen /\ t'.mine = t.mine
        /\ t'.entries = t.entries /\ t'.own = t.own
    BY <1>3, Kept
  <1>5. log \in Seq(AuditRow) /\ t.entries \in Seq(AuditRow)
    BY <1>2 DEF Tables, Shaped
  <1>6. t'.tail = IF t.entries = <<>> THEN TailOf(log) ELSE TailOf(t.entries)
    BY <1>3, <1>5, TailOfBoth
  <1>7. t'.tail \in Hashes \union {<<>>}
    BY <1>5, <1>6, TailTyped
  <1>8. /\ driver' = driver /\ row' = row /\ log' = log /\ rowLock' = rowLock
        /\ writer' = writer
        /\ driver = "postgres" => auditLock' = c
    BY DEF ReadTail, LockAudit, dbVars
  <1>9. Shaped(t)' /\ Asked(t)'
    BY <1>1, <1>2, <1>3, <1>4, <1>7 DEF Shaped, Asked, Points
  <1>10. Reading(t)' /\ Merging(t)' /\ Placing(t)'
    BY <1>1, <1>2, <1>3, <1>4, <1>8 DEF Reading, Merging, Placing, Placed, Written
  <1>11. Chaining(t)'
    BY <1>2, <1>4, <1>6, <1>8 DEF Chaining
  <1>12. HoldingRows(c)'
    BY <1>1, <1>2, <1>3, <1>4, <1>8 DEF HoldingRows
  <1>13. HoldingAudit(c)' /\ Writing(c)' /\ Free(c)'
    BY <1>1, <1>2, <1>3, <1>4, <1>8 DEF HoldingAudit, Writing, Free
  <1> QED BY <1>9, <1>10, <1>11, <1>12, <1>13 DEF Own
LEMMA OwnAppend ==
  ASSUME NEW c \in Clients, Globals, Tables, Own(c), AppendAudit(c)
  PROVE  Own(c)'
  <1> DEFINE t == tx[c]
             n == Len(t.entries)
  <1>1. t.pc = "append" /\ t.pc # "idle" /\ DOMAIN tx = Clients /\ DOMAIN t = Columns
    BY DEF AppendAudit, Own, Globals, Shaped
  <1>2. /\ Shaped(t) /\ Asked(t) /\ Reading(t) /\ Merging(t) /\ Placing(t) /\ Chaining(t)
        /\ HoldingRows(c) /\ HoldingAudit(c) /\ Writing(c)
    BY <1>1 DEF Own
  <1>3. /\ Keeps(t, t', {"pc", "merges", "entries"})
        /\ t'.pc = IF t.merges = <<>> THEN "commit"
                   ELSE IF Tail(t.merges) = <<>> THEN "tail" ELSE "merge"
        /\ t'.merges = IF t.merges = <<>> THEN <<>> ELSE Tail(t.merges)
        /\ t'.entries = Append(t.entries, Entry(t))
    BY <1>1, AppendEffect
  <1>4. /\ DOMAIN t' = Columns
        /\ t'.op = t.op /\ t'.number = t.number /\ t'.item = t.item /\ t'.change = t.change
        /\ t'.seen = t.seen /\ t'.mine = t.mine /\ t'.tail = t.tail /\ t'.own = t.own
    <2>1. Keeps(t, t', {"pc", "merges", "entries"})
      BY <1>3
    <2> HIDE DEF t
    <2> QED BY <2>1, Kept
  <1>5. /\ driver' = driver /\ row' = row /\ log' = log /\ rowLock' = rowLock
        /\ auditLock' = auditLock
        /\ driver = "sqlite" => writer' = c
    BY DEF AppendAudit, BeginWrite, dbVars
  <1>6. /\ t.entries \in Seq(AuditRow) /\ n \in Nat
        /\ Entry(t) \in AuditRow /\ Entry(t).op = t.op /\ Entry(t).prev = t.tail
        /\ Entry(t).hash[1] = t.number
    BY <1>2 DEF Shaped, Entry, AuditRow, Hashes
  <1>7. /\ t'.entries \in Seq(AuditRow) /\ Len(t'.entries) = n + 1 /\ t'.entries # <<>>
        /\ t'.entries[n + 1] = Entry(t)
        /\ \A k \in 1..n : t'.entries[k] = t.entries[k]
    <2> HIDE DEF t
    <2> QED BY <1>3, <1>6
  <1>8. t'.merges \in Seq(Incidents)
    <2>1. t.merges \in Seq(Incidents) /\ <<>> \in Seq(Incidents)
      BY <1>2 DEF Shaped
    <2> HIDE DEF t
    <2> QED BY <1>3, <2>1
  <1>9. t'.pc \in {"commit", "tail", "merge"} /\ (t'.pc = "merge" => t'.merges # <<>>)
        /\ (t'.merges # <<>> => t.op = "save") /\ (t.op = "audit" => t'.pc = "commit")
    BY <1>2, <1>3 DEF Asked
  <1>10. Shaped(t)' /\ Asked(t)'
    BY <1>1, <1>2, <1>4, <1>7, <1>8, <1>9 DEF Shaped, Asked, Points
  <1>11. Reading(t)' /\ Merging(t)'
    BY <1>1, <1>2, <1>4, <1>5 DEF Reading, Merging, Written
  <1>12. Placing(t)'
    BY <1>1, <1>2, <1>4 DEF Placing, Placed
  <1>13. Chaining(t)'
    <2>1. \A k \in 1..(n + 1) : t'.entries[k].op = t'.op /\ t'.entries[k].hash[1] = t'.number
      <3>1. \A k \in 1..n : t.entries[k].op = t.op /\ t.entries[k].hash[1] = t.number
        BY <1>2 DEF Chaining
      <3> HIDE DEF t, n
      <3> QED BY <1>4, <1>6, <1>7, <3>1
    <2>2. ASSUME driver = "postgres" \/ t.op # "audit"
          PROVE  \A k \in 1..(n + 1) :
                   t'.entries[k].prev = IF k = 1 THEN TailOf(log) ELSE t'.entries[k - 1].hash
      <3>1. /\ \A k \in 1..n :
                 t.entries[k].prev = IF k = 1 THEN TailOf(log) ELSE t.entries[k - 1].hash
            /\ t.tail = IF t.entries = <<>> THEN TailOf(log) ELSE TailOf(t.entries)
        BY <1>1, <1>2, <2>2 DEF Chaining
      <3>2. n = 0 <=> t.entries = <<>>
        BY <1>6
      <3>3. t.tail = IF n = 0 THEN TailOf(log) ELSE t.entries[n].hash
        BY <3>1, <3>2 DEF TailOf
      <3>4. SUFFICES ASSUME NEW k \in 1..(n + 1)
                     PROVE  t'.entries[k].prev
                              = IF k = 1 THEN TailOf(log) ELSE t'.entries[k - 1].hash
        OBVIOUS
      <3> HIDE DEF t, n
      <3>5. CASE k = n + 1
        BY <1>6, <1>7, <3>3, <3>5
      <3>6. CASE k # n + 1
        BY <1>6, <1>7, <3>1, <3>6
      <3> QED BY <3>5, <3>6
    <2> QED BY <1>4, <1>5, <1>7, <1>9, <2>1, <2>2 DEF Chaining
  <1>14. HoldingRows(c)'
    BY <1>1, <1>2, <1>4, <1>5, <1>7, <1>9 DEF HoldingRows
  <1>15. HoldingAudit(c)' /\ Writing(c)' /\ Free(c)'
    BY <1>1, <1>2, <1>4, <1>5, <1>7, <1>9 DEF HoldingAudit, Writing, Free
  <1> QED BY <1>10, <1>11, <1>12, <1>13, <1>14, <1>15 DEF Own

LEMMA OwnEnd ==
  ASSUME NEW c \in Clients, Globals, (Select(c) /\ Decided(tx[c])) \/ Commit(c) \/ TimeOut(c)
  PROVE  Own(c)'
  BY EndingSteps, Released DEF Own-------------------------------------------------------------------------------
(* What a commit writes.                                                   *)

\* The columns an operation writes: those it was asked for, and the others as it read them.
LEMMA WrittenColumns ==
  ASSUME NEW t
  PROVE  LET z == Written(t) IN
         /\ DOMAIN z = DOMAIN t.change \union (DOMAIN t.seen \ {"findings"})
         /\ \A f \in DOMAIN t.change : z[f] = t.change[f]
         /\ \A f \in DOMAIN t.seen \ {"findings"} : f \notin DOMAIN t.change => z[f] = t.seen[f]
  BY DEF Written, Over

\* An update leaves the findings and every triage column but the ones it was asked for.
LEMMA UpdateWritten ==
  ASSUME NEW t, t.op = "update", t.pc = "commit", Asked(t), Reading(t), NEW r, OfIncident(r)
  PROVE  LET w == Over(t.mine[t.item], r) IN
         /\ OfIncident(w) /\ w.findings = r.findings
         /\ w.status = IF "status" \in DOMAIN t.change THEN t.change.status ELSE t.seen.status
         /\ w.assignee = IF "assignee" \in DOMAIN t.change THEN t.change.assignee
                         ELSE t.seen.assignee
  <1> DEFINE z == Written(t)
             w == Over(z, r)
  <1>1. /\ DOMAIN t.change \subseteq {"status", "assignee"}
        /\ "status" \in DOMAIN t.change => t.change.status \in Statuses
        /\ "assignee" \in DOMAIN t.change => t.change.assignee \in Analysts
        /\ OfIncident(t.seen) /\ t.item \in Incidents
    BY DEF Asked, Reading
  <1>2. t.mine[t.item] = z
    BY <1>1, TriageAssumption DEF Reading, Items
  <1>3. DOMAIN t.seen \ {"findings"} = {"status", "assignee"}
    BY <1>1 DEF OfIncident, IncidentColumns
  <1>4. /\ DOMAIN z = {"status", "assignee"}
        /\ z["status"] = IF "status" \in DOMAIN t.change THEN t.change.status ELSE t.seen.status
        /\ z["assignee"] = IF "assignee" \in DOMAIN t.change THEN t.change.assignee
                           ELSE t.seen.assignee
    <2>1. /\ DOMAIN z = DOMAIN t.change \union (DOMAIN t.seen \ {"findings"})
          /\ \A f \in DOMAIN t.change : z[f] = t.change[f]
          /\ \A f \in DOMAIN t.seen \ {"findings"} : f \notin DOMAIN t.change => z[f] = t.seen[f]
      BY WrittenColumns
    <2> HIDE DEF z
    <2>2. DOMAIN t.change \subseteq {"status", "assignee"}
      BY <1>1
    <2>3. DOMAIN z = {"status", "assignee"}
      BY <1>3, <2>1, <2>2
    <2>4. z["status"] = IF "status" \in DOMAIN t.change THEN t.change["status"] ELSE t.seen["status"]
      BY <1>3, <2>1
    <2>5. z["assignee"] = IF "assignee" \in DOMAIN t.change THEN t.change["assignee"]
                          ELSE t.seen["assignee"]
      BY <1>3, <2>1
    <2> QED BY <2>3, <2>4, <2>5
  <1> HIDE DEF z
  <1>5. /\ DOMAIN w = DOMAIN z \union DOMAIN r
        /\ \A f \in DOMAIN z : w[f] = z[f]
        /\ \A f \in DOMAIN r \ DOMAIN z : w[f] = r[f]
    BY Overwritten
  <1> HIDE DEF w
  <1>6. DOMAIN w = IncidentColumns /\ w.findings = r.findings
    BY <1>4, <1>5 DEF OfIncident, IncidentColumns
  <1>7. w.status = z["status"] /\ w.assignee = z["assignee"]
    BY <1>4, <1>5
  <1>8. OfIncident(w)
    BY <1>1, <1>4, <1>6, <1>7 DEF OfIncident
  <1> QED BY <1>2, <1>4, <1>6, <1>7, <1>8 DEF w

LEMMA DecisionWritten ==
  ASSUME NEW t, t.op = "decide", t.pc = "commit", Asked(t), Reading(t), NEW r, OfProposal(r)
  PROVE  LET w == Over(t.mine[t.item], r) IN OfProposal(w) /\ w.status = t.change.status
  <1> DEFINE z == Written(t)
             w == Over(z, r)
  <1>1. /\ DOMAIN t.change = {"status"} /\ t.change.status \in {"approved", "rejected"}
        /\ OfProposal(t.seen) /\ t.item \in Proposals
    BY DEF Asked, Reading
  <1>2. t.mine[t.item] = z
    BY <1>1, TriageAssumption DEF Reading, Items
  <1>3. DOMAIN t.seen \ {"findings"} = {"status"}
    BY <1>1 DEF OfProposal
  <1>4. DOMAIN z = {"status"} /\ z["status"] = t.change.status
    BY <1>1, <1>3, WrittenColumns
  <1> HIDE DEF z
  <1>5. /\ DOMAIN w = DOMAIN z \union DOMAIN r
        /\ \A f \in DOMAIN z : w[f] = z[f]
    BY Overwritten
  <1> HIDE DEF w
  <1>6. DOMAIN w = {"status"} /\ w.status = t.change.status
    BY <1>4, <1>5 DEF OfProposal
  <1>7. OfProposal(w)
    BY <1>1, <1>6 DEF OfProposal
  <1> QED BY <1>2, <1>6, <1>7 DEF w

LEMMA MergeWritten ==
  ASSUME NEW m, DOMAIN m = {"findings"}, NEW r, OfIncident(r)
  PROVE  LET w == Over(m, r) IN
         /\ OfIncident(w) /\ w.findings = m.findings
         /\ w.status = r.status /\ w.assignee = r.assignee
  <1> DEFINE w == Over(m, r)
  <1>1. /\ DOMAIN w = DOMAIN m \union DOMAIN r
        /\ \A f \in DOMAIN m : w[f] = m[f]
        /\ \A f \in DOMAIN r \ DOMAIN m : w[f] = r[f]
    BY Overwritten
  <1> HIDE DEF w
  <1>2. DOMAIN r = {"status", "assignee", "findings"}
    BY DEF OfIncident, IncidentColumns
  <1>3. /\ DOMAIN w = {"status", "assignee", "findings"} /\ w.findings = m.findings
        /\ w.status = r.status /\ w.assignee = r.assignee
    BY <1>1, <1>2
  <1> QED BY <1>3 DEF w, OfIncident, IncidentColumns

\* Two incidents, or two proposals, agree on their triage columns.
LEMMA SameTriage ==
  ASSUME NEW r, NEW w, DOMAIN w = DOMAIN r
  PROVE  /\ DOMAIN r = IncidentColumns =>
              (Triage(r) = Triage(w) <=> r.status = w.status /\ r.assignee = w.assignee)
         /\ DOMAIN r = {"status"} => (Triage(r) = Triage(w) <=> r.status = w.status)
  <1>1. DOMAIN Triage(r) = DOMAIN r \ {"findings"} /\ DOMAIN Triage(w) = DOMAIN r \ {"findings"}
        /\ \A f \in DOMAIN r \ {"findings"} : Triage(r)[f] = r[f] /\ Triage(w)[f] = w[f]
    BY DEF Triage
  <1>2. (\A f \in DOMAIN r \ {"findings"} : r[f] = w[f]) => Triage(r) = Triage(w)
    BY DEF Triage
  <1>3. Triage(r) = Triage(w) => \A f \in DOMAIN r \ {"findings"} : r[f] = w[f]
    BY <1>1
  <1>4. ASSUME DOMAIN r = IncidentColumns
        PROVE  Triage(r) = Triage(w) <=> r.status = w.status /\ r.assignee = w.assignee
    BY <1>2, <1>3, <1>4 DEF IncidentColumns
  <1>5. ASSUME DOMAIN r = {"status"}
        PROVE  Triage(r) = Triage(w) <=> r.status = w.status
    BY <1>2, <1>3, <1>5
  <1> QED BY <1>4, <1>5
\* Who commits, and what becomes of each row and of what was asked of it.
LEMMA CommitRows ==
  ASSUME NEW c \in Clients, Globals, Tables, Own(c), Commit(c)
  PROVE  /\ DOMAIN tx[c].mine \subseteq Items /\ DOMAIN row' = Items
         /\ \A x \in Items \ DOMAIN tx[c].mine : row'[x] = row[x]
         /\ \A i \in Incidents :
              /\ OfIncident(row'[i])
              /\ row[i].findings \subseteq row'[i].findings
              /\ row[i].findings # row'[i].findings => row[i].status \in Mergeable
              /\ tx[c].item = None /\ i \in DOMAIN tx[c].mine =>
                   /\ row'[i].findings = tx[c].mine[i].findings
                   /\ row'[i].status = row[i].status /\ row'[i].assignee = row[i].assignee
              /\ tx[c].item = i =>
                   LET t == tx[c] IN
                   /\ row'[i].status = IF "status" \in DOMAIN t.change THEN t.change.status
                                       ELSE t.seen.status
                   /\ row'[i].assignee = IF "assignee" \in DOMAIN t.change THEN t.change.assignee
                                         ELSE t.seen.assignee
         /\ \A p \in Proposals :
              /\ OfProposal(row'[p])
              /\ tx[c].item = p => row'[p].status = tx[c].change.status
              /\ driver = "postgres" /\ row[p].status # "pending" => row'[p] = row[p]
  <1> DEFINE t == tx[c]
  <1>1. t.pc = "commit" /\ t.pc # "idle"
    BY DEF Commit
  <1>2. Asked(t) /\ Reading(t) /\ Merging(t) /\ HoldingRows(c) /\ Shaped(t)
    BY <1>1 DEF Own
  <1>3. \/ t.op = "update" /\ t.item \in Incidents /\ DOMAIN t.mine = {t.item}
        \/ t.op = "decide" /\ t.item \in Proposals /\ DOMAIN t.mine = {t.item}
        \/ t.item = None /\ DOMAIN t.mine \subseteq Incidents
    BY <1>1, <1>2, TriageAssumption DEF Asked, Reading, Merging, Items
  <1>4. /\ DOMAIN t.mine \subseteq Items /\ DOMAIN row = Items
        /\ Incidents \intersect Proposals = {} /\ None \notin Items
    BY <1>3, TriageAssumption DEF Items, Tables
  <1>5. /\ DOMAIN row' = Items
        /\ \A x \in Items :
             row'[x] = IF x \in DOMAIN t.mine THEN Over(t.mine[x], row[x]) ELSE row[x]
    BY <1>4, CommitEffect
  <1>6. /\ \A i \in Incidents : OfIncident(row[i]) /\ i \in Items
        /\ \A p \in Proposals : OfProposal(row[p]) /\ p \in Items
    BY DEF Tables, Items
  <1>7. CASE t.op = "update" /\ t.item \in Incidents /\ DOMAIN t.mine = {t.item}
    <2> DEFINE i == t.item
    <2>1. row'[i] = Over(t.mine[i], row[i]) /\ OfIncident(row[i])
      BY <1>5, <1>6, <1>7
    <2>2. /\ OfIncident(row'[i]) /\ row'[i].findings = row[i].findings
          /\ row'[i].status = IF "status" \in DOMAIN t.change THEN t.change.status ELSE t.seen.status
          /\ row'[i].assignee = IF "assignee" \in DOMAIN t.change THEN t.change.assignee
                                ELSE t.seen.assignee
      BY <1>1, <1>2, <1>7, <2>1, UpdateWritten
    <2>3. \A x \in Items : x # i => row'[x] = row[x]
      BY <1>5, <1>7
    <2>4. \A p \in Proposals : p # i
      BY <1>4, <1>7
    <2> HIDE DEF t
    <2> QED BY <1>4, <1>5, <1>6, <1>7, <2>2, <2>3, <2>4 DEF t
  <1>8. CASE t.op = "decide" /\ t.item \in Proposals /\ DOMAIN t.mine = {t.item}
    <2> DEFINE p == t.item
    <2>1. row'[p] = Over(t.mine[p], row[p]) /\ OfProposal(row[p])
      BY <1>5, <1>6, <1>8
    <2>2. OfProposal(row'[p]) /\ row'[p].status = t.change.status
      BY <1>1, <1>2, <1>8, <2>1, DecisionWritten
    <2>3. \A x \in Items : x # p => row'[x] = row[x]
      BY <1>5, <1>8
    <2>4. \A i \in Incidents : i # p
      BY <1>4, <1>8
    <2>5. driver = "postgres" => row[p].status = "pending"
      BY <1>1, <1>2, <1>8 DEF HoldingRows
    <2> HIDE DEF t
    <2> QED BY <1>4, <1>5, <1>6, <1>8, <2>2, <2>3, <2>4, <2>5 DEF t
  <1>9. CASE t.item = None /\ DOMAIN t.mine \subseteq Incidents
    <2>1. \A i \in DOMAIN t.mine :
            /\ OfIncident(row'[i]) /\ row'[i].findings = t.mine[i].findings
            /\ row'[i].status = row[i].status /\ row'[i].assignee = row[i].assignee
            /\ row[i].findings \subseteq t.mine[i].findings /\ row[i].status \in Mergeable
      <3>1. SUFFICES ASSUME NEW i \in DOMAIN t.mine
                     PROVE  /\ OfIncident(row'[i]) /\ row'[i].findings = t.mine[i].findings
                            /\ row'[i].status = row[i].status /\ row'[i].assignee = row[i].assignee
                            /\ row[i].findings \subseteq t.mine[i].findings
                            /\ row[i].status \in Mergeable
        OBVIOUS
      <3>2. /\ DOMAIN t.mine[i] = {"findings"} /\ row[i].findings \subseteq t.mine[i].findings
            /\ row[i].status \in Mergeable
        BY <1>2, <1>9 DEF Merging
      <3>3. row'[i] = Over(t.mine[i], row[i]) /\ OfIncident(row[i])
        BY <1>5, <1>6, <1>9
      <3> QED BY <3>2, <3>3, MergeWritten
    <2>2. \A x \in Items : x \notin DOMAIN t.mine => row'[x] = row[x]
      BY <1>5
    <2>3. \A p \in Proposals : p \notin DOMAIN t.mine /\ t.item # p
      BY <1>4, <1>6, <1>9
    <2>4. \A i \in Incidents : t.item # i
      BY <1>4, <1>6, <1>9
    <2> HIDE DEF t
    <2> QED BY <1>4, <1>5, <1>6, <1>9, <2>1, <2>2, <2>3, <2>4 DEF t
  <1> QED BY <1>3, <1>7, <1>8, <1>9
\* Two-phase locking: nothing that another transaction wrote, selected or is
\* chaining its audit to is touched by a commit.
LEMMA CommitExcludes ==
  ASSUME NEW c \in Clients, NEW d \in Clients \ {c}, Globals, Own(c), Own(d), Commit(c),
         tx[d].pc # "idle"
  PROVE  LET t == tx[d] IN
         /\ \A x \in DOMAIN t.mine : x \notin DOMAIN tx[c].mine
         /\ driver = "postgres" /\ t.item # None /\ t.pc # "read" => t.item \notin DOMAIN tx[c].mine
         /\ (driver = "postgres" \/ t.op # "audit") /\ (t.pc = "append" \/ t.entries # <<>>) =>
              tx[c].entries = <<>>
         /\ DOMAIN t.mine \subseteq Items /\ (t.item # None => t.item \in Items)
  <1> DEFINE t == tx[d]
  <1>1. tx[c].pc = "commit" /\ tx[c].pc # "idle" /\ driver \in {"sqlite", "postgres"}
    BY TriageAssumption DEF Commit, Globals
  <1>2. /\ HoldingRows(c) /\ HoldingAudit(c) /\ Writing(c)
        /\ HoldingRows(d) /\ HoldingAudit(d) /\ Writing(d)
        /\ Asked(t) /\ Reading(t) /\ Merging(t) /\ Shaped(t)
    BY <1>1 DEF Own
  <1>3. DOMAIN t.mine \subseteq Items /\ (t.item # None => t.item \in Items)
    BY <1>2, TriageAssumption DEF Asked, Reading, Merging, Shaped, Items, Points
  <1>4. CASE driver = "postgres"
    BY <1>1, <1>2, <1>3, <1>4 DEF HoldingRows, HoldingAudit
  <1>5. CASE driver = "sqlite"
    <2>1. writer = c
      BY <1>1, <1>2, <1>5 DEF Writing
    <2>2. t.pc \notin {"merge", "commit"} /\ (t.op # "audit" => t.pc \notin {"tail", "append"})
      BY <1>2, <1>5, <2>1 DEF Writing
    <2>3. t.pc \in {"read", "write"} \/ t.op = "audit"
      BY <1>2, <2>2 DEF Shaped, Points
    <2>4. DOMAIN t.mine = {}
      BY <1>2, <2>3 DEF Asked, Merging
    <2>5. t.op # "audit" => t.pc # "append" /\ t.entries = <<>>
      BY <1>2, <2>2, <2>3 DEF Asked
    <2> QED BY <1>3, <1>5, <2>4, <2>5
  <1> QED BY <1>1, <1>4, <1>5

LEMMA OwnOthersCommit ==
  ASSUME NEW c \in Clients, NEW d \in Clients \ {c}, Globals, Tables, Own(c), Own(d), Commit(c)
  PROVE  Own(d)'
  <1> DEFINE t == tx[d]
  <1>1. Undisturbed(d)
    BY OthersUndisturbed DEF Step, Statement
  <1>2. driver' = driver /\ t' = t
    BY <1>1 DEF Undisturbed
  <1>3. Free(d)'
    BY <1>1 DEF Own, Free, Undisturbed
  <1>4. ASSUME t.pc # "idle"
        PROVE  /\ Shaped(t)' /\ Asked(t)' /\ Reading(t)'
               /\ Merging(t)' /\ Placing(t)' /\ Chaining(t)'
               /\ HoldingRows(d)' /\ HoldingAudit(d)' /\ Writing(d)'
    <2>1. /\ \A x \in DOMAIN t.mine : x \notin DOMAIN tx[c].mine
          /\ driver = "postgres" /\ t.item # None /\ t.pc # "read" => t.item \notin DOMAIN tx[c].mine
          /\ (driver = "postgres" \/ t.op # "audit") /\ (t.pc = "append" \/ t.entries # <<>>) =>
               tx[c].entries = <<>>
          /\ DOMAIN t.mine \subseteq Items /\ (t.item # None => t.item \in Items)
      BY <1>4, CommitExcludes
    <2>2. \A x \in Items \ DOMAIN tx[c].mine : row'[x] = row[x]
      BY CommitRows
    <2>3. /\ Shaped(t) /\ Asked(t) /\ Reading(t) /\ Merging(t) /\ Placing(t) /\ Chaining(t)
          /\ HoldingRows(d) /\ HoldingAudit(d) /\ Writing(d)
      BY <1>4 DEF Own
    <2>4. Shaped(t)' /\ Asked(t)' /\ Reading(t)'
      BY <1>2, <2>3 DEF Shaped, Asked, Reading, OfIncident, OfProposal, Written
    <2>5. Merging(t)' /\ Placing(t)'
      <3>1. \A x \in DOMAIN t.mine : row'[x] = row[x]
        BY <2>1, <2>2
      <3> QED BY <1>2, <2>3, <3>1 DEF Merging, Placing, Placed
    <2>6. Chaining(t)'
      <3>1. log' = log \o tx[c].entries /\ log \in Seq(AuditRow)
        BY DEF Commit, Tables
      <3>2. tx[c].entries = <<>> => log' = log
        BY <3>1
      <3>3. t.entries = <<>> => Len(t.entries) = 0
        OBVIOUS
      <3> QED BY <1>2, <2>1, <2>3, <3>2, <3>3 DEF Chaining, TailOf
    <2>7. HoldingRows(d)'
      <3>1. /\ \A x \in DOMAIN t.mine : rowLock'[x] = d <=> rowLock[x] = d
            /\ \A x \in Items : rowLock'[x] = d <=> rowLock[x] = d
            /\ t.item # None => (rowLock'[t.item] = d <=> rowLock[t.item] = d)
        BY <1>1, <2>1 DEF Undisturbed
      <3>2. driver = "postgres" /\ t.item # None /\ t.pc # "read" => row'[t.item] = row[t.item]
        BY <2>1, <2>2
      <3>3. t.op = "decide" => t.item # None
        BY <2>3, TriageAssumption DEF Asked, Items
      <3> QED BY <1>2, <2>3, <3>1, <3>2, <3>3 DEF HoldingRows
    <2>8. HoldingAudit(d)' /\ Writing(d)'
      BY <1>1, <1>2, <2>3 DEF HoldingAudit, Writing, Undisturbed
    <2> QED BY <2>4, <2>5, <2>6, <2>7, <2>8
  <1> QED BY <1>2, <1>3, <1>4 DEF Own

LEMMA TablesCommit ==
  ASSUME NEW c \in Clients, Globals, Tables, Own(c), Commit(c)
  PROVE  Tables'
  <1> DEFINE t == tx[c]
  <1>1. t.pc = "commit" /\ t.pc # "idle"
    BY DEF Commit
  <1>2. Asked(t) /\ Shaped(t)
    BY <1>1 DEF Own
  <1>3. /\ DOMAIN row' = Items
        /\ \A i \in Incidents : OfIncident(row'[i])
        /\ \A p \in Proposals : OfProposal(row'[p])
    BY CommitRows
  <1>4. log' \in Seq(AuditRow)
    <2>1. log' = log \o t.entries /\ log \in Seq(AuditRow) /\ t.entries \in Seq(AuditRow)
      BY <1>2 DEF Commit, Tables, Shaped
    <2> HIDE DEF t
    <2> QED BY <2>1
  <1>5. /\ DOMAIN wanted' = Items
        /\ \A i \in Incidents : DOMAIN wanted'[i] = IncidentColumns
        /\ \A p \in Proposals : DOMAIN wanted'[p] = {"status"}
    <2>1. /\ DOMAIN wanted = Items
          /\ \A i \in Incidents : i \in Items /\ DOMAIN wanted[i] = IncidentColumns
          /\ \A p \in Proposals : p \in Items /\ DOMAIN wanted[p] = {"status"}
      BY DEF Tables, Items
    <2>2. CASE t.item = None
      BY <2>1, <2>2 DEF Commit
    <2>3. CASE t.item # None
      <3>1. wanted' = [wanted EXCEPT ![t.item] = Over(t.change, wanted[t.item])]
        BY <2>3 DEF Commit
      <3>2. DOMAIN Over(t.change, wanted[t.item]) = DOMAIN t.change \union DOMAIN wanted[t.item]
        BY DEF Over
      <3>3. \/ t.item \in Incidents /\ DOMAIN t.change \subseteq {"status", "assignee"}
            \/ t.item \in Proposals /\ DOMAIN t.change = {"status"}
        BY <1>2, <2>3 DEF Asked
      <3>4. DOMAIN Over(t.change, wanted[t.item]) = DOMAIN wanted[t.item]
        BY <2>1, <3>2, <3>3 DEF IncidentColumns
      <3> QED BY <2>1, <3>1, <3>4
    <2> QED BY <2>2, <2>3
  <1> QED BY <1>3, <1>4, <1>5 DEF Tables
LEMMA AuditCommit ==
  ASSUME NEW c \in Clients, Globals, Tables, AuditChained, Own(c), Commit(c)
  PROVE  AuditChained'
  <1> DEFINE t == tx[c]
             e == t.entries
             n == Len(log)
  <1>1. t.pc # "idle"
    BY DEF Commit
  <1>2. Chaining(t) /\ log \in Seq(AuditRow) /\ e \in Seq(AuditRow) /\ log' = log \o e
        /\ driver' = driver
    BY <1>1 DEF Own, Shaped, Tables, Commit
  <1>3. /\ \A k \in 1..Len(e) : e[k].op = t.op
        /\ driver = "postgres" \/ t.op # "audit" =>
             \A k \in 1..Len(e) : e[k].prev = IF k = 1 THEN TailOf(log) ELSE e[k - 1].hash
    BY <1>2 DEF Chaining
  <1> HIDE DEF t, e
  <1>4. /\ n \in Nat /\ Len(e) \in Nat /\ Len(log') = n + Len(e)
        /\ \A k \in 1..n : log'[k] = log[k]
        /\ \A k \in 1..Len(e) : log'[n + k] = e[k]
    BY <1>2
  <1>5. TailOf(log) = IF n = 0 THEN <<>> ELSE log[n].hash
    BY <1>2 DEF TailOf
  <1>6. SUFFICES ASSUME NEW k \in 1..Len(log'), driver = "postgres" \/ log'[k].op # "audit"
                 PROVE  log'[k].prev = IF k = 1 THEN <<>> ELSE log'[k - 1].hash
    BY <1>2 DEF AuditChained, Linked
  <1>7. CASE k <= n
    BY <1>4, <1>6, <1>7 DEF AuditChained, Linked
  <1>8. CASE k > n
    <2> DEFINE j == k - n
    <2>1. j \in 1..Len(e) /\ k = n + j
      BY <1>4, <1>8
    <2> HIDE DEF j, n
    <2>2. log'[k] = e[j]
      BY <1>4, <2>1
    <2>3. e[j].prev = IF j = 1 THEN TailOf(log) ELSE e[j - 1].hash
      BY <1>3, <1>6, <2>1, <2>2
    <2>4. CASE j = 1
      BY <1>4, <1>5, <2>1, <2>2, <2>3, <2>4
    <2>5. CASE j # 1
      <3>1. j - 1 \in 1..Len(e) /\ k - 1 = n + (j - 1) /\ k # 1
        <4>1. n \in Nat /\ Len(e) \in Nat /\ j \in Int /\ j > 1 /\ j <= Len(e)
          BY <1>4, <2>1, <2>5
        <4> QED BY <2>1, <4>1
      <3>2. log'[k - 1] = e[j - 1]
        BY <1>4, <3>1
      <3> QED BY <2>2, <2>3, <2>5, <3>1, <3>2
    <2> QED BY <2>4, <2>5
  <1> QED BY <1>4, <1>7, <1>8

LEMMA UpdatesCommit ==
  ASSUME NEW c \in Clients, Globals, Tables, NoUpdateLost, Own(c), Commit(c)
  PROVE  NoUpdateLost'
  <1> DEFINE t == tx[c]
  <1>1. t.pc = "commit" /\ t.pc # "idle" /\ driver' = driver
    BY DEF Commit
  <1>2. Asked(t) /\ HoldingRows(c) /\ Merging(t) /\ Shaped(t) /\ Reading(t)
    BY <1>1 DEF Own
  <1>3. SUFFICES ASSUME driver = "postgres", NEW x \in Items
                 PROVE  Triage(row'[x]) = Triage(wanted'[x])
    BY <1>1 DEF NoUpdateLost
  <1>4. Triage(row[x]) = Triage(wanted[x])
    BY <1>3 DEF NoUpdateLost
  <1>5. Tables'
    BY TablesCommit
  <1>6. /\ x \in Incidents \/ x \in Proposals
        /\ x \in Incidents => /\ DOMAIN row[x] = IncidentColumns /\ DOMAIN wanted[x] = IncidentColumns
                              /\ DOMAIN row'[x] = IncidentColumns /\ DOMAIN wanted'[x] = IncidentColumns
        /\ x \in Proposals => /\ DOMAIN row[x] = {"status"} /\ DOMAIN wanted[x] = {"status"}
                              /\ DOMAIN row'[x] = {"status"} /\ DOMAIN wanted'[x] = {"status"}
    BY <1>5 DEF Items, Tables, OfIncident, OfProposal
  <1>7. /\ x \in Incidents => row[x].status = wanted[x].status /\ row[x].assignee = wanted[x].assignee
        /\ x \in Proposals => row[x].status = wanted[x].status
    BY <1>4, <1>6, SameTriage
  <1>8. SUFFICES
          /\ x \in Incidents => row'[x].status = wanted'[x].status /\ row'[x].assignee = wanted'[x].assignee
          /\ x \in Proposals => row'[x].status = wanted'[x].status
    BY <1>6, SameTriage
  <1>9. CASE t.item = x
    <2>1. t.item # None /\ t.seen = row[x]
      BY <1>1, <1>2, <1>3, <1>9, TriageAssumption DEF HoldingRows
    <2>2. wanted' = [wanted EXCEPT ![x] = Over(t.change, wanted[x])] /\ DOMAIN wanted = Items
      BY <1>9, <2>1 DEF Commit, Tables
    <2>3. wanted'[x] = Over(t.change, wanted[x])
      BY <2>2
    <2>4. /\ \A f \in DOMAIN t.change : wanted'[x][f] = t.change[f]
          /\ \A f \in DOMAIN wanted[x] \ DOMAIN t.change : wanted'[x][f] = wanted[x][f]
      BY <2>3 DEF Over
    <2>5. CASE x \in Incidents
      <3>1. /\ row'[x].status = IF "status" \in DOMAIN t.change THEN t.change.status ELSE t.seen.status
            /\ row'[x].assignee = IF "assignee" \in DOMAIN t.change THEN t.change.assignee
                                  ELSE t.seen.assignee
        BY <1>9, <2>5, CommitRows
      <3>2. x \notin Proposals
        BY <2>5, TriageAssumption
      <3>3. {"status", "assignee"} \subseteq DOMAIN wanted[x]
        BY <1>6, <2>5 DEF IncidentColumns
      <3> HIDE DEF t
      <3>4. /\ wanted'[x]["status"] = IF "status" \in DOMAIN t.change THEN t.change["status"]
                                      ELSE wanted[x]["status"]
            /\ wanted'[x]["assignee"] = IF "assignee" \in DOMAIN t.change THEN t.change["assignee"]
                                        ELSE wanted[x]["assignee"]
        BY <2>4, <3>3
      <3> QED BY <1>7, <2>1, <2>5, <3>1, <3>2, <3>4
    <2>6. CASE x \in Proposals
      <3>1. row'[x].status = t.change.status /\ x \notin Incidents
        BY <1>9, <2>6, CommitRows, TriageAssumption
      <3>2. "status" \in DOMAIN t.change
        BY <1>2, <1>9, <2>1, <2>6, TriageAssumption DEF Asked
      <3>3. wanted'[x]["status"] = t.change["status"]
        BY <2>4, <3>2
      <3> QED BY <3>1, <3>3
    <2> QED BY <1>6, <2>5, <2>6
  <1>10. CASE t.item # x
    <2>1. wanted'[x] = wanted[x]
      BY <1>10 DEF Commit, Tables
    <2>2. CASE x \in DOMAIN t.mine
      <3>1. t.item = None
        BY <1>1, <1>2, <1>10, <2>2 DEF Reading
      <3>2. x \in Incidents /\ x \notin Proposals
        BY <1>2, <2>2, <3>1, TriageAssumption DEF Merging
      <3>3. row'[x].status = row[x].status /\ row'[x].assignee = row[x].assignee
        BY <2>2, <3>1, <3>2, CommitRows
      <3> QED BY <1>7, <2>1, <3>2, <3>3
    <2>3. CASE x \notin DOMAIN t.mine
      <3>1. row'[x] = row[x]
        BY <2>3, CommitRows
      <3> QED BY <1>7, <2>1, <3>1
    <2> QED BY <2>2, <2>3
  <1> QED BY <1>9, <1>10
LEMMA FindingsCommit ==
  ASSUME NEW c \in Clients, Globals, Tables, NoFindingLost, Own(c), Commit(c)
  PROVE  NoFindingLost'
  <1> DEFINE t == tx[c]
             e == t.entries
             n == Len(log)
  <1>1. t.pc = "commit" /\ t.pc # "idle"
    BY DEF Commit
  <1>2. /\ Chaining(t) /\ Merging(t) /\ Placing(t) /\ Asked(t)
        /\ log \in Seq(AuditRow) /\ e \in Seq(AuditRow) /\ log' = log \o e
        /\ opened' = opened \union t.own
    BY <1>1 DEF Own, Shaped, Tables, Commit
  <1>3. \A k \in 1..Len(e) : e[k].op = t.op /\ e[k].hash[1] = t.number
    BY <1>2 DEF Chaining
  <1>4. Merged \subseteq Merged'
    BY CommitRows DEF Merged
  <1>5. t.op = "save" => \E finding \in Merged' \union opened' : finding[1] = t.number
    <2>1. SUFFICES ASSUME t.op = "save"
                   PROVE  \E finding \in Merged' \union opened' : finding[1] = t.number
      OBVIOUS
    <2>2. Placed(t) /\ t.item = None
      BY <1>1, <1>2, <2>1 DEF Placing, Asked
    <2>3. CASE \E finding \in t.own : finding[1] = t.number
      BY <1>2, <2>3
    <2>4. ASSUME NEW i \in DOMAIN t.mine, NEW finding \in t.mine[i].findings,
                 finding[1] = t.number
          PROVE  \E f \in Merged' : f[1] = t.number
      <3>1. i \in Incidents
        BY <1>2, <2>2 DEF Merging
      <3>2. row'[i].findings = t.mine[i].findings
        BY <2>2, <2>4, <3>1, CommitRows
      <3>3. finding \in Merged'
        BY <2>4, <3>1, <3>2 DEF Merged
      <3> QED BY <2>4, <3>3
    <2> QED BY <2>2, <2>3, <2>4 DEF Placed
  <1>6. SUFFICES ASSUME NEW k \in 1..Len(log'), log'[k].op = "save"
                 PROVE  \E finding \in Merged' \union opened' : finding[1] = log'[k].hash[1]
    BY DEF NoFindingLost, SavedFindings
  <1>7. opened \subseteq opened'
    BY <1>2
  <1> HIDE DEF t, e
  <1>8. /\ n \in Nat /\ Len(e) \in Nat /\ Len(log') = n + Len(e)
        /\ \A j \in 1..n : log'[j] = log[j]
        /\ \A j \in 1..Len(e) : log'[n + j] = e[j]
    BY <1>2
  <1>9. CASE k <= n
    <2>1. k \in 1..n /\ log[k] = log'[k]
      BY <1>8, <1>9
    <2>2. log'[k].hash[1] \in SavedFindings
      BY <1>6, <2>1 DEF SavedFindings
    <2> QED BY <1>4, <1>7, <2>2 DEF NoFindingLost
  <1>10. CASE k > n
    <2>1. k - n \in 1..Len(e) /\ k = n + (k - n)
      BY <1>8, <1>10
    <2>2. log'[k] = e[k - n]
      BY <1>8, <2>1
    <2> QED BY <1>3, <1>5, <1>6, <2>1, <2>2
  <1> QED BY <1>8, <1>9, <1>10
-------------------------------------------------------------------------------
(* The invariant is inductive.                                             *)

LEMMA TriageInit ==
  ASSUME Init
  PROVE  TriageInv
  <1> USE TriageAssumption DEF Init
  <1>1. Tables
    <2>1. \A i \in Incidents : i \in Items
            /\ row[i] = [status |-> "open", assignee |-> None, findings |-> {}]
      BY DEF Items
    <2>2. \A p \in Proposals : p \in Items /\ row[p] = [status |-> "pending"]
      BY DEF Items
    <2>3. \A i \in Incidents : OfIncident(row[i])
      BY <2>1 DEF OfIncident, IncidentColumns, Statuses, Mergeable
    <2>4. \A p \in Proposals : OfProposal(row[p])
      BY <2>2 DEF OfProposal
    <2>5. DOMAIN row = Items /\ wanted = row /\ log = <<>> /\ <<>> \in Seq(AuditRow)
      OBVIOUS
    <2> QED BY <2>3, <2>4, <2>5 DEF Tables, OfIncident, OfProposal
  <1>2. Globals
    BY DEF Globals
  <1>3. \A c \in Clients : Own(c)
    BY DEF Own, Free, Idle
  <1>4. AuditChained /\ NoUpdateLost /\ NoFindingLost
    <2>1. Len(log) = 0
      OBVIOUS
    <2> QED BY <2>1 DEF AuditChained, NoUpdateLost, NoFindingLost, SavedFindings
  <1> QED BY <1>1, <1>2, <1>3, <1>4 DEF TriageInv

LEMMA TriageStep ==
  ASSUME TriageInv, [Next]_vars
  PROVE  TriageInv'
  <1> USE DEF TriageInv
  <1>0. ASSUME UNCHANGED dbVars, driver' = driver
        PROVE  Tables' /\ AuditChained' /\ NoUpdateLost' /\ NoFindingLost'
    <2>1. Tables'
      BY <1>0 DEF dbVars, Tables, OfIncident, OfProposal
    <2>2. AuditChained'
      BY <1>0 DEF dbVars, AuditChained, Linked
    <2>3. NoUpdateLost' /\ NoFindingLost'
      BY <1>0 DEF dbVars, NoUpdateLost, NoFindingLost, SavedFindings, Merged, Triage
    <2> QED BY <2>1, <2>2, <2>3
  <1>1. CASE UNCHANGED vars
    <2>1. UNCHANGED dbVars /\ driver' = driver /\ Globals'
      BY <1>1 DEF vars, lockVars, Globals
    <2>2. ASSUME NEW d \in Clients PROVE Own(d)'
      <3>1. Undisturbed(d)
        BY <1>1 DEF vars, lockVars, Undisturbed
      <3> QED BY <2>1, <3>1, OwnUndisturbed
    <2> QED BY <1>0, <2>1, <2>2
  <1>2. ASSUME NEW c \in Clients, Step(c)
        PROVE  TriageInv'
    <2>1. Globals'
      BY <1>2, GlobalsKept
    <2>2. CASE Commit(c)
      <3>1. Tables' /\ AuditChained' /\ NoUpdateLost' /\ NoFindingLost'
        BY <2>2, TablesCommit, AuditCommit, UpdatesCommit, FindingsCommit
      <3>2. ASSUME NEW d \in Clients PROVE Own(d)'
        BY <2>2, OwnEnd, OwnOthersCommit
      <3> QED BY <2>1, <3>1, <3>2
    <2>3. CASE ~Commit(c)
      <3>1. UNCHANGED dbVars /\ driver' = driver
        BY <1>2, <2>3, StepKinds, BeginEffect, RunningSteps, EndingSteps
      <3>2. Tables' /\ AuditChained' /\ NoUpdateLost' /\ NoFindingLost'
        BY <1>0, <3>1
      <3>3. Own(c)'
        <4>1. Own(c) /\ Globals /\ Tables
          OBVIOUS
        <4> QED BY <1>2, <2>3, <4>1, StepKinds, OwnBegin, OwnSelect, OwnWrite, OwnMerge,
                 OwnReadTail, OwnAppend, OwnEnd
      <3>4. ASSUME NEW d \in Clients \ {c} PROVE Own(d)'
        BY <1>2, <3>1, OthersUndisturbed, OwnUndisturbed
      <3> QED BY <2>1, <3>2, <3>3, <3>4
    <2> QED BY <2>2, <2>3
  <1> QED BY <1>1, <1>2 DEF Next, Step

LEMMA TriageInvariant == Spec => []TriageInv
  BY TriageInit, TriageStep, PTL DEF Spec-------------------------------------------------------------------------------
(* The theorems.                                                           *)

\* The columns and the locks take their values, and a client between operations
\* holds no lock, whatever became of its last one.
THEOREM TriageTyped == Spec => []TypeOK
  <1>1. TriageInv => TypeOK
    <2>1. SUFFICES ASSUME TriageInv PROVE TypeOK
      OBVIOUS
    <2>2. ASSUME NEW c \in Clients
          PROVE  /\ tx[c].pc \in {"idle", "read", "write", "merge", "tail", "append", "commit"}
                 /\ tx[c].pc = "idle" =>
                      c \notin {auditLock, writer} \union {rowLock[x] : x \in Items}
      BY <2>1 DEF TriageInv, Own, Shaped, Points, Free
    <2> QED BY <2>1, <2>2 DEF TriageInv, Tables, Globals, TypeOK, OfIncident, OfProposal, Busy
  <1> QED BY <1>1, TriageInvariant, PTL

\* On PostgreSQL every row of the audit log links to the one before it, and on
\* SQLite every row of an operation that wrote before its audit.
THEOREM AuditLinked == Spec => []AuditChained
  <1>1. TriageInv => AuditChained
    BY DEF TriageInv
  <1> QED BY <1>1, TriageInvariant, PTL

\* On PostgreSQL no analyst's change is undone by another's, or by a merge.
THEOREM UpdatesKept == Spec => []NoUpdateLost
  <1>1. TriageInv => NoUpdateLost
    BY DEF TriageInv
  <1> QED BY <1>1, TriageInvariant, PTL

\* Every finding of a result that was committed is in an incident.
THEOREM FindingsKept == Spec => []NoFindingLost
  <1>1. TriageInv => NoFindingLost
    BY DEF TriageInv
  <1> QED BY <1>1, TriageInvariant, PTL

\* Who is blocked by PostgreSQL waits for a row as it reads or merges, or for the
\* audit lock before it has it.
LEMMA BlockedWaits ==
  ASSUME TriageInv, NEW c \in Clients, Blocked(c)
  PROVE  /\ tx[c].pc # "idle" /\ Holder(c) \in Clients \ {c}
         /\ tx[Holder(c)].pc # "idle"
         /\ driver = "sqlite" => Holder(c) = writer
         /\ driver = "postgres" =>
              \/ tx[c].pc \in {"read", "merge"} /\ \E x \in Items : rowLock[x] = Holder(c)
              \/ tx[c].pc = "tail" /\ tx[c].entries = <<>> /\ auditLock = Holder(c)
  <1> DEFINE t == tx[c]
  <1>1. /\ t.pc # "idle" /\ driver \in {"sqlite", "postgres"} /\ None \notin Clients
        /\ Shaped(t) /\ Asked(t) /\ HoldingAudit(c)
        /\ auditLock \in Clients \union {None} /\ writer \in Clients \union {None}
        /\ \A x \in Items : rowLock[x] \in Clients \union {None}
    BY TriageAssumption DEF TriageInv, Own, Globals, Blocked
  <1>2. \A d \in Clients : tx[d].pc = "idle" =>
          auditLock # d /\ writer # d /\ \A x \in Items : rowLock[x] # d
    BY DEF TriageInv, Own, Free
  <1>3. CASE driver = "sqlite"
    <2>1. Holder(c) = writer /\ writer \notin {None, c}
      BY <1>1, <1>3 DEF Blocked, RowGranted, AuditGranted, WriteGranted, Holder
    <2> QED BY <1>1, <1>2, <1>3, <2>1
  <1>4. CASE driver = "postgres"
    <2>1. \/ t.pc = "read" /\ rowLock[t.item] \notin {None, c} /\ Holder(c) = rowLock[t.item]
             /\ t.item \in Items
          \/ t.pc = "merge" /\ rowLock[Head(t.merges)] \notin {None, c}
             /\ Holder(c) = rowLock[Head(t.merges)] /\ Head(t.merges) \in Items
          \/ t.pc = "tail" /\ auditLock \notin {None, c} /\ Holder(c) = auditLock
      <3>1. t.pc = "read" => t.item \in Items
        BY <1>1 DEF Asked, Items
      <3>2. t.pc = "merge" => Head(t.merges) \in Items
        BY <1>1 DEF Asked, Shaped, Items
      <3> QED BY <1>1, <1>4, <3>1, <3>2
              DEF Blocked, RowGranted, AuditGranted, WriteGranted, Holder
    <2>2. t.pc = "tail" /\ auditLock \notin {None, c} => t.entries = <<>>
      BY <1>1, <1>4 DEF HoldingAudit
    <2>3. Holder(c) \in Clients \ {c}
      BY <1>1, <2>1
    <2>4. tx[Holder(c)].pc # "idle"
      BY <1>2, <2>1, <2>3
    <2> QED BY <1>1, <1>4, <2>1, <2>2, <2>3, <2>4
  <1> QED BY <1>1, <1>3, <1>4

\* A client waits for a running transaction, and two wait for each other only if
\* one is a result that has dealt with an incident and wants another.
THEOREM OnlyMergesDeadlock == Spec => []DeadlockNeedsMerges
  <1>1. TriageInv => DeadlockNeedsMerges
    <2>1. SUFFICES ASSUME TriageInv, NEW c \in Clients, Blocked(c)
                   PROVE  /\ Holder(c) # c /\ Busy(Holder(c))
                          /\ Blocked(Holder(c)) /\ Holder(Holder(c)) = c =>
                               \E d \in {c, Holder(c)} :
                                 tx[d].pc = "merge" /\ (tx[d].entries # <<>> \/ tx[d].own # {})
      BY DEF DeadlockNeedsMerges
    <2>2. Holder(c) \in Clients \ {c} /\ tx[Holder(c)].pc # "idle"
      BY <2>1, BlockedWaits
    <2>3. ASSUME NEW d \in Clients, d = Holder(c), Blocked(d), Holder(d) = c
          PROVE  \E b \in {c, d} :
                   tx[b].pc = "merge" /\ (tx[b].entries # <<>> \/ tx[b].own # {})
      <3>1. driver = "postgres"
        BY <2>1, <2>2, <2>3, BlockedWaits, TriageAssumption DEF TriageInv, Globals
      <3>2. ASSUME NEW b \in Clients, Blocked(b), NEW a \in Clients, Blocked(a), Holder(b) = a
            PROVE  \/ tx[a].pc = "merge" /\ (tx[a].entries # <<>> \/ tx[a].own # {})
                   \/ tx[a].pc = "tail" /\ tx[a].entries = <<>> /\ tx[b].pc \in {"read", "merge"}
        <4>1. HoldingRows(a) /\ HoldingAudit(a) /\ Asked(tx[a]) /\ Shaped(tx[a])
          BY <2>1, <3>2, BlockedWaits DEF TriageInv, Own
        <4>2. \/ tx[a].pc = "read" \/ tx[a].pc = "merge"
              \/ tx[a].pc = "tail" /\ tx[a].entries = <<>>
          BY <2>1, <3>1, <3>2, BlockedWaits
        <4>3. CASE tx[b].pc \in {"read", "merge"} /\ \E x \in Items : rowLock[x] = a
          <5>1. tx[a].pc # "read"
            BY <3>1, <4>1, <4>3 DEF HoldingRows
          <5>2. tx[a].pc = "merge" => tx[a].op = "save"
            BY <4>1 DEF Asked
          <5>3. tx[a].pc = "merge" => tx[a].entries # <<>> \/ tx[a].own # {}
            BY <3>1, <4>1, <4>3, <5>2 DEF HoldingRows
          <5> QED BY <4>2, <4>3, <5>1, <5>3
        <4>4. CASE auditLock = a
          <5>1. tx[a].pc # "append" /\ tx[a].entries # <<>>
            BY <3>1, <4>1, <4>2, <4>4 DEF HoldingAudit
          <5>2. tx[a].pc = "merge"
            BY <4>1, <4>2, <5>1 DEF Asked
          <5> QED BY <5>1, <5>2
        <4>5. \/ tx[b].pc \in {"read", "merge"} /\ \E x \in Items : rowLock[x] = a
              \/ auditLock = a
          BY <2>1, <3>1, <3>2, BlockedWaits
        <4> QED BY <4>3, <4>4, <4>5
      <3>3. \/ tx[d].pc = "merge" /\ (tx[d].entries # <<>> \/ tx[d].own # {})
            \/ tx[d].pc = "tail" /\ tx[d].entries = <<>> /\ tx[c].pc \in {"read", "merge"}
        BY <2>1, <2>3, <3>2
      <3>4. \/ tx[c].pc = "merge" /\ (tx[c].entries # <<>> \/ tx[c].own # {})
            \/ tx[c].pc = "tail" /\ tx[c].entries = <<>> /\ tx[d].pc \in {"read", "merge"}
        BY <2>1, <2>3, <3>2
      <3> QED BY <3>3, <3>4
    <2> QED BY <2>1, <2>2, <2>3 DEF Busy
  <1> QED BY <1>1, TriageInvariant, PTL

\* Only a commit changes a row, and what it may change of it.
LEMMA RowsStep ==
  ASSUME TriageInv, [Next]_vars
  PROVE  /\ \A i \in Incidents :
              /\ row[i].findings \subseteq row'[i].findings
              /\ row[i].findings # row'[i].findings => row[i].status \in Mergeable
         /\ \A p \in Proposals :
              driver = "postgres" /\ row[p].status # "pending" => row'[p] = row[p]
  <1>1. CASE UNCHANGED row
    BY <1>1
  <1>2. ASSUME NEW c \in Clients, Commit(c)
        PROVE  /\ \A i \in Incidents :
                    /\ row[i].findings \subseteq row'[i].findings
                    /\ row[i].findings # row'[i].findings => row[i].status \in Mergeable
               /\ \A p \in Proposals :
                    driver = "postgres" /\ row[p].status # "pending" => row'[p] = row[p]
    BY <1>2, CommitRows DEF TriageInv
  <1>3. UNCHANGED row \/ \E c \in Clients : Commit(c)
    <2>1. CASE UNCHANGED vars
      BY <2>1 DEF vars, dbVars
    <2>2. ASSUME NEW c \in Clients, Step(c), ~Commit(c)
          PROVE  UNCHANGED row
      BY <2>2, StepKinds, BeginEffect, RunningSteps, EndingSteps DEF TriageInv, dbVars
    <2> QED BY <2>1, <2>2 DEF Next, Step
  <1> QED BY <1>1, <1>2, <1>3

\* A verdict stands: an incident that is no longer open gains no finding, and none
\* loses one.
THEOREM VerdictsStand == Spec => VerdictStands
  <1>1. TriageInv /\ [Next]_vars =>
          [\A i \in Incidents :
             /\ row[i].findings \subseteq row'[i].findings
             /\ row[i].findings # row'[i].findings => row[i].status \in Mergeable]_vars
    BY RowsStep
  <1> QED BY <1>1, TriageInvariant, PTL DEF Spec, VerdictStands

\* On PostgreSQL a decision on a proposal is final.
THEOREM DecisionsStand == Spec => DecisionsFinal
  <1>1. TriageInv /\ [Next]_vars =>
          [\A p \in Proposals :
             driver = "postgres" /\ row[p].status # "pending" => row'[p] = row[p]]_vars
    BY RowsStep
  <1> QED BY <1>1, TriageInvariant, PTL DEF Spec, DecisionsFinal
===============================================================================
