------------------------------ MODULE Baseline ------------------------------
(* The behavioral baseline: what an event teaches it, the signals an event    *)
(* trips against it, and how pipelines load it when they are built and store  *)
(* it after every batch.  A listener builds its pipeline on the main thread   *)
(* and processes on another; a batch whose result cannot be saved is undone   *)
(* in memory and processed again, and so is one a crash caught unsaved.       *)
EXTENDS Integers, FiniteSets, FiniteSetsExt

CONSTANTS Pipelines,      \* processes that share the store
          Batches,        \* each of one event, in the queue of pipeline "at":
                          \* [id, at, ents, action, hour, user, ip]
          Backend,        \* "sqlite" or "postgres"
          Threaded,       \* pipelines whose batches run on a thread of their own
          MinEntity, MinGlobal, MinPeers, BurstThreshold,
          MaxCrashes, MaxFails

VARIABLES mem,      \* pipeline -> its BaselineState
          stored,   \* the row: [state, revision]; revision 0 is no row
          known,    \* pipeline, thread -> the revision its context remembers
          up,       \* pipelines that run
          unsaved,  \* pipeline -> <<>> or the batch in flight and the state before it
          saved,    \* batches whose result is saved
          peerOdd,  \* of an entity met before, a peer fraction outside 0 .. 1
                    \* was computed
          crashes, fails

vars == <<mem, stored, known, up, unsaved, saved, peerOdd, crashes, fails>>

Entities == UNION {b.ents : b \in Batches}
Kinds == {e[1] : e \in Entities}
Actions == {b.action : b \in Batches}
Users == {b.user : b \in Batches}
Fresh == [actions |-> [e \in Entities |-> [a \in Actions |-> 0]],
          hours   |-> [e \in Entities |-> {}],
          ips     |-> [u \in Users |-> {}],
          count   |-> [e \in Entities |-> 0],
          recent  |-> [e \in Entities |-> 0],
          peers   |-> [k \in Kinds |-> [a \in Actions |-> 0]],
          totals  |-> [a \in Actions |-> 0],
          events  |-> 0,
          learned |-> {}]

Observations(s, e) == s.count[e]
PeerGroup(s, k) == {e \in Entities : e[1] = k /\ Observations(s, e) > 0}

----------------------------------------------------------------------------
\* AnomalyDetector.signals: the points each signal contributes.
DoersWithItself(s, e, a) == s.peers[e[1]][a]  \* mutant: an entity is its own peer
Doers(s, e, a) == s.peers[e[1]][a] - (IF s.actions[e][a] > 0 THEN 1 ELSE 0)
Others(s, e) == Cardinality(PeerGroup(s, e[1])) - 1
PeerCompared(s, e) == Cardinality(PeerGroup(s, e[1])) >= MinPeers /\ Others(s, e) > 0
PeerPoints(s, e, a) ==
    IF PeerCompared(s, e) /\ 5 * Doers(s, e, a) <= Others(s, e)
    THEN Max({1, 20 - (100 * Doers(s, e, a)) \div Others(s, e)}) ELSE 0
AllPeerPoints(s, ents, a) == MapThenSumSet(LAMBDA e : PeerPoints(s, e, a), ents)
NoveltyPoints(s, b) ==
    15 * Cardinality({e \in b.ents : Observations(s, e) > 0 /\ s.actions[e][b.action] = 0})
    + (IF s.ips[b.user] # {} /\ b.ip \notin s.ips[b.user] THEN 25 ELSE 0)
Bursting(s, ents) == {e \in ents : s.recent[e] > 0 /\ s.recent[e] + 1 >= BurstThreshold}
TemporalPoints(s, b) ==
    LET warm == {e \in b.ents : Observations(s, e) >= MinEntity}
    IN  20 * Cardinality({e \in warm : s.hours[e] # {} /\ b.hour \notin s.hours[e]})
        + 25 * Cardinality(Bursting(s, warm))
RarePoints(s, b) ==
    IF s.events >= MinGlobal /\ 20 * s.totals[b.action] <= s.events
    THEN Max({1, 20 - (400 * s.totals[b.action]) \div s.events}) ELSE 0
PopulationPoints(s, b) == RarePoints(s, b) + AllPeerPoints(s, b.ents, b.action)
Score(s, b) == Min({100, NoveltyPoints(s, b) + TemporalPoints(s, b) + PopulationPoints(s, b)})

\* AnomalyDetector.update.  An entity counts for its peers the first time it
\* performs an action.
FirstTime(s, b, k, a) == {e \in b.ents : e[1] = k /\ a = b.action /\ s.actions[e][a] = 0}
Update(s, b) ==
    LET sees(e) == IF e \in b.ents THEN 1 ELSE 0
    IN  [actions |-> [e \in Entities |-> [a \in Actions |->
                         s.actions[e][a] + (IF a = b.action THEN sees(e) ELSE 0)]],
         peers   |-> [k \in Kinds |-> [a \in Actions |->
                         s.peers[k][a] + Cardinality(FirstTime(s, b, k, a))]],
         count   |-> [e \in Entities |-> s.count[e] + sees(e)],
         hours   |-> [e \in Entities |-> s.hours[e] \cup (IF e \in b.ents THEN {b.hour} ELSE {})],
         recent  |-> [e \in Entities |-> s.recent[e] + sees(e)],
         ips     |-> [s.ips EXCEPT ![b.user] = @ \cup {b.ip}],
         totals  |-> [s.totals EXCEPT ![b.action] = @ + 1],
         events  |-> s.events + 1,
         learned |-> s.learned \cup {b.id}]

----------------------------------------------------------------------------
\* _load_detector, on the thread that builds the pipeline.  A new process has
\* new contexts: PostgresStorage remembers the revision in the loading one.  A
\* row that cannot be read does not stop detection: the baseline starts empty,
\* and the context remembers no revision.  from_dict restores what to_dict
\* wrote: a row of another shape, which starts empty too, the system never writes.
Worker(p) == IF p \in Threaded THEN "worker" ELSE "main"
Begin(p, state, revision) ==
    /\ p \notin up
    /\ up' = up \cup {p}
    /\ mem' = [mem EXCEPT ![p] = state]
    /\ known' = [known EXCEPT ![p] = [t \in {"main", "worker"} |-> IF t = "main" THEN revision ELSE 0]]
    /\ UNCHANGED <<stored, unsaved, saved, peerOdd, crashes>>
Start(p) == /\ Begin(p, IF stored.revision = 0 THEN Fresh ELSE stored.state, stored.revision)
            /\ UNCHANGED fails
LoadFails(p) == Begin(p, Fresh, 0) /\ fails < MaxFails /\ fails' = fails + 1

\* save_baseline: SQLite replaces the row.  PostgreSQL inserts when its context
\* knows of no row and updates the revision it knows; otherwise it raises, and
\* _persist_baseline logs that the update was not saved.
LastWriterWins(expected) == TRUE  \* mutant: no revision in the UPDATE
Accepts(expected) == Backend = "sqlite" \/ expected = stored.revision
PersistBaseline(p, state) ==
    LET expected == known[p][Worker(p)]
        row == [state |-> state, revision |-> stored.revision + 1]
    IN  IF Accepts(expected)
        THEN stored' = row /\ known' = [known EXCEPT ![p][Worker(p)] = row.revision]
        ELSE UNCHANGED <<stored, known>>

\* process_lines on one batch: score, learn, persist; the result is not saved.
Process(p, b) ==
    /\ p \in up /\ p = b.at /\ unsaved[p] = <<>> /\ b.id \notin saved
    /\ peerOdd' = (peerOdd \/ \E e \in b.ents : PeerCompared(mem[p], e) /\ Observations(mem[p], e) > 0
                                  /\ Doers(mem[p], e, b.action) \notin 0..Others(mem[p], e))
    /\ mem' = [mem EXCEPT ![p] = Update(mem[p], b)]
    /\ PersistBaseline(p, Update(mem[p], b))
    /\ unsaved' = [unsaved EXCEPT ![p] = <<b.id, mem[p]>>]
    /\ UNCHANGED <<up, saved, crashes, fails>>

SaveResult(p) ==
    /\ unsaved[p] # <<>>
    /\ saved' = saved \cup {unsaved[p][1]}
    /\ unsaved' = [unsaved EXCEPT ![p] = <<>>]
    /\ UNCHANGED <<mem, stored, known, up, peerOdd, crashes, fails>>

\* The save fails for good: DistributedPipeline._restore_baseline undoes the
\* memory; the stored row keeps what the batch taught until the next save.
SaveFails(p) ==
    /\ unsaved[p] # <<>> /\ fails < MaxFails
    /\ mem' = [mem EXCEPT ![p] = unsaved[p][2]]
    /\ unsaved' = [unsaved EXCEPT ![p] = <<>>]
    /\ fails' = fails + 1
    /\ UNCHANGED <<stored, known, up, saved, peerOdd, crashes>>

Stop(p) ==
    /\ p \in up /\ crashes < MaxCrashes
    /\ up' = up \ {p} /\ crashes' = crashes + 1
    /\ unsaved' = [unsaved EXCEPT ![p] = <<>>]
    /\ UNCHANGED <<mem, stored, known, saved, peerOdd, fails>>

Init == /\ mem = [p \in Pipelines |-> Fresh]
        /\ stored = [state |-> Fresh, revision |-> 0]
        /\ known = [p \in Pipelines |-> [t \in {"main", "worker"} |-> 0]]
        /\ up = {} /\ unsaved = [p \in Pipelines |-> <<>>] /\ saved = {}
        /\ peerOdd = FALSE /\ crashes = 0 /\ fails = 0

Next == \E p \in Pipelines : \/ Start(p) \/ LoadFails(p) \/ SaveResult(p) \/ SaveFails(p) \/ Stop(p)
                             \/ \E b \in Batches : Process(p, b)
Spec == Init /\ [][Next]_vars

----------------------------------------------------------------------------
\* In every baseline, in memory, stored, or restored after a failed batch, the
\* peer counters are the number of entities of the kind that did the action, so
\* that of an entity met before a peer fraction is one (peer_rare never counts
\* an entity twice).
PeersExact(s) ==
    \A k \in Kinds, a \in Actions :
        s.peers[k][a] = Cardinality({e \in Entities : e[1] = k /\ s.actions[e][a] > 0})
PeerCountsExact == ~peerOdd /\ PeersExact(stored.state) /\ \A p \in Pipelines : PeersExact(mem[p])

\* Only the population and a burst can make an event score that the baseline
\* has learned, or whose entities it meets for the first time: neither a
\* restart, a conflict nor an undone batch leaves one part of the history behind.
NoveltyFollowsHistory ==
    \A p \in Pipelines, b \in Batches :
        LET s == mem[p]
        IN  /\ b.id \in s.learned =>
                  (Score(s, b) > 0 => PopulationPoints(s, b) > 0 \/ Bursting(s, b.ents) # {})
            /\ (\A e \in b.ents : Observations(s, e) = 0) => NoveltyPoints(s, b) + TemporalPoints(s, b) = 0

\* An entity is compared with all the others of its kind (anomaly.py: "The
\* entity itself is excluded from the peer count").
PeersAreOthers ==
    \A p \in Pipelines : \A b \in Batches : \A e \in b.ents :
        PeerCompared(mem[p], e) => Others(mem[p], e) = Cardinality(PeerGroup(mem[p], e[1]) \ {e})

\* On PostgreSQL a stale writer is refused: what the row holds of a batch whose
\* result is saved is never lost again, with two pipelines, crashes, undone
\* batches and starts that could not read it (postgres.py: "baseline changed concurrently").
LearnedKept ==
    [][Backend = "postgres" =>
          \A x \in saved \cap stored.state.learned : x \in stored'.state.learned]_vars

\* A baseline survives restarts: once a batch's result is saved, and no other
\* pipeline writes, the row holds what the batch taught.
BaselineSurvives == Cardinality(Pipelines) = 1 => saved \subseteq stored.state.learned
=============================================================================
