----------------------------- MODULE Correlation -----------------------------
(* Findings become incidents: repeats are suppressed, distrusted rules count *)
(* less, what is left is clustered over shared entities within a window, and  *)
(* each cluster joins a stored open incident or opens one.  One pipeline      *)
(* processes batches and saves each result before the next; a save may fail   *)
(* for good (the drainer restores the repeat counter and processes the batch  *)
(* again), the process may restart, and analysts close incidents meanwhile.   *)
EXTENDS Integers, Sequences, FiniteSets, SequencesExt, FiniteSetsExt, Ordered

CONSTANTS Findings,     \* what rules can find: [event, rule, ents, first, time, risk]
          Window,       \* CORRELATION_WINDOW_SECONDS
          RepeatWindow, \* SuppressionEngine.repeat_window
          Threshold,    \* SuppressionEngine.repeat_threshold; below 2 nothing is counted
          MaxFindings,  \* MAX_INCIDENT_FINDINGS
          ScanLimit,    \* OPEN_INCIDENT_SCAN_LIMIT
          BatchSize, MaxBatches, MaxFails, MaxRestarts, MaxClosed, MaxFeedback

VARIABLES seen,      \* (rule, first entity) -> times counted, in arrival order
          feedback,  \* rule -> how often approved (up) and rejected (down)
          incidents, \* sequence of [fs, open, updated, orphan]; fs is a set of instances
          held,      \* the result being saved: <<>> or one record
          counted,   \* instances the repeat counter has counted in this process
          bad,       \* a suppressed finding had not been repeated enough
          ordered,   \* no batch so far reached back before an earlier one
          clock, fails, restarts, closed, saved

vars == <<seen, feedback, incidents, held, counted, bad, ordered, clock, fails, restarts, closed, saved>>

\* An instance is one delivery of a finding: each gets a new finding_id, and
\* the risk it is saved with.
Same(i, j) == i.f.rule = j.f.rule /\ i.f.event = j.f.event
\* In order of time; findings of one moment stay in the order they were raised.
Raised == SetToSeq(Findings)
Place(f) == CHOOSE k \in DOMAIN Raised : Raised[k] = f
Before(j, i) == \/ j.f.time < i.f.time
                \/ j.f.time = i.f.time /\ j.f # i.f /\ Place(j.f) < Place(i.f)
ByTime(S) == [k \in 1..Cardinality(S) |->
                 CHOOSE i \in S : Cardinality({j \in S : Before(j, i)}) = k - 1]
Unknown == "global:unknown"
Ents(i) == IF i.f.ents = {} THEN {Unknown} ELSE i.f.ents

----------------------------------------------------------------------------
\* SuppressionEngine._auto_repeat_suppression: one bucket of times for each
\* (rule, first entity); the entries older than the window leave from the front.
PopOld(bucket, cutoff) ==
    LET fresh == {k \in DOMAIN bucket : bucket[k] >= cutoff}
    IN  IF fresh = {} THEN <<>> ELSE SubSeq(bucket, Min(fresh), Len(bucket))

AutoRepeat(acc, i) ==
    LET key == <<i.f.rule, i.f.first>>
        bucket == Append(PopOld(acc.seen[key], i.f.time - RepeatWindow), i.f.time)
        next == [acc EXCEPT !.seen[key] = bucket]
    IN  IF Len(bucket) <= Threshold THEN [next EXCEPT !.kept = Append(@, i)]
                                    ELSE [next EXCEPT !.dropped = @ \cup {i}]
Suppress(batch) ==
    FoldLeft(AutoRepeat, [seen |-> seen, kept |-> <<>>, dropped |-> {}], ByTime(batch))

\* FeedbackEngine.weight_for_rule in tenths: 0.1 up, 0.2 down, within 0.1 .. 3.0.
\* Only a distrusted rule's risk is scaled.
Weight(rule) == Max({1, Min({30, 10 + feedback[rule].up - 2 * feedback[rule].down})})
AdjustedRisk(f) == IF Weight(f.rule) >= 10 THEN f.risk ELSE (f.risk * Weight(f.rule)) \div 10

----------------------------------------------------------------------------
\* risk.correlate_findings: for each entity, findings that follow one another
\* within the window are united; a cluster is what ends up with one root.
Links(s) ==
    {link \in (DOMAIN s) \X (DOMAIN s) :
        LET i == link[1]  j == link[2]
        IN  /\ i < j /\ s[j].f.time - s[i].f.time <= Window
            /\ \E e \in Ents(s[i]) \cap Ents(s[j]) : \A k \in (i+1)..(j-1) : e \notin Ents(s[k])}
JoinsOne(root, link) == [root EXCEPT ![link[2]] = root[link[1]]]  \* mutant: its tree stays
Union(root, link) ==
    LET pair == {root[link[1]], root[link[2]]}
    IN  [k \in DOMAIN root |-> IF root[k] \in pair THEN Min(pair) ELSE root[k]]
CorrelateFindings(S) ==
    LET s == ByTime(S)
        root == FoldSet(LAMBDA link, r : Union(r, link), [k \in DOMAIN s |-> k], Links(s))
        roots == InOrder({root[k] : k \in DOMAIN s})
    IN  [n \in DOMAIN roots |-> {s[k] : k \in {j \in DOMAIN s : root[j] = roots[n]}}]

IncidentRisk(fs) == Min({1000, MapThenSumSet(LAMBDA i : i.risk, fs)})
IncidentEnts(fs) == UNION {Ents(i) : i \in fs}

\* storage.open_incidents_for_entities: the latest ScanLimit open incidents,
\* those that are not full and touch an entity of the batch.
OpenIncidents(ents) ==
    LET open == {n \in DOMAIN incidents : incidents[n].open}
        scanned == {n \in open : Cardinality({m \in open :
                        \/ incidents[m].updated > incidents[n].updated
                        \/ incidents[m].updated = incidents[n].updated /\ m < n}) < ScanLimit}
    IN  {n \in scanned : /\ Cardinality(incidents[n].fs) < MaxFindings
                         /\ IncidentEnts(incidents[n].fs) \cap (ents \ {Unknown}) # {}}

\* risk._linked and the choice of the highest-risk candidate, oldest on a tie.
Linked(cluster, fs) ==
    \E i \in cluster, j \in fs : /\ i.f.ents \cap j.f.ents # {}
                                 /\ j.f.time - i.f.time \in (-Window)..Window
Target(cluster, stored) ==
    LET hits == {n \in stored : Linked(cluster, incidents[n].fs)}
        risk(n) == IncidentRisk(incidents[n].fs)
    IN  IF hits = {} THEN 0
        ELSE CHOOSE n \in hits : \A m \in hits : risk(n) > risk(m) \/ (risk(n) = risk(m) /\ n <= m)

\* risk.merge_into_stored: clusters without a target are fresh; a joined
\* incident gets the findings whose rule and event it does not hold already.
MergeIntoStored(S) ==
    LET clusters == CorrelateFindings(S)
        stored == OpenIncidents(UNION {i.f.ents : i \in S})
        target == [n \in DOMAIN clusters |-> Target(clusters[n], stored)]
        free == InOrder({n \in DOMAIN clusters : target[n] = 0})
        new(t) == UNION {clusters[n] : n \in {m \in DOMAIN clusters : target[m] = t}}
        added(t) == {i \in new(t) : \A j \in incidents[t].fs : ~Same(i, j)}
        targets == {t \in {target[n] : n \in DOMAIN clusters} : t # 0 /\ added(t) # {}}
    IN  [fresh |-> [n \in DOMAIN free |-> clusters[free[n]]],
         merges |-> {<<t, added(t)>> : t \in targets}]
\* pipeline._correlate: a lookup that fails costs the merges; every cluster
\* opens an incident.
LookupFails(S) == [fresh |-> CorrelateFindings(S), merges |-> {}]

----------------------------------------------------------------------------
\* process_lines: the pipeline's part of a batch.  `bad` is recorded when a
\* finding was suppressed that its window does not hold often enough.
Repeats(i, S) == Cardinality({j \in S : /\ j.f.rule = i.f.rule /\ j.f.first = i.f.first
                                        /\ j.f.time \in (i.f.time - RepeatWindow)..i.f.time})
Process(fs) ==
    LET batch == {[f |-> f, d |-> clock, risk |-> AdjustedRisk(f)] : f \in fs}
        sup == Suppress(batch)
        kept == ToSet(sup.kept)
    IN  /\ held = <<>> /\ clock <= MaxBatches
        /\ \E merged \in {MergeIntoStored(kept), LookupFails(kept)} :
              held' = <<[kept |-> kept, fresh |-> merged.fresh, merges |-> merged.merges, seen |-> seen,
                         counted |-> counted]>>
        /\ seen' = sup.seen
        /\ counted' = counted \cup batch
        /\ ordered' = (ordered /\ \A i \in batch, j \in counted : j.f.time <= i.f.time)
        /\ bad' = (bad \/ \E i \in sup.dropped : Repeats(i, counted \cup batch) <= Threshold)
        /\ UNCHANGED <<feedback, incidents, clock, fails, restarts, closed, saved>>

\* save_pipeline_result: a merge whose incident was closed meanwhile opens an
\* incident of its own findings.
Open(fs, orphaned) == [fs |-> fs, open |-> TRUE, updated |-> clock, orphan |-> orphaned]
Save ==
    LET h == held[1]
        live == {m \in h.merges : incidents[m[1]].open}
        merged == [n \in DOMAIN incidents |->
                      IF \E m \in live : m[1] = n
                      THEN LET m == CHOOSE m \in live : m[1] = n
                           IN  [incidents[n] EXCEPT !.fs = @ \cup m[2], !.updated = clock]
                      ELSE incidents[n]]
        orphans == SetToSeq({m[2] : m \in h.merges \ live})
        opened == [n \in DOMAIN h.fresh |-> Open(h.fresh[n], FALSE)]
                  \o [n \in DOMAIN orphans |-> Open(orphans[n], TRUE)]
    IN  /\ held # <<>>
        /\ incidents' = merged \o opened
        /\ saved' = saved \cup h.kept
        /\ held' = <<>> /\ clock' = clock + 1
        /\ UNCHANGED <<seen, feedback, counted, bad, ordered, fails, restarts, closed>>

\* The save fails for good: distributed._settle restores the repeat counter
\* before it processes the batch again, in halves.
CounterAsIs == seen  \* mutant: not restored, so the next try counts twice
CounterBefore == held[1].seen
SaveFails == /\ held # <<>> /\ fails < MaxFails
             /\ seen' = CounterBefore /\ counted' = held[1].counted
             /\ held' = <<>> /\ fails' = fails + 1
             /\ UNCHANGED <<feedback, incidents, bad, ordered, clock, restarts, closed, saved>>

\* A restart forgets the repeat counter; what was not saved is delivered again.
NoneSeen == [k \in {<<f.rule, f.first>> : f \in Findings} |-> <<>>]
Restart == /\ restarts < MaxRestarts
           /\ seen' = NoneSeen /\ counted' = {} /\ held' = <<>> /\ restarts' = restarts + 1
           /\ UNCHANGED <<feedback, incidents, bad, ordered, clock, fails, closed, saved>>

CloseIncident(n) == /\ closed < MaxClosed /\ incidents[n].open
                    /\ incidents' = [incidents EXCEPT ![n].open = FALSE]
                    /\ closed' = closed + 1
                    /\ UNCHANGED <<seen, feedback, held, counted, bad, ordered, clock, fails, restarts, saved>>

\* FeedbackEngine.record; a pipeline reads the records it was built with.
Record(rule, decision) ==
    /\ held = <<>> /\ MapThenSumSet(LAMBDA r : feedback[r].up + feedback[r].down, DOMAIN feedback) < MaxFeedback
    /\ feedback' = [feedback EXCEPT ![rule][decision] = @ + 3]
    /\ UNCHANGED <<seen, incidents, held, counted, bad, ordered, clock, fails, restarts, closed, saved>>

Init == /\ seen = NoneSeen
        /\ feedback = [r \in {f.rule : f \in Findings} |-> [up |-> 0, down |-> 0]]
        /\ incidents = <<>> /\ held = <<>> /\ counted = {} /\ saved = {}
        /\ bad = FALSE /\ ordered = TRUE
        /\ clock = 1 /\ fails = 0 /\ restarts = 0 /\ closed = 0

Next == \/ \E fs \in SUBSET Findings : fs # {} /\ Cardinality(fs) <= BatchSize /\ Process(fs)
        \/ Save \/ SaveFails \/ Restart
        \/ \E n \in DOMAIN incidents : CloseIncident(n)
        \/ \E r \in DOMAIN feedback, d \in {"up", "down"} : Record(r, d)
Spec == Init /\ [][Next]_vars

----------------------------------------------------------------------------
Near(i, j) == Ents(i) \cap Ents(j) # {} /\ i.f.time - j.f.time \in (-Window)..Window
Closed(T, S) == \A i \in T, j \in S : Near(i, j) => j \in T
Component(i, S) == {j \in S : \A T \in SUBSET S : i \in T /\ Closed(T, S) => j \in T}

\* A batch is split exactly into the connected components of "shares an entity
\* within the window" (risk.py's module comment), although only neighbours in
\* time are compared and clusters are joined by union-find.
ClustersAreComponents ==
    held # <<>> => ToSet(CorrelateFindings(held[1].kept)) = {Component(i, held[1].kept) : i \in held[1].kept}

\* Every finding that was kept and saved is in an incident, in one only, unless
\* an incident already held its rule and event when it was delivered again.
FiledOnce ==
    \A i \in saved :
        LET homes == {n \in DOMAIN incidents : i \in incidents[n].fs}
        IN  \/ Cardinality(homes) = 1
            \/ homes = {} /\ \E n \in DOMAIN incidents : \E j \in incidents[n].fs : Same(i, j) /\ i # j

\* An incident is one story: its findings are connected, over merges and
\* redeliveries, and it holds each rule and event once.  An incident that was
\* opened because its target was closed takes every cluster meant for that one.
OneStory ==
    \A n \in DOMAIN incidents :
        /\ ~incidents[n].orphan =>
               \A i \in incidents[n].fs : Component(i, incidents[n].fs) = incidents[n].fs
        /\ \A i, j \in incidents[n].fs : Same(i, j) => i = j

\* While batches come in order of time, only a finding whose rule and entity
\* repeated more than Threshold times within the window is ever suppressed:
\* a batch processed twice is not counted twice.
OnlyRepeatsSuppressed == ordered => ~bad

\* The same without the order of batches, as the docstring of the counter says.
RepeatsWithinWindow == ~bad
=============================================================================
