---------------------------- MODULE CaseResponse ----------------------------
(* From findings to proposals: pipelines investigate a batch, with or without *)
(* an LLM's decision, and add the steps of the runbooks; the store joins the  *)
(* batch to an open incident or opens one, and files the proposals; analysts  *)
(* decide proposals and close incidents meanwhile.  Which open incident a     *)
(* batch joins is Correlation's subject: here one that shares an entity.      *)
EXTENDS Integers, Sequences, FiniteSets, FiniteSetsExt, SequencesExt

CONSTANTS Pipelines,      \* that process batches for the same tenant
          Batches,        \* sets of findings [n, ents, sev, risk, tech, odd]; an
                          \* entity is <<kind, name>>, and a batch's share one
          Runbooks,       \* [tech, actions]
          AutonomyLevels, \* autonomy levels a policy may have
          Replies,        \* LLM decisions, <<>> or <<[type, confidence]>>
          Terminal,       \* PostgresStorage: a decided proposal stays decided
          MaxCloses, MaxDecisions  \* bounds of the model

VARIABLES level,      \* the AutomationPolicy's autonomy level
          held,       \* pipeline -> <<>> or what it processed and has not saved
          incidents,  \* incident -> [open, fs, judged, orphan, raced]
          proposals,  \* rows of action_proposals
          arrived,    \* findings that were processed
          closes, decisions

vars == <<level, held, incidents, proposals, arrived, closes, decisions>>

Medium == 2  High == 3
Risk(fs) == Min({1000, MapThenSumSet(LAMBDA f : f.risk, fs)})
Severity(fs) == Max({f.sev : f \in fs})
Entities(fs) == UNION {f.ents : f \in fs}
Techniques(fs) == UNION {f.tech : f \in fs}
----------------------------------------------------------------------------
\* policy.py.  The actions the code raises, their risk and the kinds they take.
Action ==
    [search_related_events |-> [risk |-> "read", kinds |-> {"technique", "incident", "user", "host", "ip"}],
     notify_channel  |-> [risk |-> "reversible", kinds |-> {"channel", "technique", "incident"}],
     disable_user    |-> [risk |-> "high", kinds |-> {"user"}],
     isolate_host    |-> [risk |-> "high", kinds |-> {"host"}],
     block_indicator |-> [risk |-> "high", kinds |-> {"ip"}],
     close_incident  |-> [risk |-> "critical", kinds |-> {"incident"}]]
Dangerous == {a \in DOMAIN Action : Action[a].risk \in {"high", "critical"}}
SharedInfrastructure(target) == target = <<"host", "vpn">>
ValidTarget(a, target) ==
    /\ a \in DOMAIN Action /\ target[1] \in Action[a].kinds
    /\ ~(a = "isolate_host" /\ SharedInfrastructure(target))

\* decision_for_action: <<may execute, needs approval>>.
DecisionForAction(a, confidence, source) ==
    IF a \notin DOMAIN Action THEN <<FALSE, TRUE>>
    ELSE
    CASE Action[a].risk = "read" -> <<TRUE, FALSE>>
      [] Action[a].risk = "reversible" -> <<level >= 2, FALSE>>
      [] Action[a].risk = "high" -> LET alone == level >= 4 /\ confidence >= 98 /\ source # "model"
                                    IN  <<alone, ~alone>>
      [] OTHER -> <<FALSE, TRUE>>
----------------------------------------------------------------------------
\* soc_runtime.py: the confidence, the decision and the runtime's proposals.
EstimateConfidence(fs) ==
    Min({99, 20 + (IF Risk(fs) >= 200 THEN 25 ELSE IF Risk(fs) >= 100 THEN 15 ELSE 0)
             + (IF Severity(fs) >= High THEN 20 ELSE 0) + (IF Techniques(fs) # {} THEN 15 ELSE 0)
             + (IF Cardinality(fs) >= 3 THEN 10 ELSE 0) + (IF \E f \in fs : f.odd THEN 10 ELSE 0)})
MakeDecision(fs, reply) ==
    IF reply # <<>> THEN [type |-> reply[1].type, confidence |-> reply[1].confidence, source |-> "model"]
    ELSE [confidence |-> EstimateConfidence(fs), source |-> "deterministic",
          type |-> IF Severity(fs) >= High /\ Risk(fs) >= 200 THEN "containment_proposed"
                   ELSE IF Risk(fs) >= 100 \/ Severity(fs) >= Medium THEN "escalate"
                   ELSE "suspicious_monitor"]
Containment == {<<"user", "disable_user">>, <<"host", "isolate_host">>, <<"ip", "block_indicator">>}
ProposeActions(fs, decision) ==
    LET wanted == CASE decision.type = "containment_proposed" ->
                          {<<c[2], e>> : c \in Containment, e \in Entities(fs)}
                    [] decision.type = "escalate" -> {<<"notify_channel", <<"channel", "soc">>>>}
                    [] OTHER -> {}
        row(w) == LET verdict == DecisionForAction(w[1], decision.confidence, decision.source)
                  IN  [action |-> w[1], target |-> w[2], executable |-> verdict[1],
                       approval |-> verdict[2], origin |-> decision.source]
    IN  {row(w) : w \in {v \in wanted : ValidTarget(v[1], v[2])}}

\* soar.py: the runbooks of the incident's techniques, their steps' targets, and
\* the second gate, which no autonomy level opens.
PlanConfidence(fs) ==
    Min({90, 50 + (25 * Severity(fs)) \div 4 + 5 * Min({3, Cardinality(fs)})})
TargetsFor(a, fs, technique) ==
    IF a \notin DOMAIN Action THEN {<<"technique", technique>>}
    ELSE IF "technique" \in Action[a].kinds THEN {<<"technique", technique>>}
    ELSE LET matched == {e \in Entities(fs) : e[1] \in Action[a].kinds}
         IN  IF matched # {} \/ "incident" \notin Action[a].kinds THEN matched ELSE {<<"incident", "this">>}
Plan(fs) ==
    LET steps == UNION {{<<a, t>> : a \in r.actions, t \in {t \in Techniques(fs) : t = r.tech}} : r \in Runbooks}
        row(a, target) ==
            LET verdict == DecisionForAction(a, PlanConfidence(fs), "deterministic")
                gated == a \in Dangerous
            IN  [action |-> a, target |-> target, executable |-> verdict[1] /\ ~gated,
                 approval |-> verdict[2] \/ gated, origin |-> "runbook"]
    IN  UNION {{row(s[1], target) : target \in TargetsFor(s[1], fs, s[2])} : s \in steps}

\* AutoSIEMPipeline._apply_soar_plan: valid steps the runtime did not propose.
ApplySoarPlan(own, plan) ==
    own \cup {p \in plan : /\ ValidTarget(p.action, p.target)
                           /\ \A q \in own : <<q.action, q.target>> # <<p.action, p.target>>}
Investigate(fs, reply) == ApplySoarPlan(ProposeActions(fs, MakeDecision(fs, reply)), Plan(fs))
----------------------------------------------------------------------------
\* IncidentMerge.material
Thresholds == {30, 100, 200}
Reaches(fs, line) == line <= Risk(fs)
Material(before, after) ==
    \/ Severity(after) > Severity(before)
    \/ Entities(after) # Entities(before) \/ Techniques(after) # Techniques(before)
    \/ \E line \in Thresholds : ~Reaches(before, line) /\ Reaches(after, line)

Candidates(fs) == {i \in DOMAIN incidents : incidents[i].open /\ Entities(incidents[i].fs) \cap Entities(fs) # {}}
\* The one it joins: of the highest risk, the first of those; 0 for none.
Joined(fs) ==
    IF Candidates(fs) = {} THEN {0}
    ELSE {i \in Candidates(fs) : \A j \in Candidates(fs) :
            LET a == Risk(incidents[i].fs)  b == Risk(incidents[j].fs) IN a > b \/ (a = b /\ i <= j)}

\* process_lines, after detection: a fresh incident, or a material merge, is
\* investigated on all its findings.  A lookup that fails costs the merge.
Process(p, fs, reply) == \E i \in Joined(fs) \cup {0} :
    LET scope == IF i = 0 THEN fs ELSE fs \cup incidents[i].fs
        investigated == i # 0 => Material(incidents[i].fs, scope)
    IN  /\ held[p] = <<>> /\ fs \cap arrived = {}
        /\ ~investigated => reply = <<>>
        /\ arrived' = arrived \cup fs
        /\ held' = [held EXCEPT ![p] = <<[joins |-> i, fs |-> fs, scope |-> scope, investigated |-> investigated,
                                          rows |-> IF investigated THEN Investigate(scope, reply) ELSE {}]>>]
        /\ incidents' = [j \in DOMAIN incidents |->
               IF j = i /\ \E q \in Pipelines : held[q] # <<>> /\ held[q][1].joins = i
               THEN [incidents[j] EXCEPT !.raced = TRUE] ELSE incidents[j]]
        /\ UNCHANGED <<level, proposals, closes, decisions>>

\* save_pipeline_result: a merge whose incident was closed since opens an
\* incident of the new findings, and takes the investigation along.
LivePending(i) ==  \* mutant: approved ones are raised again
    {<<q.action, q.target>> : q \in {q \in proposals : q.incident = i /\ q.status = "pending"}}
Live(i) == {<<q.action, q.target>> : q \in {q \in proposals : q.incident = i /\ q.status \in {"pending", "approved"}}}
Merges(h) == h.joins # 0 /\ incidents[h.joins].open
\* What becomes of the incident, and of a row of the investigation.
WithMerge(c, h) == [c EXCEPT !.fs = @ \cup h.fs, !.judged = IF h.investigated THEN h.scope ELSE @]
Opened(h) == [open |-> TRUE, fs |-> h.fs, judged |-> IF h.investigated THEN h.scope ELSE {},
              orphan |-> h.joins # 0, raced |-> FALSE]
Filed(i, h, r) == [incident |-> i, action |-> r.action, target |-> r.target, executable |-> r.executable,
                   approval |-> r.approval, origin |-> r.origin, status |-> "pending", by |-> h.scope]
Save(p) ==
    /\ held[p] # <<>>
    /\ LET h == held[p][1]
           i == IF Merges(h) THEN h.joins ELSE Len(incidents) + 1
           skip == IF Merges(h) THEN Live(i) ELSE {}
       IN  /\ incidents' = IF Merges(h) THEN [incidents EXCEPT ![i] = WithMerge(@, h)]
                                        ELSE Append(incidents, Opened(h))
           /\ proposals' = proposals \cup
                  {Filed(i, h, r) : r \in {r \in h.rows : <<r.action, r.target>> \notin skip}}
    /\ held' = [held EXCEPT ![p] = <<>>]
    /\ UNCHANGED <<level, arrived, closes, decisions>>

CloseIncident(i) ==
    /\ closes < MaxCloses /\ closes' = closes + 1
    /\ incidents[i].open
    /\ incidents' = [incidents EXCEPT ![i].open = FALSE]
    /\ UNCHANGED <<level, held, proposals, arrived, decisions>>

\* decide_proposal; where decisions are final, only a pending one is decided.
Decide(q, verdict) ==
    /\ decisions < MaxDecisions /\ decisions' = decisions + 1
    /\ q.status # verdict /\ (Terminal => q.status = "pending")
    /\ proposals' = (proposals \ {q}) \cup {[q EXCEPT !.status = verdict]}
    /\ UNCHANGED <<level, held, incidents, arrived, closes>>

Init == /\ level \in AutonomyLevels /\ held = [p \in Pipelines |-> <<>>] /\ incidents = <<>> /\ proposals = {}
        /\ arrived = {} /\ closes = 0 /\ decisions = 0
Next == \/ \E p \in Pipelines : Save(p) \/ \E fs \in Batches, reply \in Replies : Process(p, fs, reply)
        \/ \E i \in DOMAIN incidents : CloseIncident(i)
        \/ \E q \in proposals, verdict \in {"approved", "rejected"} :
              q.action \in Dangerous /\ Decide(q, verdict)
Spec == Init /\ [][Next]_vars
----------------------------------------------------------------------------
\* No proposal of the store disables, isolates or blocks without approval unless
\* the policy is policy-bounded autonomy and the runtime's own estimate from the
\* evidence, never a model's word or a runbook, reached 0.98; and each aims at a
\* kind of target its action takes, never at shared infrastructure.
ActsOnlyOnEvidence ==
    \A q \in proposals :
        /\ ValidTarget(q.action, q.target)
        /\ q.action \in Dangerous =>
              /\ q.approval <=> ~q.executable
              /\ q.executable => level = 4 /\ q.origin = "deterministic" /\ EstimateConfidence(q.by) >= 98

\* A proposal pending or approved is not raised again on its incident, whoever
\* merges into it, where decisions are final.
NotRaisedAgain ==
    Terminal => \A q, r \in proposals :
        q # r /\ q.incident = r.incident /\ q.action = r.action /\ q.target = r.target
            => "rejected" \in {q.status, r.status}

\* Whatever changed the picture was investigated: an incident shows no severity,
\* entity, technique or risk line that no investigation of it has seen, unless
\* two pipelines merged into it at once or it was opened for an orphaned merge.
Investigated(i) == incidents[i].judged # {} /\ ~Material(incidents[i].judged, incidents[i].fs)
MaterialChangesInvestigated ==
    \A i \in DOMAIN incidents : ~incidents[i].orphan /\ ~incidents[i].raced => Investigated(i)

\* The same of every incident (deployment-and-collection.md: "a risk threshold
\* (30, 100, 200) triggers one").
EveryChangeInvestigated == \A i \in DOMAIN incidents : Investigated(i)

\* A containment step acts on an entity of its incident, except on an incident
\* opened for an orphaned merge.
Concrete(q) == q.action \in Dangerous /\ q.target # <<"incident", "this">>
OwnTargets(q) == Concrete(q) => q.target \in Entities(incidents[q.incident].fs)
TargetsOfOwnIncident == \A q \in proposals : incidents[q.incident].orphan \/ OwnTargets(q)

\* The same of every incident (soar.py: steps "are resolved against the
\* incident's entities, and dropped when the incident holds nothing of the
\* required kind").
TargetsAlwaysInIncident == \A q \in proposals : OwnTargets(q)
=============================================================================
