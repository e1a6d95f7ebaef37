----------------------------- MODULE MCAnalysis -----------------------------
(* What is made of an event once it is read, but for the rules: enrichment,   *)
(* baseline, suppression and correlation, the model's advice, the response,   *)
(* and the web API's requests.  They share no state: in a behaviour one of    *)
(* them runs, and the others stay as they are at first.                       *)
EXTENDS Integers, Sequences, FiniteSets

CONSTANTS Window, RepeatWindow, Threshold, MaxFindings, ScanLimit,          \* Correlation
          BatchSize, MaxBatches, MaxSaveFails, MaxRestarts, MaxClosed, MaxFeedback,
          Learners, Backend, Threaded, MinEntity, MinGlobal, MinPeers,      \* Baseline
          BurstThreshold, MaxStops, MaxFails,
          Accept, Review, Retries, EvidenceCap, Marker, MaxIncidents,       \* ModelAdvice
          Pipelines, AutonomyLevels, Terminal, MaxCloses, MaxDecisions,     \* CaseResponse
          Arrays, Exploited, Ransomware, MaxLines,                          \* Enrichment
          Slots, Routes, CliRoutes, Targets, MaxRequests, MaxCrashes        \* WebApi

\* MIN_GLOBAL_OBSERVATIONS is a number of events, and not none.
ASSUME MinGlobalAssumption == MinGlobal \in Nat \ {0}
\* Thresholds are numbers, as the limits are; retries below 0 count as none.
ASSUME AdviceAssumption == /\ Accept \in Int /\ Review \in Int
                           /\ Retries \in Nat /\ EvidenceCap \in Nat /\ Marker \in Nat
\* AutonomyLevel counts from observing only to policy-bounded autonomy.
ASSUME AutonomyAssumption == AutonomyLevels \subseteq 0..4
----------------------------------------------------------------------------
\* Correlation: three findings of one rule, two of them linked only through the
\* other's entity, and one of another rule on the second entity.
Found(e, r, ents, first, t, k) ==
  [event |-> e, rule |-> r, ents |-> ents, first |-> first, time |-> t, risk |-> k]
FourFindings == {Found(1, "r1", {"u"}, "u", 1, 30), Found(2, "r1", {"u", "h"}, "u", 3, 10),
                 Found(3, "r2", {"h"}, "h", 5, 50), Found(4, "r1", {"u"}, "u", 2, 10)}

\* Baseline: two pipelines whose events share a host.
Host == <<"host", 1>>
Person(n) == <<"user", n>>
Observed(id, at, ents, action, hour, user, ip) ==
  [id |-> id, at |-> at, ents |-> ents, action |-> action, hour |-> hour, user |-> user, ip |-> ip]
ThreeBatches == {Observed(1, 1, {Person(1), Host}, "a", 1, 1, 1),
                 Observed(2, 2, {Person(2), Host}, "a", 1, 2, 1),
                 Observed(3, 1, {Person(1)}, "b", 2, 1, 2)}

\* ModelAdvice: providers asked in both orders, a missing one, no fallback; and
\* prompts that fit, fit with fewer findings, and fit in no way.
Setting(p, f, low, gate, severity, usable) ==
  [provider |-> p, fallback |-> f, onLow |-> low, gate |-> gate, severity |-> severity,
   usable |-> usable]
FiveSettings == {Setting("jev", "laya", TRUE, TRUE, "choice", {"jev", "laya"}),
                 Setting("jev", "laya", FALSE, FALSE, "choice", {"jev", "laya"}),
                 Setting("laya", "jev", FALSE, TRUE, "choice", {"laya"}),
                 Setting("laya", "laya", TRUE, TRUE, "score", {"laya"}),
                 Setting("jev", "none", TRUE, TRUE, "score", {"jev"})}
ThreePrompts == {[budget |-> 20, system |-> 6, user |-> <<4, 7, 10, 13>>],
                 [budget |-> 14, system |-> 6, user |-> <<4, 5, 8, 11>>],
                 [budget |-> 9, system |-> 6, user |-> <<5, 6>>]}

\* CaseResponse: findings that share the user or a host which is the VPN.
User == <<"user", "u">>
Raised(n, ents, sev, risk, tech, odd) ==
  [n |-> n, ents |-> ents, sev |-> sev, risk |-> risk, tech |-> tech, odd |-> odd]
Brute == Raised(1, {User, <<"host", "h">>}, 3, 150, {"T1110"}, FALSE)
Login == Raised(2, {User, <<"ip", "i">>}, 2, 70, {"T1078"}, TRUE)
Vpn   == Raised(3, {<<"host", "h">>, <<"host", "vpn">>}, 2, 40, {}, FALSE)
Minor == Raised(4, {User}, 1, 20, {}, FALSE)
FourBatches == {{Brute}, {Login, Minor}, {Vpn}, {Minor}}
TwoRunbooks ==
  {[tech |-> "T1110", actions |-> {"search_related_events", "disable_user", "notify_channel"}],
   [tech |-> "T1078", actions |-> {"disable_user", "isolate_host", "reboot_universe",
                                   "close_incident"}]}
TwoReplies == {<<>>, <<[type |-> "containment_proposed", confidence |-> 100]>>}

\* Enrichment: accounts that share a local part, unreadable and malformed lines.
Alice == <<"alice", "">>
Srv   == <<"srv", "">>
Evil  == <<"evil", "">>
Account(names, status, role, expected, privileged, crit, bad) ==
  [file |-> "identities", bad |-> bad, names |-> names, status |-> status, role |-> role,
   expected |-> expected, privileged |-> privileged, crit |-> crit]
Asset(crit, bad) == [file |-> "assets", host |-> Srv, crit |-> crit, bad |-> bad]
Weak(cves) == [file |-> "vulnerabilities", host |-> Srv, cves |-> cves, bad |-> "no"]
ExportLines ==
  {Account(<<<<"alice", "corp">>>>, "active", "backup", {"AUTO-EXFIL-001"}, TRUE, 0, "no"),
   Account(<<Alice>>, "disabled", "backup", {}, FALSE, 1, "no"),
   Account(<<Alice, <<"alice", "x">>>>, "active", "typo", {"AUTO-EXEC-001"}, FALSE, 1, "tags"),
   Asset(1, "no"), Asset(3, "tags"), Weak({"k1"}), Weak({"k2", "k3"}),
   [Asset(4, "json") EXCEPT !.file = "identities"]}
EnrichedFindings ==
  [rule : {"AUTO-CRED-004", "AUTO-EXFIL-001"}, sev : {1, 3, 4}, risk : {1, 6, 7},
   ents : {{<<"user", Alice>>}, {<<"user", <<"alice", "x">>>>, <<"host", Srv>>},
           {<<"ip", Evil>>, <<"host", Srv>>}}]
Indicators == {Evil}

\* WebApi: users of two tenants, one with permissions of its own.
Login_(role, tenant, only, token) ==
  [role |-> role, tenant |-> tenant, only |-> only, token |-> token]
TwoAccounts == [ann |-> Login_("admin", "acme", {}, 1),
                bob |-> Login_("analyst", "umbrella", {"data:read"}, 2)]
Eve == [name |-> "eve", account |-> Login_("ingest", "acme", {}, 0)]
----------------------------------------------------------------------------
VARIABLES part,
          seen, feedback, incidents, held, counted, bad, ordered, clock, fails, restarts, closed,
          saved,
          mem, stored, known, up, unsaved, learnedBatches, peerOdd, stops, lostSaves,
          config, step, asking, attempt, answers, errors, outcome, decision, prompt, told,
          statuses, chatted, assessed,
          level, investigated, cases, proposals, arrived, closes, decisions,
          files, read, index, scored,
          inodes, target, tmp, meant, slots, rows, touched, overlapped, requests, crashes

storyVars  == <<seen, feedback, incidents, held, counted, bad, ordered, clock, fails, restarts,
                closed, saved>>
learnVars  == <<mem, stored, known, up, unsaved, learnedBatches, peerOdd, stops, lostSaves>>
adviceVars == <<config, step, asking, attempt, answers, errors, outcome, decision, prompt, told,
                statuses, chatted, assessed>>
caseVars   == <<level, investigated, cases, proposals, arrived, closes, decisions>>
enrichVars == <<files, read, index, scored>>
webVars    == <<inodes, target, tmp, meant, slots, rows, touched, overlapped, requests, crashes>>
vars == <<part, storyVars, learnVars, adviceVars, caseVars, enrichVars, webVars>>

\* Correlation, and what is proved of it for every set of findings.
Stories  == INSTANCE Correlation_proofs WITH Findings <- FourFindings, MaxFails <- MaxSaveFails
Learning == INSTANCE Baseline WITH Pipelines <- Learners, Batches <- ThreeBatches,
                                   MaxCrashes <- MaxStops, saved <- learnedBatches,
                                   crashes <- stops, fails <- lostSaves
Advice   == INSTANCE ModelAdvice WITH Environments <- FiveSettings, Prompts <- ThreePrompts,
                                      incidents <- assessed
Response == INSTANCE CaseResponse WITH Batches <- FourBatches, Runbooks <- TwoRunbooks,
                                       Replies <- TwoReplies, held <- investigated,
                                       incidents <- cases
Context  == INSTANCE Enrichment WITH Lines <- ExportLines, Hits <- Indicators,
                                     Findings <- EnrichedFindings
Web      == INSTANCE WebApi WITH Accounts <- TwoAccounts, Newcomer <- Eve

\* Windows and the repeat threshold are numbers of seconds and of findings.
ASSUME CorrelationAssumption == Stories!WindowsAssumption

\* What is requested exists.
ASSUME RoutesAssumption == /\ Routes \subseteq (DOMAIN Web!Route) \cup Web!UserRoutes
                           /\ CliRoutes \subseteq Web!UserRoutes

\* The parts whose first state is not determined keep one while another runs.
AdviceInit   == Advice!Init /\ (part # "advice" => config = CHOOSE c \in Advice!Configs : TRUE)
ResponseInit == Response!Init /\ (part # "response" => level = CHOOSE l \in AutonomyLevels : TRUE)

\* In a behaviour of the part "rules" nothing moves here: see MCEvents.
Init == /\ part \in {"rules", "stories", "learning", "advice", "response", "context", "web"}
        /\ Stories!Init /\ Learning!Init /\ AdviceInit /\ ResponseInit
        /\ Context!Init /\ Web!Init

StoryStep == /\ part = "stories" /\ Stories!Next
             /\ UNCHANGED <<part, learnVars, adviceVars, caseVars, enrichVars, webVars>>
LearnStep == /\ part = "learning" /\ Learning!Next
             /\ UNCHANGED <<part, storyVars, adviceVars, caseVars, enrichVars, webVars>>
AdviceStep == /\ part = "advice" /\ Advice!Next
              /\ UNCHANGED <<part, storyVars, learnVars, caseVars, enrichVars, webVars>>
CaseStep == /\ part = "response" /\ Response!Next
            /\ UNCHANGED <<part, storyVars, learnVars, adviceVars, enrichVars, webVars>>
EnrichStep == /\ part = "context" /\ Context!Next
              /\ UNCHANGED <<part, storyVars, learnVars, adviceVars, caseVars, webVars>>
WebStep == /\ part = "web" /\ Web!Next
           /\ UNCHANGED <<part, storyVars, learnVars, adviceVars, caseVars, enrichVars>>

Next == StoryStep \/ LearnStep \/ AdviceStep \/ CaseStep \/ EnrichStep \/ WebStep

Spec == Init /\ [][Next]_vars
----------------------------------------------------------------------------
\* Clusters are the connected components of a batch; a finding is filed in one
\* incident, once, whatever is retried; and an incident tells one story.
StoriesKept == part = "stories" =>
    Stories!ClustersAreComponents /\ Stories!OneStory /\ Stories!FiledOnce

\* While events arrive in order, a finding is suppressed only after its
\* threshold of repeats within the window, also when a batch is processed again.
OnlyRepeatsSuppressed == Stories!OnlyRepeatsSuppressed

\* Peer counts are exact in every copy of the baseline, and what was learned, or
\* never met, does not score as a novelty.
BaselineExact == part = "learning" =>
    Learning!PeerCountsExact /\ Learning!NoveltyFollowsHistory

\* On PostgreSQL no writer undoes what the stored baseline learned from a batch
\* whose result is saved.
LearnedKept == Learning!LearnedKept

\* Advice is some provider's own valid reply, only decisive advice spares the
\* LLM, its prompt fits the context, and calls are repeated only within limits.
AdviceSound == /\ Advice!AdviceIsAReply /\ Advice!OnlyDecisiveAdviceGates
               /\ Advice!PromptFits /\ Advice!CallsBounded
\* Proposals act without approval only on the runtime's own evidence, are not
\* raised twice, aim at their incident's entities; and what changes an incident
\* materially is investigated, but for the races the module names.
ResponseSound == /\ Response!ActsOnlyOnEvidence /\ Response!NotRaisedAgain
                 /\ Response!MaterialChangesInvestigated /\ Response!TargetsOfOwnIncident

\* A finding is turned down only for what the account's own record says, and
\* context scales a risk within its bounds, whatever the order of an export.
EnrichmentSound == Context!QuietIsEarned /\ Context!ContextSharpens

\* Changes of the users that do not overlap are kept through crashes, and a
\* request touches only what its user may, in the user's tenant.
WebSound == Web!UserChangesKept /\ Web!RequestsScoped
=============================================================================
