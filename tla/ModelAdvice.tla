---------------------------- MODULE ModelAdvice ----------------------------
(* What AutoSIEM asks of models about one incident, in the order of           *)
(* pipeline.py: the System One engine puts typed questions to a provider and  *)
(* perhaps to a fallback, weighs the answers, and may spare the call of the   *)
(* generative LLM, whose own answer is validated or replaced by the local     *)
(* investigator's.  Probabilities are percentages.                            *)
EXTENDS Integers, Sequences, FiniteSetsExt, SequencesExt

CONSTANTS Environments,  \* [provider, fallback, onLow, gate, severity, usable]: settings,
                         \* and the providers that can be built: keyed, installed
          Accept, Review,         \* the two thresholds
          Retries,                \* AUTOSIEM_JEV_RETRIES
          Prompts,       \* LLM prompts, as lengths: [budget, system, user], and
                         \* user[k + 1] is the user prompt's with k findings
          EvidenceCap, Marker,    \* findings in a prompt; length of a "truncated" mark
          MaxIncidents            \* bound of the model

VARIABLES config,    \* the engine's DecisionConfig, and the type of its severity question
          step,      \* "idle" "ask" "call" "weigh" "gate" "chat" "raised"
          asking,    \* the provider asked
          attempt,   \* calls of it so far
          answers,   \* <<>> or the answers accepted so far
          errors,    \* providers that failed
          outcome,   \* <<>> or [disposition, answers, source, fallback]
          decision,  \* <<>> or the LLM's validated decision
          prompt,    \* <<>> or the lengths of what was sent: [system, user, kept, of]
          told,      \* providers' raw replies to this incident
          statuses,  \* statuses of the HTTP calls for this incident
          chatted,   \* the LLM was called for this incident
          incidents

vars == <<config, step, asking, attempt, answers, errors, outcome, decision, prompt, told,
          statuses, chatted, incidents>>

\* config_from_env: a fallback on the same provider is no fallback.
ConfigFromEnv(env) == [env EXCEPT !.fallback = IF @ = env.provider THEN "none" ELSE @]
----------------------------------------------------------------------------
\* SECURITY_QUESTIONS, without "action", which is asked as "severity" is; the
\* engine takes other questions too, so severity may be a scale.
TypeOf(q) == IF q = "severity" THEN config.severity ELSE "noul"
Questions == {"malicious", "severity", "needs_llm_analysis"}
Levels == <<"low", "medium", "high">>

\* What a provider may report of one question: pick is a choice, num is P(true)
\* or twice the score, conf the confidence or -1.
Noul(p) == [type |-> "noul", pick |-> "-", num |-> p, conf |-> -1]
Severities ==
    IF config.severity = "choice"
    THEN [type : {"choice"}, pick : {"high", "other"}, num : {0}, conf : {-1, 60, 90}] \cup {Noul(95)}
    ELSE [type : {"score"}, pick : {"-"}, num : {-2, -1, 3, 5, 6}, conf : {60, 90, 130}]
RawSets ==
    LET full == {[malicious |-> Noul(p), severity |-> b, needs_llm_analysis |-> Noul(n)] :
                    p \in {10, 60, 95, 130}, b \in Severities, n \in {10, 60}}
    IN  full \cup {[malicious |-> r.malicious, severity |-> r.severity] : r \in full}

\* Python's round: halves go to the even neighbour.
RoundHalves(n) == IF n % 2 = 0 THEN n \div 2
                  ELSE IF ((n - 1) \div 2) % 2 = 0 THEN (n - 1) \div 2 ELSE (n + 1) \div 2
Probability(p) == p \in 0..100

\* normalize_answer raises unless the answer is of the type asked and in range.
ValidAnswer(q, raw) ==
    /\ raw.type = TypeOf(q)
    /\ raw.type = "noul" => Probability(raw.num)
    /\ raw.type = "choice" => raw.pick \in Range(Levels)
    /\ raw.type = "score" => -1 <= raw.num /\ raw.num <= 2 * Len(Levels) - 1
    /\ raw.conf # -1 => Probability(raw.conf)
\* DecisionAnswer: what is selected, the value, and the certainty.
NormalizeAnswer(raw) ==
    CASE raw.type = "noul" -> [selected |-> raw.num >= 50, value |-> raw.num,
                               certainty |-> Max({raw.num, 100 - raw.num})]
      [] raw.type = "choice" -> [selected |-> raw.pick, value |-> -1, certainty |-> Max({raw.conf, 0})]
      [] raw.type = "score" ->
            [selected |-> Levels[1 + Max({0, Min({Len(Levels) - 1, RoundHalves(raw.num)})})],
             value |-> raw.num, certainty |-> raw.conf]
ValidAnswers(raw) == DOMAIN raw = Questions /\ \A q \in Questions : ValidAnswer(q, raw[q])
NormalizeAnswers(raw) == [q \in DOMAIN raw |-> NormalizeAnswer(raw[q])]

\* The weaker of the two answers a reader acts on governs.
Certainty(a) == Min({a["malicious"].certainty, a["severity"].certainty})
Disposition(c) == IF c >= Accept THEN "accepted" ELSE IF c >= Review THEN "review" ELSE "ignored"
----------------------------------------------------------------------------
\* After an exception the batch is processed anew, or another is.
Assess == /\ step \in {"idle", "raised"} /\ incidents < MaxIncidents
          /\ step' = "ask" /\ asking' = config.provider /\ incidents' = incidents + 1
          /\ attempt' = 0 /\ answers' = <<>> /\ errors' = <<>> /\ outcome' = <<>>
          /\ decision' = <<>> /\ prompt' = <<>> /\ told' = {} /\ statuses' = <<>> /\ chatted' = FALSE
          /\ UNCHANGED config

\* DecisionEngine.assess, once _ask has returned: whether to ask the fallback.
WantsFallback(got) ==
    /\ asking = config.provider /\ config.fallback # "none"
    /\ got # <<>> => config.onLow /\ Certainty(got[1].given) < Review
AskReturns(got) ==
    /\ answers' = IF got # <<>> THEN got ELSE answers
    /\ errors' = IF got = <<>> THEN Append(errors, asking) ELSE errors
    /\ attempt' = 0
    /\ IF WantsFallback(got) THEN step' = "ask" /\ asking' = config.fallback
                             ELSE step' = "weigh" /\ UNCHANGED asking
Fails == AskReturns(<<>>)
\* A reply is parsed; one that does not validate is a failure, never a default.
Replies(raw) ==
    /\ told' = told \cup {<<asking, raw>>}
    /\ IF ValidAnswers(raw) THEN AskReturns(<<[source |-> asking, given |-> NormalizeAnswers(raw)]>>) ELSE Fails

Quiet == UNCHANGED <<config, outcome, decision, prompt, chatted, incidents>>

\* _provider: one that cannot be built is not available.
Ask == /\ step = "ask"
       /\ IF asking \in config.usable THEN step' = "call" /\ UNCHANGED <<asking, attempt, answers, errors>> ELSE Fails
       /\ Quiet /\ UNCHANGED <<told, statuses>>

\* JevDecisionProvider.decide: only throttling and overload are tried again.
Retryable == {"429", "503"}
RetriesCall(status) == status \in Retryable /\ attempt < Retries
JevCall(status) ==
    /\ step = "call" /\ asking = "jev"
    /\ statuses' = Append(statuses, status)
    /\ IF RetriesCall(status) THEN attempt' = attempt + 1 /\ UNCHANGED <<step, asking, answers, errors>> ELSE Fails
    /\ Quiet /\ UNCHANGED told
JevAnswers == /\ step = "call" /\ asking = "jev"
              /\ statuses' = Append(statuses, "200")
              /\ \E raw \in RawSets : Replies(raw)
              /\ Quiet
\* LayaDecisionProvider: the model is loaded on first use; both may fail.
LayaFails == step = "call" /\ asking = "laya" /\ Fails /\ Quiet /\ UNCHANGED <<told, statuses>>
LayaAnswers == /\ step = "call" /\ asking = "laya"
               /\ \E raw \in RawSets : Replies(raw)
               /\ Quiet /\ UNCHANGED statuses

Weigh == /\ step = "weigh" /\ step' = "gate"
         /\ outcome' = IF answers = <<>> THEN <<[disposition |-> "unavailable", fallback |-> FALSE, advice |-> <<>>]>>
                       ELSE <<[disposition |-> Disposition(Certainty(answers[1].given)),
                               fallback |-> answers[1].source = config.fallback, advice |-> answers]>>
         /\ UNCHANGED <<config, asking, attempt, answers, errors, decision, prompt, told, statuses, chatted, incidents>>

\* should_run_llm
Decisive(a) == a["needs_llm_analysis"].selected = FALSE /\ a["needs_llm_analysis"].value <= 100 - Accept
ShouldRunLlm == ~(config.gate /\ outcome[1].disposition = "accepted" /\ Decisive(outcome[1].advice[1].given))
Gate == /\ step = "gate"
        /\ step' = IF ShouldRunLlm THEN "chat" ELSE "idle"
        /\ UNCHANGED <<config, asking, attempt, answers, errors, outcome, decision, prompt, told, statuses, chatted, incidents>>

----------------------------------------------------------------------------
\* LLMService._fit_context: the most findings that fit, then both prompts cut.
UserLength(p, k) == p.user[1 + Min({k, Len(p.user) - 1})]
Fits(p, k) == p.system + UserLength(p, k) <= p.budget
Bisect(p) ==
    LET n == Len(p.user) - 1
        search[r \in (0..n) \X (0..n)] ==
            LET mid == (r[1] + r[2] + 1) \div 2
            IN  IF r[1] >= r[2] THEN r[1]
                ELSE IF Fits(p, mid) THEN search[<<mid, r[2]>>] ELSE search[<<r[1], mid - 1>>]
    IN  search[<<0, n>>]
CutToRoom(length, room) ==  \* mutant: the mark is added to a full room
    IF length > room THEN room + Marker ELSE length
Cut(length, room) == IF length > room - Marker THEN Max({room - Marker, 0}) + Marker ELSE length
FitContext(p) ==
    LET kept == IF Fits(p, EvidenceCap) THEN EvidenceCap ELSE Bisect(p)
    IN  IF Fits(p, kept) THEN [system |-> p.system, user |-> UserLength(p, kept), kept |-> kept, of |-> p]
        ELSE [system |-> Cut(p.system, p.budget \div 2), kept |-> kept, of |-> p,
              user |-> Cut(UserLength(p, kept), p.budget - p.budget \div 2)]

\* LLMService.annotate: validate_decision clamps; without a JSON object, or
\* without an answer, the local investigator writes the report.
NotANumber == -1
ValidateDecision(d) ==
    [type |-> IF d.type \in {"escalate", "containment_proposed"} THEN d.type ELSE "suspicious_monitor",
     confidence |-> IF d.confidence = NotANumber THEN 50 ELSE Max({0, Min({100, d.confidence})})]
Prompt ==
    /\ step = "chat" /\ chatted' = TRUE
    /\ \E p \in Prompts : prompt' = <<FitContext(p)>>
    /\ told' = {} /\ statuses' = <<>> /\ errors' = <<>> /\ answers' = <<>>  \* history, not state
    /\ UNCHANGED <<config, asking, attempt, outcome, incidents>>
Chat(reply) ==
    /\ Prompt /\ step' = "idle"
    /\ decision' = IF reply = <<>> THEN <<>> ELSE <<ValidateDecision(reply[1])>>
\* A reply whose content is null has no find: AttributeError is none of the
\* errors annotate catches, and leaves process_lines.
ChatRaises == Prompt /\ step' = "raised" /\ decision' = <<>>
ModelReplies == {<<>>} \cup {<<[type |-> t, confidence |-> c]>> : t \in {"escalate", "delete_everything"}, c \in {150, 99, NotANumber}}

Configs == {ConfigFromEnv(e) : e \in Environments}
Init == /\ config \in Configs
        /\ step = "idle" /\ asking = "none" /\ attempt = 0 /\ answers = <<>> /\ errors = <<>>
        /\ outcome = <<>> /\ decision = <<>> /\ prompt = <<>> /\ told = {} /\ statuses = <<>>
        /\ chatted = FALSE /\ incidents = 0
Next == \/ Assess \/ Ask \/ JevAnswers \/ LayaFails \/ LayaAnswers \/ Weigh \/ Gate
        \/ \E status \in Retryable \cup {"401", "422", "404", "unreachable"} : JevCall(status)
        \/ \E reply \in ModelReplies : Chat(reply)
        \/ ChatRaises
Spec == Init /\ [][Next]_vars

----------------------------------------------------------------------------
\* An assessment is a whole, valid reply some provider gave for this incident:
\* every question answered and in range.  When every reply failed it is none,
\* and a valid reply of the primary is replaced only where that was asked for, and
\* by a valid reply of the fallback, which the outcome then names.
AdviceIsAReply ==
    outcome # <<>> /\ ~chatted =>
        LET valid == {t \in told : ValidAnswers(t[2])}
            primary == {t \in valid : t[1] = config.provider}
        IN  /\ outcome[1].disposition = "unavailable" <=> valid = {}
            /\ valid # {} => \E t \in valid :
                  /\ outcome[1].advice[1] = [source |-> t[1], given |-> NormalizeAnswers(t[2])]
                  /\ \A q \in Questions : t[2][q].num \in -1..100 /\ t[2][q].conf \in -1..100
            /\ primary # {} /\ ~config.onLow => outcome[1].advice[1].source = config.provider
            /\ outcome[1].fallback <=> \E t \in valid : t[1] = config.fallback

\* The LLM is spared only when the operator asked for it, by an assessment that
\* is accepted and decisive; and nothing a model says of itself leaves 0 .. 100.
OnlyDecisiveAdviceGates ==
    /\ step = "idle" /\ outcome # <<>> /\ ~chatted =>
          /\ config.gate /\ outcome[1].disposition = "accepted"
          /\ \E t \in told : ValidAnswers(t[2]) /\ t[2]["needs_llm_analysis"].num <= 100 - Accept
                          /\ t[2]["malicious"].num \notin (100 - Accept + 1)..(Accept - 1)
    /\ decision # <<>> => decision[1].confidence \in 0..100 /\ decision[1].type # "delete_everything"

\* (llm.py) "never let the pipeline break because an LLM is flaky".
NeverBreaks == step # "raised"

\* A prompt fits the model's context, as long as the two marks fit it, and is
\* trimmed of no finding that would fit too.
PromptFits ==
    prompt # <<>> =>
        LET p == prompt[1].of
        IN  /\ p.budget >= 2 * Marker + 1 => prompt[1].system + prompt[1].user <= p.budget
            /\ \A k \in 0..Min({EvidenceCap, Len(p.user) - 1}) : Fits(p, k) => k <= prompt[1].kept
\* A call that can be retried is, up to the limit; a refused one never is; and
\* (config.py) transport errors are retried as overload is.
CallsBounded ==
    /\ Len(statuses) <= Retries + 1
    /\ \A i \in 1..Len(statuses) - 1 : statuses[i] \in Retryable
TransportErrorsRetried ==
    step = "weigh" /\ "jev" \in Range(errors) /\ statuses # <<>> /\ Last(statuses) = "unreachable"
        => Len(statuses) = Retries + 1
=============================================================================
