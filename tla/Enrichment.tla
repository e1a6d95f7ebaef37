----------------------------- MODULE Enrichment -----------------------------
(* What AutoSIEM knows of the entities of a finding, and what that does to    *)
(* the finding's severity and risk.  Inventory and directory exports are      *)
(* files that grow line by line; a process reads them when it starts and      *)
(* keeps its indexes until it ends.  A name is <<local part, domain>>, with   *)
(* domain "" for a bare name; an entity is <<kind, name>>.                    *)
EXTENDS Integers, Sequences, FiniteSetsExt, SequencesExt, Ordered

CONSTANTS Lines,      \* lines of an export, [file, array, bad, ...]: a record, or
                      \* bad: "no", "json" (not JSON), "tags" (tags is a number)
          Arrays,     \* exports that are one JSON array; the others are JSONL
          Hits,       \* names in the loaded indicators
          Exploited, Ransomware,  \* CVEs in the KEV catalogue
          Findings,   \* [rule, sev, risk, ents]
          MaxLines    \* bound of the model

VARIABLES files,   \* export -> its lines
          read,    \* export -> the records the process read
          index,   \* <<>> or [users, hosts, cves] of the process
          scored   \* <<>> or what it made of a finding

vars == <<files, read, index, scored>>

Exports == {"assets", "identities", "vulnerabilities"}
Low == 1  High == 3  Critical == 4    \* of both criticality (0: unknown) and severity
Medium == 2

\* ROLE_PROFILES, and the rules no role turns down.
ROLE_PROFILES == [backup |-> {"AUTO-CRED-004"}, ci_deploy |-> {"AUTO-CLOUD-001"}]
NEVER_ROUTINE == {"AUTO-EXFIL-001"}
----------------------------------------------------------------------------
\* load_records: an array with a mistake is no records, a bad line of JSONL
\* costs itself.
LoadRecords(export) ==
    IF export \in Arrays /\ \E i \in DOMAIN files[export] : files[export][i].bad = "json" THEN <<>>
    ELSE LET good == InOrder({i \in DOMAIN files[export] : files[export][i].bad # "json"})
         IN  [n \in DOMAIN good |-> files[export][good[n]]]

\* IdentityEnricher.add: a record replaces what its full names meant, and gives
\* their local parts a meaning only where they have none.
Bare(name) == <<name[1], "">>
AddIdentityLast(users, record) ==  \* mutant: a local part is taken over
    LET put(m, name) == [n \in DOMAIN m \cup {name, Bare(name)} |-> IF n \in {name, Bare(name)} THEN record ELSE m[n]]
    IN  FoldLeft(put, users, record.names)
AddIdentity(users, record) ==
    LET put(m, name) == LET own == [n \in DOMAIN m \cup {name} |-> IF n = name THEN record ELSE m[n]]
                        IN  [n \in DOMAIN own \cup {Bare(name)} |-> IF n \in DOMAIN own THEN own[n] ELSE record]
    IN  FoldLeft(put, users, record.names)
\* AssetEnricher.add, VulnerabilityEnricher: the later record of a host counts.
AddHost(hosts, record) ==
    [h \in DOMAIN hosts \cup {record.host} |-> IF h = record.host THEN record ELSE hosts[h]]
AddCves(hosts, record) == IF record.cves = {} THEN hosts ELSE AddHost(hosts, record)
None == [n \in {} |-> 0]

\* routine_rules: nothing is routine of an account that is not active.
RoutineRules(record) ==
    IF record.status = "disabled" THEN {}
    ELSE ((IF record.role \in DOMAIN ROLE_PROFILES THEN ROLE_PROFILES[record.role] ELSE {})
          \cup record.expected) \ NEVER_ROUTINE

\* The criticality each enricher reports; EnrichmentRegistry.enrich drops one
\* that raises.  The network enricher reports none.
AssetSays(e) == IF e[1] = "host" /\ e[2] \in DOMAIN index.hosts /\ index.hosts[e[2]].bad = "no"
                THEN index.hosts[e[2]].crit ELSE 0
IdentitySays(e) ==
    IF e[1] # "user" \/ e[2] \notin DOMAIN index.users THEN 0
    ELSE LET r == index.users[e[2]]
         IN  IF r.bad # "no" THEN 0 ELSE IF r.privileged \/ r.status = "disabled" THEN Critical ELSE r.crit
IntelSays(e) == IF e[2] \in Hits THEN Critical ELSE 0
VulnerabilitySays(e) ==
    IF e[1] # "host" \/ e[2] \notin DOMAIN index.cves THEN 0
    ELSE LET cves == index.cves[e[2]].cves \cap Exploited
         IN  IF cves \cap Ransomware # {} THEN Critical ELSE IF cves # {} THEN High ELSE 0
CriticalityFor(e) == Max({AssetSays(e), IdentitySays(e), IntelSays(e), VulnerabilitySays(e)})

\* routine_match
RoutineMatch(f) ==
    /\ f.rule \notin NEVER_ROUTINE /\ f.sev # Critical
    /\ \E e \in f.ents : e[1] = "user" /\ e[2] \in DOMAIN index.users /\ f.rule \in RoutineRules(index.users[e[2]])

\* Multipliers are quarters; Python's round takes halves to the even neighbour.
Quarters(level) == CASE level = Low -> 3 [] level \in {0, Medium} -> 4 [] level = High -> 6 [] level = Critical -> 8
RoundQuarters(n) ==
    n \div 4 + (IF n % 4 = 3 \/ (n % 4 = 2 /\ (n \div 4) % 2 = 1) THEN 1 ELSE 0)
AdjustedRisk(f) ==
    LET level == Max({0} \cup {CriticalityFor(e) : e \in f.ents})
        adjusted == RoundQuarters(f.risk * Quarters(level))
    IN  IF f.risk > 0 THEN Max({1, adjusted}) ELSE adjusted
----------------------------------------------------------------------------
\* The export is written while processes run.
WriteLine(line) ==
    /\ MapThenSumSet(LAMBDA x : Len(files[x]), Exports) < MaxLines
    /\ files' = [files EXCEPT ![line.file] = Append(@, line)]
    /\ UNCHANGED <<read, index, scored>>

\* enrichment_from_env, when a process starts.
Start ==
    /\ read' = [x \in Exports |-> LoadRecords(x)]
    /\ index' = [users |-> FoldLeft(AddIdentity, None, read'["identities"]),
                 hosts |-> FoldLeft(AddHost, None, read'["assets"]),
                 cves  |-> FoldLeft(AddCves, None, read'["vulnerabilities"])]
    /\ scored' = <<>>
    /\ UNCHANGED files

\* process_lines: routine is turned down, and not scaled by criticality.
Score(f) ==
    /\ index # <<>> /\ scored = <<>>
    /\ scored' = <<IF RoutineMatch(f)
                   THEN [of |-> f, routine |-> TRUE, sev |-> Min({Low, f.sev}),
                         risk |-> IF f.risk > 0 THEN Max({1, RoundQuarters(f.risk)}) ELSE f.risk]
                   ELSE [of |-> f, routine |-> FALSE, sev |-> f.sev, risk |-> AdjustedRisk(f)]>>
    /\ UNCHANGED <<files, read, index>>

Init == files = [x \in Exports |-> <<>>] /\ read = files /\ index = <<>> /\ scored = <<>>
Next == \/ \E line \in Lines : WriteLine(line)
        \/ Start
        \/ \E f \in Findings : Score(f)
Spec == Init /\ [][Next]_vars
----------------------------------------------------------------------------
\* Whose record speaks for a name: the last that has it in full, and only if
\* none has, the first with a name of that local part.
Speaks(name, record) ==
    LET records == read["identities"]
        full == {i \in DOMAIN records : name \in Range(records[i].names)}
        part == {i \in DOMAIN records : name \in {Bare(n) : n \in Range(records[i].names)}}
    IN  IF full # {} THEN record = records[Max(full)] ELSE part # {} /\ record = records[Min(part)]

\* A finding is turned down only because an active account in it is meant to do
\* that, by the record that speaks for the account, whatever the order of the
\* export; it stays a finding, and one on a critical severity, or of a rule that
\* is never routine, is never turned down.
QuietIsEarned ==
    scored # <<>> =>
        LET f == scored[1].of
            meant(e, r) == Speaks(e[2], r) /\ r.status # "disabled" /\ f.rule \in RoutineRules(r)
        IN  /\ scored[1].sev # f.sev \/ scored[1].routine =>
                  /\ f.sev # Critical /\ f.rule \notin NEVER_ROUTINE
                  /\ \E e \in f.ents : \E i \in DOMAIN read["identities"] :
                        e[1] = "user" /\ meant(e, read["identities"][i])
            /\ f.risk > 0 => scored[1].risk > 0

\* Context only sharpens a score: it at most doubles it; a finding of which
\* nothing is known scores as it did; and an entity in the indicators, with a
\* ransomware-linked CVE, or whose account is disabled doubles it, even where
\* another enricher fails on it.
Known(e) ==
    \/ e[2] \in Hits
    \/ e[1] = "user" /\ \E i \in DOMAIN read["identities"] : Speaks(e[2], read["identities"][i])
    \/ e[1] = "host" /\ \E x \in {"assets", "vulnerabilities"} : \E i \in DOMAIN read[x] : read[x][i].host = e[2]
Alarming(e) ==
    \/ e[2] \in Hits
    \/ e[1] = "host" /\ LET rs == read["vulnerabilities"]
                            at == {i \in DOMAIN rs : rs[i].host = e[2] /\ rs[i].cves # {}}
                        IN  at # {} /\ rs[Max(at)].cves \cap Exploited \cap Ransomware # {}
    \/ e[1] = "user" /\ \E i \in DOMAIN read["identities"] :
          LET r == read["identities"][i] IN Speaks(e[2], r) /\ r.bad = "no" /\ r.status = "disabled"
ContextSharpens ==
    scored # <<>> /\ ~scored[1].routine =>
        LET f == scored[1].of  risk == scored[1].risk
        IN  /\ risk <= 2 * f.risk /\ 4 * risk >= 3 * f.risk - 2
            /\ (\A e \in f.ents : ~Known(e)) => risk = f.risk
            /\ (\E e \in f.ents : Alarming(e)) => risk = 2 * f.risk
=============================================================================
