--------------------------- MODULE ConnectorPoll ---------------------------
(* The three record-log connectors (OktaApiConnector, GitHubApiConnector,   *)
(* EntraApiConnector) as `autosiem poll` drives them: every run is a fresh  *)
(* process that reads the state file, follows pages, writes the state file  *)
(* and only then processes and saves the events it fetched.                 *)
(* Records are 1..server in the order the service lists them; a cursor is   *)
(* the number of records before it.                                         *)
EXTENDS Naturals, Sequences, FiniteSets, Ordered

CONSTANTS Kinds,       \* the connectors explored
          MaxRecords,  \* records the service ever holds
          PageSize, MaxPages, MaxRetries, SeenCap,
          NoId,        \* records that carry no id
          MaxCrashes, MaxLostSaves

\* Assumed by the module that checks this one.
PollAssumption ==
    /\ Kinds \subseteq {"okta", "github", "entra"}
    /\ {MaxRecords, PageSize, MaxPages, MaxRetries, SeenCap} \subseteq Nat \ {0}
    /\ SeenCap >= PageSize  \* GITHUB_SEEN_IDS and ENTRA_SEEN_IDS, per_page and $top
    /\ NoId \subseteq 1..MaxRecords /\ {MaxCrashes, MaxLostSaves} \subseteq Nat

VARIABLES kind, server,
          horizon,   \* records older than the lookback window
          file,      \* [cursor, seen] as the state file reads back
          pc, url, cursor, seen, pages, attempt, refreshed, events,
          ingested,  \* ingested[r]: how often record r was processed, 2 for more
          dropped,   \* records a dying process had fetched and not saved
          crashes, lostSaves

conn == <<url, cursor, seen, pages, attempt, refreshed, events>>
vars == <<kind, server, horizon, file, pc, url, cursor, seen, pages, attempt, refreshed,
          events, ingested, dropped, crashes, lostSaves>>

Records == 1..MaxRecords
NoCursor == MaxRecords + 1
Cursors == 0..NoCursor
NoState == [cursor |-> NoCursor, seen |-> <<>>]
SetOf(s) == {s[i] : i \in DOMAIN s}
LastN(s, n) == IF Len(s) > n THEN SubSeq(s, Len(s) - n + 1, Len(s)) ELSE s
Smaller(a, b) == IF a < b THEN a ELSE b

TypeOK ==
    /\ kind \in Kinds /\ server \in 0..MaxRecords /\ horizon \in 0..server
    /\ pc \in {"idle", "page", "save", "returned"}
    /\ file.cursor \in Cursors /\ cursor \in Cursors /\ url \in 0..MaxRecords
    /\ Len(file.seen) <= SeenCap /\ SetOf(seen) \cup SetOf(events) \subseteq Records
    /\ pages \in 0..MaxPages /\ attempt \in 1..MaxRetries /\ refreshed \in BOOLEAN
    /\ ingested \in [Records -> 0..2] /\ dropped \subseteq Records

Idle == /\ url = 0 /\ cursor = NoCursor /\ seen = <<>> /\ pages = 0 /\ attempt = 1
        /\ refreshed = FALSE /\ events = <<>>
Discard == /\ url' = 0 /\ cursor' = NoCursor /\ seen' = <<>> /\ pages' = 0 /\ attempt' = 1
           /\ refreshed' = FALSE /\ events' = <<>>

Init ==
    /\ kind \in Kinds /\ server = 0 /\ horizon = 0 /\ file = NoState /\ pc = "idle" /\ Idle
    /\ ingested = [r \in Records |-> 0] /\ dropped = {} /\ crashes = 0 /\ lostSaves = 0

----------------------------------------------------------------------------
\* The service: a page from position u, and the position its next link names.
Page(u) == [i \in 1..(Smaller(u + PageSize, server) - u) |-> u + i]

\* Okta always answers with a next link; the others only while more follow.
HasNext(u) == kind = "okta" \/ u + PageSize < server

RecordArrives == /\ server < MaxRecords /\ server' = server + 1
                 /\ UNCHANGED <<kind, horizon, file, pc, conn, ingested, dropped, crashes,
                                lostSaves>>

\* A day passes for the oldest record, between two runs.
WindowMoves == /\ pc = "idle" /\ horizon < server /\ horizon' = horizon + 1
               /\ UNCHANGED <<kind, server, file, pc, conn, ingested, dropped, crashes,
                              lostSaves>>

----------------------------------------------------------------------------
\* What a response means.  "forbidden" is a 403 without throttling headers,
\* "limited" a 403 with them, "busy" a 429 or a 5xx.
Responses == {"ok", "busy", "limited", "unauthorized", "forbidden", "failed"}

OktaRequest(r) == CASE r = "busy" -> "retry"
                    [] r = "ok"   -> "page"
                    [] OTHER      -> "raise"

GitHubRequest(r) == CASE r \in {"busy", "limited"} -> "retry"
                      [] r = "ok"                  -> "page"
                      [] OTHER                     -> "raise"

\* The first 401 of a request buys a new token; it uses up an attempt.
EntraRequest(r) == CASE r = "busy" -> "retry"
                     [] r = "unauthorized" /\ ~refreshed -> "refresh"
                     [] r = "ok"   -> "page"
                     [] OTHER      -> "raise"

Meaning(r) == CASE kind = "okta"   -> OktaRequest(r)
                [] kind = "github" -> GitHubRequest(r)
                [] kind = "entra"  -> EntraRequest(r)

\* _filter_seen: the records not delivered before, and the trimmed window.
\* A record without an id is always fresh and never remembered. A page lists its
\* records in ascending order.
Unknown(records, known) == {r \in SetOf(records) : r \in NoId \/ r \notin SetOf(known)}
FilterUntrimmed(records, known) ==  \* mutant: the window is never trimmed
    [fresh |-> InOrder(Unknown(records, known)), seen |-> known \o InOrder(SetOf(records) \ NoId)]
FilterOldest(records, known) ==     \* mutant: the window keeps the oldest ids
    LET all == known \o InOrder(Unknown(records, known) \ NoId)
    IN  [fresh |-> InOrder(Unknown(records, known)), seen |-> SubSeq(all, 1, Smaller(Len(all), SeenCap))]
FilterSeen(records, known) ==
    [fresh |-> InOrder(Unknown(records, known)),
     seen  |-> LastN(known \o InOrder(Unknown(records, known) \ NoId), SeenCap)]

----------------------------------------------------------------------------
\* _start_url: the stored position, or the beginning of the lookback window.
StartUrl == IF file.cursor # NoCursor THEN file.cursor ELSE horizon

\* A run begins: a new connector object loads the state file.
StartPoll ==
    /\ pc = "idle" /\ pc' = "page"
    /\ cursor' = file.cursor /\ seen' = file.seen
    /\ url' = StartUrl /\ pages' = 0 /\ attempt' = 1
    /\ refreshed' = FALSE /\ events' = <<>>
    /\ UNCHANGED <<kind, server, horizon, file, ingested, dropped, crashes, lostSaves>>

Retry(r) ==
    /\ pc = "page" /\ Meaning(r) \in {"retry", "refresh"}
    /\ refreshed' = (refreshed \/ Meaning(r) = "refresh")
    /\ IF attempt = MaxRetries THEN pc' = "save" /\ attempt' = 1
                               ELSE pc' = "page" /\ attempt' = attempt + 1
    /\ UNCHANGED <<kind, server, horizon, file, url, cursor, seen, pages, events, ingested,
                   dropped, crashes, lostSaves>>

\* The exception ends the page loop; what was fetched so far is kept.
Raise(r) ==
    /\ pc = "page" /\ Meaning(r) = "raise" /\ pc' = "save"
    /\ UNCHANGED <<kind, server, horizon, file, conn, ingested, dropped, crashes, lostSaves>>

\* After a page: the loop ends on an empty page, without a next link, or
\* after MaxPages pages.
NextPage(page) ==
    /\ pages' = pages + 1 /\ attempt' = 1 /\ refreshed' = FALSE
    /\ url' = IF HasNext(url) THEN url + Len(page) ELSE url
    /\ pc' = IF page = <<>> \/ ~HasNext(url) \/ pages + 1 = MaxPages THEN "save" ELSE "page"

\* Okta writes its cursor after every page, inside the loop.
OktaPage(w) ==
    LET page == Page(url)
        next == url + Len(page)
    IN  /\ kind = "okta" /\ pc = "page"
        /\ events' = events \o page /\ NextPage(page)
        /\ cursor' = next /\ seen' = seen
        /\ file' = CASE w = "written"    -> [cursor |-> next, seen |-> <<>>]
                     [] w = "torn"       -> NoState
                     [] w = "unwritable" -> file
        /\ lostSaves' = IF w = "written" THEN lostSaves ELSE lostSaves + 1
        /\ lostSaves' <= MaxLostSaves
        /\ UNCHANGED <<kind, server, horizon, ingested, dropped, crashes>>

\* GitHub and Entra resume from a page they may have read before: they keep
\* the page's link, and filter what they have seen.
FilteredPage ==
    LET page == Page(url)
        f    == FilterSeen(page, seen)
    IN  /\ pc = "page"
        /\ events' = events \o f.fresh /\ seen' = f.seen
        /\ cursor' = IF HasNext(url) THEN url + Len(page) ELSE cursor
        /\ NextPage(page)
        /\ UNCHANGED <<kind, server, horizon, file, ingested, dropped, crashes, lostSaves>>
GitHubPage == kind = "github" /\ FilteredPage
EntraPage  == kind = "entra" /\ FilteredPage

\* GitHub and Entra write [next, seen] once, after the loop or its exception.
\* The write can fail before it touches the file, or leave half a document.
SaveState(w) ==
    /\ pc = "save" /\ pc' = "returned"
    /\ kind = "okta" => w = "written"
    /\ file' = IF kind = "okta" THEN file
               ELSE CASE w = "written"    -> [cursor |-> cursor, seen |-> seen]
                      [] w = "torn"       -> NoState
                      [] w = "unwritable" -> file
    /\ lostSaves' = IF w = "written" THEN lostSaves ELSE lostSaves + 1
    /\ lostSaves' <= MaxLostSaves
    /\ UNCHANGED <<kind, server, horizon, conn, ingested, dropped, crashes>>

\* cli poll: poll() has returned, the lines are processed and saved.
Ingest ==
    /\ pc = "returned" /\ pc' = "idle"
    /\ ingested' = [r \in Records |-> Smaller(2, ingested[r]
                        + Cardinality({i \in DOMAIN events : events[i] = r}))]
    /\ Discard
    /\ UNCHANGED <<kind, server, horizon, file, dropped, crashes, lostSaves>>

Crash ==
    /\ pc # "idle" /\ crashes < MaxCrashes
    /\ pc' = "idle" /\ crashes' = crashes + 1
    /\ dropped' = dropped \cup SetOf(events)
    /\ Discard
    /\ UNCHANGED <<kind, server, horizon, file, ingested, lostSaves>>

Writes == {"written", "torn", "unwritable"}

Next ==
    \/ RecordArrives \/ WindowMoves \/ StartPoll \/ GitHubPage \/ EntraPage \/ Ingest \/ Crash
    \/ \E r \in Responses : Retry(r) \/ Raise(r)
    \/ \E w \in Writes : OktaPage(w) \/ SaveState(w)

Spec == Init /\ [][Next]_vars

----------------------------------------------------------------------------
Passed(r) == file.cursor # NoCursor /\ r <= file.cursor
Fetched(r) == ingested[r] > 0 \/ (r \in SetOf(events) /\ pc # "idle")

(* The resume point never passes a record nobody fetched: a record before   *)
(* the cursor in the state file was processed, is in the running poll, was  *)
(* dropped by a dead process, or had left the lookback window before any    *)
(* cursor existed.  An error in the middle of a poll keeps that.            *)
NoGap == \A r \in Records :
            Passed(r) => Fetched(r) \/ r \in dropped \/ r <= horizon

(* Replay is suppressed: as long as every state write succeeded and no      *)
(* process died, a record with an id is processed at most once, although    *)
(* GitHub and Entra resume from a cursor that overlaps the last page.       *)
NoReplay == lostSaves = 0 /\ crashes = 0 => \A r \in Records \ NoId : ingested[r] <= 1

(* "a restart resumes exactly where it stopped instead of replaying or      *)
(* skipping a window" (OktaApiConnector): a record before the resume point  *)
(* is not lost by a restart.                                                *)
RestartSkipsNothing == pc = "idle" =>
    \A r \in Records : Passed(r) => ingested[r] > 0 \/ r <= horizon
=============================================================================
