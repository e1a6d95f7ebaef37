-------------------------------- MODULE Feeds --------------------------------
(* Content that changes under a running system: `update` refreshes the ATT&CK *)
(* index, the KEV catalogue and the indicators; `load-intel` adds indicators; *)
(* `sigma-sync` replaces the directory of synced rules; and a pipeline reads  *)
(* all of it, once, when it starts.  Each is a process of its own, may be      *)
(* killed at any step (an error that nothing catches ends it as well), and     *)
(* writes its files in place, except for the indicators, which are renamed     *)
(* into place.                                                                *)
EXTENDS Naturals, Sequences, FiniteSets, Ordered

CONSTANTS Curated,    \* ids of the rules of rules/
          Releases,   \* SigmaHQ releases: sequences of [id, class] of candidates
          Imported,   \* `load-intel` file: indicators
          Published,  \* --intel-url: indicators
          Limit,      \* sigma-sync --limit
          MaxVersion, MaxRuns, MaxKills \* bounds of the model

Classes == {"applicable", "fields", "syntax"}

\* Assumed by the module that checks this one. SigmaHQ gives each rule an id of
\* its own: of two rules with one id the second would take the first one's file,
\* and both be counted.
FeedsAssumption ==
    /\ {Limit, MaxRuns, MaxKills} \subseteq Nat /\ MaxVersion \in Nat \ {0}
    /\ \A release \in Releases :
          /\ release \in Seq({release[i] : i \in DOMAIN release})
          /\ \A i \in DOMAIN release : release[i].class \in Classes
          /\ \A i, j \in DOMAIN release : release[i].id = release[j].id => i = j

VARIABLES version,   \* newest version of the ATT&CK and KEV feeds
          curatedOk, \* every file of rules/ loads
          cache,     \* "attack", "kev" -> version, 0 none, Torn
          intel,     \* indicators of the state file
          synced,    \* files of the synced directory: id -> "whole" or "torn"
          manifest,  \* <<>> or [candidates, imported, na, unsupported]
          update, load, sync,  \* the three processes; [pc |-> "off"]
          report,    \* <<>> or [failed, coverage, began, had] of the update that ended last,
                     \* with the versions and the caches it began with
          loaded,    \* <<>> or what the last pipeline read
          cut,       \* a sync was killed since the last whole one
          runs, kills

vars == <<version, curatedOk, cache, intel, synced, manifest, update, load, sync, report, loaded, cut, runs, kills>>
files == <<cache, intel, synced, manifest>>
Torn == MaxVersion + 1
Off == [pc |-> "off"]
Feed == {"attack", "kev"}
----------------------------------------------------------------------------
\* run_once: rules first, which raises on a bad rule file; then each feed.
StartUpdate ==
    /\ update = Off /\ runs < MaxRuns /\ runs' = runs + 1
    /\ update' = IF curatedOk THEN [pc |-> "fetch", feed |-> "attack", new |-> 0, coverage |-> 0,
                                    failed |-> {}, began |-> version, had |-> cache] ELSE Off
    /\ report' = <<>>
    /\ UNCHANGED <<version, curatedOk, files, load, sync, loaded, cut, kills>>
NextFeed(u) == IF u.feed = "attack" THEN [u EXCEPT !.pc = "matrix"] ELSE [u EXCEPT !.pc = "intel"]
\* load_kev_state, load_matrix_file: a torn cache is no cache.
HeldUnread(feed) == cache[feed]  \* mutant: taken for whole
Held(feed) == IF cache[feed] = Torn THEN 0 ELSE cache[feed]
\* refresh_index, refresh_kev: an unchanged version is not written.
FetchFeed(ok) ==
    /\ update.pc = "fetch"
    /\ update' = CASE ~ok -> NextFeed([update EXCEPT !.failed = @ \cup {update.feed}])
                   [] ok /\ Held(update.feed) = version[update.feed] /\ version[update.feed] # 0 -> NextFeed(update)
                   [] OTHER -> [update EXCEPT !.pc = "truncate", !.new = version[update.feed]]
    /\ UNCHANGED <<version, curatedOk, files, load, sync, report, loaded, cut, runs, kills>>
TruncateCache ==
    /\ update.pc = "truncate"
    /\ cache' = [cache EXCEPT ![update.feed] = Torn]
    /\ update' = [update EXCEPT !.pc = "write"]
    /\ UNCHANGED <<version, curatedOk, intel, synced, manifest, load, sync, report, loaded, cut, runs, kills>>
WriteCache ==
    /\ update.pc = "write"
    /\ cache' = [cache EXCEPT ![update.feed] = update.new]
    /\ update' = NextFeed(update)
    /\ UNCHANGED <<version, curatedOk, intel, synced, manifest, load, sync, report, loaded, cut, runs, kills>>
\* write_text raises before it truncated the file, or (a full disk) after; run_once
\* catches that, names the feed as failed and goes on.
WriteFails ==
    /\ update.pc \in {"truncate", "write"}
    /\ update' = NextFeed([update EXCEPT !.failed = @ \cup {update.feed}])
    /\ UNCHANGED <<version, curatedOk, files, load, sync, report, loaded, cut, runs, kills>>
\* _attack_matrix: coverage against the index, or 0, the vendored one.
LoadMatrix ==
    /\ update.pc = "matrix"
    /\ update' = [update EXCEPT !.coverage = Held("attack"), !.pc = "fetch", !.feed = "kev"]
    /\ UNCHANGED <<version, curatedOk, files, load, sync, report, loaded, cut, runs, kills>>
\* _load_indicators: a failed or empty fetch saves nothing; another replaces
\* the state.  Then the report is returned.
FetchIntel(got) ==
    LET failed == IF got = <<>> THEN update.failed \cup {"intel"} ELSE update.failed
    IN  /\ update.pc = "intel"
        /\ intel' = IF got # <<>> /\ got[1] # {} THEN got[1] ELSE intel
        /\ report' = <<[failed |-> failed, coverage |-> update.coverage, began |-> update.began, had |-> update.had]>>
        /\ update' = Off
        /\ UNCHANGED <<version, curatedOk, cache, synced, manifest, load, sync, loaded, cut, runs, kills>>

\* main, "load-intel": read, merge, save.
StartLoad == /\ load = Off /\ runs < MaxRuns /\ runs' = runs + 1
             /\ load' = [pc |-> "save", merged |-> intel \cup Imported]
             /\ UNCHANGED <<version, curatedOk, files, update, sync, report, loaded, cut, kills>>
SaveIntel == /\ load.pc = "save" /\ intel' = load.merged /\ load' = Off
             /\ UNCHANGED <<version, curatedOk, cache, synced, manifest, update, sync, report, loaded, cut, runs, kills>>
----------------------------------------------------------------------------
\* sync_rules: every candidate goes to one bucket; a rule is kept while the
\* limit allows, and named after its id.
Bucket(release, class) == {i \in DOMAIN release : release[i].class = class}
Kept(release) == LET ok == Smallest(Bucket(release, "applicable"), Limit)
                 IN  [k \in 1..Cardinality(ok) |-> release[InOrder(ok)[k]]]
Manifest(release) ==
    [candidates |-> Len(release), imported |-> Len(Kept(release)), na |-> Cardinality(Bucket(release, "fields")),
     unsupported |-> Cardinality(Bucket(release, "syntax"))]
StartSync(release) ==
    /\ sync = Off /\ runs < MaxRuns /\ runs' = runs + 1
    /\ sync' = [pc |-> "unlink", of |-> release, left |-> Kept(release)]
    /\ UNCHANGED <<version, curatedOk, files, update, load, report, loaded, cut, kills>>
\* glob order is the directory's; the manifest is one of the files.
Unlink ==
    /\ sync.pc = "unlink"
    /\ \/ \E id \in DOMAIN synced :
            /\ synced' = [x \in DOMAIN synced \ {id} |-> synced[x]] /\ UNCHANGED <<manifest, sync>>
       \/ manifest # <<>> /\ manifest' = <<>> /\ UNCHANGED <<synced, sync>>
       \/ synced = <<>> /\ manifest = <<>> /\ sync' = [sync EXCEPT !.pc = "truncate"] /\ UNCHANGED <<synced, manifest>>
    /\ UNCHANGED <<version, curatedOk, cache, intel, update, load, report, loaded, cut, runs, kills>>
Put(id, content) == synced' = [x \in DOMAIN synced \cup {id} |-> IF x = id THEN content ELSE synced[x]]
WriteRule ==
    /\ sync.pc \in {"truncate", "write"} /\ sync.left # <<>>
    /\ Put(sync.left[1].id, IF sync.pc = "truncate" THEN "torn" ELSE "whole")
    /\ sync' = IF sync.pc = "truncate" THEN [sync EXCEPT !.pc = "write"]
               ELSE [sync EXCEPT !.pc = "truncate", !.left = Tail(@)]
    /\ UNCHANGED <<version, curatedOk, cache, intel, manifest, update, load, report, loaded, cut, runs, kills>>
WriteManifest ==
    /\ sync.pc = "truncate" /\ sync.left = <<>>
    /\ manifest' = <<Manifest(sync.of)>> /\ sync' = Off /\ cut' = FALSE
    /\ UNCHANGED <<version, curatedOk, cache, intel, synced, update, load, report, loaded, runs, kills>>
----------------------------------------------------------------------------
\* A pipeline starts: _all_rules, load_kev_state, load_intel_state.  A synced
\* file that does not load is skipped and named; curated rules win an id.
LoadSyncedRules == {id \in DOMAIN synced : synced[id] = "whole"}
MergeRules == [id \in Curated \cup LoadSyncedRules |-> IF id \in Curated THEN "curated" ELSE "synced"]
StartPipeline ==
    /\ curatedOk
    /\ loaded' = <<[rules |-> MergeRules, warned |-> {id \in DOMAIN synced : synced[id] = "torn"},
                    kev |-> Held("kev"), intel |-> intel, known |-> DOMAIN synced]>>
    /\ UNCHANGED <<version, curatedOk, files, update, load, sync, report, cut, runs, kills>>

Publish(feed) == /\ version[feed] < MaxVersion /\ version' = [version EXCEPT ![feed] = @ + 1]
                 /\ UNCHANGED <<curatedOk, files, update, load, sync, report, loaded, cut, runs, kills>>
EditRules == /\ curatedOk' = ~curatedOk
             /\ UNCHANGED <<version, files, update, load, sync, report, loaded, cut, runs, kills>>
Kill == /\ kills < MaxKills /\ kills' = kills + 1
        /\ \/ update # Off /\ update' = Off /\ UNCHANGED <<load, sync, cut>>
           \/ load # Off /\ load' = Off /\ UNCHANGED <<update, sync, cut>>
           \/ sync # Off /\ sync' = Off /\ cut' = TRUE /\ UNCHANGED <<update, load>>
        /\ UNCHANGED <<version, curatedOk, files, report, loaded, runs>>

Init == /\ version = [f \in Feed |-> 1] /\ curatedOk = TRUE /\ cache = [f \in Feed |-> 0]
        /\ intel = {} /\ synced = <<>> /\ manifest = <<>>
        /\ update = Off /\ load = Off /\ sync = Off /\ report = <<>> /\ loaded = <<>>
        /\ cut = FALSE /\ runs = 0 /\ kills = 0
Next == \/ StartUpdate \/ TruncateCache \/ WriteCache \/ WriteFails \/ LoadMatrix \/ StartLoad \/ SaveIntel
        \/ \E ok \in BOOLEAN : FetchFeed(ok)
        \/ \E got \in {<<>>, <<{}>>, <<Published>>} : FetchIntel(got)
        \/ \E release \in Releases : StartSync(release)
        \/ Unlink \/ WriteRule \/ WriteManifest \/ StartPipeline \/ EditRules \/ Kill
        \/ \E feed \in Feed : Publish(feed)
Spec == Init /\ [][Next]_vars
----------------------------------------------------------------------------
\* What an update says holds, though updates were killed and writes failed: a
\* feed it does not name as failed is cached whole, no older than when the update
\* began; one it names is cached as it was, or its write broke off and nothing
\* will be read of it; and its coverage is against the index that is cached, or
\* the vendored one.
UpdateHonest ==
    report # <<>> /\ update = Off =>
        LET r == report[1]
        IN  /\ \A f \in Feed \ r.failed : cache[f] \in r.began[f]..MaxVersion
            /\ \A f \in Feed \cap r.failed : cache[f] \in {r.had[f], Torn}
            /\ r.coverage = Held("attack")

\* A pipeline runs whole rules only, each curated one as its author wrote it,
\* each synced one applicable in some release, and knows of every file it could
\* not load; and a torn KEV cache is no knowledge, not some of it.
PipelineReadsWhole ==
    loaded # <<>> =>
        LET l == loaded[1]
            applicable == UNION {{release[i].id : i \in Bucket(release, "applicable")} : release \in Releases}
        IN  /\ l.kev \in 0..MaxVersion
            /\ \A id \in Curated : l.rules[id] = "curated"
            /\ DOMAIN l.rules \ Curated \subseteq applicable
            /\ l.known = {id \in DOMAIN l.rules : id \in l.known} \cup l.warned

\* Between syncs, unless one was killed, the manifest accounts for the directory
\* and for every candidate of its release that the limit did not cut.
SyncAuditable ==
    sync = Off /\ ~cut /\ manifest # <<>> =>
        LET m == manifest[1]
        IN  /\ m.imported = Cardinality(DOMAIN synced) /\ \A id \in DOMAIN synced : synced[id] = "whole"
            /\ m.imported < Limit => m.candidates = m.imported + m.na + m.unsupported
=============================================================================
