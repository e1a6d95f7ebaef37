----------------------------- MODULE ObjectPoll -----------------------------
(* CloudTrailApiConnector: every `autosiem poll` run lists the bucket after *)
(* the last key it read, reads each log object, writes [last_key, seen] and *)
(* only then processes what it read.  Keys are numbered in the order S3     *)
(* lists them; objects are delivered to the bucket in any order.            *)
EXTENDS Naturals, Sequences, FiniteSets, SequencesExt, Ordered

CONSTANTS MaxKey,
          NotLogs,     \* keys that do not end in .json.gz
          Corrupt,     \* objects that are not gzip, or not JSON
          ListBound,   \* max_pages * max_keys: keys one listing can return
          MaxObjects, SeenKeys, MaxCrashes, MaxLostSaves

\* Assumed by the module that checks this one.
ObjectAssumption ==
    /\ {MaxKey, ListBound, MaxObjects, SeenKeys} \subseteq Nat \ {0}
    /\ NotLogs \cup Corrupt \subseteq 1..MaxKey /\ {MaxCrashes, MaxLostSaves} \subseteq Nat

VARIABLES objects,  \* keys in the bucket
          late,     \* keys that arrived behind one already read or listed
          file,     \* [last, seen] as the state file reads back
          pc, last, seen, todo, events, ingested, dropped, crashes, lostSaves

vars == <<objects, late, file, pc, last, seen, todo, events, ingested, dropped, crashes,
          lostSaves>>

Keys == 1..MaxKey
NoFile == [last |-> 0, seen |-> <<>>]
Trim(s) == IF Len(s) > SeenKeys THEN SubSeq(s, Len(s) - SeenKeys + 1, Len(s)) ELSE s

TypeOK ==
    /\ objects \subseteq Keys /\ late \subseteq objects /\ dropped \subseteq Keys
    /\ file.last \in 0..MaxKey /\ Len(file.seen) <= SeenKeys
    /\ pc \in {"idle", "list", "read", "save", "returned"}
    /\ last \in 0..MaxKey /\ Len(todo) <= MaxObjects /\ ToSet(events) \subseteq Keys
    /\ ingested \in [Keys -> 0..2]

Idle == last = 0 /\ seen = <<>> /\ todo = <<>> /\ events = <<>>
Discard == last' = 0 /\ seen' = <<>> /\ todo' = <<>> /\ events' = <<>>

Init ==
    /\ objects = {} /\ late = {} /\ file = NoFile /\ pc = "idle" /\ Idle
    /\ ingested = [k \in Keys |-> 0] /\ dropped = {} /\ crashes = 0 /\ lostSaves = 0

PutObject(k) ==
    /\ k \notin objects /\ objects' = objects \cup {k}
    /\ late' = IF \E j \in {file.last, last} \cup ToSet(todo) : k < j
               THEN late \cup {k} ELSE late
    /\ UNCHANGED <<file, pc, last, seen, todo, events, ingested, dropped, crashes, lostSaves>>

StartPoll ==
    /\ pc = "idle" /\ pc' = "list"
    /\ last' = file.last /\ seen' = file.seen /\ todo' = <<>> /\ events' = <<>>
    /\ UNCHANGED <<objects, late, file, ingested, dropped, crashes, lostSaves>>

\* _list_objects: start-after the last key, bounded pages, log objects only,
\* the oldest MaxObjects of them.
ListNewest ==  \* mutant: the newest MaxObjects of them
    LET logs == {k \in objects \ NotLogs : k > last}
    IN  InOrder({k \in logs : Cardinality({j \in logs : j > k}) < MaxObjects})
ListObjects ==
    LET page == Smallest({k \in objects : k > last}, ListBound)
    IN  InOrder(Smallest(page \ NotLogs, MaxObjects))

List(ok) ==
    /\ pc = "list"
    /\ IF ok THEN pc' = "read" /\ todo' = ListObjects
             ELSE pc' = "save" /\ todo' = <<>>
    /\ UNCHANGED <<objects, late, file, last, seen, events, ingested, dropped, crashes, lostSaves>>

\* One object of the listing.  The key advances only once it is fully read;
\* any failure, a corrupt object included, ends the poll.
ReadObject(ok) ==
    LET k == Head(todo)
    IN  /\ pc = "read" /\ todo # <<>>
        /\ UNCHANGED <<objects, late, file, ingested, dropped, crashes, lostSaves>>
        /\ \/ /\ k \in ToSet(seen)
              /\ ok /\ todo' = Tail(todo) /\ UNCHANGED <<pc, last, seen, events>>
           \/ /\ k \notin ToSet(seen) /\ ok /\ k \notin Corrupt
              /\ events' = Append(events, k) /\ seen' = Append(seen, k)
              /\ last' = IF k > last THEN k ELSE last
              /\ todo' = Tail(todo) /\ UNCHANGED pc
           \/ /\ k \notin ToSet(seen) /\ (~ok \/ k \in Corrupt)
              /\ pc' = "save" /\ todo' = <<>> /\ UNCHANGED <<last, seen, events>>

\* The seen window is trimmed only when the loop ran to its end.
LoopEnds ==
    /\ pc = "read" /\ todo = <<>> /\ pc' = "save" /\ seen' = Trim(seen)
    /\ UNCHANGED <<objects, late, file, last, todo, events, ingested, dropped, crashes, lostSaves>>

SaveState(w) ==
    /\ pc = "save" /\ pc' = "returned"
    /\ file' = CASE w = "written"    -> [last |-> last, seen |-> Trim(seen)]
                 [] w = "torn"       -> NoFile
                 [] w = "unwritable" -> file
    /\ lostSaves' = IF w = "written" THEN lostSaves ELSE lostSaves + 1
    /\ lostSaves' <= MaxLostSaves
    /\ UNCHANGED <<objects, late, last, seen, todo, events, ingested, dropped, crashes>>

Ingest ==
    /\ pc = "returned" /\ pc' = "idle"
    /\ ingested' = [k \in Keys |-> IF k \in ToSet(events) /\ ingested[k] < 2
                                   THEN ingested[k] + 1 ELSE ingested[k]]
    /\ Discard /\ UNCHANGED <<objects, late, file, dropped, crashes, lostSaves>>

Crash ==
    /\ pc # "idle" /\ crashes < MaxCrashes /\ crashes' = crashes + 1
    /\ pc' = "idle" /\ dropped' = dropped \cup ToSet(events) /\ Discard
    /\ UNCHANGED <<objects, late, file, ingested, lostSaves>>

Next ==
    \/ StartPoll \/ LoopEnds \/ Ingest \/ Crash
    \/ \E k \in Keys : PutObject(k)
    \/ \E ok \in BOOLEAN : List(ok) \/ ReadObject(ok)
    \/ \E w \in {"written", "torn", "unwritable"} : SaveState(w)

Spec == Init /\ [][Next]_vars

----------------------------------------------------------------------------
Logs == Keys \ NotLogs
Fetched(k) == ingested[k] > 0 \/ k \in ToSet(events)

(* The resume key never passes an object that was in the bucket when it was *)
(* listed and was not read: a failed or corrupt object is re-read.          *)
NoGap == \A k \in objects \cap Logs :
            k <= file.last => Fetched(k) \/ k \in dropped \/ k \in late

(* While every state write succeeds and no process dies, no object is       *)
(* processed twice.                                                         *)
NoReplay == lostSaves = 0 /\ crashes = 0 => \A k \in Keys : ingested[k] <= 1

(* "S3 keys sort lexicographically and CloudTrail keys embed the timestamp, *)
(* so start-after resumes cleanly" (connectors.py): no readable log object  *)
(* in the bucket is left behind the resume key.                             *)
ResumesCleanly == \A k \in objects \cap Logs :
            k < file.last => Fetched(k) \/ k \in dropped
=============================================================================
