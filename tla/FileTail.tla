------------------------------ MODULE FileTail ------------------------------
(* The connectors that tail a file by byte offset: FilePollerConnector (and *)
(* the mapper connectors built on it), CloudTrailConnector and              *)
(* SysmonConnector.  A line is written in two parts, so a poll can find the *)
(* first half of one at the end of the file; positions count half lines.    *)
EXTENDS Naturals

CONSTANTS TailKinds, MaxLines, MaxGen, MaxRestarts

\* Assumed by the module that checks this one.
TailAssumption ==
    /\ TailKinds \subseteq {"jsonl", "cloudtrail", "sysmon"}
    /\ {MaxLines, MaxGen, MaxRestarts} \subseteq Nat

VARIABLES kind,
          gen, size,          \* which file stands at the path, and how much of it
          offset, offsetGen,  \* the offset the connector keeps, and the file it was for
          delivered,          \* delivered[<<g, i>>]: times line i of file g was returned
          missed,             \* lines a poll cut in two, or passed by in a regrown file
          aborted,            \* the last poll raised
          restarts

vars == <<kind, gen, size, offset, offsetGen, delivered, missed, aborted, restarts>>

Lines == (0..MaxGen) \X (1..MaxLines)

TypeOK ==
    /\ kind \in TailKinds /\ gen \in 0..MaxGen /\ offsetGen \in 0..gen
    /\ size \in 0..(2 * MaxLines) /\ offset \in 0..(2 * MaxLines)
    /\ delivered \in [Lines -> 0..2] /\ missed \subseteq Lines /\ aborted \in BOOLEAN

Init ==
    /\ kind \in TailKinds /\ gen = 0 /\ size = 0 /\ offset = 0 /\ offsetGen = 0
    /\ delivered = [l \in Lines |-> 0] /\ missed = {} /\ aborted = FALSE /\ restarts = 0

WriteHalfLine ==
    /\ size < 2 * MaxLines /\ size' = size + 1
    /\ UNCHANGED <<kind, gen, offset, offsetGen, delivered, missed, aborted, restarts>>

Rotate ==
    /\ gen < MaxGen /\ gen' = gen + 1 /\ size' = 0
    /\ UNCHANGED <<kind, offset, offsetGen, delivered, missed, aborted, restarts>>

\* A file smaller than the offset was rotated: it is read from the start.
ReadFrom == IF size < offset THEN 0 ELSE offset

\* The lines that lie whole between the offset and the end of the file.
Whole(from) == {i \in 1..MaxLines : from <= 2 * (i - 1) /\ 2 * i <= size}
Cut == IF size % 2 = 1 THEN {<<gen, (size + 1) \div 2>>} ELSE {}

\* A rotated file that has outgrown the offset again is not noticed.
Passed(from) == IF offsetGen = gen THEN {}
                ELSE {<<gen, i>> : i \in {j \in 1..MaxLines : 2 * (j - 1) < from}}

Return(from) ==
    /\ delivered' = [l \in Lines |->
            IF l[1] = gen /\ l[2] \in Whole(from) /\ delivered[l] < 2
            THEN delivered[l] + 1 ELSE delivered[l]]
    /\ offset' = size /\ offsetGen' = gen /\ missed' = missed \cup Cut \cup Passed(from)
    /\ aborted' = FALSE
    /\ UNCHANGED <<kind, gen, size, restarts>>

\* A line that does not parse is skipped and the offset goes to end of file.
FilePoll == kind = "jsonl" /\ Return(ReadFrom)

\* CloudTrailConnector sets the offset first, then expands what it read.
CloudTrailPoll == kind = "cloudtrail" /\ Return(ReadFrom)

\* SysmonConnector reads text that is not JSON as XML; half a line is neither
\* and its ParseError leaves poll() before the offset is kept.
SysmonPoll ==
    /\ kind = "sysmon"
    /\ \/ size % 2 = 0 /\ Return(ReadFrom)
       \/ /\ size % 2 = 1 /\ aborted' = TRUE
          /\ UNCHANGED <<kind, gen, size, offset, offsetGen, delivered, missed, restarts>>

\* Every `autosiem poll` is a new process: the offsets were only in memory.
Restart ==
    /\ restarts < MaxRestarts /\ restarts' = restarts + 1
    /\ offset' = 0 /\ offsetGen' = gen /\ aborted' = FALSE
    /\ UNCHANGED <<kind, gen, size, delivered, missed>>

Next == WriteHalfLine \/ Rotate \/ FilePoll \/ CloudTrailPoll \/ SysmonPoll \/ Restart

Spec == Init /\ [][Next]_vars

----------------------------------------------------------------------------
Behind(i) == offsetGen = gen /\ 2 * i <= offset

(* A line behind the offset was returned, unless a poll cut it in two or    *)
(* took the regrown file of a rotation for the old one.                     *)
NoGap == \A i \in 1..MaxLines :
            Behind(i) => delivered[<<gen, i>>] > 0 \/ <<gen, i>> \in missed

(* One connector object returns a line once, rotations included.            *)
NoReplay == restarts = 0 => \A l \in Lines : delivered[l] <= 1

(* "partial trailing line: re-read after it completes" (connectors.py): a   *)
(* complete line behind the offset was returned.                            *)
PartialLineReread == \A i \in 1..MaxLines : Behind(i) => delivered[<<gen, i>>] > 0
=============================================================================
