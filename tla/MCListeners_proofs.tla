-------------------------- MODULE MCListeners_proofs --------------------------
(***************************************************************************)
(* The listeners and the outbox, for any batch sizes, datagrams, events    *)
(* and destinations, and any number of lines, failures and saves: no        *)
(* wakeup is lost, an orderly stop settles what was read before it, and a   *)
(* receipt is written only for what the destination holds.                  *)
(* Each component has an inductive invariant of its own; the listener that  *)
(* does not run keeps the state it was stopped in.                          *)
(***************************************************************************)
EXTENDS MCListeners, SequenceTheorems, WellFoundedInduction, TLAPS
-------------------------------------------------------------------------------
(* The listener with a durable queue.                                      *)

QueueNumbers ==
  /\ received \in 0..MaxLines /\ waiting \in 0..received /\ late \in 0..received
  /\ burst \in 0..received /\ arrived \in 0..received
  /\ failures \in 0..MaxFailures /\ archiveFaults \in 0..ArchiveFaults

QueueFlags ==
  running \in BOOLEAN /\ waitOver \in BOOLEAN /\ closed \in BOOLEAN /\ closing \in BOOLEAN

QueuePlaces ==
  /\ receiver \in {"reading", "handing", "ended"}
  /\ thread \in {"sleepIdle", "sleepBatch", "sleepRetry", "check", "drain", "drained", "stopped"}
  /\ retry \in {"none", "later", "due"}

\* Lines admitted are told of once: in a burst, then as arrivals.
QueueTold ==
  /\ burst + arrived <= received
  /\ receiver # "handing" => burst = 0

\* Between two drains the thread has been, or will be, told of every line that
\* waits, unless it is to retry anyway; it sleeps for ever only when told of none.
QueueAwake ==
  /\ archiveFaults = 0 /\ thread \notin {"drain", "stopped"} /\ retry = "none" =>
       waiting <= arrived + burst
  /\ thread = "sleepIdle" => arrived = 0 /\ retry = "none"

\* The last drain begins after the server has stopped: what is admitted from then
\* on is late.
QueueLast ==
  /\ closed => ~running
  /\ closing => closed
  /\ thread = "stopped" => closing
  /\ closing /\ thread \in {"drained", "stopped"} /\ retry = "none" => waiting <= late

QueueInv == QueueNumbers /\ QueueFlags /\ QueuePlaces /\ QueueTold /\ QueueAwake /\ QueueLast
-------------------------------------------------------------------------------
(* The listener that buffers in memory.                                    *)

MemoryTypes ==
  /\ maxBatch \in BatchSizes
  /\ read \in 0..BatchLines /\ onTime \in 0..read
  /\ inHand \in Seq(1..read) /\ buffer \in Seq(1..read) /\ batch \in Seq(1..read)
  /\ pool \subseteq 1..read /\ done \subseteq 1..read /\ failed \subseteq 1..read
  /\ Len(batch) <= maxBatch

MemoryFlags == flushOver \in BOOLEAN /\ finished \in BOOLEAN

MemoryPlaces ==
  /\ reader \in {"reading", "handing", "ended"}
  /\ flusher \in {"sleepIdle", "sleepBatch", "none", "check", "process", "ended"}
  /\ main \in {"up", "joining", "shutdown", "closing", "stopped"}

LinesOf(s) == {s[k] : k \in 1..Len(s)}

\* No line is dropped between two threads: each is in somebody's hands or settled.
MemoryAccounted ==
  1..read \subseteq LinesOf(inHand) \union pool \union LinesOf(buffer) \union LinesOf(batch)
                    \union done \union failed

MemoryControl ==
  /\ reader = "handing" <=> inHand # <<>>
  /\ flusher # "process" => batch = <<>>
  /\ flusher = "none" => buffer = <<>>
  /\ maxBatch = 1 => flusher = "none"
  /\ flusher = "ended" => finished
  /\ finished <=> main \in {"closing", "stopped"}
  /\ main = "stopped" => flusher \in {"none", "ended"}
  /\ flusher = "sleepIdle" => buffer = <<>> /\ ~finished
  /\ flusher = "sleepBatch" => Len(buffer) < maxBatch

\* After each step of the stop, what it waited for holds no line read before it.
MemoryStop ==
  /\ main \in {"shutdown", "closing", "stopped"} => \A line \in LinesOf(inHand) : line > onTime
  /\ main \in {"closing", "stopped"} => pool = {}
  /\ flusher = "ended" => \A line \in LinesOf(buffer) : line > onTime

MemoryInv ==
  MemoryTypes /\ MemoryFlags /\ MemoryPlaces /\ MemoryAccounted /\ MemoryControl /\ MemoryStop
-------------------------------------------------------------------------------
(* The outbox.                                                             *)

Drainers == DOMAIN Target
Pending == UNION {saving[s] : s \in Savers}
Ids == {r.id : r \in rows}
EventIn(committed, id) == (CHOOSE r \in committed : r.id = id).event
OutboxRow == [id : Nat \ {0}, event : Events]

OutboxTypes ==
  /\ rows \subseteq OutboxRow
  /\ saving \in [Savers -> SUBSET OutboxRow]
  /\ saves \in Nat
  /\ receipts \subseteq Destinations \X Nat
  /\ DOMAIN drains = Drainers
  /\ \A d \in Drainers : DOMAIN drains[d] = {"left", "pc", "wanted", "row"}
  /\ DOMAIN sink = Destinations

\* The identity column: no two rows, committed or not, have the same number.
OutboxIds ==
  /\ \A r \in rows \union Pending : r.id <= saves
  /\ \A r \in rows, q \in rows \union Pending : r.id = q.id => r = q
  /\ \A s, t \in Savers : \A r \in saving[s], q \in saving[t] : r.id = q.id => s = t /\ r = q

\* What a run has in hand is committed, and it acknowledges only what was stored.
OutboxRuns ==
  \A d \in Drainers :
    /\ drains[d].wanted \subseteq Ids
    /\ drains[d].pc \in {"deliver", "commit"} => drains[d].row \in Ids
    /\ drains[d].pc = "commit" => EventIn(rows, drains[d].row) \in sink[Target[d]]

OutboxReceipts ==
  /\ \A x \in receipts : x[2] \in Ids /\ EventIn(rows, x[2]) \in sink[x[1]]
  /\ \A to \in Destinations : sink[to] \subseteq {r.event : r \in rows}

OutboxInv == OutboxTypes /\ OutboxIds /\ OutboxRuns /\ OutboxReceipts
-------------------------------------------------------------------------------
\* The inductive invariant of the composition.
ListenersInv ==
  /\ QueueInv /\ OutboxInv
  /\ part = "memory" => MemoryInv
  /\ part # "memory" => MemoryStopped
-------------------------------------------------------------------------------
(* The queue's invariant is inductive.                                     *)

LEMMA QueueBounds ==
  /\ MaxBatch \in Nat \ {0} /\ MaxLines \in Nat /\ MaxFailures \in Nat
  /\ ArchiveFaults \in Nat
  BY ListenersAssumption DEF Queue!ListenerAssumption

LEMMA QueueBegins ==
  ASSUME Queue!Init \/ QueueStopped
  PROVE  QueueInv
  <1> USE DEF Queue!Init, QueueStopped
  <1>1. QueueNumbers
    BY QueueBounds DEF QueueNumbers
  <1>2. QueueFlags
    BY DEF QueueFlags
  <1>3. QueuePlaces /\ QueueTold /\ QueueAwake /\ QueueLast
    BY QueueBounds DEF QueuePlaces, QueueTold, QueueAwake, QueueLast
  <1> QED BY <1>1, <1>2, <1>3 DEF QueueInv

LEMMA QueueFlagsKept ==
  ASSUME QueueFlags, Queue!Next
  PROVE  QueueFlags'
  BY DEF QueueFlags, Queue!Next, Queue!Push, Queue!ArchiveFails, Queue!Notify, Queue!SocketClosed,
         Queue!DrainerStep, Queue!StartDrain, Queue!Sleep, Queue!Drained, Queue!DrainFails,
         Queue!DrainReturns, Queue!TimedOut, Queue!Tick, Queue!Stop, Queue!Close,
         Queue!server, Queue!drainer

LEMMA QueueKept ==
  ASSUME QueueInv, Queue!Next
  PROVE  QueueInv'
  <1> USE QueueBounds DEF QueueNumbers, QueuePlaces, QueueTold, QueueAwake, QueueLast
  <1>0. /\ QueueNumbers /\ QueueFlags /\ QueuePlaces /\ QueueTold /\ QueueAwake /\ QueueLast
        /\ QueueFlags'
    BY QueueFlagsKept DEF QueueInv
  <1> DEFINE Rest == QueueNumbers' /\ QueuePlaces' /\ QueueTold' /\ QueueAwake' /\ QueueLast'
  <1>1. ASSUME NEW n \in 1..MaxLines, Queue!Push(n) PROVE Rest
    BY <1>0, <1>1 DEF Queue!Push, Queue!drainer
  <1>2. ASSUME Queue!ArchiveFails PROVE Rest
    BY <1>0, <1>2 DEF Queue!ArchiveFails, Queue!NextRead, Queue!drainer
  <1>3. ASSUME Queue!Notify PROVE Rest
    BY <1>0, <1>3 DEF Queue!Notify, Queue!NextRead, Queue!ArrivalsWith, Queue!Wakes, Queue!Asleep
  <1>4. ASSUME Queue!SocketClosed PROVE Rest
    BY <1>0, <1>4 DEF Queue!SocketClosed, Queue!drainer
  <1>5. ASSUME Queue!StartDrain PROVE Rest
    BY <1>0, <1>5 DEF Queue!StartDrain, Queue!server
  <1>6. ASSUME Queue!Sleep PROVE Rest
    BY <1>0, <1>6 DEF Queue!Sleep, Queue!WhichSleep, Queue!HasWork, Queue!server
  <1>7. ASSUME Queue!Drained PROVE Rest
    BY <1>0, <1>7 DEF Queue!Drained, Queue!server
  <1>8. ASSUME Queue!DrainFails PROVE Rest
    BY <1>0, <1>8 DEF Queue!DrainFails, Queue!server
  <1>9. ASSUME Queue!DrainReturns PROVE Rest
    BY <1>0, <1>9 DEF Queue!DrainReturns, Queue!LastDrain, Queue!server
  <1>10. ASSUME Queue!TimedOut PROVE Rest
    BY <1>0, <1>10 DEF Queue!TimedOut, Queue!server
  <1>11. ASSUME Queue!Tick PROVE Rest
    BY <1>0, <1>11 DEF Queue!Tick, Queue!server
  <1>12. ASSUME Queue!Stop PROVE Rest
    BY <1>0, <1>12 DEF Queue!Stop, Queue!drainer
  <1>13. ASSUME Queue!Close PROVE Rest
    BY <1>0, <1>13 DEF Queue!Close, Queue!Asleep, Queue!server
  <1> HIDE DEF Rest
  <1>14. Rest
    BY <1>1, <1>2, <1>3, <1>4, <1>5, <1>6, <1>7, <1>8, <1>9, <1>10, <1>11, <1>12, <1>13
       DEF Queue!Next, Queue!DrainerStep
  <1> QED BY <1>0, <1>14 DEF Rest, QueueInv

LEMMA QueueUnchanged ==
  ASSUME QueueInv, UNCHANGED queueVars
  PROVE  QueueInv'
  BY DEF QueueInv, QueueNumbers, QueueFlags, QueuePlaces, QueueTold, QueueAwake, QueueLast, queueVars

LEMMA QueueSafe ==
  ASSUME QueueInv
  PROVE  Queue!TypeOK /\ Queue!NoLostWakeup /\ Queue!StopTriesEverything
  <1>1. Queue!TypeOK
    <2>1. QueueNumbers /\ QueueFlags /\ QueuePlaces
      BY DEF QueueInv
    <2> QED BY <2>1 DEF QueueNumbers, QueueFlags, QueuePlaces, Queue!TypeOK, Queue!Asleep
  <1>2. Queue!NoLostWakeup
    BY DEF QueueInv, QueueNumbers, QueueAwake, Queue!NoLostWakeup
  <1>3. Queue!StopTriesEverything
    BY DEF QueueInv, QueueNumbers, QueueLast, Queue!StopTriesEverything
  <1> QED BY <1>1, <1>2, <1>3
-------------------------------------------------------------------------------
(* The lines of a sequence, through the operations the handler applies.    *)

LEMMA SeqGrows ==
  ASSUME NEW S, NEW T, S \subseteq T, NEW s \in Seq(S)
  PROVE  s \in Seq(T)
  OBVIOUS

LEMMA LinesWithin ==
  ASSUME NEW S, NEW s \in Seq(S)
  PROVE  LinesOf(s) \subseteq S
  BY DEF LinesOf

LEMMA LinesOfNone == LinesOf(<<>>) = {}
  BY DEF LinesOf

LEMMA LinesAppended ==
  \A S : \A s \in Seq(S) : \A x \in S :
     /\ Append(s, x) \in Seq(S) /\ Len(Append(s, x)) = Len(s) + 1
     /\ LinesOf(Append(s, x)) = LinesOf(s) \union {x}
  <1> TAKE S
  <1> TAKE s \in Seq(S)
  <1> TAKE x \in S
  <1> DEFINE t == Append(s, x)
  <1>1. /\ t \in Seq(S) /\ Len(t) = Len(s) + 1 /\ Len(s) \in Nat
        /\ \A k \in 1..Len(s) : t[k] = s[k]
        /\ t[Len(s) + 1] = x
    BY AppendProperties, LenProperties
  <1> HIDE DEF t
  <1>2. 1..Len(t) = 1..Len(s) \union {Len(s) + 1}
    BY <1>1
  <1>3. LinesOf(t) = LinesOf(s) \union {x}
    BY <1>1, <1>2 DEF LinesOf
  <1> QED BY <1>1, <1>3 DEF t

LEMMA LinesHeadTail ==
  ASSUME NEW S, NEW s \in Seq(S), s # <<>>
  PROVE  /\ Head(s) \in S /\ Tail(s) \in Seq(S)
         /\ LinesOf(s) = {Head(s)} \union LinesOf(Tail(s))
  <1> DEFINE t == Tail(s)
  <1>1. /\ Head(s) \in S /\ Head(s) = s[1] /\ t \in Seq(S) /\ Len(t) = Len(s) - 1
        /\ Len(s) \in Nat /\ Len(s) >= 1
        /\ \A k \in 1..Len(t) : t[k] = s[k + 1]
    BY HeadTailProperties, LenProperties, EmptySeq
  <1> HIDE DEF t
  <1>2. \A k \in 1..Len(s) : k = 1 \/ (k - 1 \in 1..Len(t) /\ s[k] = t[k - 1])
    BY <1>1
  <1>3. \A k \in 1..Len(t) : k + 1 \in 1..Len(s) /\ t[k] = s[k + 1]
    BY <1>1
  <1>4. LinesOf(s) \subseteq {Head(s)} \union LinesOf(t)
    BY <1>1, <1>2 DEF LinesOf
  <1>5. {Head(s)} \union LinesOf(t) \subseteq LinesOf(s)
    BY <1>1, <1>3 DEF LinesOf
  <1> QED BY <1>1, <1>4, <1>5 DEF t

LEMMA LinesSplit ==
  \A S : \A s \in Seq(S) : \A n \in 0..Len(s) :
     /\ SubSeq(s, 1, n) \in Seq(S) /\ SubSeq(s, n + 1, Len(s)) \in Seq(S)
     /\ Len(SubSeq(s, 1, n)) = n
     /\ LinesOf(s) = LinesOf(SubSeq(s, 1, n)) \union LinesOf(SubSeq(s, n + 1, Len(s)))
  <1> TAKE S
  <1> TAKE s \in Seq(S)
  <1> TAKE n \in 0..Len(s)
  <1> DEFINE a == SubSeq(s, 1, n)
             b == SubSeq(s, n + 1, Len(s))
  <1>0. Len(s) \in Nat /\ \A k \in 1..Len(s) : s[k] \in S
    BY LenProperties
  <1>1. a \in Seq(S) /\ Len(a) = n /\ \A k \in 1..n : a[k] = s[k]
    BY <1>0, SubSeqProperties
  <1>2. /\ b \in Seq(S) /\ Len(b) = Len(s) - n
        /\ \A k \in 1..(Len(s) - n) : b[k] = s[n + k]
    BY <1>0, SubSeqProperties
  <1> HIDE DEF a, b
  <1>3. \A k \in 1..Len(s) :
           (k \in 1..n /\ s[k] = a[k]) \/ (k - n \in 1..(Len(s) - n) /\ s[k] = b[k - n])
    <2>1. ASSUME NEW k \in 1..Len(s), k > n
          PROVE  k - n \in 1..(Len(s) - n) /\ s[k] = b[k - n]
      BY <1>0, <1>2, <2>1
    <2> QED BY <1>0, <1>1, <2>1
  <1>4. ASSUME NEW x \in LinesOf(s) PROVE x \in LinesOf(a) \union LinesOf(b)
    <2>1. PICK k \in 1..Len(s) : x = s[k]
      BY DEF LinesOf
    <2>2. CASE k \in 1..n /\ s[k] = a[k]
      BY <2>1, <2>2, <1>1 DEF LinesOf
    <2>3. CASE k - n \in 1..(Len(s) - n) /\ s[k] = b[k - n]
      BY <2>1, <2>3, <1>2 DEF LinesOf
    <2> QED BY <1>3, <2>2, <2>3
  <1>5. ASSUME NEW x \in LinesOf(a) PROVE x \in LinesOf(s)
    <2>1. PICK k \in 1..n : x = a[k]
      BY <1>1 DEF LinesOf
    <2>2. k \in 1..Len(s) /\ a[k] = s[k]
      BY <1>0, <1>1
    <2> QED BY <2>1, <2>2 DEF LinesOf
  <1>6. ASSUME NEW x \in LinesOf(b) PROVE x \in LinesOf(s)
    <2>1. PICK k \in 1..(Len(s) - n) : x = b[k]
      BY <1>2 DEF LinesOf
    <2>2. n + k \in 1..Len(s) /\ b[k] = s[n + k]
      BY <1>0, <1>2
    <2> QED BY <2>1, <2>2 DEF LinesOf
  <1> QED BY <1>1, <1>2, <1>4, <1>5, <1>6 DEF a, b

LEMMA LinesNumbered ==
  ASSUME NEW r \in Nat, NEW n \in Nat
  PROVE  LET s == [k \in 1..n |-> r + k]
         IN  s \in Seq((r + 1)..(r + n)) /\ LinesOf(s) = (r + 1)..(r + n) /\ Len(s) = n
  <1> DEFINE s == [k \in 1..n |-> r + k]
  <1>1. s \in Seq((r + 1)..(r + n)) /\ Len(s) = n
    BY SeqDef, LenProperties
  <1>2. LinesOf(s) \subseteq (r + 1)..(r + n)
    BY <1>1 DEF LinesOf
  <1>3. ASSUME NEW x \in (r + 1)..(r + n) PROVE x \in LinesOf(s)
    <2>1. x - r \in 1..n /\ s[x - r] = x
      BY <1>3
    <2> QED BY <1>1, <2>1 DEF LinesOf
  <1> QED BY <1>1, <1>2, <1>3

LEMMA LinesAreSet ==
  ASSUME NEW S, NEW s \in Seq(S)
  PROVE  Memory!ToSet(s) = LinesOf(s)
  BY LenProperties DEF Memory!ToSet, LinesOf
-------------------------------------------------------------------------------
(* The memory listener's invariant is inductive.                           *)

LEMMA MemoryBounds ==
  /\ BatchSizes \subseteq Nat \ {0} /\ BatchSizes # {}
  /\ MaxDatagram \in Nat \ {0} /\ BatchLines \in Nat \ {0}
  BY ListenersAssumption DEF Memory!BatchAssumption

LEMMA MemoryBegins ==
  ASSUME Memory!Init
  PROVE  MemoryInv
  <1> USE MemoryBounds DEF Memory!Init
  <1>1. MemoryTypes
    <2>1. <<>> \in Seq(1..read) /\ Len(<<>>) = 0
      BY EmptySeq
    <2> QED BY <2>1 DEF MemoryTypes
  <1>2. MemoryFlags /\ MemoryPlaces
    BY DEF MemoryFlags, MemoryPlaces
  <1>3. MemoryAccounted
    BY DEF MemoryAccounted
  <1>4. MemoryControl /\ MemoryStop
    BY LinesOfNone DEF MemoryControl, MemoryStop
  <1> QED BY <1>1, <1>2, <1>3, <1>4 DEF MemoryInv

LEMMA MemoryFlagsKept ==
  ASSUME MemoryFlags, Memory!Next
  PROVE  MemoryFlags'
  BY DEF MemoryFlags, Memory!Next, Memory!Receive, Memory!Submit, Memory!HandOver,
         Memory!HandleLine, Memory!Collect, Memory!ProcessAlone, Memory!SocketClosed, Memory!Work,
         Memory!FlusherStep, Memory!Sleep, Memory!FlusherEnds, Memory!Flush, Memory!Process,
         Memory!TimedOut, Memory!Tick, Memory!Stop, Memory!MainStep, Memory!JoinReceiver,
         Memory!Close, Memory!Stopped, Memory!handlerVars, Memory!receiverVars, Memory!outcome

\* What the handler does with a line, whichever thread calls it: the line is buffered or
\* settled, and the flusher is not left asleep over it.
LineHandled(line) ==
  /\ buffer' \in Seq(1..read) /\ done' \subseteq 1..read /\ failed' \subseteq 1..read
  /\ LinesOf(buffer') \union done' \union failed'
       = (LinesOf(buffer) \union done \union failed) \union {line}
  /\ LinesOf(buffer') \subseteq LinesOf(buffer) \union {line}
  /\ flusher = "none" => buffer' = <<>>
  /\ flusher' = flusher \/ (flusher \in {"sleepIdle", "sleepBatch"} /\ flusher' = "check")
  /\ flusher' = "sleepIdle" => buffer' = <<>>
  /\ flusher' = "sleepBatch" => Len(buffer') < maxBatch

LEMMA HandlesLine ==
  ASSUME MemoryInv, NEW line \in 1..read, Memory!HandleLine(line)
  PROVE  LineHandled(line)
  <1>0. /\ maxBatch \in Nat
        /\ buffer \in Seq(1..read) /\ done \subseteq 1..read /\ failed \subseteq 1..read
        /\ flusher = "none" => buffer = <<>>
        /\ flusher = "sleepIdle" => buffer = <<>>
        /\ flusher = "sleepBatch" => Len(buffer) < maxBatch
    BY MemoryBounds DEF MemoryInv, MemoryTypes, MemoryControl
  <1>1. CASE Memory!Collect(line)
    <2>1. /\ flusher # "none" /\ buffer' = Append(buffer, line)
          /\ done' = done /\ failed' = failed
          /\ flusher' = IF (buffer = <<>> \/ Len(buffer) + 1 >= maxBatch)
                             /\ flusher \in {"sleepIdle", "sleepBatch"}
                        THEN "check" ELSE flusher
      BY <1>1 DEF Memory!Collect, Memory!Wakes, Memory!Asleep, Memory!outcome
    <2>2. /\ buffer' \in Seq(1..read) /\ Len(buffer') = Len(buffer) + 1 /\ Len(buffer) \in Nat
          /\ LinesOf(buffer') = LinesOf(buffer) \union {line}
      <3>1. /\ Append(buffer, line) \in Seq(1..read) /\ Len(Append(buffer, line)) = Len(buffer) + 1
            /\ LinesOf(Append(buffer, line)) = LinesOf(buffer) \union {line}
        <4>1. buffer \in Seq(1..read)
          BY <1>0
        <4>2. \A s \in Seq(1..read) : \A x \in 1..read :
                 /\ Append(s, x) \in Seq(1..read) /\ Len(Append(s, x)) = Len(s) + 1
                 /\ LinesOf(Append(s, x)) = LinesOf(s) \union {x}
          BY LinesAppended, Zenon
        <4> QED BY <4>1, <4>2
      <3>2. Len(buffer) \in Nat
        BY <1>0, LenProperties
      <3> QED BY <2>1, <3>1, <3>2
    <2>3. /\ flusher' = flusher \/ (flusher \in {"sleepIdle", "sleepBatch"} /\ flusher' = "check")
          /\ flusher' = "sleepIdle" => buffer' = <<>>
          /\ flusher' = "sleepBatch" => Len(buffer') < maxBatch
      BY <1>0, <2>1, <2>2
    <2> QED BY <1>0, <2>1, <2>2, <2>3 DEF LineHandled
  <1>2. CASE ~Memory!Collect(line)
    <2>1. /\ buffer' = buffer /\ flusher' = flusher
          /\ \/ done' = done \union {line} /\ failed' = failed
             \/ failed' = failed \union {line} /\ done' = done
      BY <1>2 DEF Memory!HandleLine, Memory!ProcessAlone
    <2> QED BY <1>0, <2>1 DEF LineHandled
  <1> QED BY <1>1, <1>2

\* All of the invariant but its flags, which MemoryFlagsKept has already.
MemoryRest == MemoryTypes /\ MemoryPlaces /\ MemoryAccounted /\ MemoryControl /\ MemoryStop

LEMMA ReceiveKeeps ==
  ASSUME MemoryInv, NEW n \in 1..MaxDatagram, Memory!Receive(n)
  PROVE  MemoryRest'
  <1>0. /\ MemoryTypes /\ MemoryPlaces /\ MemoryAccounted /\ MemoryControl /\ MemoryStop
        /\ read \in Nat /\ n \in Nat /\ n >= 1 /\ onTime \in Nat /\ onTime <= read
    BY MemoryBounds DEF MemoryInv, MemoryTypes
  <1>1. /\ reader = "reading" /\ reader' = "handing" /\ read + n <= BatchLines
        /\ read' = read + n /\ inHand' = [k \in 1..n |-> read + k]
        /\ onTime' = IF main = "up" THEN read + n ELSE onTime
    BY DEF Memory!Receive, Memory!Running
  <1>2. /\ maxBatch' = maxBatch /\ buffer' = buffer /\ flusher' = flusher /\ batch' = batch
        /\ finished' = finished /\ done' = done /\ failed' = failed /\ pool' = pool /\ main' = main
    BY DEF Memory!Receive, Memory!handlerVars, Memory!outcome
  <1>3. /\ inHand' \in Seq((read + 1)..(read + n)) /\ LinesOf(inHand') = (read + 1)..(read + n)
        /\ Len(inHand') = n
    BY <1>0, <1>1, LinesNumbered
  <1>4. 1..read \subseteq 1..(read + n) /\ (read + 1)..(read + n) \subseteq 1..(read + n)
        /\ 1..(read + n) = 1..read \union ((read + 1)..(read + n))
    BY <1>0
  <1>5. /\ inHand' \in Seq(1..(read + n)) /\ buffer \in Seq(1..(read + n))
        /\ batch \in Seq(1..(read + n)) /\ inHand' # <<>>
    <2>1. inHand' \in Seq(1..(read + n))
      BY <1>3, <1>4, SeqGrows
    <2>2. buffer \in Seq(1..(read + n)) /\ batch \in Seq(1..(read + n))
      BY <1>0, <1>4, SeqGrows DEF MemoryTypes
    <2>3. inHand' # <<>>
      BY <1>0, <1>3, EmptySeq
    <2> QED BY <2>1, <2>2, <2>3
  <1>6. inHand = <<>>
    BY <1>0, <1>1 DEF MemoryControl
  <1>7. MemoryTypes'
    <2>1. read' \in 0..BatchLines /\ onTime' \in 0..read'
      BY <1>0, <1>1, MemoryBounds DEF MemoryTypes
    <2>2. pool' \subseteq 1..read' /\ done' \subseteq 1..read' /\ failed' \subseteq 1..read'
      BY <1>0, <1>1, <1>2, <1>4 DEF MemoryTypes
    <2> QED BY <1>0, <1>1, <1>2, <1>5, <2>1, <2>2 DEF MemoryTypes
  <1>8. MemoryPlaces'
    BY <1>0, <1>1, <1>2 DEF MemoryPlaces
  <1>9. MemoryAccounted'
    BY <1>0, <1>1, <1>2, <1>3, <1>4, <1>6, LinesOfNone DEF MemoryAccounted
  <1>10. MemoryControl'
    BY <1>0, <1>1, <1>2, <1>5 DEF MemoryControl
  <1>11. MemoryStop'
    <2>1. ASSUME main' \in {"shutdown", "closing", "stopped"}, NEW line \in LinesOf(inHand')
          PROVE  line > onTime'
      BY <1>0, <1>1, <1>2, <1>3, <2>1
    <2>2. ASSUME flusher' = "ended" PROVE \A line \in LinesOf(buffer') : line > onTime'
      <3>1. main \in {"closing", "stopped"}
        BY <1>0, <1>2, <2>2 DEF MemoryControl
      <3> QED BY <1>0, <1>1, <1>2, <2>2, <3>1 DEF MemoryStop
    <2>3. main' \in {"closing", "stopped"} => pool' = {}
      BY <1>0, <1>2 DEF MemoryStop
    <2> QED BY <2>1, <2>2, <2>3 DEF MemoryStop
  <1> QED BY <1>7, <1>8, <1>9, <1>10, <1>11 DEF MemoryRest

LEMMA SubmitKeeps ==
  ASSUME MemoryInv, Memory!Submit
  PROVE  MemoryRest'
  <1>0. MemoryTypes /\ MemoryPlaces /\ MemoryAccounted /\ MemoryControl /\ MemoryStop
    BY DEF MemoryInv
  <1> DEFINE line == Head(inHand)
  <1>1. /\ reader = "handing" /\ inHand' = Tail(inHand)
        /\ reader' = (IF inHand' # <<>> THEN "handing" ELSE IF main = "up" THEN "reading" ELSE "ended")
        /\ maxBatch' = maxBatch /\ read' = read /\ onTime' = onTime
        /\ batch' = batch /\ finished' = finished /\ main' = main
    BY DEF Memory!Submit, Memory!Running
  <1>2. /\ line \in 1..read /\ inHand' \in Seq(1..read)
        /\ LinesOf(inHand) = {line} \union LinesOf(inHand')
    <2>1. inHand \in Seq(1..read) /\ inHand # <<>>
      BY <1>0, <1>1 DEF MemoryTypes, MemoryControl
    <2>2. /\ Head(inHand) \in 1..read /\ Tail(inHand) \in Seq(1..read)
          /\ LinesOf(inHand) = {Head(inHand)} \union LinesOf(Tail(inHand))
      BY <2>1, LinesHeadTail
    <2> QED BY <1>1, <2>2
  <1>3. CASE main \in {"up", "joining"}
    <2>1. /\ pool' = pool \union {line} /\ done' = done /\ failed' = failed /\ buffer' = buffer
          /\ flusher' = flusher
      BY <1>3 DEF Memory!Submit, Memory!HandOver, Memory!outcome
    <2> HIDE DEF line
    <2>2. MemoryTypes'
      BY <1>0, <1>1, <1>2, <2>1 DEF MemoryTypes
    <2>3. MemoryPlaces' /\ MemoryControl'
      BY <1>0, <1>1, <2>1 DEF MemoryPlaces, MemoryControl
    <2>4. MemoryAccounted'
      BY <1>0, <1>1, <1>2, <2>1 DEF MemoryAccounted
    <2>5. MemoryStop'
      BY <1>0, <1>1, <1>3, <2>1 DEF MemoryStop
    <2> QED BY <2>2, <2>3, <2>4, <2>5 DEF MemoryRest
  <1>4. CASE main \in {"shutdown", "closing", "stopped"}
    <2>1. Memory!HandleLine(line) /\ pool' = pool
      BY <1>4 DEF Memory!Submit, Memory!HandOver
    <2> HIDE DEF line
    <2>2. LineHandled(line)
      BY <1>2, <2>1, HandlesLine
    <2>3. line > onTime
      BY <1>0, <1>2, <1>4 DEF MemoryStop
    <2>4. MemoryTypes'
      BY <1>0, <1>1, <1>2, <2>1, <2>2 DEF MemoryTypes, LineHandled
    <2>5. MemoryPlaces'
      BY <1>0, <1>1, <2>2 DEF MemoryPlaces, LineHandled
    <2>6. MemoryAccounted'
      BY <1>0, <1>1, <1>2, <2>1, <2>2 DEF MemoryAccounted, LineHandled
    <2>7. MemoryControl'
      BY <1>0, <1>1, <2>2 DEF MemoryControl, LineHandled
    <2>8. MemoryStop'
      BY <1>0, <1>1, <1>2, <2>1, <2>2, <2>3 DEF MemoryStop, LineHandled
    <2> QED BY <2>4, <2>5, <2>6, <2>7, <2>8 DEF MemoryRest
  <1> QED BY <1>0, <1>3, <1>4 DEF MemoryPlaces

LEMMA WorkKeeps ==
  ASSUME MemoryInv, Memory!Work
  PROVE  MemoryRest'
  <1>0. MemoryTypes /\ MemoryPlaces /\ MemoryAccounted /\ MemoryControl /\ MemoryStop
    BY DEF MemoryInv
  <1>1. PICK line \in pool : Memory!HandleLine(line) /\ pool' = pool \ {line}
    BY DEF Memory!Work
  <1>2. /\ maxBatch' = maxBatch /\ read' = read /\ onTime' = onTime /\ reader' = reader
        /\ inHand' = inHand /\ batch' = batch /\ finished' = finished /\ main' = main
    BY DEF Memory!Work, Memory!receiverVars
  <1>3. line \in 1..read
    BY <1>0 DEF MemoryTypes
  <1>4. LineHandled(line)
    BY <1>1, <1>3, HandlesLine
  <1>5. flusher # "ended"
    BY <1>0 DEF MemoryStop, MemoryControl
  <1>6. MemoryTypes'
    BY <1>0, <1>1, <1>2, <1>4 DEF MemoryTypes, LineHandled
  <1>7. MemoryPlaces'
    BY <1>0, <1>2, <1>4 DEF MemoryPlaces, LineHandled
  <1>8. MemoryAccounted'
    BY <1>0, <1>1, <1>2, <1>4 DEF MemoryAccounted, LineHandled
  <1>9. MemoryControl'
    BY <1>0, <1>2, <1>4 DEF MemoryControl, LineHandled
  <1>10. MemoryStop'
    BY <1>0, <1>1, <1>2, <1>4, <1>5 DEF MemoryStop, LineHandled
  <1> QED BY <1>6, <1>7, <1>8, <1>9, <1>10 DEF MemoryRest

LEMMA FlushKeeps ==
  ASSUME MemoryInv, Memory!Flush
  PROVE  MemoryRest'
  <1>0. /\ MemoryTypes /\ MemoryPlaces /\ MemoryAccounted /\ MemoryControl /\ MemoryStop
        /\ maxBatch \in Nat /\ buffer \in Seq(1..read)
    BY MemoryBounds DEF MemoryInv, MemoryTypes
  <1> DEFINE n == IF Len(buffer) < maxBatch THEN Len(buffer) ELSE maxBatch
  <1>1. /\ flusher = "check" /\ batch' = SubSeq(buffer, 1, n)
        /\ buffer' = SubSeq(buffer, n + 1, Len(buffer)) /\ flusher' = "process"
    BY DEF Memory!Flush, Memory!Leftover, Memory!BatchSize
  <1>2. /\ maxBatch' = maxBatch /\ read' = read /\ onTime' = onTime /\ reader' = reader
        /\ inHand' = inHand /\ pool' = pool /\ finished' = finished /\ done' = done
        /\ failed' = failed /\ main' = main
    BY DEF Memory!Flush, Memory!receiverVars, Memory!outcome
  <1>3. n \in 0..Len(buffer) /\ n <= maxBatch
    BY <1>0, LenProperties
  <1> HIDE DEF n
  <1>4. /\ SubSeq(buffer, 1, n) \in Seq(1..read) /\ SubSeq(buffer, n + 1, Len(buffer)) \in Seq(1..read)
        /\ Len(SubSeq(buffer, 1, n)) = n
        /\ LinesOf(buffer) = LinesOf(SubSeq(buffer, 1, n))
                               \union LinesOf(SubSeq(buffer, n + 1, Len(buffer)))
    <2>1. buffer \in Seq(1..read)
      BY <1>0
    <2> QED BY <1>3, <2>1, LinesSplit, Zenon
  <1>5. /\ batch' \in Seq(1..read) /\ buffer' \in Seq(1..read) /\ Len(batch') <= maxBatch
        /\ LinesOf(buffer) = LinesOf(batch') \union LinesOf(buffer')
    BY <1>1, <1>3, <1>4
  <1>6. MemoryTypes'
    BY <1>0, <1>2, <1>5 DEF MemoryTypes
  <1>7. MemoryPlaces' /\ MemoryControl'
    BY <1>0, <1>1, <1>2 DEF MemoryPlaces, MemoryControl
  <1>8. MemoryAccounted'
    <2>1. LinesOf(inHand') = LinesOf(inHand) /\ LinesOf(batch) = {}
      BY <1>0, <1>1, <1>2, LinesOfNone DEF MemoryControl
    <2> QED BY <1>0, <1>2, <1>5, <2>1 DEF MemoryAccounted
  <1>9. MemoryStop'
    BY <1>0, <1>1, <1>2 DEF MemoryStop
  <1> QED BY <1>6, <1>7, <1>8, <1>9 DEF MemoryRest

LEMMA ProcessKeeps ==
  ASSUME MemoryInv, Memory!Process
  PROVE  MemoryRest'
  <1>0. /\ MemoryTypes /\ MemoryPlaces /\ MemoryAccounted /\ MemoryControl /\ MemoryStop
        /\ batch \in Seq(1..read)
    BY DEF MemoryInv, MemoryTypes
  <1>1. /\ flusher = "process" /\ batch' = <<>> /\ flusher' = "check"
        /\ \/ done' = done \union LinesOf(batch) /\ failed' = failed
           \/ failed' = failed \union LinesOf(batch) /\ done' = done
    BY <1>0, LinesAreSet DEF Memory!Process
  <1>2. /\ maxBatch' = maxBatch /\ read' = read /\ onTime' = onTime /\ reader' = reader
        /\ inHand' = inHand /\ pool' = pool /\ finished' = finished /\ buffer' = buffer
        /\ main' = main
    BY DEF Memory!Process, Memory!receiverVars
  <1>3. LinesOf(batch) \subseteq 1..read
    BY <1>0, LinesWithin, Zenon
  <1>4. MemoryTypes'
    <2>1. batch' \in Seq(1..read) /\ Len(batch') <= maxBatch
      BY <1>0, <1>1, EmptySeq, MemoryBounds DEF MemoryTypes
    <2> QED BY <1>0, <1>1, <1>2, <1>3, <2>1 DEF MemoryTypes
  <1>5. MemoryPlaces' /\ MemoryControl'
    BY <1>0, <1>1, <1>2 DEF MemoryPlaces, MemoryControl
  <1>6. MemoryAccounted'
    BY <1>0, <1>1, <1>2, LinesOfNone DEF MemoryAccounted
  <1>7. MemoryStop'
    BY <1>0, <1>1, <1>2 DEF MemoryStop
  <1> QED BY <1>4, <1>5, <1>6, <1>7 DEF MemoryRest

\* The steps that move no line.
LEMMA MovesKeep ==
  ASSUME MemoryInv,
         \/ Memory!SocketClosed \/ Memory!Sleep \/ Memory!FlusherEnds \/ Memory!TimedOut
         \/ Memory!Tick \/ Memory!Stop \/ Memory!MainStep
  PROVE  MemoryRest'
  <1>0. MemoryTypes /\ MemoryPlaces /\ MemoryAccounted /\ MemoryControl /\ MemoryStop /\ MemoryFlags
    BY DEF MemoryInv
  <1>1. /\ maxBatch' = maxBatch /\ read' = read /\ onTime' = onTime /\ inHand' = inHand
        /\ pool' = pool /\ buffer' = buffer /\ batch' = batch /\ done' = done /\ failed' = failed
    BY DEF Memory!SocketClosed, Memory!Sleep, Memory!FlusherEnds, Memory!TimedOut, Memory!Tick,
           Memory!Stop, Memory!MainStep, Memory!JoinReceiver, Memory!Close, Memory!Stopped,
           Memory!handlerVars, Memory!receiverVars, Memory!outcome
  <1>2. MemoryTypes' /\ MemoryAccounted'
    BY <1>0, <1>1 DEF MemoryTypes, MemoryAccounted
  <1> DEFINE Rest == MemoryPlaces' /\ MemoryControl' /\ MemoryStop'
  <1> USE DEF MemoryPlaces, MemoryControl, MemoryStop
  <1>3. ASSUME Memory!SocketClosed PROVE Rest
    BY <1>0, <1>1, <1>3 DEF Memory!SocketClosed, Memory!handlerVars, Memory!Running
  <1>4. ASSUME Memory!Sleep PROVE Rest
    <2>1. /\ reader' = reader /\ finished' = finished /\ main' = main /\ flusher = "check"
          /\ \/ buffer = <<>> /\ ~finished /\ flusher' = "sleepIdle"
             \/ buffer # <<>> /\ ~(Len(buffer) >= maxBatch) /\ flusher' = "sleepBatch"
      BY <1>4 DEF Memory!Sleep, Memory!BatchReady, Memory!receiverVars
    <2>2. Len(buffer) \in Nat /\ maxBatch \in Nat
      BY <1>0, LenProperties, MemoryBounds DEF MemoryTypes
    <2>3. flusher' = "sleepBatch" => Len(buffer) < maxBatch
      BY <2>1, <2>2
    <2> QED BY <1>0, <1>1, <2>1, <2>3
  <1>5. ASSUME Memory!FlusherEnds PROVE Rest
    <2>1. /\ reader' = reader /\ finished' = finished /\ main' = main /\ flusher = "check"
          /\ buffer = <<>> /\ finished /\ flusher' = "ended"
      BY <1>5 DEF Memory!FlusherEnds, Memory!Finished, Memory!receiverVars
    <2> QED BY <1>0, <1>1, <2>1, LinesOfNone
  <1>6. ASSUME Memory!TimedOut PROVE Rest
    BY <1>0, <1>1, <1>6 DEF Memory!TimedOut, Memory!receiverVars
  <1>7. ASSUME Memory!Tick PROVE Rest
    BY <1>0, <1>1, <1>7 DEF Memory!Tick, Memory!receiverVars
  <1>8. ASSUME Memory!Stop PROVE Rest
    BY <1>0, <1>1, <1>8 DEF Memory!Stop, Memory!StopStep, Memory!receiverVars, Memory!handlerVars
  <1>9. ASSUME Memory!JoinReceiver PROVE Rest
    BY <1>0, <1>1, <1>9, LinesOfNone
       DEF Memory!JoinReceiver, Memory!StopStep, Memory!ReceiverGone, Memory!receiverVars,
           Memory!handlerVars
  <1>10. ASSUME Memory!Close PROVE Rest
    <2>1. /\ reader' = reader /\ main = "shutdown" /\ main' = "closing" /\ pool = {}
          /\ finished' = TRUE
          /\ flusher' = IF flusher \in {"sleepIdle", "sleepBatch"} THEN "check" ELSE flusher
      BY <1>10 DEF Memory!Close, Memory!StopStep, Memory!WorkersDone, Memory!Woken, Memory!Asleep,
                   Memory!receiverVars
    <2> QED BY <1>0, <1>1, <2>1
  <1>11. ASSUME Memory!Stopped PROVE Rest
    BY <1>0, <1>1, <1>11
       DEF Memory!Stopped, Memory!StopStep, Memory!receiverVars, Memory!handlerVars
  <1> HIDE DEF Rest
  <1>12. Rest
    BY <1>3, <1>4, <1>5, <1>6, <1>7, <1>8, <1>9, <1>10, <1>11 DEF Memory!MainStep
  <1> QED BY <1>2, <1>12 DEF Rest, MemoryRest

LEMMA MemoryKept ==
  ASSUME MemoryInv, Memory!Next
  PROVE  MemoryInv'
  <1>1. ASSUME NEW n \in 1..MaxDatagram, Memory!Receive(n) PROVE MemoryRest'
    BY <1>1, ReceiveKeeps
  <1>2. MemoryRest'
    BY <1>1, SubmitKeeps, WorkKeeps, FlushKeeps, ProcessKeeps, MovesKeep
       DEF Memory!Next, Memory!FlusherStep
  <1>3. MemoryFlags'
    BY MemoryFlagsKept DEF MemoryInv
  <1> QED BY <1>2, <1>3 DEF MemoryRest, MemoryInv

LEMMA MemoryUnchanged ==
  ASSUME UNCHANGED memoryVars
  PROVE  MemoryInv' = MemoryInv /\ MemoryStopped' = MemoryStopped
  BY DEF MemoryInv, MemoryTypes, MemoryFlags, MemoryPlaces, MemoryAccounted, MemoryControl,
         MemoryStop, MemoryStopped, memoryVars

MemorySafe ==
  /\ Memory!TypeOK /\ Memory!NoLostWakeup
  /\ Memory!StopSettlesLines /\ Memory!SingleLosesNothing

LEMMA MemoryIsSafe ==
  ASSUME MemoryInv
  PROVE  MemorySafe
  <1>0. MemoryTypes /\ MemoryFlags /\ MemoryPlaces /\ MemoryAccounted /\ MemoryControl /\ MemoryStop
    BY DEF MemoryInv
  <1>1. Memory!TypeOK
    <2>1. {inHand, buffer, batch} \subseteq Seq(1..read)
      BY <1>0 DEF MemoryTypes
    <2>2. {pool, done, failed} \subseteq SUBSET (1..read)
      BY <1>0 DEF MemoryTypes
    <2>3. {flushOver, finished} \subseteq BOOLEAN
      BY <1>0 DEF MemoryFlags
    <2> QED BY <1>0, <2>1, <2>2, <2>3 DEF MemoryTypes, MemoryPlaces, Memory!TypeOK, Memory!Asleep
  <1>2. Memory!NoLostWakeup
    BY <1>0 DEF MemoryControl, Memory!NoLostWakeup
  <1>3. ASSUME main = "stopped" PROVE pool = {} /\ LinesOf(batch) = {}
    BY <1>0, <1>3, LinesOfNone DEF MemoryControl, MemoryStop
  <1>4. Memory!StopSettlesLines
    <2>1. SUFFICES ASSUME main = "stopped", NEW line \in 1..onTime
                   PROVE  line \in done \union failed
      BY DEF Memory!StopSettlesLines
    <2>2. line \in 1..read /\ ~(line > onTime)
      BY <1>0 DEF MemoryTypes
    <2>3. line \notin LinesOf(inHand)
      BY <1>0, <2>1, <2>2 DEF MemoryStop
    <2>4. line \notin LinesOf(buffer)
      BY <1>0, <2>1, <2>2, LinesOfNone DEF MemoryControl, MemoryStop
    <2> QED BY <1>0, <1>3, <2>1, <2>2, <2>3, <2>4 DEF MemoryAccounted
  <1>5. Memory!SingleLosesNothing
    <2>1. SUFFICES ASSUME maxBatch = 1, main = "stopped", reader = "ended"
                   PROVE  1..read \subseteq done \union failed
      BY DEF Memory!SingleLosesNothing, Memory!NoLineLostUncounted
    <2>2. LinesOf(inHand) = {} /\ LinesOf(buffer) = {}
      BY <1>0, <2>1, LinesOfNone DEF MemoryControl
    <2> QED BY <1>0, <1>3, <2>1, <2>2 DEF MemoryAccounted
  <1> QED BY <1>1, <1>2, <1>4, <1>5 DEF MemorySafe

LEMMA StoppedMemoryIsSafe ==
  ASSUME MemoryStopped
  PROVE  MemorySafe
  <1>1. maxBatch \in BatchSizes /\ maxBatch \in Nat
    BY MemoryBounds DEF MemoryStopped
  <1>2. <<>> \in Seq(1..read) /\ Len(<<>>) = 0
    BY EmptySeq
  <1>3. Memory!TypeOK
    <2>1. {inHand, buffer, batch} \subseteq Seq(1..read) /\ Len(batch) <= maxBatch
      BY <1>1, <1>2, MemoryBounds DEF MemoryStopped
    <2>2. {flushOver, finished} \subseteq BOOLEAN
      BY DEF MemoryStopped
    <2>3. {pool, done, failed} \subseteq SUBSET (1..read)
      BY DEF MemoryStopped
    <2>4. read \in 0..BatchLines /\ onTime \in 0..read
      BY MemoryBounds DEF MemoryStopped
    <2> QED BY <1>1, <2>1, <2>2, <2>3, <2>4 DEF MemoryStopped, Memory!TypeOK, Memory!Asleep
  <1>4. 1..read = {} /\ 1..onTime = {}
    BY DEF MemoryStopped
  <1> QED BY <1>3, <1>4 DEF MemoryStopped, MemorySafe, Memory!NoLostWakeup,
                Memory!StopSettlesLines, Memory!SingleLosesNothing, Memory!NoLineLostUncounted
-------------------------------------------------------------------------------
(* The outbox's invariant is inductive.                                    *)

LEMMA TargetsKnown == \A d \in Drainers : Target[d] \in Destinations
  BY ListenersAssumption DEF Projections!OutboxAssumption, Projections!Drainers, Drainers

\* An id names one row, so it names the same event for good.
LEMMA EventOfRow ==
  ASSUME NEW committed, \A r, q \in committed : r.id = q.id => r = q, NEW r \in committed
  PROVE  EventIn(committed, r.id) = r.event
  <1>1. (CHOOSE q \in committed : q.id = r.id) = r
    OBVIOUS
  <1> QED BY <1>1 DEF EventIn

LEMMA EventStays ==
  ASSUME NEW before, NEW after, before \subseteq after,
         \A r, q \in after : r.id = q.id => r = q,
         NEW id \in {r.id : r \in before}
  PROVE  EventIn(after, id) = EventIn(before, id)
  <1>1. PICK r \in before : id = r.id
    OBVIOUS
  <1>2. EventIn(after, r.id) = r.event
    BY EventOfRow
  <1>3. EventIn(before, r.id) = r.event
    BY EventOfRow
  <1> QED BY <1>1, <1>2, <1>3

LEMMA LeastChosen ==
  ASSUME NEW T, T \subseteq Nat, T # {}
  PROVE  Projections!Min(T) \in T
  <1>1. PICK x \in T : \A y \in T : ~(<<y, x>> \in OpToRel(<, Nat))
    BY WFMin, NatLessThanWellFounded
  <1>2. ASSUME NEW y \in T PROVE x <= y
    <2>1. SUFFICES ASSUME y < x PROVE FALSE
      OBVIOUS
    <2>2. <<y, x>> \in Nat \X Nat /\ <<y, x>>[1] < <<y, x>>[2]
      BY <2>1
    <2>3. <<y, x>> \in OpToRel(<, Nat)
      BY <2>2, Zenon DEF OpToRel
    <2> QED BY <1>1, <2>3
  <1> QED BY <1>2 DEF Projections!Min

LEMMA OutboxBegins ==
  ASSUME Projections!Init
  PROVE  OutboxInv
  <1>1. OutboxTypes
    BY DEF Projections!Init, Projections!Idle, Projections!Drainers, Drainers, OutboxTypes
  <1>2. OutboxIds
    BY DEF Projections!Init, OutboxIds, Pending
  <1>3. OutboxRuns
    BY DEF Projections!Init, Projections!Idle, Projections!Drainers, Drainers, OutboxRuns
  <1>4. OutboxReceipts
    BY DEF Projections!Init, OutboxReceipts
  <1> QED BY <1>1, <1>2, <1>3, <1>4 DEF OutboxInv

LEMMA SaveKeeps ==
  ASSUME OutboxInv, NEW s \in Savers, NEW e \in Events, Projections!Save(s, e)
  PROVE  OutboxInv'
  <1>0. OutboxTypes /\ OutboxIds /\ OutboxRuns /\ OutboxReceipts
    BY DEF OutboxInv
  <1> DEFINE new == [id |-> saves + 1, event |-> e]
  <1>1. /\ saves \in Nat /\ saves' = saves + 1 /\ rows' = rows /\ receipts' = receipts
        /\ drains' = drains /\ sink' = sink
        /\ saving[s] = {} /\ saving' = [saving EXCEPT ![s] = {new}]
        /\ new.id = saves + 1 /\ new \in OutboxRow
    BY <1>0 DEF Projections!Save, OutboxTypes, OutboxRow
  <1> HIDE DEF new
  <1>2. /\ saving'[s] = {new} /\ \A t \in Savers : t # s => saving'[t] = saving[t]
        /\ saving' \in [Savers -> SUBSET OutboxRow]
    BY <1>0, <1>1 DEF OutboxTypes
  <1>3. OutboxTypes'
    BY <1>0, <1>1, <1>2 DEF OutboxTypes
  <1>4. Pending' = Pending \union {new}
    BY <1>1, <1>2 DEF Pending
  <1>5. \A r \in rows \union Pending : r.id \in Nat /\ r.id <= saves
    BY <1>0 DEF OutboxIds, OutboxTypes, OutboxRow, Pending
  <1>6. OutboxIds'
    <2>1. \A r \in rows' \union Pending' : r.id <= saves'
      BY <1>1, <1>4, <1>5
    <2>2. \A r \in rows', q \in rows' \union Pending' : r.id = q.id => r = q
      BY <1>0, <1>1, <1>4, <1>5 DEF OutboxIds
    <2>3. ASSUME NEW t \in Savers, NEW u \in Savers, NEW r \in saving'[t], NEW q \in saving'[u],
                 r.id = q.id
          PROVE  t = u /\ r = q
      <3>1. t # s => r \in Pending /\ r \in saving[t]
        BY <1>2 DEF Pending
      <3>2. u # s => q \in Pending /\ q \in saving[u]
        BY <1>2 DEF Pending
      <3>3. (t = s => r = new) /\ (u = s => q = new)
        BY <1>2
      <3> QED BY <1>0, <1>1, <1>5, <2>3, <3>1, <3>2, <3>3 DEF OutboxIds
    <2> QED BY <2>1, <2>2, <2>3 DEF OutboxIds
  <1>7. OutboxRuns' /\ OutboxReceipts'
    BY <1>0, <1>1 DEF OutboxRuns, OutboxReceipts, Ids
  <1> QED BY <1>3, <1>6, <1>7 DEF OutboxInv

LEMMA EndSaveKeeps ==
  ASSUME OutboxInv, NEW s \in Savers, NEW commits \in BOOLEAN, Projections!EndSave(s, commits)
  PROVE  OutboxInv'
  <1>0. OutboxTypes /\ OutboxIds /\ OutboxRuns /\ OutboxReceipts
    BY DEF OutboxInv
  <1>1. /\ saves' = saves /\ receipts' = receipts /\ drains' = drains /\ sink' = sink
        /\ rows' = rows \/ rows' = rows \union saving[s]
        /\ saving' = [saving EXCEPT ![s] = {}]
    BY DEF Projections!EndSave
  <1>2. /\ saving'[s] = {} /\ \A t \in Savers : t # s => saving'[t] = saving[t]
        /\ saving' \in [Savers -> SUBSET OutboxRow] /\ saving[s] \subseteq OutboxRow
    BY <1>0, <1>1 DEF OutboxTypes
  <1>3. rows' \subseteq OutboxRow /\ OutboxTypes'
    BY <1>0, <1>1, <1>2 DEF OutboxTypes
  <1>4. /\ Pending' \subseteq Pending /\ rows \subseteq rows' /\ rows' \subseteq rows \union saving[s]
        /\ saving[s] \subseteq Pending
    BY <1>1, <1>2 DEF Pending
  <1>5. ASSUME NEW r \in rows', NEW q \in rows' \union Pending', r.id = q.id PROVE r = q
    <2>1. CASE r \in rows \/ q \in rows
      BY <1>0, <1>4, <1>5, <2>1 DEF OutboxIds
    <2>2. CASE r \in saving[s] /\ q \in Pending
      <3>1. PICK t \in Savers : q \in saving[t]
        BY <2>2 DEF Pending
      <3> QED BY <1>0, <1>5, <2>2, <3>1 DEF OutboxIds
    <2> QED BY <1>4, <2>1, <2>2
  <1>6. OutboxIds'
    <2>1. \A r \in rows' \union Pending' : r.id <= saves'
      BY <1>0, <1>1, <1>4 DEF OutboxIds
    <2>2. \A t, u \in Savers : \A r \in saving'[t], q \in saving'[u] : r.id = q.id => t = u /\ r = q
      BY <1>0, <1>2 DEF OutboxIds
    <2> QED BY <1>5, <2>1, <2>2 DEF OutboxIds
  <1>7. \A id \in Ids : EventIn(rows', id) = EventIn(rows, id)
    <2>1. \A r, q \in rows' : r.id = q.id => r = q
      BY <1>5
    <2> QED BY <1>4, <2>1, EventStays DEF Ids
  <1>8. Ids \subseteq Ids' /\ {r.event : r \in rows} \subseteq {r.event : r \in rows'}
    BY <1>4 DEF Ids
  <1>9. OutboxRuns'
    BY <1>0, <1>1, <1>7, <1>8 DEF OutboxRuns
  <1>10. OutboxReceipts'
    BY <1>0, <1>1, <1>7, <1>8 DEF OutboxReceipts
  <1> QED BY <1>3, <1>6, <1>9, <1>10 DEF OutboxInv

\* What is asked of a run after a step of it.
RunSound(d, run, held) ==
  /\ DOMAIN run = {"left", "pc", "wanted", "row"}
  /\ run.wanted \subseteq Ids
  /\ run.pc \in {"deliver", "commit"} => run.row \in Ids
  /\ run.pc = "commit" => EventIn(rows, run.row) \in held

Given(d) == IF drains[d].pc = "commit" THEN {<<Target[d], drains[d].row>>} ELSE {}

LEMMA DrainsKeep ==
  ASSUME OutboxInv, NEW d \in Drainers,
         rows' = rows, saving' = saving, saves' = saves,
         receipts' \subseteq receipts \union Given(d),
         DOMAIN drains' = Drainers,
         \A c \in Drainers : c # d => drains'[c] = drains[c],
         RunSound(d, drains'[d], sink'[Target[d]]),
         DOMAIN sink' = Destinations,
         \A to \in Destinations : /\ sink[to] \subseteq sink'[to]
                                  /\ sink'[to] \subseteq {r.event : r \in rows}
  PROVE  OutboxInv'
  <1>0. /\ OutboxTypes /\ OutboxIds /\ OutboxRuns /\ OutboxReceipts
        /\ Target[d] \in Destinations /\ Ids' = Ids
    BY TargetsKnown DEF OutboxInv, Ids
  <1>1. Ids \subseteq Nat
    BY <1>0 DEF Ids, OutboxTypes, OutboxRow
  <1>2. ASSUME NEW x \in Given(d)
        PROVE  /\ x \in Destinations \X Nat /\ x[2] \in Ids
               /\ EventIn(rows, x[2]) \in sink[x[1]]
    <2>1. drains[d].pc = "commit" /\ x = <<Target[d], drains[d].row>>
      BY <1>2 DEF Given
    <2>2. drains[d].row \in Ids /\ EventIn(rows, drains[d].row) \in sink[Target[d]]
      BY <1>0, <2>1 DEF OutboxRuns
    <2> QED BY <1>0, <1>1, <2>1, <2>2
  <1>3. OutboxTypes'
    <2>1. receipts' \subseteq Destinations \X Nat
      BY <1>0, <1>2 DEF OutboxTypes
    <2>2. \A c \in Drainers : DOMAIN drains'[c] = {"left", "pc", "wanted", "row"}
      BY <1>0 DEF OutboxTypes, RunSound
    <2> QED BY <1>0, <2>1, <2>2 DEF OutboxTypes
  <1>4. OutboxIds'
    BY <1>0 DEF OutboxIds, Pending
  <1>5. OutboxRuns'
    <2>1. ASSUME NEW c \in Drainers
          PROVE  /\ drains'[c].wanted \subseteq Ids
                 /\ drains'[c].pc \in {"deliver", "commit"} => drains'[c].row \in Ids
                 /\ drains'[c].pc = "commit" => EventIn(rows, drains'[c].row) \in sink'[Target[c]]
      BY <1>0, TargetsKnown DEF OutboxRuns, RunSound
    <2> QED BY <1>0, <2>1 DEF OutboxRuns
  <1>6. OutboxReceipts'
    <2>1. ASSUME NEW x \in receipts'
          PROVE  x[2] \in Ids /\ EventIn(rows, x[2]) \in sink'[x[1]]
      <3>1. x \in Destinations \X Nat /\ x[2] \in Ids /\ EventIn(rows, x[2]) \in sink[x[1]]
        BY <1>0, <1>2 DEF OutboxTypes, OutboxReceipts
      <3>2. x[1] \in Destinations
        BY <3>1
      <3> QED BY <3>1, <3>2
    <2> QED BY <1>0, <2>1 DEF OutboxReceipts
  <1> QED BY <1>3, <1>4, <1>5, <1>6 DEF OutboxInv

LEMMA SinkStores ==
  ASSUME OutboxInv, NEW d \in Drainers, drains[d].row \in Ids,
         sink' = [sink EXCEPT ![Target[d]] = @ \union {Projections!EventOf(drains[d].row)}]
  PROVE  /\ DOMAIN sink' = Destinations
         /\ \A to \in Destinations : /\ sink[to] \subseteq sink'[to]
                                     /\ sink'[to] \subseteq {r.event : r \in rows}
         /\ EventIn(rows, drains[d].row) \in sink'[Target[d]]
  <1>1. /\ DOMAIN sink = Destinations /\ Target[d] \in Destinations
        /\ \A to \in Destinations : sink[to] \subseteq {r.event : r \in rows}
        /\ \A r, q \in rows : r.id = q.id => r = q
    BY TargetsKnown DEF OutboxInv, OutboxTypes, OutboxReceipts, OutboxIds
  <1>2. PICK r \in rows : drains[d].row = r.id
    BY DEF Ids
  <1>3. EventIn(rows, drains[d].row) = r.event
    BY <1>1, <1>2, EventOfRow
  <1>4. Projections!EventOf(drains[d].row) = EventIn(rows, drains[d].row)
    BY DEF Projections!EventOf, EventIn
  <1> DEFINE event == EventIn(rows, drains[d].row)
  <1>5. sink' = [sink EXCEPT ![Target[d]] = @ \union {event}]
    BY <1>4
  <1>6. event \in {q.event : q \in rows}
    BY <1>2, <1>3
  <1> HIDE DEF event
  <1>7. /\ DOMAIN sink' = Destinations /\ event \in sink'[Target[d]]
        /\ \A to \in Destinations : /\ sink[to] \subseteq sink'[to]
                                    /\ sink'[to] \subseteq sink[to] \union {event}
    BY <1>1, <1>5
  <1> QED BY <1>1, <1>6, <1>7 DEF event

LEMMA RunKeeps ==
  ASSUME OutboxInv, NEW d \in Drainers,
         \/ Projections!Select(d) \/ Projections!LockRow(d) \/ Projections!Deliver(d)
         \/ Projections!Commit(d) \/ Projections!StartDrain(d)
         \/ \E stored \in BOOLEAN : Projections!Fault(d, stored)
  PROVE  OutboxInv'
  <1>0. /\ DOMAIN drains = Drainers /\ DOMAIN drains[d] = {"left", "pc", "wanted", "row"}
        /\ drains[d].wanted \subseteq Ids
        /\ drains[d].pc \in {"deliver", "commit"} => drains[d].row \in Ids
        /\ DOMAIN sink = Destinations /\ Ids \subseteq Nat /\ Target[d] \in Destinations
        /\ \A to \in Destinations : sink[to] \subseteq {r.event : r \in rows}
    BY TargetsKnown DEF OutboxInv, OutboxTypes, OutboxRuns, OutboxReceipts, Ids, OutboxRow
  <1>1. \A run : Projections!Go(d, run) =>
           /\ DOMAIN drains' = Drainers /\ drains'[d] = run
           /\ \A c \in Drainers : c # d => drains'[c] = drains[c]
    BY <1>0 DEF Projections!Go
  <1>2. \A held : RunSound(d, Projections!Idle, held)
    BY DEF RunSound, Projections!Idle
  <1>3. CASE Projections!Select(d)
    <2>1. Projections!Wanted(d) \subseteq Ids
      BY DEF Projections!Wanted, Ids
    <2>2. RunSound(d, [drains[d] EXCEPT !.pc = "lock", !.wanted = Projections!Wanted(d)],
                   sink'[Target[d]])
      BY <1>0, <2>1 DEF RunSound
    <2>3. Projections!Go(d, [drains[d] EXCEPT !.pc = "lock", !.wanted = Projections!Wanted(d)])
      BY <1>3 DEF Projections!Select
    <2>4. drains'[d] = [drains[d] EXCEPT !.pc = "lock", !.wanted = Projections!Wanted(d)]
      BY <1>1, <2>3
    <2>5. RunSound(d, drains'[d], sink'[Target[d]])
      BY <2>2, <2>4
    <2>6. /\ rows' = rows /\ saving' = saving /\ saves' = saves /\ receipts' = receipts
          /\ sink' = sink
      BY <1>3 DEF Projections!Select
    <2> QED BY <1>0, <1>1, <2>3, <2>5, <2>6, DrainsKeep
  <1>4. CASE Projections!LockRow(d)
    <2> DEFINE free == drains[d].wanted \ Projections!Locked
               taken == [drains[d] EXCEPT !.pc = "deliver", !.row = Projections!Min(free)]
    <2>1. Projections!Go(d, IF free = {} THEN Projections!Idle ELSE taken)
      BY <1>4 DEF Projections!LockRow
    <2>2. ASSUME free # {} PROVE RunSound(d, taken, sink'[Target[d]])
      <3>1. free \subseteq Ids /\ free \subseteq Nat
        BY <1>0
      <3> HIDE DEF free
      <3>2. Projections!Min(free) \in Ids
        BY <2>2, <3>1, LeastChosen
      <3> QED BY <1>0, <3>2 DEF RunSound
    <2>3. drains'[d] = IF free = {} THEN Projections!Idle ELSE taken
      BY <1>1, <2>1
    <2> HIDE DEF free, taken
    <2>4. RunSound(d, drains'[d], sink'[Target[d]])
      BY <1>2, <2>2, <2>3
    <2>5. /\ rows' = rows /\ saving' = saving /\ saves' = saves /\ receipts' = receipts
          /\ sink' = sink
      BY <1>4 DEF Projections!LockRow
    <2> QED BY <1>0, <1>1, <2>1, <2>4, <2>5, DrainsKeep
  <1>5. CASE Projections!Deliver(d)
    <2>1. /\ drains[d].row \in Ids
          /\ sink' = [sink EXCEPT ![Target[d]] = @ \union {Projections!EventOf(drains[d].row)}]
          /\ Projections!Go(d, [drains[d] EXCEPT !.pc = "commit"])
      BY <1>0, <1>5 DEF Projections!Deliver
    <2>2. /\ DOMAIN sink' = Destinations
          /\ \A to \in Destinations : /\ sink[to] \subseteq sink'[to]
                                      /\ sink'[to] \subseteq {r.event : r \in rows}
          /\ EventIn(rows, drains[d].row) \in sink'[Target[d]]
      BY <2>1, SinkStores
    <2>3. RunSound(d, [drains[d] EXCEPT !.pc = "commit"], sink'[Target[d]])
      BY <1>0, <2>1, <2>2 DEF RunSound
    <2>4. drains'[d] = [drains[d] EXCEPT !.pc = "commit"]
      BY <1>1, <2>1
    <2>5. RunSound(d, drains'[d], sink'[Target[d]])
      BY <2>3, <2>4
    <2>6. rows' = rows /\ saving' = saving /\ saves' = saves /\ receipts' = receipts
      BY <1>5 DEF Projections!Deliver
    <2> QED BY <1>1, <2>1, <2>2, <2>5, <2>6, DrainsKeep
  <1>6. CASE Projections!Commit(d)
    <2> DEFINE next == [Projections!Idle EXCEPT !.left = drains[d].left - 1, !.pc = "select"]
    <2>1. Projections!Go(d, IF drains[d].left = 1 THEN Projections!Idle ELSE next)
      BY <1>6 DEF Projections!Commit
    <2>2. RunSound(d, next, sink'[Target[d]])
      BY DEF RunSound, Projections!Idle
    <2>3. drains'[d] = IF drains[d].left = 1 THEN Projections!Idle ELSE next
      BY <1>1, <2>1
    <2> HIDE DEF next
    <2>4. RunSound(d, drains'[d], sink'[Target[d]])
      BY <1>2, <2>2, <2>3
    <2>5. /\ rows' = rows /\ saving' = saving /\ saves' = saves /\ sink' = sink
          /\ receipts' = receipts \union Given(d)
      BY <1>6 DEF Projections!Commit, Projections!Receipt, Given
    <2> QED BY <1>0, <1>1, <2>1, <2>4, <2>5, DrainsKeep
  <1>7. CASE Projections!StartDrain(d)
    <2> DEFINE next == [Projections!Idle EXCEPT !.left = Limit, !.pc = "select"]
    <2>1. Projections!Go(d, next)
      BY <1>7 DEF Projections!StartDrain
    <2>2. RunSound(d, next, sink'[Target[d]])
      BY DEF RunSound, Projections!Idle
    <2>3. drains'[d] = next
      BY <1>1, <2>1
    <2> HIDE DEF next
    <2>4. RunSound(d, drains'[d], sink'[Target[d]])
      BY <2>2, <2>3
    <2>5. /\ rows' = rows /\ saving' = saving /\ saves' = saves /\ sink' = sink
          /\ receipts' = receipts
      BY <1>7 DEF Projections!StartDrain
    <2> QED BY <1>0, <1>1, <2>1, <2>4, <2>5, DrainsKeep
  <1>8. ASSUME NEW stored \in BOOLEAN, Projections!Fault(d, stored) PROVE OutboxInv'
    <2>1. /\ rows' = rows /\ saving' = saving /\ saves' = saves /\ receipts' = receipts
          /\ Projections!Go(d, Projections!Idle)
      BY <1>8 DEF Projections!Fault
    <2>2. /\ DOMAIN sink' = Destinations
          /\ \A to \in Destinations : /\ sink[to] \subseteq sink'[to]
                                      /\ sink'[to] \subseteq {r.event : r \in rows}
      <3>1. CASE stored
        <4>1. /\ drains[d].row \in Ids
              /\ sink' = [sink EXCEPT ![Target[d]] = @ \union {Projections!EventOf(drains[d].row)}]
          BY <1>0, <1>8, <3>1 DEF Projections!Fault
        <4> QED BY <4>1, SinkStores
      <3>2. CASE ~stored
        BY <1>0, <1>8, <3>2 DEF Projections!Fault
      <3> QED BY <3>1, <3>2
    <2>3. RunSound(d, drains'[d], sink'[Target[d]])
      BY <1>1, <1>2, <2>1
    <2> QED BY <1>1, <2>1, <2>2, <2>3, DrainsKeep
  <1> QED BY <1>3, <1>4, <1>5, <1>6, <1>7, <1>8

LEMMA OutboxKept ==
  ASSUME OutboxInv, Projections!Next
  PROVE  OutboxInv'
  BY SaveKeeps, EndSaveKeeps, RunKeeps DEF Projections!Next, Projections!Drainers, Drainers

LEMMA OutboxUnchanged ==
  ASSUME OutboxInv, UNCHANGED outboxVars
  PROVE  OutboxInv'
  BY DEF OutboxInv, OutboxTypes, OutboxIds, OutboxRuns, OutboxReceipts, Pending, Ids, outboxVars

LEMMA OutboxIsSafe ==
  ASSUME OutboxInv
  PROVE  Projections!ReceiptsTrue
  BY DEF OutboxInv, OutboxReceipts, Projections!ReceiptsTrue, Projections!EventOf, EventIn
-------------------------------------------------------------------------------
(* The composition.                                                        *)

LEMMA ListenersBegin ==
  ASSUME Init
  PROVE  ListenersInv
  BY QueueBegins, MemoryBegins, OutboxBegins DEF Init, ListenersInv

LEMMA ListenersKept ==
  ASSUME ListenersInv, [Next]_vars
  PROVE  ListenersInv'
  <1>1. CASE QueueStep
    BY <1>1, QueueKept, OutboxUnchanged, MemoryUnchanged DEF QueueStep, ListenersInv
  <1>2. CASE MemoryStep
    BY <1>2, QueueUnchanged, OutboxUnchanged, MemoryKept DEF MemoryStep, ListenersInv
  <1>3. CASE OutboxStep
    BY <1>3, QueueUnchanged, OutboxKept, MemoryUnchanged DEF OutboxStep, ListenersInv
  <1>4. CASE UNCHANGED vars
    BY <1>4, QueueUnchanged, OutboxUnchanged, MemoryUnchanged DEF vars, ListenersInv
  <1> QED BY <1>1, <1>2, <1>3, <1>4 DEF Next

LEMMA ListenersSafe ==
  ASSUME ListenersInv
  PROVE  TypeOK /\ NoLostWakeup /\ StopSettles /\ ReceiptsTrue
  <1>1. MemorySafe
    BY MemoryIsSafe, StoppedMemoryIsSafe DEF ListenersInv
  <1>2. Queue!TypeOK /\ Queue!NoLostWakeup /\ Queue!StopTriesEverything
    BY QueueSafe DEF ListenersInv
  <1>3. Projections!ReceiptsTrue
    BY OutboxIsSafe DEF ListenersInv
  <1> QED BY <1>1, <1>2, <1>3 DEF MemorySafe, TypeOK, NoLostWakeup, StopSettles, ReceiptsTrue

LEMMA ListenersInvariant == FairSpec => []ListenersInv
  BY ListenersBegin, ListenersKept, PTL DEF FairSpec

\* The listeners' state keeps its type, and no batch exceeds --batch-size, for any
\* number of lines, batch sizes and failures.
THEOREM ListenersTyped == FairSpec => []TypeOK
  BY ListenersInvariant, ListenersSafe, PTL

\* No thread is left asleep without a timeout over lines that wait for it: what is
\* queued and untold is in the receive thread's burst, which it is about to tell.
THEOREM WakeupsKept == FairSpec => []NoLostWakeup
  BY ListenersInvariant, ListenersSafe, PTL

\* An orderly stop settles what was read before it, in both kinds of listener:
\* each step of the stop leaves behind it nobody who holds such a line.
THEOREM StopSettled == FairSpec => []StopSettles
  BY ListenersInvariant, ListenersSafe, PTL

\* A receipt is written only for what its destination holds, and no destination
\* holds an event whose transaction did not commit, for any number of savers,
\* destinations, deliverers and faults.
THEOREM ReceiptsHonest == FairSpec => []ReceiptsTrue
  BY ListenersInvariant, ListenersSafe, PTL
===============================================================================
