----------------------------- MODULE Analysis_proofs -----------------------------
(***************************************************************************)
(* What is made of an event, for every setting of the thresholds, every     *)
(* number of pipelines, slots and incidents, and any number of retries,     *)
(* stops and requests; the findings, batches, accounts and exports are      *)
(* those of MCAnalysis.                                                     *)
(***************************************************************************)
EXTENDS MCAnalysis, FiniteSetTheorems, SequenceTheorems, TLAPS
-------------------------------------------------------------------------------
(* The baseline.                                                           *)

BatchIds  == {b.id : b \in ThreeBatches}
Hours     == {b.hour : b \in ThreeBatches}
Addresses == {b.ip : b \in ThreeBatches}

\* What a baseline is.
States ==
  [actions : [Learning!Entities -> [Learning!Actions -> Nat]],
   count   : [Learning!Entities -> Nat],
   hours   : [Learning!Entities -> SUBSET Hours],
   ips     : [Learning!Users -> SUBSET Addresses],
   recent  : [Learning!Entities -> Nat],
   peers   : [Learning!Kinds -> [Learning!Actions -> Nat]],
   totals  : [Learning!Actions -> Nat],
   events  : Nat,
   learned : SUBSET BatchIds]

LearnTypes ==
  /\ mem \in [Learners -> States]
  /\ stored \in [state : States, revision : Nat]
  /\ known \in [Learners -> [{"main", "worker"} -> Nat]]
  /\ up \subseteq Learners
  /\ unsaved \in [Learners -> {<<>>} \cup (BatchIds \X States)]
  /\ learnedBatches \subseteq BatchIds
  /\ peerOdd \in BOOLEAN

\* A batch is told from the others by its id.
LEMMA BatchFacts ==
  /\ \A b, c \in ThreeBatches : b.id = c.id => b = c
  /\ \A b \in ThreeBatches : b.ents \subseteq Learning!Entities /\ IsFiniteSet(b.ents)
  /\ IsFiniteSet(Learning!Entities)
<1>1. \A b, c \in ThreeBatches : b.id = c.id => b = c
  BY DEF ThreeBatches, Observed
<1>2. \A b \in ThreeBatches : b.ents \subseteq Learning!Entities
  BY DEF Learning!Entities
<1>3. IsFiniteSet({Person(1), Person(2), Host})
  <2>1. IsFiniteSet({Person(1)}) /\ IsFiniteSet({Person(1)} \cup {Person(2)})
    BY FS_Singleton, FS_AddElement
  <2>2. IsFiniteSet(({Person(1)} \cup {Person(2)}) \cup {Host})
    BY <2>1, FS_AddElement
  <2>3. ({Person(1)} \cup {Person(2)}) \cup {Host} = {Person(1), Person(2), Host}
    OBVIOUS
  <2> QED  BY <2>2, <2>3
<1>4. Learning!Entities \subseteq {Person(1), Person(2), Host}
  BY DEF Learning!Entities, ThreeBatches, Observed
<1>5. IsFiniteSet(Learning!Entities)
  BY <1>3, <1>4, FS_Subset
<1>6. \A b \in ThreeBatches : IsFiniteSet(b.ents)
  BY <1>2, <1>5, FS_Subset
<1> QED  BY <1>1, <1>2, <1>5, <1>6

LEMMA SameCount == \A S : Learning!Cardinality(S) = Cardinality(S)
  BY DEF Learning!Cardinality, Cardinality

LEMMA FreshType == Learning!Fresh \in States
  BY DEF Learning!Fresh, States

\* What an update makes of each part of a baseline.
LEMMA UpdateParts ==
  ASSUME NEW s \in States, NEW b \in ThreeBatches,
         NEW t, t = Learning!Update(s, b)
  PROVE  /\ t \in States
         /\ t.learned = s.learned \cup {b.id}
         /\ \A k \in Learning!Kinds, a \in Learning!Actions : t.peers[k][a] =
               s.peers[k][a] + Cardinality(Learning!FirstTime(s, b, k, a))
         /\ \A e \in Learning!Entities :
               /\ \A a \in Learning!Actions :
                     t.actions[e][a] = s.actions[e][a] + IF a = b.action /\ e \in b.ents THEN 1 ELSE 0
               /\ t.count[e] = s.count[e] + IF e \in b.ents THEN 1 ELSE 0
               /\ t.hours[e] = s.hours[e] \cup (IF e \in b.ents THEN {b.hour} ELSE {})
               /\ t.recent[e] = s.recent[e] + IF e \in b.ents THEN 1 ELSE 0
         /\ \A u \in Learning!Users : t.ips[u] = s.ips[u] \cup (IF u = b.user THEN {b.ip} ELSE {})
<1> USE BatchFacts
<1>0. /\ b.action \in Learning!Actions /\ b.user \in Learning!Users
      /\ b.hour \in Hours /\ b.ip \in Addresses /\ b.id \in BatchIds
  BY DEF Learning!Actions, Learning!Users, Hours, Addresses, BatchIds
<1>2. t.peers \in [Learning!Kinds -> [Learning!Actions -> Nat]]
  <2>0. t.peers = [k \in Learning!Kinds |-> [a \in Learning!Actions |->
            s.peers[k][a] + Cardinality(Learning!FirstTime(s, b, k, a))]]
    BY SameCount DEF Learning!Update
  <2> SUFFICES ASSUME NEW k \in Learning!Kinds, NEW a \in Learning!Actions
               PROVE  s.peers[k][a] + Cardinality(Learning!FirstTime(s, b, k, a)) \in Nat
    BY <2>0
  <2>1. Learning!FirstTime(s, b, k, a) \subseteq b.ents
    BY DEF Learning!FirstTime
  <2>2. Cardinality(Learning!FirstTime(s, b, k, a)) \in Nat
    BY <2>1, FS_Subset, FS_CardinalityType
  <2>3. s.peers[k][a] \in Nat
    BY DEF States
  <2> QED  BY <2>2, <2>3
<1>3. t.actions \in [Learning!Entities -> [Learning!Actions -> Nat]]
  BY <1>0 DEF States, Learning!Update
<1>4. t.count \in [Learning!Entities -> Nat] /\ t.recent \in [Learning!Entities -> Nat]
  BY DEF States, Learning!Update
<1>5. t.hours \in [Learning!Entities -> SUBSET Hours]
  BY <1>0 DEF States, Learning!Update
<1>6. t.ips \in [Learning!Users -> SUBSET Addresses] /\ t.totals \in [Learning!Actions -> Nat]
  BY <1>0 DEF States, Learning!Update
<1>7. t = [peers |-> t.peers, actions |-> t.actions, count |-> t.count, hours |-> t.hours,
           recent |-> t.recent, ips |-> t.ips, totals |-> t.totals, events |-> t.events,
           learned |-> t.learned]
  BY DEF Learning!Update
<1>8. t.events \in Nat /\ t.learned \in SUBSET BatchIds
  BY <1>0 DEF States, Learning!Update
<1>9. t \in States
  BY <1>2, <1>3, <1>4, <1>5, <1>6, <1>7, <1>8 DEF States
<1>10. /\ t.learned = s.learned \cup {b.id}
       /\ \A k \in Learning!Kinds, a \in Learning!Actions : t.peers[k][a] =
               s.peers[k][a] + Cardinality(Learning!FirstTime(s, b, k, a))
  BY SameCount DEF Learning!Update
<1>11. \A e \in Learning!Entities :
               /\ \A a \in Learning!Actions :
                     t.actions[e][a] = s.actions[e][a] + IF a = b.action /\ e \in b.ents THEN 1 ELSE 0
               /\ t.count[e] = s.count[e] + IF e \in b.ents THEN 1 ELSE 0
               /\ t.hours[e] = s.hours[e] \cup (IF e \in b.ents THEN {b.hour} ELSE {})
               /\ t.recent[e] = s.recent[e] + IF e \in b.ents THEN 1 ELSE 0
  BY DEF Learning!Update, States
<1>12. \A u \in Learning!Users : t.ips[u] = s.ips[u] \cup (IF u = b.user THEN {b.ip} ELSE {})
  BY DEF Learning!Update, States
<1> QED  BY <1>9, <1>10, <1>11, <1>12

-------------------------------------------------------------------------------
(* No writer undoes what the stored baseline learned.                      *)

AtPipeline(x, p) == \E b \in ThreeBatches : b.id = x /\ b.at = p

\* What a baseline is known to hold of the stored one: all of it, but for what
\* this pipeline itself undid and has not saved since.
Holds(s, p) ==
  \A x \in stored.state.learned : x \in s.learned \/ (AtPipeline(x, p) /\ x \notin learnedBatches)

UpToDate(p) == p \in up /\ known[p][Learning!Worker(p)] = stored.revision

LearnInv ==
  /\ LearnTypes
  /\ stored.revision = 0 => stored.state = Learning!Fresh
  /\ \A p \in Learners :
        /\ \A t \in {"main", "worker"} : known[p][t] <= stored.revision
        /\ unsaved[p] # <<>> => /\ p \in up /\ AtPipeline(unsaved[p][1], p)
                                /\ unsaved[p][1] \in mem[p].learned
                                /\ unsaved[p][1] \notin learnedBatches
        /\ Backend # "sqlite" /\ UpToDate(p) =>
              Holds(mem[p], p) /\ (unsaved[p] # <<>> => Holds(unsaved[p][2], p))

LEMMA WorkerThread == \A p : Learning!Worker(p) \in {"main", "worker"}
  BY DEF Learning!Worker

LEMMA LearnInit == Init => LearnInv
<1> SUFFICES ASSUME Init PROVE LearnInv
  OBVIOUS
<1> USE FreshType
<1>1. Learning!Init
  BY DEF Init
<1>2. LearnTypes
  BY <1>1 DEF Learning!Init, LearnTypes
<1>3. up = {} /\ stored.revision = 0 /\ stored.state = Learning!Fresh
      /\ (\A p \in Learners : unsaved[p] = <<>> /\ \A t \in {"main", "worker"} : known[p][t] = 0)
  BY <1>1 DEF Learning!Init
<1> QED  BY <1>2, <1>3 DEF LearnInv, UpToDate

\* Each step of a pipeline preserves it.
LEMMA LearnStart ==
  ASSUME LearnInv, NEW p \in Learners, Learning!Start(p) \/ Learning!LoadFails(p)
  PROVE  LearnInv'
<1> USE FreshType, WorkerThread
<1>0. PICK state \in {stored.state, Learning!Fresh}, revision \in {stored.revision, 0} :
         /\ Learning!Begin(p, state, revision)
         /\ state = stored.state \/ revision = 0
  BY DEF Learning!Start, Learning!LoadFails, LearnInv
<1>1. /\ p \notin up /\ up' = up \cup {p} /\ mem' = [mem EXCEPT ![p] = state]
      /\ known' = [known EXCEPT ![p] = [t \in {"main", "worker"} |-> IF t = "main" THEN revision ELSE 0]]
      /\ UNCHANGED <<stored, unsaved, learnedBatches, peerOdd>>
  BY <1>0 DEF Learning!Begin
<1>11. state \in States /\ revision \in Nat /\ revision <= stored.revision
  BY <1>0 DEF LearnInv, LearnTypes
<1>2. LearnTypes'
  BY <1>1, <1>11 DEF LearnInv, LearnTypes
<1>3. mem'[p] = state /\ \A q \in Learners \ {p} : mem'[q] = mem[q] /\ known'[q] = known[q]
  BY <1>1 DEF LearnInv, LearnTypes
<1>4. \A t \in {"main", "worker"} : known'[p][t] <= stored.revision /\ known'[p][t] \in {revision, 0}
  BY <1>1, <1>11 DEF LearnInv, LearnTypes
<1>5. unsaved[p] = <<>>
  BY <1>1 DEF LearnInv
<1>6. \A q \in Learners \ {p} : UpToDate(q)' <=> UpToDate(q)
  BY <1>1, <1>3 DEF UpToDate, Learning!Worker
<1>7. \A s, q : Holds(s, q)' <=> Holds(s, q)
  BY <1>1 DEF Holds
<1>8. UpToDate(p)' => Holds(mem[p]', p)
  <2>1. UpToDate(p)' => revision = stored.revision \/ stored.revision = 0
    BY <1>1, <1>4 DEF UpToDate, Learning!Worker
  <2>2. UpToDate(p)' => state = stored.state
    BY <1>0, <2>1 DEF LearnInv
  <2> QED  BY <1>3, <2>2 DEF Holds
<1>9. /\ stored'.revision = 0 => stored'.state = Learning!Fresh
      /\ UNCHANGED <<stored, unsaved, learnedBatches>>
  BY <1>1 DEF LearnInv
<1>10. ASSUME NEW q \in Learners
       PROVE  /\ \A t \in {"main", "worker"} : known'[q][t] <= stored'.revision
              /\ unsaved'[q] # <<>> => /\ q \in up' /\ AtPipeline(unsaved'[q][1], q)
                                       /\ unsaved'[q][1] \in mem'[q].learned
                                       /\ unsaved'[q][1] \notin learnedBatches'
              /\ Backend # "sqlite" /\ UpToDate(q)' =>
                    Holds(mem[q], q)' /\ (unsaved'[q] # <<>> => Holds(unsaved[q][2], q)')
  <2>1. CASE q = p
    BY <2>1, <1>1, <1>3, <1>4, <1>5, <1>7, <1>8, <1>9 DEF Holds
  <2>2. CASE q # p
    BY <2>2, <1>1, <1>3, <1>6, <1>7, <1>9 DEF LearnInv, Holds
  <2> QED  BY <2>1, <2>2
<1> QED  BY <1>2, <1>9, <1>10 DEF LearnInv

LEMMA LearnSaveResult ==
  ASSUME LearnInv, NEW p \in Learners, Learning!SaveResult(p)
  PROVE  LearnInv'
<1> DEFINE id == unsaved[p][1]
<1>1. /\ unsaved[p] # <<>> /\ learnedBatches' = learnedBatches \cup {id}
      /\ unsaved' = [unsaved EXCEPT ![p] = <<>>]
      /\ UNCHANGED <<mem, stored, known, up, peerOdd>>
  BY DEF Learning!SaveResult
<1>2. LearnTypes'
  <2>1. id \in BatchIds
    BY <1>1 DEF LearnInv, LearnTypes
  <2> HIDE DEF id
  <2> QED  BY <1>1, <2>1 DEF LearnInv, LearnTypes
<1>3. unsaved'[p] = <<>> /\ \A q \in Learners \ {p} : unsaved'[q] = unsaved[q]
  BY <1>1 DEF LearnInv, LearnTypes
<1>4. AtPipeline(id, p) /\ id \in mem[p].learned
  BY <1>1 DEF LearnInv
<1>5. \A q \in Learners \ {p} : ~AtPipeline(id, q)
  BY <1>4, BatchFacts DEF AtPipeline
<1> HIDE DEF id
<1>6. \A q : UpToDate(q)' <=> UpToDate(q)
  BY <1>1 DEF UpToDate, Learning!Worker
<1>7. \A q \in Learners \ {p} : \A s : Holds(s, q) => Holds(s, q)'
  BY <1>1, <1>5 DEF Holds
<1>8. Holds(mem[p], p) => Holds(mem[p], p)'
  BY <1>1, <1>4 DEF Holds
<1>9. ASSUME NEW q \in Learners
      PROVE  /\ \A t \in {"main", "worker"} : known'[q][t] <= stored'.revision
             /\ unsaved'[q] # <<>> => /\ q \in up' /\ AtPipeline(unsaved'[q][1], q)
                                      /\ unsaved'[q][1] \in mem'[q].learned
                                      /\ unsaved'[q][1] \notin learnedBatches'
             /\ Backend # "sqlite" /\ UpToDate(q)' =>
                   Holds(mem[q], q)' /\ (unsaved'[q] # <<>> => Holds(unsaved[q][2], q)')
  <2>1. CASE q = p
    BY <2>1, <1>1, <1>3, <1>6, <1>8 DEF LearnInv
  <2>2. CASE q # p
    <3>1. unsaved[q] # <<>> => unsaved[q][1] # id
      BY <2>2, <1>5 DEF LearnInv
    <3>2. Holds(mem[q], q) => Holds(mem[q], q)'
      BY <2>2, <1>1, <1>5 DEF Holds
    <3>3. Holds(unsaved[q][2], q) => Holds(unsaved[q][2], q)'
      BY <2>2, <1>1, <1>3, <1>5 DEF Holds
    <3> QED  BY <2>2, <3>1, <3>2, <3>3, <1>1, <1>3, <1>6 DEF LearnInv
  <2> QED  BY <2>1, <2>2
<1> QED  BY <1>1, <1>2, <1>9 DEF LearnInv

LEMMA LearnSaveFails ==
  ASSUME LearnInv, NEW p \in Learners, Learning!SaveFails(p)
  PROVE  LearnInv'
<1>1. /\ unsaved[p] # <<>> /\ mem' = [mem EXCEPT ![p] = unsaved[p][2]]
      /\ unsaved' = [unsaved EXCEPT ![p] = <<>>]
      /\ UNCHANGED <<stored, known, up, learnedBatches, peerOdd>>
  BY DEF Learning!SaveFails
<1>2. LearnTypes'
  <2>1. unsaved[p][2] \in States
    BY <1>1 DEF LearnInv, LearnTypes
  <2> QED  BY <1>1, <2>1 DEF LearnInv, LearnTypes
<1>3. /\ unsaved'[p] = <<>> /\ mem'[p] = unsaved[p][2]
      /\ \A q \in Learners \ {p} : unsaved'[q] = unsaved[q] /\ mem'[q] = mem[q]
  BY <1>1 DEF LearnInv, LearnTypes
<1>4. \A q : UpToDate(q)' <=> UpToDate(q)
  BY <1>1 DEF UpToDate, Learning!Worker
<1>5. ASSUME NEW q \in Learners
      PROVE  /\ \A t \in {"main", "worker"} : known'[q][t] <= stored'.revision
             /\ unsaved'[q] # <<>> => /\ q \in up' /\ AtPipeline(unsaved'[q][1], q)
                                      /\ unsaved'[q][1] \in mem'[q].learned
                                      /\ unsaved'[q][1] \notin learnedBatches'
             /\ Backend # "sqlite" /\ UpToDate(q)' =>
                   Holds(mem[q], q)' /\ (unsaved'[q] # <<>> => Holds(unsaved[q][2], q)')
  <2>1. CASE q = p
    BY <2>1, <1>1, <1>3, <1>4 DEF LearnInv, Holds
  <2>2. CASE q # p
    BY <2>2, <1>1, <1>3, <1>4 DEF LearnInv, Holds
  <2> QED  BY <2>1, <2>2
<1> QED  BY <1>1, <1>2, <1>5 DEF LearnInv

LEMMA LearnStop ==
  ASSUME LearnInv, NEW p \in Learners, Learning!Stop(p)
  PROVE  LearnInv'
<1>1. /\ up' = up \ {p} /\ unsaved' = [unsaved EXCEPT ![p] = <<>>]
      /\ UNCHANGED <<mem, stored, known, learnedBatches, peerOdd>>
  BY DEF Learning!Stop
<1>2. LearnTypes'
  BY <1>1 DEF LearnInv, LearnTypes
<1>3. unsaved'[p] = <<>> /\ \A q \in Learners \ {p} : unsaved'[q] = unsaved[q]
  BY <1>1 DEF LearnInv, LearnTypes
<1>4. \A q \in Learners \ {p} : UpToDate(q)' <=> UpToDate(q)
  BY <1>1 DEF UpToDate, Learning!Worker
<1>5. ~UpToDate(p)'
  BY <1>1 DEF UpToDate
<1>6. ASSUME NEW q \in Learners
      PROVE  /\ \A t \in {"main", "worker"} : known'[q][t] <= stored'.revision
             /\ unsaved'[q] # <<>> => /\ q \in up' /\ AtPipeline(unsaved'[q][1], q)
                                      /\ unsaved'[q][1] \in mem'[q].learned
                                      /\ unsaved'[q][1] \notin learnedBatches'
             /\ Backend # "sqlite" /\ UpToDate(q)' =>
                   Holds(mem[q], q)' /\ (unsaved'[q] # <<>> => Holds(unsaved[q][2], q)')
  <2>1. CASE q = p
    BY <2>1, <1>1, <1>3, <1>5 DEF LearnInv
  <2>2. CASE q # p
    BY <2>2, <1>1, <1>3, <1>4 DEF LearnInv, Holds
  <2> QED  BY <2>1, <2>2
<1> QED  BY <1>1, <1>2, <1>6 DEF LearnInv

LEMMA LearnProcess ==
  ASSUME LearnInv, NEW p \in Learners, NEW b \in ThreeBatches, Learning!Process(p, b)
  PROVE  LearnInv'
<1> USE WorkerThread
<1> DEFINE s == Learning!Update(mem[p], b)
<1>1. /\ p \in up /\ p = b.at /\ unsaved[p] = <<>> /\ b.id \notin learnedBatches
      /\ mem' = [mem EXCEPT ![p] = s]
      /\ Learning!PersistBaseline(p, s)
      /\ unsaved' = [unsaved EXCEPT ![p] = <<b.id, mem[p]>>]
      /\ UNCHANGED <<up, learnedBatches>>
  BY DEF Learning!Process
<1>2. peerOdd' \in BOOLEAN
  BY Zenon DEF Learning!Process, LearnInv, LearnTypes
<1>3. mem[p] \in States /\ b.id \in BatchIds
  BY DEF LearnInv, LearnTypes, BatchIds
<1>4. s \in States /\ s.learned = mem[p].learned \cup {b.id}
  BY <1>3, UpdateParts
<1> HIDE DEF s
<1>5. AtPipeline(b.id, p)
  BY <1>1 DEF AtPipeline
<1>6. /\ mem'[p] = s /\ unsaved'[p] = <<b.id, mem[p]>>
      /\ \A q \in Learners \ {p} : unsaved'[q] = unsaved[q] /\ mem'[q] = mem[q]
  BY <1>1 DEF LearnInv, LearnTypes
<1>7. CASE Learning!Accepts(known[p][Learning!Worker(p)])
  <2>1. /\ stored' = [state |-> s, revision |-> stored.revision + 1]
        /\ known' = [known EXCEPT ![p][Learning!Worker(p)] = stored.revision + 1]
    BY <1>1, <1>7 DEF Learning!PersistBaseline
  <2>2. stored.revision \in Nat
    BY DEF LearnInv, LearnTypes
  <2>3. LearnTypes'
    BY <1>1, <1>2, <1>3, <1>4, <2>1, <2>2 DEF LearnInv, LearnTypes
  <2>4. stored'.state = s /\ stored'.revision = stored.revision + 1
    BY <2>1
  <2>5. \A q \in Learners, t \in {"main", "worker"} :
           known'[q][t] = IF q = p /\ t = Learning!Worker(p) THEN stored.revision + 1 ELSE known[q][t]
    BY <2>1 DEF LearnInv, LearnTypes
  <2>6. \A q \in Learners, t \in {"main", "worker"} : known[q][t] \in Nat /\ known[q][t] <= stored.revision
    BY DEF LearnInv, LearnTypes
  <2>7. \A q \in Learners \ {p} : ~UpToDate(q)'
    <3> SUFFICES ASSUME NEW q \in Learners \ {p} PROVE known'[q][Learning!Worker(q)] # stored'.revision
      BY DEF UpToDate, Learning!Worker
    <3>1. known'[q][Learning!Worker(q)] = known[q][Learning!Worker(q)]
      BY <2>5
    <3> QED  BY <3>1, <2>2, <2>4, <2>6
  <2>8. Holds(mem[p], p)' /\ Holds(unsaved[p][2], p)'
    BY <1>1, <1>4, <1>5, <1>6, <2>4 DEF Holds
  <2>9. ASSUME NEW q \in Learners
        PROVE  /\ \A t \in {"main", "worker"} : known'[q][t] <= stored'.revision
               /\ unsaved'[q] # <<>> => /\ q \in up' /\ AtPipeline(unsaved'[q][1], q)
                                        /\ unsaved'[q][1] \in mem'[q].learned
                                        /\ unsaved'[q][1] \notin learnedBatches'
               /\ Backend # "sqlite" /\ UpToDate(q)' =>
                     Holds(mem[q], q)' /\ (unsaved'[q] # <<>> => Holds(unsaved[q][2], q)')
    <3>1. \A t \in {"main", "worker"} : known'[q][t] <= stored'.revision
      BY <2>2, <2>4, <2>5, <2>6
    <3>2. CASE q = p
      BY <3>1, <3>2, <1>1, <1>4, <1>5, <1>6, <2>8
    <3>3. CASE q # p
      BY <3>1, <3>3, <1>1, <1>6, <2>7 DEF LearnInv
    <3> QED  BY <3>2, <3>3
  <2> QED  BY <2>2, <2>3, <2>4, <2>9 DEF LearnInv
<1>8. CASE ~Learning!Accepts(known[p][Learning!Worker(p)])
  <2>1. UNCHANGED <<stored, known>> /\ Backend # "sqlite"
    BY <1>1, <1>8 DEF Learning!PersistBaseline, Learning!Accepts
  <2>2. ~UpToDate(p) /\ \A q : UpToDate(q)' <=> UpToDate(q)
    BY <1>1, <1>8, <2>1 DEF UpToDate, Learning!Accepts, Learning!Worker
  <2>3. LearnTypes'
    BY <1>1, <1>2, <1>3, <1>4, <2>1 DEF LearnInv, LearnTypes
  <2>4. ASSUME NEW q \in Learners
        PROVE  /\ \A t \in {"main", "worker"} : known'[q][t] <= stored'.revision
               /\ unsaved'[q] # <<>> => /\ q \in up' /\ AtPipeline(unsaved'[q][1], q)
                                        /\ unsaved'[q][1] \in mem'[q].learned
                                        /\ unsaved'[q][1] \notin learnedBatches'
               /\ Backend # "sqlite" /\ UpToDate(q)' =>
                     Holds(mem[q], q)' /\ (unsaved'[q] # <<>> => Holds(unsaved[q][2], q)')
    <3>1. CASE q = p
      BY <3>1, <1>1, <1>4, <1>5, <1>6, <2>1, <2>2 DEF LearnInv
    <3>2. CASE q # p
      BY <3>2, <1>1, <1>6, <2>1, <2>2 DEF LearnInv, Holds
    <3> QED  BY <3>1, <3>2
  <2> QED  BY <2>1, <2>3, <2>4 DEF LearnInv
<1> QED  BY <1>7, <1>8

LEMMA LearnStepKeepsIt == LearnInv /\ [Next]_vars => LearnInv'
<1> SUFFICES ASSUME LearnInv, [Next]_vars PROVE LearnInv'
  OBVIOUS
<1>1. CASE LearnStep
  <2>1. PICK p \in Learners : \/ Learning!Start(p) \/ Learning!LoadFails(p) \/ Learning!SaveResult(p)
                              \/ Learning!SaveFails(p) \/ Learning!Stop(p)
                              \/ \E b \in ThreeBatches : Learning!Process(p, b)
    BY <1>1 DEF LearnStep, Learning!Next
  <2> QED  BY <2>1, LearnStart, LearnSaveResult, LearnSaveFails, LearnStop, LearnProcess
<1>2. CASE UNCHANGED learnVars
  <2>1. UNCHANGED <<mem, stored, known, up, unsaved, learnedBatches, peerOdd>>
    BY <1>2 DEF learnVars
  <2>2. LearnTypes'
    BY <2>1 DEF LearnInv, LearnTypes
  <2>3. \A p : UpToDate(p)' <=> UpToDate(p)
    BY <2>1 DEF UpToDate, Learning!Worker
  <2> QED  BY <2>1, <2>2, <2>3 DEF LearnInv, Holds
<1>3. UNCHANGED learnVars \/ LearnStep
  BY DEF Next, StoryStep, AdviceStep, CaseStep, EnrichStep, WebStep, vars
<1> QED  BY <1>1, <1>2, <1>3

LEMMA LearnIInv == Spec => []LearnInv
<1>1. Init => LearnInv
  BY LearnInit
<1>2. LearnInv /\ [Next]_vars => LearnInv'
  BY LearnStepKeepsIt
<1> QED  BY <1>1, <1>2, PTL DEF Spec

\* No step of a pipeline takes from the stored baseline what it holds of a batch
\* whose result is saved: on PostgreSQL the row is only replaced by a writer that
\* has all of it, with any number of pipelines, stops and undone batches
\* (postgres.py save_baseline, the revision of its UPDATE).
THEOREM StoredBaselineGrows == Spec => LearnedKept
<1>1. LearnInv /\ [Next]_vars =>
        [Backend = "postgres" =>
            \A x \in learnedBatches \cap stored.state.learned : x \in stored'.state.learned]_(Learning!vars)
  <2> SUFFICES ASSUME LearnInv, [Next]_vars, Backend = "postgres",
                      NEW x \in learnedBatches \cap stored.state.learned
               PROVE  x \in stored'.state.learned \/ UNCHANGED Learning!vars
    BY Zenon
  <2>1. CASE stored' = stored
    BY <2>1
  <2>2. CASE stored' # stored
    <3>1. LearnStep
      BY <2>2 DEF Next, StoryStep, AdviceStep, CaseStep, EnrichStep, WebStep, vars, learnVars
    <3>2. PICK p \in Learners, b \in ThreeBatches : Learning!Process(p, b)
      BY <3>1, <2>2 DEF LearnStep, Learning!Next, Learning!Start, Learning!LoadFails, Learning!Begin,
                        Learning!SaveResult, Learning!SaveFails, Learning!Stop
    <3> DEFINE s == Learning!Update(mem[p], b)
    <3>3. Learning!PersistBaseline(p, s) /\ p \in up
      BY <3>2 DEF Learning!Process
    <3>4. s.learned = mem[p].learned \cup {b.id}
      BY UpdateParts DEF LearnInv, LearnTypes
    <3> HIDE DEF s
    <3>5. known[p][Learning!Worker(p)] = stored.revision /\ stored'.state = s
      BY <3>3, <2>2 DEF Learning!PersistBaseline, Learning!Accepts
    <3>6. Holds(mem[p], p)
      BY <3>3, <3>5 DEF LearnInv, UpToDate
    <3> QED  BY <3>4, <3>5, <3>6 DEF Holds
  <2> QED  BY <2>1, <2>2
<1> QED  BY <1>1, LearnIInv, PTL DEF Spec, LearnedKept, Learning!LearnedKept

-------------------------------------------------------------------------------
(* What a baseline says is what it was taught.                             *)

Doing(s, k, a) == {e \in Learning!Entities : e[1] = k /\ s.actions[e][a] > 0}

\* The parts of a baseline agree: the peer counters with the actions, the counts
\* with both, and each part has what every learned batch taught.
Coherent(s) ==
  /\ \A k \in Learning!Kinds, a \in Learning!Actions : s.peers[k][a] = Cardinality(Doing(s, k, a))
  /\ \A e \in Learning!Entities :
        /\ s.count[e] = 0 <=> \A a \in Learning!Actions : s.actions[e][a] = 0
        /\ s.count[e] = 0 => s.recent[e] = 0 /\ s.hours[e] = {}
  /\ \A u \in Learning!Users : s.ips[u] # {} => s.count[Person(u)] > 0
  /\ \A b \in ThreeBatches : b.id \in s.learned =>
        /\ b.ip \in s.ips[b.user]
        /\ \A e \in b.ents : s.actions[e][b.action] > 0 /\ b.hour \in s.hours[e]

CoherentInv ==
  /\ LearnInv /\ ~peerOdd
  /\ Coherent(stored.state)
  /\ \A p \in Learners : Coherent(mem[p]) /\ (unsaved[p] # <<>> => Coherent(unsaved[p][2]))

LEMMA PeersExactIsDoing ==
  ASSUME NEW s
  PROVE  Learning!PeersExact(s) <=>
           \A k \in Learning!Kinds, a \in Learning!Actions : s.peers[k][a] = Cardinality(Doing(s, k, a))
<1>1. \A k, a : Learning!Cardinality(Doing(s, k, a)) = Cardinality(Doing(s, k, a))
  BY SameCount
<1>2. Learning!PeersExact(s) <=>
        \A k \in Learning!Kinds, a \in Learning!Actions : s.peers[k][a] = Learning!Cardinality(Doing(s, k, a))
  BY DEF Learning!PeersExact, Doing
<1> QED  BY <1>1, <1>2

LEMMA UsersOfBatches ==
  \A b \in ThreeBatches : Person(b.user) \in b.ents /\ b.action \in Learning!Actions /\ b.user \in Learning!Users
  BY DEF ThreeBatches, Observed, Person, Learning!Actions, Learning!Users

LEMMA FreshCoherent == Coherent(Learning!Fresh)
<1> DEFINE s == Learning!Fresh
<1>1. \A k \in Learning!Kinds, a \in Learning!Actions : Doing(s, k, a) = {} /\ s.peers[k][a] = 0
  BY DEF Doing, Learning!Fresh
<1>2. \A k \in Learning!Kinds, a \in Learning!Actions : s.peers[k][a] = Cardinality(Doing(s, k, a))
  BY <1>1, FS_EmptySet
<1>3. /\ \A e \in Learning!Entities : s.count[e] = 0 /\ s.recent[e] = 0 /\ s.hours[e] = {}
                                      /\ \A a \in Learning!Actions : s.actions[e][a] = 0
      /\ \A u \in Learning!Users : s.ips[u] = {}
      /\ s.learned = {}
  BY DEF Learning!Fresh
<1> HIDE DEF s
<1>4. Coherent(s)
  BY <1>2, <1>3 DEF Coherent
<1> QED  BY <1>4 DEF s

LEMMA UpdateCoherent ==
  ASSUME NEW s \in States, Coherent(s), NEW b \in ThreeBatches
  PROVE  Coherent(Learning!Update(s, b))
<1> DEFINE t == Learning!Update(s, b)
<1> HIDE DEF t
<1> USE BatchFacts
<1>0. t \in States
  BY UpdateParts DEF t
<1>1. /\ t.learned = s.learned \cup {b.id}
      /\ \A k \in Learning!Kinds, a \in Learning!Actions : t.peers[k][a] =
               s.peers[k][a] + Cardinality(Learning!FirstTime(s, b, k, a))
  BY UpdateParts DEF t
<1>2. \A e \in Learning!Entities :
               /\ \A a \in Learning!Actions :
                     t.actions[e][a] = s.actions[e][a] + IF a = b.action /\ e \in b.ents THEN 1 ELSE 0
               /\ t.count[e] = s.count[e] + IF e \in b.ents THEN 1 ELSE 0
               /\ t.hours[e] = s.hours[e] \cup (IF e \in b.ents THEN {b.hour} ELSE {})
               /\ t.recent[e] = s.recent[e] + IF e \in b.ents THEN 1 ELSE 0
  BY UpdateParts DEF t
<1>3. \A u \in Learning!Users : t.ips[u] = s.ips[u] \cup (IF u = b.user THEN {b.ip} ELSE {})
  BY UpdateParts DEF t
<1>4. \A e \in Learning!Entities : s.count[e] \in Nat /\ \A a \in Learning!Actions : s.actions[e][a] \in Nat
  BY DEF States
<1>5. ASSUME NEW k \in Learning!Kinds, NEW a \in Learning!Actions
      PROVE  t.peers[k][a] = Cardinality(Doing(t, k, a))
  <2> DEFINE old == Doing(s, k, a)
             new == Learning!FirstTime(s, b, k, a)
  <2>1. old \subseteq Learning!Entities /\ new \subseteq Learning!Entities
    BY DEF Doing, Learning!FirstTime
  <2>2. IsFiniteSet(old) /\ IsFiniteSet(new)
    BY <2>1, FS_Subset
  <2>3. old \cap new = {}
    BY <1>4, <2>1 DEF Doing, Learning!FirstTime
  <2>4. Doing(t, k, a) = old \cup new
    BY <1>2, <1>4, <2>1 DEF Doing, Learning!FirstTime
  <2>5. s.peers[k][a] = Cardinality(old)
    BY DEF Coherent
  <2> HIDE DEF old, new
  <2>6. Cardinality(old \cup new) = Cardinality(old) + Cardinality(new)
    <3>1. Cardinality(old \cap new) = 0
      BY <2>3, FS_EmptySet
    <3>2. Cardinality(old) \in Nat /\ Cardinality(new) \in Nat
      BY <2>2, FS_CardinalityType
    <3>3. Cardinality(old \cup new) = Cardinality(old) + Cardinality(new) - Cardinality(old \cap new)
      BY <2>2, FS_Union
    <3> QED  BY <3>1, <3>2, <3>3
  <2> QED  BY <1>1, <2>4, <2>5, <2>6 DEF new
<1>6. ASSUME NEW e \in Learning!Entities
      PROVE  /\ t.count[e] = 0 <=> \A a \in Learning!Actions : t.actions[e][a] = 0
             /\ t.count[e] = 0 => t.recent[e] = 0 /\ t.hours[e] = {}
  <2>1. CASE e \in b.ents
    BY <2>1, <1>2, <1>4, UsersOfBatches
  <2>2. CASE e \notin b.ents
    <3>1. s.recent[e] \in Nat /\ s.count[e] \in Nat
      BY DEF States
    <3>2. t.count[e] = s.count[e] /\ t.recent[e] = s.recent[e] /\ t.hours[e] = s.hours[e]
      <4>1. /\ t.count[e] = s.count[e] + IF e \in b.ents THEN 1 ELSE 0
            /\ t.hours[e] = s.hours[e] \cup (IF e \in b.ents THEN {b.hour} ELSE {})
            /\ t.recent[e] = s.recent[e] + IF e \in b.ents THEN 1 ELSE 0
        BY <1>2
      <4>2. t.hours[e] = s.hours[e] \cup {}
        BY <2>2, <4>1
      <4> QED  BY <2>2, <3>1, <4>1, <4>2
    <3>3. \A a \in Learning!Actions : t.actions[e][a] = s.actions[e][a]
      BY <2>2, <1>2, <1>4
    <3> QED  BY <3>2, <3>3 DEF Coherent
  <2> QED  BY <2>1, <2>2
<1>7. ASSUME NEW u \in Learning!Users, t.ips[u] # {}
      PROVE  t.count[Person(u)] > 0
  <2>1. CASE u = b.user
    BY <2>1, <1>2, <1>4, UsersOfBatches
  <2>2. CASE u # b.user
    <3>1. s.count[Person(u)] > 0
      BY <1>3, <1>7, <2>2 DEF Coherent
    <3>2. Person(u) \in Learning!Entities
      <4>1. PICK c \in ThreeBatches : c.user = u
        BY DEF Learning!Users
      <4> QED  BY <4>1, UsersOfBatches
    <3> QED  BY <1>2, <1>4, <3>1, <3>2
  <2> QED  BY <2>1, <2>2
<1>8. ASSUME NEW c \in ThreeBatches, c.id \in t.learned
      PROVE  /\ c.ip \in t.ips[c.user]
             /\ \A e \in c.ents : t.actions[e][c.action] > 0 /\ c.hour \in t.hours[e]
  <2>1. CASE c = b
    BY <2>1, <1>2, <1>3, <1>4, UsersOfBatches
  <2>2. CASE c # b
    <3>1. c.id \in s.learned
      BY <1>1, <1>8, <2>2
    <3>2. /\ c.ip \in s.ips[c.user]
          /\ \A e \in c.ents : s.actions[e][c.action] > 0 /\ c.hour \in s.hours[e]
      BY <3>1 DEF Coherent
    <3> QED  BY <3>2, <1>2, <1>3, <1>4, UsersOfBatches
  <2> QED  BY <2>1, <2>2
<1>9. Coherent(t)
  BY <1>5, <1>6, <1>7, <1>8 DEF Coherent
<1> QED  BY <1>9 DEF t

\* The peers that did it are among the others.
LEMMA DoersAmongOthers ==
  ASSUME NEW s \in States, Coherent(s), NEW e \in Learning!Entities, NEW a \in Learning!Actions,
         Learning!Observations(s, e) > 0
  PROVE  Learning!Doers(s, e, a) \in 0..Learning!Others(s, e)
<1> DEFINE k == e[1]
           met == Learning!PeerGroup(s, k)
           did == Doing(s, k, a)
<1> USE BatchFacts
<1>0. k \in Learning!Kinds
  BY DEF Learning!Kinds
<1>1. \A x \in Learning!Entities : s.count[x] \in Nat /\ s.actions[x][a] \in Nat
  BY DEF States
<1>2. did \subseteq met /\ met \subseteq Learning!Entities /\ e \in met
  BY <1>1 DEF Learning!PeerGroup, Learning!Observations, Doing, Coherent
<1>3. IsFiniteSet(met) /\ IsFiniteSet(did)
  BY <1>2, FS_Subset
<1>4. Cardinality(met) \in Nat /\ Cardinality(did) \in Nat /\ Cardinality(did) <= Cardinality(met)
  BY <1>2, <1>3, FS_Subset, FS_CardinalityType
<1>5. /\ Learning!Others(s, e) = Cardinality(met) - 1
      /\ Learning!Doers(s, e, a) = Cardinality(did) - (IF e \in did THEN 1 ELSE 0)
  BY <1>0, SameCount DEF Learning!Others, Learning!Doers, Coherent, Doing
<1> HIDE DEF met, did, k
<1>6. e \in did => Cardinality(did) # 0
  BY <1>3, FS_EmptySet
<1>7. e \notin did => Cardinality(did) <= Cardinality(met) - 1
  <2> SUFFICES ASSUME e \notin did PROVE Cardinality(did) <= Cardinality(met) - 1
    OBVIOUS
  <2>1. did \subseteq met \ {e} /\ IsFiniteSet(met \ {e}) /\ Cardinality(met \ {e}) = Cardinality(met) - 1
    BY <1>2, <1>3, FS_RemoveElement
  <2>2. Cardinality(did) <= Cardinality(met \ {e})
    BY <2>1, FS_Subset
  <2> QED  BY <2>1, <2>2
<1> QED  BY <1>4, <1>5, <1>6, <1>7

LEMMA CoherentInit == Init => CoherentInv
<1> SUFFICES ASSUME Init PROVE CoherentInv
  OBVIOUS
<1>1. mem = [p \in Learners |-> Learning!Fresh] /\ stored.state = Learning!Fresh /\ ~peerOdd
      /\ \A p \in Learners : unsaved[p] = <<>>
  BY DEF Init, Learning!Init
<1> QED  BY <1>1, LearnInit, FreshCoherent DEF CoherentInv

LEMMA CoherentStep == CoherentInv /\ [Next]_vars => CoherentInv'
<1> SUFFICES ASSUME CoherentInv, [Next]_vars PROVE CoherentInv'
  OBVIOUS
<1>0. LearnInv /\ LearnInv'
  BY LearnStepKeepsIt DEF CoherentInv
<1>1. ASSUME NEW p \in Learners, Learning!Start(p) \/ Learning!LoadFails(p)
      PROVE  CoherentInv'
  <2>1. /\ \E s \in {stored.state, Learning!Fresh} : mem' = [mem EXCEPT ![p] = s]
        /\ UNCHANGED <<stored, unsaved, peerOdd>>
    BY <1>1 DEF Learning!Start, Learning!LoadFails, Learning!Begin
  <2>2. \A q \in Learners : mem'[q] = mem[q] \/ mem'[q] = Learning!Fresh \/ mem'[q] = stored.state
    BY <2>1, <1>0 DEF LearnInv, LearnTypes
  <2> QED  BY <1>0, <2>1, <2>2, FreshCoherent DEF CoherentInv
<1>2. ASSUME NEW p \in Learners, Learning!SaveResult(p) \/ Learning!Stop(p)
      PROVE  CoherentInv'
  <2>1. unsaved' = [unsaved EXCEPT ![p] = <<>>] /\ UNCHANGED <<stored, mem, peerOdd>>
    BY <1>2 DEF Learning!SaveResult, Learning!Stop
  <2>2. \A q \in Learners : unsaved'[q] = unsaved[q] \/ unsaved'[q] = <<>>
    BY <2>1, <1>0 DEF LearnInv, LearnTypes
  <2> QED  BY <1>0, <2>1, <2>2 DEF CoherentInv
<1>3. ASSUME NEW p \in Learners, Learning!SaveFails(p)
      PROVE  CoherentInv'
  <2>1. /\ unsaved[p] # <<>> /\ mem' = [mem EXCEPT ![p] = unsaved[p][2]]
        /\ unsaved' = [unsaved EXCEPT ![p] = <<>>] /\ UNCHANGED <<stored, peerOdd>>
    BY <1>3 DEF Learning!SaveFails
  <2>2. \A q \in Learners : /\ unsaved'[q] = unsaved[q] \/ unsaved'[q] = <<>>
                            /\ mem'[q] = mem[q] \/ (unsaved[q] # <<>> /\ mem'[q] = unsaved[q][2])
    BY <2>1, <1>0 DEF LearnInv, LearnTypes
  <2> QED  BY <1>0, <2>1, <2>2 DEF CoherentInv
<1>4. ASSUME NEW p \in Learners, NEW b \in ThreeBatches, Learning!Process(p, b)
      PROVE  CoherentInv'
  <2> DEFINE s == Learning!Update(mem[p], b)
  <2>1. /\ mem' = [mem EXCEPT ![p] = s] /\ Learning!PersistBaseline(p, s)
        /\ unsaved' = [unsaved EXCEPT ![p] = <<b.id, mem[p]>>]
        /\ peerOdd' = (peerOdd \/ \E e \in b.ents : Learning!PeerCompared(mem[p], e)
                                  /\ Learning!Observations(mem[p], e) > 0
                                  /\ Learning!Doers(mem[p], e, b.action) \notin 0..Learning!Others(mem[p], e))
    BY <1>4 DEF Learning!Process
  <2>2. mem[p] \in States /\ Coherent(mem[p])
    BY <1>0 DEF CoherentInv, LearnInv, LearnTypes
  <2>3. Coherent(s)
    BY <2>2, UpdateCoherent
  <2>4. ~peerOdd'
    BY <2>1, <2>2, DoersAmongOthers, BatchFacts, UsersOfBatches DEF CoherentInv
  <2> HIDE DEF s
  <2>5. stored'.state = s \/ stored' = stored
    BY <2>1 DEF Learning!PersistBaseline
  <2>6. \A q \in Learners : /\ mem'[q] = mem[q] \/ mem'[q] = s
                            /\ unsaved'[q] = unsaved[q] \/ unsaved'[q] = <<b.id, mem[p]>>
    BY <2>1, <1>0 DEF LearnInv, LearnTypes
  <2> QED  BY <1>0, <2>2, <2>3, <2>4, <2>5, <2>6 DEF CoherentInv
<1>5. CASE LearnStep
  <2>1. PICK p \in Learners : \/ Learning!Start(p) \/ Learning!LoadFails(p) \/ Learning!SaveResult(p)
                              \/ Learning!SaveFails(p) \/ Learning!Stop(p)
                              \/ \E b \in ThreeBatches : Learning!Process(p, b)
    BY <1>5 DEF LearnStep, Learning!Next
  <2> QED  BY <2>1, <1>1, <1>2, <1>3, <1>4
<1>6. CASE UNCHANGED learnVars
  BY <1>0, <1>6 DEF learnVars, CoherentInv
<1>7. UNCHANGED learnVars \/ LearnStep
  BY DEF Next, StoryStep, AdviceStep, CaseStep, EnrichStep, WebStep, vars
<1> QED  BY <1>5, <1>6, <1>7

\* The points of peers are a number, and so is their sum over an event's two
\* entities.
LEMMA PeerPointsNumber ==
  ASSUME NEW s \in States, Coherent(s), NEW e \in Learning!Entities, NEW a \in Learning!Actions
  PROVE  Learning!PeerPoints(s, e, a) \in Int
<1> DEFINE met == Learning!PeerGroup(s, e[1])
           did == Doing(s, e[1], a)
<1>1. met \subseteq Learning!Entities /\ did \subseteq Learning!Entities /\ e[1] \in Learning!Kinds
  BY DEF Learning!PeerGroup, Doing, Learning!Kinds
<1>2. Cardinality(met) \in Nat /\ Cardinality(did) \in Nat
  BY <1>1, BatchFacts, FS_Subset, FS_CardinalityType
<1>3. /\ Learning!Others(s, e) = Cardinality(met) - 1
      /\ Learning!Doers(s, e, a) = Cardinality(did) - (IF s.actions[e][a] > 0 THEN 1 ELSE 0)
  BY <1>1, SameCount DEF Learning!Others, Learning!Doers, Coherent
<1> HIDE DEF met, did
<1> DEFINE others == Learning!Others(s, e)
           doers == Learning!Doers(s, e, a)
<1>4. others \in Int /\ doers \in Int
  BY <1>2, <1>3
<1> HIDE DEF others, doers
<1>5. CASE Learning!PeerCompared(s, e) /\ 5 * doers <= others
  <2>1. others > 0
    BY <1>5 DEF Learning!PeerCompared, others
  <2> DEFINE points == 20 - (100 * doers) \div others
  <2>2. points \in Int
    BY <2>1, <1>4
  <2>3. Learning!PeerPoints(s, e, a) = Learning!Max({1, points})
    BY <1>5 DEF Learning!PeerPoints, others, doers
  <2> HIDE DEF points
  <2>4. Learning!Max({1, points}) \in {1, points}
    <3>1. \E x \in {1, points} : \A y \in {1, points} : x >= y
      BY <2>2
    <3> QED  BY <3>1, Zenon DEF Learning!Max
  <2> QED  BY <2>2, <2>3, <2>4
<1>6. CASE ~(Learning!PeerCompared(s, e) /\ 5 * doers <= others)
  BY <1>6 DEF Learning!PeerPoints, others, doers
<1> QED  BY <1>5, <1>6

LEMMA PeerPointsAdd ==
  ASSUME NEW s, NEW a, NEW x, NEW y,
         Learning!PeerPoints(s, x, a) \in Int, Learning!PeerPoints(s, y, a) \in Int
  PROVE  Learning!AllPeerPoints(s, {x, y}, a) \in Int
<1> DEFINE P(e) == Learning!PeerPoints(s, e, a)
           Sums(it) == it = [S \in SUBSET {x, y} |->
                               IF S = {} THEN 0
                               ELSE LET e == CHOOSE e \in S : TRUE IN P(e) + it[S \ {e}]]
           sums == CHOOSE it : Sums(it)
           both == [S \in SUBSET {x, y} |-> (IF x \in S THEN P(x) ELSE 0)
                                            + (IF y \in S /\ y # x THEN P(y) ELSE 0)]
<1>1. Learning!AllPeerPoints(s, {x, y}, a) = sums[{x, y}]
  BY DEF Learning!AllPeerPoints, Learning!MapThenSumSet, Learning!MapThenFoldSet
<1>2. Sums(both)
  <2> SUFFICES ASSUME NEW S \in SUBSET {x, y}
               PROVE  both[S] = IF S = {} THEN 0
                                ELSE LET e == CHOOSE e \in S : TRUE IN P(e) + both[S \ {e}]
    BY Zenon
  <2>1. CASE S = {}
    BY <2>1
  <2>2. CASE S # {}
    <3> DEFINE e == CHOOSE e \in S : TRUE
    <3>1. e \in S
      BY <2>2
    <3> HIDE DEF e
    <3>2. both[S] = P(e) + both[S \ {e}]
      BY <3>1
    <3> QED  BY <3>2, <2>2 DEF e
  <2> QED  BY <2>1, <2>2
<1>3. Sums(sums)
  BY <1>2, Zenon
<1> HIDE DEF sums
<1>4. sums[{}] = 0
  BY <1>3
<1>5. ASSUME NEW S \in SUBSET {x, y}, S # {}
      PROVE  \E e \in S : sums[S] = P(e) + sums[S \ {e}]
  <2> DEFINE e == CHOOSE e \in S : TRUE
  <2>1. e \in S
    BY <1>5
  <2>2. sums[S] = P(e) + sums[S \ {e}]
    BY <1>3, <1>5
  <2> QED  BY <2>1, <2>2
<1>6. sums[{x}] \in Int /\ sums[{y}] \in Int
  BY <1>4, <1>5
<1>7. sums[{x, y}] \in Int
  <2>1. PICK e \in {x, y} : sums[{x, y}] = P(e) + sums[{x, y} \ {e}]
    BY <1>5
  <2>2. {x, y} \ {e} \in {{}, {x}, {y}}
    BY <2>1
  <2>3. P(e) \in Int
    BY <2>1
  <2>4. sums[{x, y} \ {e}] \in Int
    BY <2>2, <1>4, <1>6
  <2> HIDE DEF P
  <2> QED  BY <2>1, <2>3, <2>4
<1> QED  BY <1>1, <1>7

\* What a coherent baseline has learned, or never met, is no novelty to it.
LEMMA CoherentScores ==
  ASSUME NEW s \in States, Coherent(s), NEW b \in ThreeBatches
  PROVE  /\ b.id \in s.learned =>
               (Learning!Score(s, b) > 0 => Learning!PopulationPoints(s, b) > 0
                                            \/ Learning!Bursting(s, b.ents) # {})
         /\ (\A e \in b.ents : Learning!Observations(s, e) = 0) =>
               Learning!NoveltyPoints(s, b) + Learning!TemporalPoints(s, b) = 0
<1> USE BatchFacts, UsersOfBatches
<1>0. \A e \in b.ents : e \in Learning!Entities /\ s.count[e] \in Nat
                        /\ \A a \in Learning!Actions : s.actions[e][a] \in Nat
  BY DEF States
<1> DEFINE novel == {e \in b.ents : Learning!Observations(s, e) > 0 /\ s.actions[e][b.action] = 0}
           warm == {e \in b.ents : Learning!Observations(s, e) >= MinEntity}
           odd == {e \in warm : s.hours[e] # {} /\ b.hour \notin s.hours[e]}
<1>1. Learning!NoveltyPoints(s, b) =
        15 * Cardinality(novel) + (IF s.ips[b.user] # {} /\ b.ip \notin s.ips[b.user] THEN 25 ELSE 0)
  BY SameCount DEF Learning!NoveltyPoints
<1>2. Learning!TemporalPoints(s, b) = 20 * Cardinality(odd) + 25 * Cardinality(Learning!Bursting(s, warm))
  BY SameCount DEF Learning!TemporalPoints
<1>3. Cardinality({}) = 0
  BY FS_EmptySet
<1>4. ASSUME b.id \in s.learned, Learning!Bursting(s, b.ents) = {}
      PROVE  Learning!NoveltyPoints(s, b) = 0 /\ Learning!TemporalPoints(s, b) = 0
  <2>1. novel = {} /\ odd = {} /\ b.ip \in s.ips[b.user]
    BY <1>0, <1>4 DEF Coherent
  <2>2. Learning!Bursting(s, warm) = {}
    BY <1>4 DEF Learning!Bursting
  <2> HIDE DEF novel, odd, warm
  <2> QED  BY <1>1, <1>2, <1>3, <2>1, <2>2
<1>5. ASSUME \A e \in b.ents : Learning!Observations(s, e) = 0
      PROVE  Learning!NoveltyPoints(s, b) = 0 /\ Learning!TemporalPoints(s, b) = 0
  <2>1. \A e \in b.ents : s.count[e] = 0 /\ s.recent[e] = 0 /\ s.hours[e] = {}
    BY <1>0, <1>5 DEF Coherent, Learning!Observations
  <2>2. novel = {} /\ odd = {}
    BY <1>5, <2>1
  <2>3. s.ips[b.user] = {}
    BY <2>1 DEF Coherent
  <2>4. Learning!Bursting(s, warm) = {}
    BY <2>1 DEF Learning!Bursting
  <2> HIDE DEF novel, odd, warm
  <2> QED  BY <1>1, <1>2, <1>3, <2>2, <2>3, <2>4
<1>6. Learning!PopulationPoints(s, b) \in Int
  <2>1. Learning!RarePoints(s, b) \in Int
    <3>1. s.events \in Nat /\ s.totals[b.action] \in Nat
      BY DEF States
    <3>2. CASE s.events >= MinGlobal /\ 20 * s.totals[b.action] <= s.events
      <4> DEFINE points == 20 - (400 * s.totals[b.action]) \div s.events
      <4>1. points \in Int
        BY <3>1, <3>2, MinGlobalAssumption
      <4>2. Learning!RarePoints(s, b) = Learning!Max({1, points})
        BY <3>2 DEF Learning!RarePoints
      <4> HIDE DEF points
      <4>3. Learning!Max({1, points}) \in {1, points}
        <5>1. \E x \in {1, points} : \A y \in {1, points} : x >= y
          BY <4>1
        <5> QED  BY <5>1, Zenon DEF Learning!Max
      <4> QED  BY <4>1, <4>2, <4>3
    <3>3. CASE ~(s.events >= MinGlobal /\ 20 * s.totals[b.action] <= s.events)
      BY <3>3 DEF Learning!RarePoints
    <3> QED  BY <3>2, <3>3
  <2>2. \E x, y \in Learning!Entities : b.ents = {x, y}
    <3>1. \E x, y \in b.ents : b.ents = {x, y}
      BY DEF ThreeBatches, Observed
    <3> QED  BY <3>1
  <2>3. Learning!AllPeerPoints(s, b.ents, b.action) \in Int
    <3>1. PICK x, y \in Learning!Entities : b.ents = {x, y}
      BY <2>2
    <3>2. Learning!PeerPoints(s, x, b.action) \in Int /\ Learning!PeerPoints(s, y, b.action) \in Int
      BY PeerPointsNumber
    <3>3. Learning!AllPeerPoints(s, {x, y}, b.action) \in Int
      BY <3>2, PeerPointsAdd
    <3> QED  BY <3>1, <3>3
  <2> QED  BY <2>1, <2>3 DEF Learning!PopulationPoints
<1>7. ASSUME b.id \in s.learned, Learning!Bursting(s, b.ents) = {}, Learning!Score(s, b) > 0
      PROVE  Learning!PopulationPoints(s, b) > 0
  <2> DEFINE points == Learning!PopulationPoints(s, b)
  <2>1. Learning!NoveltyPoints(s, b) + Learning!TemporalPoints(s, b) + Learning!PopulationPoints(s, b) = points
    BY <1>4, <1>6, <1>7
  <2>2. Learning!Score(s, b) = Learning!Min({100, points})
    BY <2>1 DEF Learning!Score
  <2> HIDE DEF points
  <2>3. points \in Int
    BY <1>6 DEF points
  <2>4. Learning!Min({100, points}) \in {100, points} /\ Learning!Min({100, points}) <= points
    <3>1. \E x \in {100, points} : \A y \in {100, points} : x <= y
      BY <2>3
    <3>2. /\ Learning!Min({100, points}) \in {100, points}
          /\ \A y \in {100, points} : Learning!Min({100, points}) <= y
      BY <3>1, Zenon DEF Learning!Min
    <3> QED  BY <3>2
  <2> QED  BY <1>7, <2>2, <2>3, <2>4 DEF points
<1> QED  BY <1>4, <1>5, <1>7

LEMMA CoherentIInv == Spec => []CoherentInv
<1>1. Init => CoherentInv
  BY CoherentInit
<1>2. CoherentInv /\ [Next]_vars => CoherentInv'
  BY CoherentStep
<1> QED  BY <1>1, <1>2, PTL DEF Spec

\* Every copy of the baseline agrees with itself: the peer counters are the
\* numbers of entities that did the action, a peer fraction of an entity met
\* before is one, and neither what was learned nor what was never met is novel,
\* for any thresholds, after any retries, restores, restarts and conflicts.
THEOREM BaselineStaysExact == Spec => []BaselineExact
<1>1. CoherentInv => BaselineExact
  <2> SUFFICES ASSUME CoherentInv PROVE Learning!PeerCountsExact /\ Learning!NoveltyFollowsHistory
    BY DEF BaselineExact
  <2>1. Learning!PeerCountsExact
    BY PeersExactIsDoing DEF Learning!PeerCountsExact, CoherentInv, Coherent
  <2>2. \A p \in Learners : mem[p] \in States /\ Coherent(mem[p])
    BY DEF CoherentInv, LearnInv, LearnTypes
  <2>3. Learning!NoveltyFollowsHistory
    BY <2>2, CoherentScores DEF Learning!NoveltyFollowsHistory
  <2> QED  BY <2>1, <2>3
<1> QED  BY <1>1, CoherentIInv, PTL
-------------------------------------------------------------------------------
(* The web API and its users.                                              *)

Names   == (DOMAIN TwoAccounts) \cup Targets
Roles   == {"viewer", "ingest", "analyst", "admin"}
Tenants == {"acme", "umbrella"}
Perms   == {"data:read", "audit:read", "search:execute", "ingest:events", "incidents:update",
            "suppressions:manage", "approve:proposals", "rules:manage", "users:manage"}
Accts   == [role : Roles, tenant : Tenants, only : SUBSET Perms, token : Nat]

\* What a users file may say, and what an inode holds, torn or not.
UserSets == UNION {[D -> Accts] : D \in SUBSET Names}
Contents == {<<>>} \cup {<<u>> : u \in UserSets}

AllRoutes  == (DOMAIN Web!Route) \cup Web!UserRoutes
Principals == {Web!Nobody} \cup [name : Names, tenant : Tenants, perms : SUBSET Perms, all : {FALSE}]
PCs        == {"handler", "body", "open", "write", "replace", "audit"}
InFlight   ==
  [n : Nat, route : AllRoutes, name : Names, cli : BOOLEAN, user : Principals, pc : PCs,
   store : Contents, into : Nat]

WebTypes ==
  /\ inodes \in Seq(Contents) /\ target \in 1..Len(inodes) /\ tmp \in 0..Len(inodes) /\ tmp # target
  /\ meant \in UserSets
  /\ slots \in [Slots -> {<<>>} \cup {<<q>> : q \in InFlight}]
  /\ overlapped \in BOOLEAN /\ requests \in Nat

\* A request that changes the users has loaded them.
ChangesLoaded == \A s \in Slots : Web!Changing(s) =>
  slots[s][1].route \in Web!UserRoutes /\ slots[s][1].store # <<>>

\* What a change has made so far of the users it loaded, where no other did.
Halfway(q) ==
  /\ q.pc \in {"body", "open"} => q.store = Web!Load
  /\ q.pc \in {"write", "replace"} =>
        /\ Web!Known(q, Web!Load[1])
        /\ q.store = <<Web!Plain(Web!Mutate(q, Web!Load[1]))>>
        /\ tmp # 0 /\ q.into = tmp
        /\ inodes[tmp] = IF q.pc = "write" THEN <<>> ELSE q.store

ChangesAlone == ~overlapped => \A s \in Slots : Web!Changing(s) =>
  Halfway(slots[s][1]) /\ \A t \in Slots : Web!Changing(t) => t = s

WebInv == WebTypes /\ ChangesLoaded /\ ChangesAlone /\ Web!UserChangesKept /\ Web!RequestsScoped

LEMMA RouteFacts ==
  /\ \A r \in DOMAIN Web!Route : ~Web!Route[r].scoped => r = "ui_comment"
  /\ \A r \in Web!UserRoutes : r \notin DOMAIN Web!Route
  /\ Web!Route["ui_comment"].effect = "change"
  BY DEF Web!Route, Web!ReadRoutes, Web!DecisionRoutes, Web!IncidentRoutes, Web!IngestRoutes,
         Web!RuleRoutes, Web!SearchRoutes, Web!PageRoutes, Web!ListPages, Web!FormRoutes, Web!R,
         Web!UserRoutes

LEMMA UserSetIntro ==
  ASSUME NEW D \in SUBSET Names, NEW u \in [D -> Accts]
  PROVE  u \in UserSets /\ <<u>> \in Contents
  BY DEF UserSets, Contents

LEMMA PlainUsers ==
  ASSUME NEW u \in UserSets
  PROVE  /\ Web!Plain(u) \in UserSets
         /\ DOMAIN Web!Plain(u) = DOMAIN u
         /\ Web!Plain(Web!Plain(u)) = Web!Plain(u)
<1>1. PICK D \in SUBSET Names : u \in [D -> Accts]
  BY DEF UserSets
<1>2. \A n \in D : [u[n] EXCEPT !.only = {}] \in Accts
  BY <1>1 DEF Accts
<1>3. Web!Plain(u) \in [D -> Accts] /\ DOMAIN Web!Plain(u) = D /\ DOMAIN u = D
  BY <1>1, <1>2 DEF Web!Plain
<1>4. \A n \in D : Web!Plain(u)[n] = [u[n] EXCEPT !.only = {}]
  BY <1>1 DEF Web!Plain
<1>5. \A n \in D : [Web!Plain(u)[n] EXCEPT !.only = {}] = Web!Plain(u)[n]
  BY <1>1, <1>4 DEF Accts
<1>6. Web!Plain(Web!Plain(u)) = Web!Plain(u)
  <2>1. Web!Plain(Web!Plain(u)) = [n \in D |-> [Web!Plain(u)[n] EXCEPT !.only = {}]]
    BY <1>3 DEF Web!Plain
  <2>2. Web!Plain(Web!Plain(u)) = [n \in D |-> Web!Plain(u)[n]]
    BY <2>1, <1>5
  <2> QED  BY <2>2, <1>3
<1>7. Web!Plain(u) \in UserSets
  BY <1>3, UserSetIntro
<1> QED  BY <1>3, <1>6, <1>7

LEMMA MutateUsers ==
  ASSUME NEW u \in UserSets, NEW q \in InFlight, q.route \in Web!UserRoutes, Web!Known(q, u)
  PROVE  Web!Mutate(q, u) \in UserSets
<1>1. PICK D \in SUBSET Names : u \in [D -> Accts]
  BY DEF UserSets
<1>2. q.name \in Names /\ q.n \in Nat
  BY DEF InFlight
<1>3. [Eve.account EXCEPT !.token = q.n] \in Accts
  BY <1>2 DEF Eve, Login_, Accts, Roles, Tenants
<1>4. CASE q.route = "add"
  <2>1. Web!Mutate(q, u)
            = [n \in D \cup {q.name} |-> IF n = q.name THEN [Eve.account EXCEPT !.token = q.n] ELSE u[n]]
    BY <1>1, <1>4 DEF Web!Mutate
  <2>2. Web!Mutate(q, u) \in [D \cup {q.name} -> Accts] /\ D \cup {q.name} \subseteq Names
    BY <2>1, <1>1, <1>2, <1>3
  <2> QED  BY <2>2, UserSetIntro
<1>5. CASE q.route = "remove"
  <2>1. Web!Mutate(q, u) = [n \in D \ {q.name} |-> u[n]]
    BY <1>1, <1>5 DEF Web!Mutate
  <2>2. Web!Mutate(q, u) \in [D \ {q.name} -> Accts] /\ D \ {q.name} \subseteq Names
    BY <2>1, <1>1
  <2> QED  BY <2>2, UserSetIntro
<1>6. CASE q.route \in {"rotate", "revoke"}
  <2>1. q.name \in D
    BY <1>1, <1>6 DEF Web!Known
  <2>2. PICK t \in Nat : Web!Mutate(q, u) = [u EXCEPT ![q.name].token = t]
    BY <1>6, <1>2 DEF Web!Mutate, Web!NoToken
  <2>3. [u[q.name] EXCEPT !.token = t] \in Accts
    BY <2>1, <1>1 DEF Accts
  <2>4. Web!Mutate(q, u) \in [D -> Accts]
    BY <2>1, <2>2, <2>3, <1>1
  <2> QED  BY <2>4, UserSetIntro
<1> QED  BY <1>4, <1>5, <1>6 DEF Web!UserRoutes

Bare(a)     == [a EXCEPT !.only = {}]
Token(a, t) == [a EXCEPT !.token = t]

LEMMA BareFacts ==
  /\ \A u : Web!Plain(u) = [n \in DOMAIN u |-> Bare(u[n])]
  /\ \A a \in Accts : \A t : Bare(Token(a, t)) = Token(Bare(a), t)
<1>1. \A u : Web!Plain(u) = [n \in DOMAIN u |-> Bare(u[n])]
  BY DEF Web!Plain, Bare
<1>2. \A a \in Accts : \A t : Bare(Token(a, t)) = Token(Bare(a), t)
  BY DEF Accts, Bare, Token
<1> QED  BY <1>1, <1>2

\* A change does the same to users who differ only in what a save forgets.
LEMMA MutatePlain ==
  ASSUME NEW u \in UserSets, NEW v \in UserSets, Web!Plain(u) = Web!Plain(v),
         NEW q \in InFlight, q.route \in Web!UserRoutes
  PROVE  /\ Web!Known(q, u) <=> Web!Known(q, v)
         /\ Web!Known(q, u) => Web!Plain(Web!Mutate(q, u)) = Web!Plain(Web!Mutate(q, v))
<1>1. PICK D \in SUBSET Names : u \in [D -> Accts]
  BY DEF UserSets
<1>2. DOMAIN u = DOMAIN v
  BY PlainUsers
<1>3. v \in [D -> Accts]
  BY <1>1, <1>2 DEF UserSets
<1>4. \A n \in D : Bare(u[n]) = Bare(v[n])
  <2>1. \A n \in D : Web!Plain(u)[n] = Bare(u[n]) /\ Web!Plain(v)[n] = Bare(v[n])
    BY <1>1, <1>3, BareFacts
  <2> QED  BY <2>1
<1>5. Web!Known(q, u) <=> Web!Known(q, v)
  BY <1>2 DEF Web!Known
<1>6. ASSUME Web!Known(q, u) PROVE Web!Plain(Web!Mutate(q, u)) = Web!Plain(Web!Mutate(q, v))
  <2>1. CASE q.route = "add"
    <3> DEFINE New == [Eve.account EXCEPT !.token = q.n]
    <3> HIDE DEF New
    <3>1. ASSUME NEW w \in {u, v}
          PROVE  Web!Plain(Web!Mutate(q, w)) =
                   [n \in D \cup {q.name} |-> IF n = q.name THEN Bare(New) ELSE Bare(u[n])]
      <4>1. Web!Mutate(q, w) = [n \in D \cup {q.name} |-> IF n = q.name THEN New ELSE w[n]]
        BY <2>1, <1>1, <1>3 DEF Web!Mutate, New
      <4>2. Web!Plain(Web!Mutate(q, w)) = [n \in D \cup {q.name} |-> Bare(IF n = q.name THEN New ELSE w[n])]
        BY <4>1, BareFacts
      <4> QED  BY <4>2, <1>4
    <3> QED  BY <3>1
  <2>2. CASE q.route = "remove"
    <3>1. ASSUME NEW w \in {u, v}
          PROVE  Web!Plain(Web!Mutate(q, w)) = [n \in D \ {q.name} |-> Bare(u[n])]
      <4>1. Web!Mutate(q, w) = [n \in D \ {q.name} |-> w[n]]
        BY <2>2, <1>1, <1>3 DEF Web!Mutate
      <4>2. Web!Plain(Web!Mutate(q, w)) = [n \in D \ {q.name} |-> Bare(w[n])]
        BY <4>1, BareFacts
      <4> QED  BY <4>2, <1>4
    <3> QED  BY <3>1
  <2>3. CASE q.route \in {"rotate", "revoke"}
    <3> DEFINE t == IF q.route = "rotate" THEN q.n ELSE Web!NoToken
    <3> HIDE DEF t
    <3>1. ASSUME NEW w \in {u, v}
          PROVE  Web!Plain(Web!Mutate(q, w)) =
                   [n \in D |-> IF n = q.name THEN Token(Bare(u[n]), t) ELSE Bare(u[n])]
      <4>0. w \in [D -> Accts] /\ q.name \in D
        BY <1>1, <1>3, <1>6, <2>3 DEF Web!Known
      <4>1. Web!Mutate(q, w) = [w EXCEPT ![q.name].token = t]
        <5>1. CASE q.route = "rotate"  BY <5>1 DEF Web!Mutate, t
        <5>2. CASE q.route = "revoke"  BY <5>2 DEF Web!Mutate, t
        <5> QED  BY <2>3, <5>1, <5>2
      <4>2. Web!Mutate(q, w) = [n \in D |-> IF n = q.name THEN Token(w[n], t) ELSE w[n]]
        BY <4>0, <4>1 DEF Token
      <4>3. Web!Plain(Web!Mutate(q, w)) = [n \in D |-> Bare(IF n = q.name THEN Token(w[n], t) ELSE w[n])]
        BY <4>2, BareFacts
      <4>4. \A n \in D : Bare(Token(w[n], t)) = Token(Bare(u[n]), t) /\ Bare(w[n]) = Bare(u[n])
        BY <4>0, <1>4, BareFacts
      <4>5. \A n \in D : Bare(IF n = q.name THEN Token(w[n], t) ELSE w[n])
                         = IF n = q.name THEN Token(Bare(u[n]), t) ELSE Bare(u[n])
        BY <4>4
      <4> QED  BY <4>3, <4>5
    <3> QED  BY <3>1
  <2> QED  BY <2>1, <2>2, <2>3 DEF Web!UserRoutes
<1> QED  BY <1>5, <1>6

LEMMA WebInitially == Init => WebInv
<1> SUFFICES ASSUME Init PROVE WebInv
  OBVIOUS
<1> USE DEF Init, Web!Init
<1>1. TwoAccounts \in UserSets
  <2>1. DOMAIN TwoAccounts \in SUBSET Names
    BY DEF Names
  <2>2. TwoAccounts \in [DOMAIN TwoAccounts -> Accts]
    <3>1. DOMAIN TwoAccounts = {"ann", "bob"}
      BY DEF TwoAccounts
    <3>2. TwoAccounts["ann"] = Login_("admin", "acme", {}, 1)
          /\ TwoAccounts["bob"] = Login_("analyst", "umbrella", {"data:read"}, 2)
      BY DEF TwoAccounts
    <3>3. {} \in SUBSET Perms /\ {"data:read"} \in SUBSET Perms
      BY DEF Perms
    <3>4. Login_("admin", "acme", {}, 1) \in Accts
      BY <3>3 DEF Login_, Accts, Roles, Tenants
    <3>5. Login_("analyst", "umbrella", {"data:read"}, 2) \in Accts
      BY <3>3 DEF Login_, Accts, Roles, Tenants
    <3>6. TwoAccounts = [n \in DOMAIN TwoAccounts |-> TwoAccounts[n]]
      BY DEF TwoAccounts
    <3> QED  BY <3>1, <3>2, <3>4, <3>5, <3>6
  <2> QED  BY <2>1, <2>2, UserSetIntro
<1>2. inodes \in Seq(Contents) /\ Len(inodes) = 1
  BY <1>1 DEF Contents
<1>3. WebTypes
  <2>1. target = 1 /\ tmp = 0 /\ meant = TwoAccounts /\ slots = [s \in Slots |-> <<>>]
        /\ overlapped = FALSE /\ requests = 0
    OBVIOUS
  <2> HIDE DEF Init, Web!Init
  <2>2. slots \in [Slots -> {<<>>} \cup {<<q>> : q \in InFlight}]
    BY <2>1
  <2>3. target \in 1..Len(inodes) /\ tmp \in 0..Len(inodes) /\ tmp # target
    BY <1>2, <2>1
  <2> QED  BY <1>1, <1>2, <2>1, <2>2, <2>3 DEF WebTypes
<1>4. ChangesLoaded /\ ChangesAlone
  BY DEF ChangesLoaded, ChangesAlone, Web!Changing
<1>5. Web!UserChangesKept /\ Web!RequestsScoped
  BY DEF Web!UserChangesKept, Web!RequestsScoped, Web!Load
<1> QED  BY <1>3, <1>4, <1>5 DEF WebInv

\* A step that leaves the file and the changes under way alone.
LEMMA FileAlone ==
  ASSUME WebInv, UNCHANGED <<inodes, target, tmp, meant>>, overlapped' \in BOOLEAN, overlapped => overlapped',
         slots' \in [Slots -> {<<>>} \cup {<<q>> : q \in InFlight}], requests' \in Nat,
         \A s \in Slots : Web!Changing(s)' => slots'[s] = slots[s],
         Web!RequestsScoped'
  PROVE  WebInv'
<1> USE DEF WebInv
<1>1. \A s \in Slots : Web!Changing(s)' => Web!Changing(s)
  BY DEF Web!Changing
<1>2. Web!Load' = Web!Load /\ Web!UserChangesKept'
  BY DEF Web!Load, Web!UserChangesKept, Web!Plain
<1>3. WebTypes'
  BY DEF WebTypes
<1>4. ChangesLoaded'
  BY <1>1 DEF ChangesLoaded
<1>5. \A q : Halfway(q) => Halfway(q)'
  BY <1>2 DEF Halfway
<1>6. ChangesAlone'
  BY <1>1, <1>5 DEF ChangesAlone
<1> QED  BY <1>2, <1>3, <1>4, <1>6

\* A slot that is answered, or takes a request to be handled.
LEMMA SlotFilled ==
  ASSUME WebInv, UNCHANGED <<inodes, target, tmp, meant>>, overlapped' \in BOOLEAN, overlapped => overlapped',
         NEW s \in Slots,
         \/ Web!Answer(s)
         \/ \E q \in InFlight : q.pc = "handler" /\ Web!Put(s, q),
         requests' \in Nat, Web!RequestsScoped'
  PROVE  WebInv'
<1>1. slots \in [Slots -> {<<>>} \cup {<<q>> : q \in InFlight}]
  BY DEF WebInv, WebTypes
<1>2. slots' \in [Slots -> {<<>>} \cup {<<q>> : q \in InFlight}]
  BY <1>1 DEF Web!Answer, Web!Put
<1>3. \A t \in Slots : Web!Changing(t)' => slots'[t] = slots[t]
  BY <1>1 DEF Web!Answer, Web!Put, Web!Changing
<1> QED  BY <1>2, <1>3, FileAlone

LEMMA RequestTyped ==
  ASSUME WebInv, NEW route \in AllRoutes, NEW name \in Targets, NEW cli \in BOOLEAN
  PROVE  Web!Request(route, name, cli) \in InFlight /\ Web!Request(route, name, cli).pc = "handler"
<1>1. name \in Names
  BY DEF Names
<1>2. 10 + requests \in Nat
  BY DEF WebInv, WebTypes
<1> QED  BY <1>1, <1>2 DEF Web!Request, InFlight, Principals, PCs, Contents

LEMMA PrincipalTyped ==
  ASSUME NEW users \in UserSets, NEW n \in DOMAIN users
  PROVE  Web!Principal(users, n) \in Principals
<1>1. PICK D \in SUBSET Names : users \in [D -> Accts]
  BY DEF UserSets
<1>2. n \in Names /\ users[n] \in Accts
  BY <1>1
<1>3. Web!EffectivePermissions(users[n]) \in SUBSET Perms
  <2>1. users[n].only \in SUBSET Perms /\ users[n].role \in Roles
    BY <1>2 DEF Accts
  <2>2. \A r \in Roles : Web!RolePermissions[r] \in SUBSET Perms
    BY DEF Roles, Perms, Web!RolePermissions
  <2> QED  BY <2>1, <2>2 DEF Web!EffectivePermissions
<1>4. users[n].tenant \in Tenants
  BY <1>2 DEF Accts
<1> QED  BY <1>2, <1>3, <1>4 DEF Web!Principal, Principals

LEMMA ReceiveKept ==
  ASSUME WebInv, NEW s \in Slots, NEW route \in Routes, NEW name \in Targets,
         NEW token, Web!Receive(s, route, name, token)
  PROVE  WebInv'
<1> DEFINE q   == Web!Request(route, name, FALSE)
           who == Web!Authenticate(Web!Load[1], token)
<1> HIDE DEF q, who
<1>1. q \in InFlight /\ q.pc = "handler"
  <2>1. route \in AllRoutes
    BY RoutesAssumption DEF AllRoutes
  <2> QED  BY <2>1, RequestTyped DEF q
<1>2. UNCHANGED <<inodes, target, tmp, meant, overlapped>> /\ overlapped \in BOOLEAN
      /\ requests' = requests + 1 /\ touched' = {}
  BY DEF Web!Receive, Web!file, WebInv, WebTypes
<1>3. requests' \in Nat /\ Web!RequestsScoped'
  BY <1>2 DEF WebInv, WebTypes, Web!RequestsScoped
<1>4. CASE UNCHANGED slots
  <2>1. slots' \in [Slots -> {<<>>} \cup {<<p>> : p \in InFlight}]
    BY <1>4 DEF WebInv, WebTypes
  <2> QED  BY <1>2, <1>3, <1>4, <2>1, FileAlone
<1>5. CASE Web!Put(s, q)
  BY <1>1, <1>2, <1>3, <1>5, SlotFilled
<1>6. CASE Web!Load # <<>> /\ who # {}
      /\ Web!Put(s, [q EXCEPT !.user = Web!Principal(Web!Load[1], CHOOSE n \in who : TRUE)])
  <2>1. Web!Load[1] \in UserSets
    BY <1>6 DEF Web!Load, WebInv, WebTypes, Contents
  <2>2. (CHOOSE n \in who : TRUE) \in DOMAIN Web!Load[1]
    BY <1>6 DEF who, Web!Authenticate
  <2>3. Web!Principal(Web!Load[1], CHOOSE n \in who : TRUE) \in Principals
    BY <2>1, <2>2, PrincipalTyped
  <2>4. \A p \in Principals : [q EXCEPT !.user = p] \in InFlight /\ [q EXCEPT !.user = p].pc = "handler"
    BY <1>1 DEF InFlight
  <2> QED  BY <1>2, <1>3, <1>6, <2>3, <2>4, SlotFilled
<1>7. \/ UNCHANGED slots
      \/ Web!Put(s, q)
      \/ Web!Load # <<>> /\ who # {}
           /\ Web!Put(s, [q EXCEPT !.user = Web!Principal(Web!Load[1], CHOOSE n \in who : TRUE)])
  BY DEF Web!Receive, q, who
<1> QED  BY <1>4, <1>5, <1>6, <1>7

LEMMA RunCliKept ==
  ASSUME WebInv, NEW s \in Slots, NEW route \in CliRoutes, NEW name \in Targets, Web!RunCli(s, route, name)
  PROVE  WebInv'
<1>1. route \in AllRoutes
  BY RoutesAssumption DEF AllRoutes
<1>2. UNCHANGED <<inodes, target, tmp, meant, overlapped, touched>> /\ overlapped \in BOOLEAN
      /\ requests' = requests + 1
      /\ Web!Put(s, Web!Request(route, name, TRUE))
  BY DEF Web!RunCli, Web!file, WebInv, WebTypes
<1>3. requests' \in Nat /\ Web!RequestsScoped'
  BY <1>2 DEF WebInv, WebTypes, Web!RequestsScoped
<1> QED  BY <1>1, <1>2, <1>3, RequestTyped, SlotFilled

\* A handler's transaction.
LEMMA ServeKept ==
  ASSUME WebInv, NEW s \in Slots, Web!Serve(s)
  PROVE  WebInv'
<1> DEFINE q == slots[s][1]
<1> HIDE DEF q
<1>1. q \in InFlight /\ q.route \in DOMAIN Web!Route /\ Web!Allowed(q)
  BY SMTT(30) DEF WebInv, WebTypes, Web!Serve, q, InFlight, AllRoutes
<1>2. UNCHANGED <<inodes, target, tmp, meant, overlapped, requests>> /\ overlapped \in BOOLEAN /\ Web!Answer(s)
  BY DEF Web!Serve, Web!file, WebInv, WebTypes
<1>3. ASSUME ~q.user.all
      PROVE  /\ q.user.tenant = Web!TenantOf(q) /\ q.user.tenant # "none"
             /\ Web!Route[q.route].perm \in q.user.perms \cup {"none"}
             /\ \A r \in Web!Visible(q) : q.user.tenant = r.tenant \/ q.route = "ui_comment"
  <2>1. q.user \in Principals /\ q.user # Web!Nobody
    BY <1>1, <1>3 DEF InFlight, Web!Nobody
  <2>2. q.user.tenant \in Tenants
    BY <2>1 DEF Principals
  <2>3. q.user.tenant = Web!TenantOf(q) /\ q.user.tenant # "none"
    BY <2>2 DEF Web!TenantOf, Tenants
  <2>4. q.route \notin Web!UserRoutes
    BY <1>1, RouteFacts
  <2>5. Web!Route[q.route].perm \in q.user.perms \cup {"none"}
    BY <1>1, <1>3, <2>4 DEF Web!Allowed, Web!Permission
  <2>6. \A r \in Web!Visible(q) : q.user.tenant = r.tenant \/ q.route = "ui_comment"
    BY <1>1, <2>3, RouteFacts DEF Web!Visible
  <2> QED  BY <2>3, <2>5, <2>6
<1>4. Web!RequestsScoped'
  <2> DEFINE Sound(t) == ~t.user.all =>
                /\ Web!Route[t.route].perm \in t.user.perms \cup {"none"}
                /\ t.user.tenant = t.row.tenant \/ t.route = "ui_comment"
                /\ t.logged \in {"none", t.row.tenant}
             Touch(r, logged) == [route |-> q.route, user |-> q.user, row |-> r, logged |-> logged]
             new == [kind |-> Web!Route[q.route].kind, tenant |-> Web!TenantOf(q)]
  <2> SUFFICES \A t \in touched' : Sound(t)
    BY DEF Web!RequestsScoped
  <2>1. \A r \in Web!Visible(q) : Sound(Touch(r, "none"))
    BY <1>3
  <2>2. Sound(Touch(new, new.tenant))
    BY <1>3
  <2>3. \A r \in Web!Visible(q) :
           Sound(Touch(r, IF q.route = "ui_comment" THEN r.tenant ELSE Web!TenantOf(q)))
    BY <1>3
  <2>4. \/ touched' = {Touch(r, "none") : r \in Web!Visible(q)}
        \/ touched' = {Touch(r, new.tenant) : r \in {new}}
        \/ \E v \in Web!Visible(q) :
              touched' = {Touch(r, IF q.route = "ui_comment" THEN v.tenant ELSE Web!TenantOf(q)) : r \in {v}}
        \/ UNCHANGED touched
    BY Zenon DEF Web!Serve, q
  <2>5. \A t \in touched : Sound(t)
    BY DEF WebInv, Web!RequestsScoped
  <2> HIDE DEF Sound, Touch, new
  <2> QED  BY <2>1, <2>2, <2>3, <2>4, <2>5
<1>5. requests' \in Nat
  BY <1>2 DEF WebInv, WebTypes
<1> QED  BY <1>2, <1>4, <1>5, SlotFilled

LEMMA AnswerKept ==
  ASSUME WebInv, NEW s \in Slots, Web!Forbid(s) \/ Web!AuditUserChange(s)
  PROVE  WebInv'
<1>1. UNCHANGED <<inodes, target, tmp, meant, touched, overlapped, requests>> /\ Web!Answer(s)
  BY DEF Web!Forbid, Web!AuditUserChange, Web!file, Web!Quiet
<1>2. overlapped \in BOOLEAN /\ requests \in Nat /\ Web!RequestsScoped'
  BY <1>1 DEF WebInv, WebTypes, Web!RequestsScoped
<1> QED  BY <1>1, <1>2, SlotFilled

LEMMA CrashKept ==
  ASSUME WebInv, Web!Crash
  PROVE  WebInv'
<1>1. UNCHANGED <<inodes, target, tmp, meant, touched, overlapped, requests>>
      /\ slots' = [s \in Slots |-> <<>>]
  BY DEF Web!Crash, Web!file
<1>2. overlapped \in BOOLEAN /\ requests \in Nat /\ Web!RequestsScoped'
  BY <1>1 DEF WebInv, WebTypes, Web!RequestsScoped
<1>3. slots' \in [Slots -> {<<>>} \cup {<<q>> : q \in InFlight}]
  BY <1>1
<1>4. \A s \in Slots : ~Web!Changing(s)'
  BY <1>1 DEF Web!Changing
<1> QED  BY <1>1, <1>2, <1>3, <1>4, FileAlone

LEMMA LoadStoreKept ==
  ASSUME WebInv, NEW s \in Slots, Web!LoadStore(s)
  PROVE  WebInv'
<1> DEFINE q == slots[s][1]
<1> HIDE DEF q
<1>0. PICK next : next = [q EXCEPT !.store = Web!Load, !.pc = IF q.route = "add" THEN "body" ELSE "open"]
  OBVIOUS
<1>1. UNCHANGED <<inodes, target, tmp, meant, rows, touched, requests>>
      /\ overlapped' = (overlapped \/ \E t \in Slots \ {s} : Web!Changing(t))
  BY DEF Web!LoadStore, Web!file
<1>2. q \in InFlight /\ q.route \in Web!UserRoutes
  BY DEF WebInv, WebTypes, Web!LoadStore, q
<1>3. overlapped' \in BOOLEAN /\ (overlapped => overlapped') /\ requests' \in Nat /\ Web!RequestsScoped'
  BY <1>1 DEF WebInv, WebTypes, Web!RequestsScoped
<1>4. CASE Web!Load = <<>>
  <2>1. Web!Answer(s)
    BY <1>4 DEF Web!LoadStore
  <2> QED  BY <1>1, <1>3, <2>1, SlotFilled
<1>5. CASE Web!Load # <<>>
  <2>1. Web!Put(s, next)
    BY <1>0, <1>5 DEF Web!LoadStore, q
  <2>2. Web!Load \in Contents
    BY DEF WebInv, WebTypes, Web!Load
  <2>3. next \in InFlight /\ next.route \in Web!UserRoutes /\ next.store = Web!Load /\ next.pc \in {"body", "open"}
    BY <1>0, <1>2, <2>2 DEF InFlight, PCs
  <2>4. slots \in [Slots -> {<<>>} \cup {<<p>> : p \in InFlight}]
    BY DEF WebInv, WebTypes
  <2>5. slots'[s] = <<next>> /\ \A t \in Slots \ {s} : slots'[t] = slots[t]
    BY <2>1, <2>4 DEF Web!Put
  <2>6. WebTypes'
    <3>1. slots' \in [Slots -> {<<>>} \cup {<<p>> : p \in InFlight}]
      BY <2>1, <2>3, <2>4 DEF Web!Put
    <3> QED  BY <1>1, <1>3, <3>1 DEF WebInv, WebTypes
  <2>7. \A t \in Slots \ {s} : Web!Changing(t)' => Web!Changing(t)
    BY <2>5 DEF Web!Changing
  <2>8. ChangesLoaded'
    BY <1>5, <2>3, <2>5, <2>7 DEF WebInv, ChangesLoaded
  <2>9. Web!Load' = Web!Load
    BY <1>1 DEF Web!Load
  <2>10. Halfway(next)'
    BY <2>3, <2>9 DEF Halfway
  <2>11. ChangesAlone'
    <3>1. ~overlapped' => \A t \in Slots \ {s} : ~Web!Changing(t)'
      BY <1>1, <2>7
    <3> QED  BY <2>5, <2>10, <3>1 DEF ChangesAlone
  <2>12. Web!UserChangesKept'
    BY <1>1, <1>3, <2>9 DEF WebInv, Web!UserChangesKept
  <2> QED  BY <1>3, <2>6, <2>8, <2>11, <2>12 DEF WebInv
<1> QED  BY <1>4, <1>5

LEMMA RequestMoved ==
  ASSUME WebInv, NEW s \in Slots, NEW q \in InFlight, Web!Put(s, q)
  PROVE  /\ slots' \in [Slots -> {<<>>} \cup {<<p>> : p \in InFlight}]
         /\ slots'[s] = <<q>>
         /\ \A t \in Slots \ {s} : slots'[t] = slots[t] /\ (Web!Changing(t)' => Web!Changing(t))
         /\ Web!Changing(s)' <=> q.pc \in {"body", "open", "write", "replace"}
         /\ Web!Changing(s) /\ slots[s][1].route = q.route /\ q.store # <<>> => ChangesLoaded'
<1>1. slots \in [Slots -> {<<>>} \cup {<<p>> : p \in InFlight}]
  BY DEF WebInv, WebTypes
<1>2. slots' \in [Slots -> {<<>>} \cup {<<p>> : p \in InFlight}]
      /\ slots'[s] = <<q>> /\ \A t \in Slots \ {s} : slots'[t] = slots[t]
  BY <1>1 DEF Web!Put
<1>3. slots'[s] # <<>> /\ slots'[s][1] = q
  BY <1>2
<1>4. \A t \in Slots \ {s} : Web!Changing(t)' => Web!Changing(t)
  BY <1>2 DEF Web!Changing
<1>5. Web!Changing(s)' <=> q.pc \in {"body", "open", "write", "replace"}
  BY <1>3 DEF Web!Changing
<1>6. ASSUME Web!Changing(s), slots[s][1].route = q.route, q.store # <<>> PROVE ChangesLoaded'
  <2> SUFFICES ASSUME NEW t \in Slots, Web!Changing(t)'
               PROVE  slots'[t][1].route \in Web!UserRoutes /\ slots'[t][1].store # <<>>
    BY DEF ChangesLoaded
  <2>1. CASE t = s
    BY <1>3, <1>6, <2>1 DEF WebInv, ChangesLoaded
  <2>2. CASE t # s
    BY <1>2, <1>4, <2>2 DEF WebInv, ChangesLoaded
  <2> QED  BY <2>1, <2>2
<1> QED  BY <1>2, <1>4, <1>5, <1>6

LEMMA SameChange ==
  \A p, q, u : p.route = q.route /\ p.name = q.name /\ p.n = q.n
     => (Web!Known(q, u) => Web!Known(p, u)) /\ Web!Mutate(p, u) = Web!Mutate(q, u)
  BY DEF Web!Known, Web!Mutate

LEMMA OpenTmpKept ==
  ASSUME WebInv, NEW s \in Slots, Web!OpenTmp(s)
  PROVE  WebInv'
<1> PICK q : q = slots[s][1]
  OBVIOUS
<1>1. /\ UNCHANGED <<rows, touched, overlapped, requests>>
      /\ q \in InFlight /\ q.pc \in {"body", "open"} /\ Web!Changing(s) /\ slots[s] = <<q>>
  BY DEF WebInv, WebTypes, Web!OpenTmp, Web!Quiet, Web!Changing
<1>2. q.route \in Web!UserRoutes /\ q.store # <<>> /\ q.store \in Contents
  BY <1>1 DEF WebInv, ChangesLoaded, InFlight
<1>3. overlapped \in BOOLEAN /\ requests \in Nat /\ Web!RequestsScoped'
  BY <1>1 DEF WebInv, WebTypes, Web!RequestsScoped
<1>4. CASE ~Web!Known(q, q.store[1])
  <2>1. Web!Answer(s) /\ UNCHANGED <<inodes, target, tmp, meant>>
    BY <1>4 DEF Web!OpenTmp, Web!file
  <2> QED  BY <1>1, <1>3, <2>1, SlotFilled
<1>5. CASE Web!Known(q, q.store[1])
  <2>1. /\ UNCHANGED <<target, meant>>
        /\ \/ tmp = 0 /\ inodes' = Append(inodes, <<>>) /\ tmp' = Len(inodes) + 1
           \/ tmp # 0 /\ inodes' = [inodes EXCEPT ![tmp] = <<>>] /\ tmp' = tmp
    BY <1>5 DEF Web!OpenTmp
  <2>3. /\ inodes \in Seq(Contents) /\ target \in 1..Len(inodes) /\ tmp \in 0..Len(inodes) /\ tmp # target
        /\ meant \in UserSets /\ <<>> \in Contents
    BY DEF WebInv, WebTypes, Contents
  <2>4. /\ inodes' \in Seq(Contents) /\ target' \in 1..Len(inodes') /\ tmp' \in 1..Len(inodes')
        /\ tmp' # target' /\ inodes'[tmp'] = <<>> /\ Web!Load' = Web!Load
    BY <2>1, <2>3, SMTT(30) DEF Web!Load
  <2> PICK text : text = <<Web!Plain(Web!Mutate(q, q.store[1]))>>
    OBVIOUS
  <2> PICK k : k = tmp'
    OBVIOUS
  <2>0. PICK next : next = [q EXCEPT !.store = text, !.pc = "write", !.into = k]
    OBVIOUS
  <2>2. Web!Put(s, next)
    BY <1>5, <2>0 DEF Web!OpenTmp
  <2>5. text \in Contents
    <3>1. q.store[1] \in UserSets
      BY <1>2 DEF Contents
    <3> QED  BY <1>1, <1>2, <1>5, <3>1, MutateUsers, PlainUsers DEF Contents
  <2>6. next \in InFlight
    <3>1. k \in Nat /\ "write" \in PCs
      BY <2>4 DEF PCs
    <3>2. [q EXCEPT !.store = text, !.pc = "write", !.into = k] \in InFlight
      BY <1>1, <2>5, <3>1 DEF InFlight, PCs
    <3> QED  BY <2>0, <3>2
  <2>7. /\ next.pc = "write" /\ next.into = tmp' /\ next.route = q.route /\ next.name = q.name /\ next.n = q.n
        /\ next.store = text
    BY <1>1, <2>0 DEF InFlight
  <2>8. /\ slots' \in [Slots -> {<<>>} \cup {<<p>> : p \in InFlight}]
        /\ slots'[s] = <<next>>
        /\ \A t \in Slots \ {s} : slots'[t] = slots[t] /\ (Web!Changing(t)' => Web!Changing(t))
        /\ Web!Changing(s)' <=> next.pc \in {"body", "open", "write", "replace"}
        /\ Web!Changing(s) /\ slots[s][1].route = next.route /\ next.store # <<>> => ChangesLoaded'
    BY Zenon, <2>2, <2>6, RequestMoved
  <2>9. WebTypes'
    BY <1>1, <1>3, <2>1, <2>3, <2>4, <2>8 DEF WebTypes
  <2>10. ChangesLoaded'
    BY <1>1, <2>7, <2>8
  <2>11. ASSUME ~overlapped PROVE Halfway(next)'
    <3>1. q.store = Web!Load
      BY <1>1, <2>11 DEF WebInv, ChangesAlone, Halfway
    <3>2. Web!Known(next, Web!Load[1]) /\ Web!Mutate(next, Web!Load[1]) = Web!Mutate(q, Web!Load[1])
      <4>1. Web!Known(q, Web!Load[1])
        BY <1>5, <3>1
      <4> PICK u : u = Web!Load[1]
        OBVIOUS
      <4>2. (Web!Known(q, u) => Web!Known(next, u)) /\ Web!Mutate(next, u) = Web!Mutate(q, u)
        BY <2>7, SameChange, ZenonT(40)
      <4> QED  BY <4>1, <4>2
    <3> QED  BY <2>4, <2>7, <3>1, <3>2 DEF Halfway
  <2>12. ChangesAlone'
    BY <1>1, <2>8, <2>11 DEF WebInv, ChangesAlone
  <2>13. Web!UserChangesKept'
    BY <1>1, <2>1, <2>4 DEF WebInv, Web!UserChangesKept
  <2> QED  BY <1>3, <2>9, <2>10, <2>12, <2>13 DEF WebInv
<1> QED  BY <1>4, <1>5

LEMMA WriteTmpKept ==
  ASSUME WebInv, NEW s \in Slots, Web!WriteTmp(s)
  PROVE  WebInv'
<1> PICK q : q = slots[s][1]
  OBVIOUS
<1>0. PICK next : next = [q EXCEPT !.pc = "replace"]
  OBVIOUS
<1>1. /\ UNCHANGED <<target, tmp, meant, rows, touched, overlapped, requests>>
      /\ q \in InFlight /\ q.pc = "write" /\ Web!Changing(s) /\ slots[s] = <<q>> /\ Web!Put(s, next)
  BY <1>0 DEF WebInv, WebTypes, Web!WriteTmp, Web!Quiet, Web!Changing
<1>2. q.route \in Web!UserRoutes /\ q.store # <<>> /\ q.store \in Contents /\ q.into \in Nat
  BY <1>1 DEF WebInv, ChangesLoaded, InFlight
<1>3. overlapped \in BOOLEAN /\ requests \in Nat /\ Web!RequestsScoped'
  BY <1>1 DEF WebInv, WebTypes, Web!RequestsScoped
<1>4. PICK text \in {<<>>, q.store} :
         /\ inodes' = [inodes EXCEPT ![q.into] = text]
         /\ inodes[q.into] = <<>> => text = q.store
  BY DEF Web!WriteTmp
<1>5. /\ inodes \in Seq(Contents) /\ target \in 1..Len(inodes) /\ tmp \in 0..Len(inodes) /\ tmp # target
      /\ meant \in UserSets /\ <<>> \in Contents
  BY DEF WebInv, WebTypes, Contents
<1>6. inodes' \in Seq(Contents) /\ Len(inodes') = Len(inodes)
  <2>1. text \in Contents
    BY <1>2, <1>5
  <2>2. CASE q.into \in 1..Len(inodes)
    BY <1>4, <1>5, <2>1, <2>2, ExceptSeq
  <2>3. CASE q.into \notin 1..Len(inodes)
    <3>1. inodes' = inodes
      BY <1>4, <1>5, <2>3
    <3> QED  BY <1>5, <3>1
  <2> QED  BY <2>2, <2>3
<1>7. next \in InFlight /\ next.pc = "replace" /\ next.into = q.into /\ next.store = q.store
      /\ next.route = q.route /\ next.name = q.name /\ next.n = q.n
  BY <1>0, <1>1 DEF InFlight, PCs
<1>8. /\ slots' \in [Slots -> {<<>>} \cup {<<p>> : p \in InFlight}]
      /\ slots'[s] = <<next>>
      /\ \A t \in Slots \ {s} : slots'[t] = slots[t] /\ (Web!Changing(t)' => Web!Changing(t))
      /\ Web!Changing(s)' <=> next.pc \in {"body", "open", "write", "replace"}
      /\ Web!Changing(s) /\ slots[s][1].route = next.route /\ next.store # <<>> => ChangesLoaded'
  <2>1. Web!Put(s, next) /\ next \in InFlight
    BY <1>1, <1>7
  <2> QED  BY Zenon, <2>1, RequestMoved
<1>9. WebTypes'
  BY <1>1, <1>3, <1>5, <1>6, <1>8 DEF WebTypes
<1>10. ChangesLoaded'
  BY <1>1, <1>2, <1>7, <1>8
<1>11. ASSUME ~overlapped PROVE Halfway(next)' /\ Web!Load' = Web!Load
  <2>1. Halfway(q)
    BY <1>1, <1>11 DEF WebInv, ChangesAlone
  <2>2. q.into = tmp /\ tmp # 0 /\ inodes[tmp] = <<>> /\ Web!Known(q, Web!Load[1])
        /\ q.store = <<Web!Plain(Web!Mutate(q, Web!Load[1]))>>
    BY <1>1, <2>1 DEF Halfway
  <2>3. Web!Load' = Web!Load /\ inodes'[tmp] = q.store
    BY <1>1, <1>4, <1>5, <2>2 DEF Web!Load
  <2>4. Web!Known(next, Web!Load[1]) /\ Web!Mutate(next, Web!Load[1]) = Web!Mutate(q, Web!Load[1])
    <3> PICK u : u = Web!Load[1]
      OBVIOUS
    <3>1. (Web!Known(q, u) => Web!Known(next, u)) /\ Web!Mutate(next, u) = Web!Mutate(q, u)
      BY <1>7, SameChange, ZenonT(40)
    <3> QED  BY <2>2, <3>1
  <2> QED  BY <1>1, <1>7, <2>2, <2>3, <2>4 DEF Halfway
<1>12. ChangesAlone'
  BY <1>1, <1>8, <1>11 DEF WebInv, ChangesAlone
<1>13. Web!UserChangesKept'
  BY <1>1, <1>11 DEF WebInv, Web!UserChangesKept
<1> QED  BY <1>3, <1>9, <1>10, <1>12, <1>13 DEF WebInv

\* The change is made where the users that were loaded are still the file's.
LEMMA ReplaceKept ==
  ASSUME WebInv, NEW s \in Slots, Web!Replace(s)
  PROVE  WebInv'
<1> PICK q : q = slots[s][1]
  OBVIOUS
<1> PICK next : next = [q EXCEPT !.pc = "audit"]
  OBVIOUS
<1>1. /\ UNCHANGED <<inodes, rows, touched, overlapped, requests>>
      /\ q \in InFlight /\ q.pc = "replace" /\ Web!Changing(s) /\ slots[s] = <<q>>
  BY DEF WebInv, WebTypes, Web!Replace, Web!Changing
<1>2. q.route \in Web!UserRoutes /\ q.store # <<>>
  BY <1>1 DEF WebInv, ChangesLoaded
<1>3. overlapped \in BOOLEAN /\ requests \in Nat /\ Web!RequestsScoped'
  BY <1>1 DEF WebInv, WebTypes, Web!RequestsScoped
<1>4. CASE tmp = 0
  <2>1. Web!Answer(s) /\ UNCHANGED <<target, tmp, meant>>
    BY <1>4 DEF Web!Replace
  <2> QED  BY <1>1, <1>3, <2>1, SlotFilled
<1>5. CASE tmp # 0
  <2>1. /\ target' = tmp /\ tmp' = 0 /\ Web!Put(s, next)
        /\ meant' = IF Web!Known(q, meant) THEN Web!Plain(Web!Mutate(q, meant)) ELSE Web!Plain(meant)
    BY <1>5 DEF Web!Replace
  <2>2. /\ inodes \in Seq(Contents) /\ target \in 1..Len(inodes) /\ tmp \in 0..Len(inodes) /\ tmp # target
        /\ meant \in UserSets
    BY DEF WebInv, WebTypes
  <2>3. next \in InFlight /\ next.pc = "audit"
    BY <1>1 DEF InFlight, PCs
  <2>4. /\ slots' \in [Slots -> {<<>>} \cup {<<p>> : p \in InFlight}]
        /\ slots'[s] = <<next>>
        /\ \A t \in Slots \ {s} : slots'[t] = slots[t] /\ (Web!Changing(t)' => Web!Changing(t))
        /\ Web!Changing(s)' <=> next.pc \in {"body", "open", "write", "replace"}
        /\ Web!Changing(s) /\ slots[s][1].route = next.route /\ next.store # <<>> => ChangesLoaded'
    BY Zenon, <2>1, <2>3, RequestMoved
  <2>5. ~Web!Changing(s)'
    BY <2>3, <2>4
  <2>6. meant' \in UserSets
    BY <1>1, <1>2, <2>1, <2>2, MutateUsers, PlainUsers
  <2>7. WebTypes'
    BY <1>1, <1>3, <1>5, <2>1, <2>2, <2>4, <2>6 DEF WebTypes
  <2>8. ChangesLoaded'
    <3>1. next.route = q.route /\ next.store = q.store
      BY <1>1 DEF InFlight
    <3> QED  BY <1>1, <1>2, <2>4, <3>1
  <2>9. ChangesAlone'
    BY <1>1, <2>4, <2>5 DEF WebInv, ChangesAlone
  <2>10. ASSUME ~overlapped PROVE Web!Load' # <<>> /\ Web!Plain(Web!Load'[1]) = Web!Plain(meant')
    <3> PICK u : u = Web!Load[1]
      OBVIOUS
    <3>1. Web!Load # <<>> /\ Web!Plain(u) = Web!Plain(meant) /\ u \in UserSets
      BY <2>2, <2>10 DEF WebInv, Web!UserChangesKept, Web!Load, Contents
    <3>2. Web!Known(q, u) /\ q.store = <<Web!Plain(Web!Mutate(q, u))>> /\ inodes[tmp] = q.store
      BY <1>1, <2>10 DEF WebInv, ChangesAlone, Halfway
    <3>3. Web!Load' = <<Web!Plain(Web!Mutate(q, u))>>
      BY <1>1, <2>1, <3>2 DEF Web!Load
    <3>4. meant' = Web!Plain(Web!Mutate(q, u))
      BY <1>1, <1>2, <2>1, <2>2, <3>1, <3>2, MutatePlain
    <3> QED  BY <3>3, <3>4
  <2>11. Web!UserChangesKept'
    BY <1>1, <2>10 DEF Web!UserChangesKept
  <2> QED  BY <1>3, <2>7, <2>8, <2>9, <2>11 DEF WebInv
<1> QED  BY <1>4, <1>5

LEMMA WebUnchanged == WebInv /\ UNCHANGED webVars => WebInv'
<1> SUFFICES ASSUME WebInv, UNCHANGED webVars PROVE WebInv'
  OBVIOUS
<1>1. UNCHANGED <<inodes, target, tmp, meant, slots, touched, overlapped, requests>>
  BY DEF webVars
<1>2. WebTypes /\ Web!RequestsScoped'
  BY <1>1 DEF WebInv, Web!RequestsScoped
<1> QED  BY <1>1, <1>2, FileAlone DEF WebTypes

LEMMA WebStepKept == WebInv /\ Web!Next => WebInv'
  BY ReceiveKept, RunCliKept, AnswerKept, ServeKept, LoadStoreKept, OpenTmpKept, WriteTmpKept, ReplaceKept,
     CrashKept DEF Web!Next

\* Every change of the users that did not overlap another is kept, through
\* crashes, and a request touches only what its user may, in the user's tenant.
THEOREM WebStaysSound == Spec => []WebSound
<1>1. WebInv /\ [Next]_vars => WebInv'
  <2> SUFFICES ASSUME WebInv, [Next]_vars PROVE WebInv'
    OBVIOUS
  <2>1. Web!Next \/ UNCHANGED webVars
    BY DEF Next, WebStep, StoryStep, LearnStep, AdviceStep, CaseStep, EnrichStep, vars
  <2> QED  BY <2>1, WebStepKept, WebUnchanged
<1>2. WebInv => WebSound
  BY DEF WebInv, WebSound
<1> QED  BY WebInitially, <1>1, <1>2, PTL DEF Spec
-------------------------------------------------------------------------------
(* The response.                                                           *)

AllFound == UNION FourBatches
Evidence == (SUBSET AllFound) \ {{}}
Known    == DOMAIN Response!Action
Aims     == Response!Entities(AllFound) \cup {<<"channel", "soc">>, <<"incident", "this">>}
              \cup {<<"technique", t>> : t \in Response!Techniques(AllFound)}
Origins  == {"model", "deterministic", "runbook"}

Rows  == [action : Known, target : Aims, executable : BOOLEAN, approval : BOOLEAN, origin : Origins]
FiledRows == [incident : Nat, action : Known, target : Aims, executable : BOOLEAN, approval : BOOLEAN,
          origin : Origins, status : {"pending", "approved", "rejected"}, by : Evidence]
Cases == [open : BOOLEAN, fs : Evidence, judged : SUBSET AllFound, orphan : BOOLEAN, raced : BOOLEAN]
Work  == [joins : Nat, fs : Evidence, scope : Evidence, investigated : BOOLEAN, rows : SUBSET Rows]

ResponseTypes ==
  /\ level \in AutonomyLevels
  /\ cases \in Seq(Cases)
  /\ investigated \in [Pipelines -> {<<>>} \cup {<<h>> : h \in Work}]
  /\ proposals \subseteq FiledRows

\* What a proposal claims, made for the findings fs.
Grounded(r, fs) ==
  /\ Response!ValidTarget(r.action, r.target)
  /\ r.action \in Response!Dangerous =>
        /\ r.approval <=> ~r.executable
        /\ r.executable => /\ level = 4 /\ r.origin = "deterministic"
                           /\ Response!EstimateConfidence(fs) >= 98

\* The rows of an investigation of fs: one for an action on a target, and what
\* contains aims at an entity of fs.
RowsSound(rs, fs) ==
  /\ \A r \in rs : Grounded(r, fs) /\ (Response!Concrete(r) => r.target \in Response!Entities(fs))
  /\ \A q, r \in rs : q.action = r.action /\ q.target = r.target => q = r

\* A merge that is alone saw all its incident has.
Alone(p, h) == h.joins # 0 /\ ~cases[h.joins].raced =>
  /\ h.scope = h.fs \cup cases[h.joins].fs
  /\ h.investigated <=> Response!Material(cases[h.joins].fs, h.scope)
  /\ \A q \in Pipelines : investigated[q] # <<>> /\ investigated[q][1].joins = h.joins => q = p

WorkSound == \A p \in Pipelines : investigated[p] # <<>> =>
  LET h == investigated[p][1]
  IN  /\ RowsSound(h.rows, h.scope) /\ h.joins \in 0..Len(cases)
      /\ h.joins = 0 => h.scope = h.fs /\ h.investigated
      /\ h.joins # 0 => h.scope \subseteq h.fs \cup cases[h.joins].fs
      /\ Alone(p, h)

FiledKnown == \A q \in proposals : q.incident \in DOMAIN cases

ResponseInv ==
  /\ ResponseTypes /\ WorkSound /\ FiledKnown
  /\ Response!ActsOnlyOnEvidence /\ Response!NotRaisedAgain
  /\ Response!MaterialChangesInvestigated /\ Response!TargetsOfOwnIncident

LEMMA ActionFacts ==
  /\ Known = {"search_related_events", "notify_channel", "disable_user", "isolate_host", "block_indicator",
              "close_incident"}
  /\ Response!Dangerous = {"disable_user", "isolate_host", "block_indicator", "close_incident"}
  /\ \A a \in Response!Dangerous : "technique" \notin Response!Action[a].kinds
  /\ \A a \in Response!Dangerous : "incident" \in Response!Action[a].kinds => a = "close_incident"
  BY DEF Known, Response!Action, Response!Dangerous

LEMMA FoundFacts ==
  /\ AllFound = {Brute, Login, Vpn, Minor}
  /\ FourBatches \subseteq Evidence
  /\ \A f \in AllFound : f.sev \in 1..3
<1>1. AllFound = {Brute, Login, Vpn, Minor}
  BY DEF AllFound, FourBatches
<1>2. FourBatches \subseteq Evidence
  BY <1>1 DEF FourBatches, Evidence
<1>3. \A f \in AllFound : f.sev \in 1..3
  BY <1>1 DEF Brute, Login, Vpn, Minor, Raised
<1> QED  BY <1>1, <1>2, <1>3

LEMMA SeverityNumber == ASSUME NEW fs \in Evidence PROVE Response!Severity(fs) \in 1..3
<1> DEFINE S == {f.sev : f \in fs}
<1>1. S \subseteq 1..3 /\ S # {}
  BY FoundFacts DEF Evidence
<1>2. \E x \in S : \A y \in S : x >= y
  <2>1. CASE 3 \in S  BY <1>1, <2>1
  <2>2. CASE 3 \notin S /\ 2 \in S  BY <1>1, <2>2
  <2>3. CASE 3 \notin S /\ 2 \notin S  BY <1>1, <2>3
  <2> QED  BY <2>1, <2>2, <2>3
<1>3. Response!Severity(fs) = CHOOSE x \in S : \A y \in S : x >= y
  BY DEF Response!Severity, Response!Max
<1> HIDE DEF S
<1> QED  BY <1>1, <1>2, <1>3

\* Nothing is a material change of itself, and two changes that are not material
\* make none that is.
LEMMA MaterialFacts ==
  /\ \A a \in Evidence : ~Response!Material(a, a)
  /\ \A a, b, c \in Evidence :
        ~Response!Material(a, b) /\ ~Response!Material(b, c) => ~Response!Material(a, c)
<1>1. \A a, b \in Evidence : Response!Material(a, b) <=>
        \/ Response!Severity(b) > Response!Severity(a)
        \/ Response!Entities(b) # Response!Entities(a) \/ Response!Techniques(b) # Response!Techniques(a)
        \/ \E line \in Response!Thresholds : ~Response!Reaches(a, line) /\ Response!Reaches(b, line)
  BY DEF Response!Material
<1>2. \A a \in Evidence : Response!Severity(a) \in Int
  BY SeverityNumber
<1> QED  BY <1>1, <1>2

LEMMA VerdictFacts ==
  ASSUME level \in AutonomyLevels, NEW a \in Known, NEW confidence, NEW source
  PROVE  LET v == Response!DecisionForAction(a, confidence, source)
         IN  /\ v[1] \in BOOLEAN /\ v[2] \in BOOLEAN
             /\ a \in Response!Dangerous => v[2] <=> ~v[1]
             /\ a \in Response!Dangerous /\ v[1] => level = 4 /\ confidence >= 98 /\ source # "model"
<1>1. level \in 0..4
  BY AutonomyAssumption
<1> DEFINE v == Response!DecisionForAction(a, confidence, source)
<1>2. a \in DOMAIN Response!Action
  BY DEF Known
<1>3. CASE a \in Response!Dangerous
  <2>1. CASE Response!Action[a].risk = "high"
    <3> DEFINE alone == level >= 4 /\ confidence >= 98 /\ source # "model"
    <3>1. v = <<alone, ~alone>>
      BY <1>2, <2>1 DEF Response!DecisionForAction
    <3>2. alone \in BOOLEAN /\ (alone => level = 4 /\ confidence >= 98 /\ source # "model")
      BY <1>1
    <3> HIDE DEF alone, v
    <3>3. v[1] = alone /\ v[2] = ~alone
      BY <3>1
    <3> QED  BY <3>2, <3>3 DEF v
  <2>2. CASE Response!Action[a].risk = "critical"
    <3>1. v = <<FALSE, TRUE>>
      BY <1>2, <2>2 DEF Response!DecisionForAction
    <3> QED  BY <3>1
  <2> QED  BY <1>3, <2>1, <2>2 DEF Response!Dangerous
<1>4. CASE a \notin Response!Dangerous
  <2>1. Response!Action[a].risk \in {"read", "reversible"}
    BY <1>4 DEF Known, Response!Action, Response!Dangerous
  <2> DEFINE may == level >= 2
  <2>2. v = <<TRUE, FALSE>> \/ v = <<may, FALSE>>
    BY <1>2, <2>1 DEF Response!DecisionForAction
  <2>3. may \in BOOLEAN
    BY <1>1
  <2> HIDE DEF may, v
  <2>4. CASE v = <<TRUE, FALSE>>
    <3>1. v[1] = TRUE /\ v[2] = FALSE  BY <2>4
    <3> QED  BY <1>4, <3>1 DEF v
  <2>5. CASE v = <<may, FALSE>>
    <3>1. v[1] = may /\ v[2] = FALSE  BY <2>5
    <3> QED  BY <1>4, <2>3, <3>1 DEF v
  <2> QED  BY <2>2, <2>4, <2>5
<1> QED  BY <1>3, <1>4

LEMMA ProposedSound ==
  ASSUME level \in AutonomyLevels, NEW fs \in Evidence, NEW reply \in TwoReplies
  PROVE  LET rs == Response!ProposeActions(fs, Response!MakeDecision(fs, reply))
         IN  rs \subseteq Rows /\ RowsSound(rs, fs)
<1> DEFINE d == Response!MakeDecision(fs, reply)
           v(a) == Response!DecisionForAction(a, d.confidence, d.source)
           row(w) == [action |-> w[1], target |-> w[2], executable |-> v(w[1])[1],
                      approval |-> v(w[1])[2], origin |-> d.source]
           rs == Response!ProposeActions(fs, d)
<1>1. /\ d.source \in {"model", "deterministic"}
      /\ d.source # "model" => d.source = "deterministic" /\ d.confidence = Response!EstimateConfidence(fs)
  BY DEF Response!MakeDecision
<1> HIDE DEF d
<1>2. \A r \in rs : \E w : /\ Response!ValidTarget(w[1], w[2]) /\ r = row(w)
                           /\ w[2] \in Response!Entities(fs) \/ w = <<"notify_channel", <<"channel", "soc">>>>
  BY DEF Response!ProposeActions
<1>3. ASSUME NEW r \in rs PROVE r \in Rows /\ r = row(<<r.action, r.target>>) /\ Grounded(r, fs)
                                /\ (Response!Concrete(r) => r.target \in Response!Entities(fs))
  <2>1. PICK w : /\ Response!ValidTarget(w[1], w[2]) /\ r = row(w)
                 /\ w[2] \in Response!Entities(fs) \/ w = <<"notify_channel", <<"channel", "soc">>>>
    BY <1>2
  <2>2. w[1] \in Known
    BY <2>1 DEF Response!ValidTarget, Known
  <2>3. v(w[1])[1] \in BOOLEAN /\ v(w[1])[2] \in BOOLEAN
        /\ (w[1] \in Response!Dangerous => v(w[1])[2] <=> ~v(w[1])[1])
        /\ (w[1] \in Response!Dangerous /\ v(w[1])[1] => level = 4 /\ d.confidence >= 98 /\ d.source # "model")
    BY <2>2, VerdictFacts
  <2> HIDE DEF v
  <2>4. w[2] \in Aims
    BY <2>1 DEF Aims, Evidence, Response!Entities
  <2>5. r.action = w[1] /\ r.target = w[2]
        /\ r.executable = v(w[1])[1] /\ r.approval = v(w[1])[2] /\ r.origin = d.source
    BY <2>1
  <2>6. r \in Rows
    BY <1>1, <2>1, <2>2, <2>3, <2>4 DEF Rows, Origins
  <2>7. Grounded(r, fs)
    BY <1>1, <2>1, <2>3, <2>5 DEF Grounded
  <2>8. r.action \in Response!Dangerous => r.target \in Response!Entities(fs)
    BY <2>1, <2>5, ActionFacts
  <2>9. r = row(<<r.action, r.target>>)
    BY <2>1, <2>5
  <2> QED  BY <2>6, <2>7, <2>8, <2>9 DEF Response!Concrete
<1> HIDE DEF rs, row
<1>4. rs \subseteq Rows
  BY <1>3
<1>5. \A q, r \in rs : q.action = r.action /\ q.target = r.target => q = r
  BY <1>3
<1>6. RowsSound(rs, fs)
  BY <1>3, <1>5 DEF RowsSound
<1> QED  BY <1>4, <1>6 DEF rs, d

LEMMA PlannedSound ==
  ASSUME level \in AutonomyLevels, NEW fs \in Evidence
  PROVE  \A r \in Response!Plan(fs) : Response!ValidTarget(r.action, r.target) =>
           /\ r \in Rows /\ Grounded(r, fs)
           /\ Response!Concrete(r) => r.target \in Response!Entities(fs)
           /\ \A q \in Response!Plan(fs) : q.action = r.action /\ q.target = r.target => q = r
<1> DEFINE v(a) == Response!DecisionForAction(a, Response!PlanConfidence(fs), "deterministic")
           row(a, t) == [action |-> a, target |-> t, executable |-> v(a)[1] /\ ~(a \in Response!Dangerous),
                         approval |-> v(a)[2] \/ (a \in Response!Dangerous), origin |-> "runbook"]
<1>1. \A r \in Response!Plan(fs) : \E a, t : \E k \in Response!Techniques(fs) :
         r = row(a, t) /\ t \in Response!TargetsFor(a, fs, k)
  BY DEF Response!Plan
<1>2. ASSUME NEW r \in Response!Plan(fs)
      PROVE  r = row(r.action, r.target)
  <2>1. PICK a, t : r = row(a, t)
    BY <1>1
  <2>2. r.action = a /\ r.target = t
    BY <2>1
  <2> QED  BY <2>1, <2>2
<1>3. ASSUME NEW r \in Response!Plan(fs), Response!ValidTarget(r.action, r.target)
      PROVE  /\ r \in Rows /\ Grounded(r, fs)
             /\ Response!Concrete(r) => r.target \in Response!Entities(fs)
  <2>1. PICK a, t : \E k \in Response!Techniques(fs) : r = row(a, t) /\ t \in Response!TargetsFor(a, fs, k)
    BY <1>1
  <2>2. PICK k \in Response!Techniques(fs) : r = row(a, t) /\ t \in Response!TargetsFor(a, fs, k)
    BY <2>1
  <2>3. r.action = a /\ r.target = t
    BY <2>2
  <2>4. a \in Known
    BY <1>3, <2>3 DEF Response!ValidTarget, Known
  <2>5. v(a)[1] \in BOOLEAN /\ v(a)[2] \in BOOLEAN
    BY <2>4, VerdictFacts
  <2> HIDE DEF v
  <2>6. t \in Response!Entities(fs) \cup {<<"technique", k>>, <<"incident", "this">>}
    BY <2>2 DEF Response!TargetsFor
  <2>7. t \in Aims
    BY <2>6 DEF Aims, Evidence, Response!Entities, Response!Techniques
  <2>8. ASSUME a \in Response!Dangerous PROVE t \in Response!Entities(fs) \/ t = <<"incident", "this">>
    BY <2>2, <2>4, <2>8, ActionFacts DEF Response!TargetsFor, Known
  <2>9. r \in Rows
    BY <2>2, <2>4, <2>5, <2>7 DEF Rows, Origins
  <2>10. Grounded(r, fs)
    BY <1>3, <2>2, <2>3 DEF Grounded
  <2> QED  BY <2>3, <2>8, <2>9, <2>10 DEF Response!Concrete
<1> HIDE DEF row
<1>4. \A q, r \in Response!Plan(fs) : q.action = r.action /\ q.target = r.target => q = r
  BY <1>2
<1> QED  BY <1>3, <1>4

LEMMA InvestigateSound ==
  ASSUME level \in AutonomyLevels, NEW fs \in Evidence, NEW reply \in TwoReplies
  PROVE  LET rs == Response!Investigate(fs, reply) IN rs \subseteq Rows /\ RowsSound(rs, fs)
<1> DEFINE own   == Response!ProposeActions(fs, Response!MakeDecision(fs, reply))
           added == {p \in Response!Plan(fs) :
                       /\ Response!ValidTarget(p.action, p.target)
                       /\ \A q \in own : <<q.action, q.target>> # <<p.action, p.target>>}
<1>1. own \subseteq Rows /\ RowsSound(own, fs)
  BY ProposedSound
<1> HIDE DEF own
<1>2. \A r \in added : /\ r \in Rows /\ Grounded(r, fs)
                       /\ Response!Concrete(r) => r.target \in Response!Entities(fs)
                       /\ \A q \in added : q.action = r.action /\ q.target = r.target => q = r
  BY PlannedSound
<1>3. \A r \in added, q \in own : ~(q.action = r.action /\ q.target = r.target)
  OBVIOUS
<1> HIDE DEF added
<1>4. own \cup added \subseteq Rows /\ RowsSound(own \cup added, fs)
  BY <1>1, <1>2, <1>3 DEF RowsSound
<1>5. Response!Investigate(fs, reply) = own \cup added
  BY DEF Response!Investigate, Response!ApplySoarPlan, own, added
<1> QED  BY <1>4, <1>5

LEMMA ResponseInitially == Init => ResponseInv
<1> SUFFICES ASSUME Init PROVE ResponseInv
  OBVIOUS
<1>1. level \in AutonomyLevels /\ investigated = [p \in Pipelines |-> <<>>] /\ cases = <<>> /\ proposals = {}
  BY DEF Init, ResponseInit, Response!Init
<1>2. cases \in Seq(Cases)
  BY <1>1
<1>3. ResponseTypes
  BY <1>1, <1>2 DEF ResponseTypes
<1>4. WorkSound /\ FiledKnown
  BY <1>1 DEF WorkSound, FiledKnown
<1>5. DOMAIN cases = {}
  BY <1>1
<1>6. Response!MaterialChangesInvestigated
  BY <1>5 DEF Response!MaterialChangesInvestigated
<1>7. Response!ActsOnlyOnEvidence /\ Response!NotRaisedAgain /\ Response!TargetsOfOwnIncident
  BY <1>1 DEF Response!ActsOnlyOnEvidence, Response!NotRaisedAgain, Response!TargetsOfOwnIncident
<1> QED  BY <1>3, <1>4, <1>6, <1>7 DEF ResponseInv

\* The claims about proposals, one by one.
LEMMA ClaimsGrounded ==
  /\ Response!ActsOnlyOnEvidence <=> \A q \in proposals : Grounded(q, q.by)
  /\ Response!TargetsOfOwnIncident <=>
       \A q \in proposals : \/ cases[q.incident].orphan
                            \/ Response!Concrete(q) => q.target \in Response!Entities(cases[q.incident].fs)
  BY DEF Response!ActsOnlyOnEvidence, Grounded, Response!TargetsOfOwnIncident, Response!OwnTargets

\* A step that changes no case but for whether it is open, or raced.
LEMMA CasesAlone ==
  ASSUME ResponseInv, UNCHANGED <<level, proposals>>,
         cases' \in Seq(Cases), Len(cases') = Len(cases),
         \A j \in DOMAIN cases : /\ cases'[j].fs = cases[j].fs /\ cases'[j].judged = cases[j].judged
                                 /\ cases'[j].orphan = cases[j].orphan
                                 /\ cases[j].raced => cases'[j].raced,
         investigated' \in [Pipelines -> {<<>>} \cup {<<h>> : h \in Work}], WorkSound'
  PROVE  ResponseInv'
<1>1. ResponseTypes'
  BY DEF ResponseInv, ResponseTypes
<1>2. cases \in Seq(Cases) /\ DOMAIN cases' = DOMAIN cases /\ FiledKnown'
  BY DEF ResponseInv, ResponseTypes, FiledKnown
<1>3. Response!ActsOnlyOnEvidence' /\ Response!NotRaisedAgain'
  BY DEF ResponseInv, Response!ActsOnlyOnEvidence, Response!NotRaisedAgain
<1>4. Response!MaterialChangesInvestigated'
  BY <1>2 DEF ResponseInv, Response!MaterialChangesInvestigated, Response!Investigated
<1>5. Response!TargetsOfOwnIncident'
  BY <1>2 DEF ResponseInv, FiledKnown, Response!TargetsOfOwnIncident, Response!OwnTargets
<1> QED  BY <1>1, <1>2, <1>3, <1>4, <1>5 DEF ResponseInv

LEMMA CloseKept ==
  ASSUME ResponseInv, NEW i \in DOMAIN cases, Response!CloseIncident(i)
  PROVE  ResponseInv'
<1>1. UNCHANGED <<level, proposals, investigated>> /\ cases' = [cases EXCEPT ![i].open = FALSE]
  BY DEF Response!CloseIncident
<1>2. cases \in Seq(Cases) /\ investigated \in [Pipelines -> {<<>>} \cup {<<h>> : h \in Work}]
  BY DEF ResponseInv, ResponseTypes
<1>3. \A j \in DOMAIN cases : cases[j] \in Cases /\ [cases[j] EXCEPT !.open = FALSE] \in Cases
  <2>1. \A j \in DOMAIN cases : cases[j] \in Cases
    BY <1>2
  <2>2. \A c \in Cases : [c EXCEPT !.open = FALSE] \in Cases
    BY DEF Cases
  <2> QED  BY <2>1, <2>2
<1>4. cases' \in Seq(Cases) /\ Len(cases') = Len(cases) /\ DOMAIN cases' = DOMAIN cases
  BY <1>1, <1>2, <1>3
<1>5. \A j \in DOMAIN cases : /\ cases'[j].fs = cases[j].fs /\ cases'[j].judged = cases[j].judged
                              /\ cases'[j].orphan = cases[j].orphan /\ cases'[j].raced = cases[j].raced
  BY <1>1, <1>2, <1>3 DEF Cases
<1>6. WorkSound'
  <2> SUFFICES ASSUME NEW p \in Pipelines, investigated[p] # <<>>, NEW h, h = investigated[p][1]
               PROVE  (/\ RowsSound(h.rows, h.scope) /\ h.joins \in 0..Len(cases)
                       /\ h.joins = 0 => h.scope = h.fs /\ h.investigated
                       /\ h.joins # 0 => h.scope \subseteq h.fs \cup cases[h.joins].fs
                       /\ Alone(p, h))'
    BY <1>1 DEF WorkSound
  <2>1. /\ RowsSound(h.rows, h.scope) /\ h.joins \in 0..Len(cases)
        /\ h.joins = 0 => h.scope = h.fs /\ h.investigated
        /\ h.joins # 0 => h.scope \subseteq h.fs \cup cases[h.joins].fs
        /\ Alone(p, h)
    BY DEF ResponseInv, WorkSound
  <2>2. h.joins # 0 => h.joins \in DOMAIN cases
    BY <1>2, <2>1
  <2>3. RowsSound(h.rows, h.scope)'
    BY <1>1, <2>1 DEF RowsSound, Grounded
  <2>4. Alone(p, h)'
    BY <1>1, <1>5, <2>1, <2>2 DEF Alone
  <2> QED  BY <1>4, <1>5, <2>1, <2>2, <2>3, <2>4
<1> QED  BY <1>1, <1>2, <1>4, <1>5, <1>6, CasesAlone

LEMMA DecideKept ==
  ASSUME ResponseInv, NEW d \in proposals, NEW verdict \in {"approved", "rejected"}, Response!Decide(d, verdict)
  PROVE  ResponseInv'
<1> PICK e : e = [d EXCEPT !.status = verdict]
  OBVIOUS
<1>1. UNCHANGED <<level, cases, investigated>> /\ proposals' = (proposals \ {d}) \cup {e}
      /\ (Terminal => d.status = "pending")
  BY DEF Response!Decide
<1>2. d \in FiledRows
  BY DEF ResponseInv, ResponseTypes
<1>3. e \in FiledRows /\ e.incident = d.incident /\ e.action = d.action /\ e.target = d.target /\ e.by = d.by
      /\ e.executable = d.executable /\ e.approval = d.approval /\ e.origin = d.origin
  BY <1>2 DEF FiledRows
<1>4. ResponseTypes'
  BY <1>1, <1>3 DEF ResponseInv, ResponseTypes
<1>5. WorkSound' /\ FiledKnown' /\ Response!MaterialChangesInvestigated'
  <2>1. \A p, h : Alone(p, h) => Alone(p, h)'
    BY <1>1 DEF Alone
  <2>2. \A rs, fs : RowsSound(rs, fs) => RowsSound(rs, fs)'
    BY <1>1 DEF RowsSound, Grounded
  <2>3. WorkSound'
    BY <1>1, <2>1, <2>2 DEF ResponseInv, WorkSound
  <2>4. FiledKnown'
    BY <1>1, <1>3 DEF ResponseInv, FiledKnown
  <2> QED  BY <1>1, <2>3, <2>4 DEF ResponseInv, Response!MaterialChangesInvestigated, Response!Investigated
<1>6. Response!ActsOnlyOnEvidence'
  <2>1. \A q \in proposals : Grounded(q, q.by)'
    BY <1>1, ClaimsGrounded DEF ResponseInv, Grounded
  <2>2. Grounded(e, e.by)'
    BY <1>1, <1>3, <2>1 DEF Grounded
  <2> QED  BY <1>1, <2>1, <2>2 DEF Response!ActsOnlyOnEvidence, Grounded
<1>7. Response!NotRaisedAgain'
  <2> SUFFICES ASSUME Terminal, NEW q \in proposals', NEW r \in proposals',
                      q # r, q.incident = r.incident, q.action = r.action, q.target = r.target
               PROVE  "rejected" \in {q.status, r.status}
    BY DEF Response!NotRaisedAgain
  <2>1. \A x, y \in proposals : x # y /\ x.incident = y.incident /\ x.action = y.action /\ x.target = y.target
           => x.status = "rejected" \/ y.status = "rejected"
    BY DEF ResponseInv, Response!NotRaisedAgain
  <2>2. CASE q = e
    BY <1>1, <1>3, <2>1, <2>2
  <2>3. CASE r = e
    BY <1>1, <1>3, <2>1, <2>3
  <2>4. CASE q # e /\ r # e
    BY <1>1, <2>1, <2>4
  <2> QED  BY <2>2, <2>3, <2>4
<1>8. Response!TargetsOfOwnIncident'
  BY <1>1, <1>3 DEF ResponseInv, Response!TargetsOfOwnIncident, Response!OwnTargets, Response!Concrete
<1> QED  BY <1>4, <1>5, <1>6, <1>7, <1>8 DEF ResponseInv

LEMMA ProcessKept ==
  ASSUME ResponseInv, NEW p \in Pipelines, NEW fs \in FourBatches, NEW reply \in TwoReplies,
         Response!Process(p, fs, reply)
  PROVE  ResponseInv'
<1>1. PICK i \in Response!Joined(fs) \cup {0} :
        LET scope == IF i = 0 THEN fs ELSE fs \cup cases[i].fs
            again == i # 0 => Response!Material(cases[i].fs, scope)
        IN  /\ investigated[p] = <<>>
            /\ investigated' = [investigated EXCEPT ![p] =
                 <<[joins |-> i, fs |-> fs, scope |-> scope, investigated |-> again,
                    rows |-> IF again THEN Response!Investigate(scope, reply) ELSE {}]>>]
            /\ cases' = [j \in DOMAIN cases |->
                 IF j = i /\ \E q \in Pipelines : investigated[q] # <<>> /\ investigated[q][1].joins = i
                 THEN [cases[j] EXCEPT !.raced = TRUE] ELSE cases[j]]
            /\ UNCHANGED <<level, proposals>>
  BY DEF Response!Process
<1> PICK scope : scope = IF i = 0 THEN fs ELSE fs \cup cases[i].fs
  OBVIOUS
<1> PICK again \in BOOLEAN : again <=> (i # 0 => Response!Material(cases[i].fs, scope))
  OBVIOUS
<1> PICK rs : rs = IF again THEN Response!Investigate(scope, reply) ELSE {}
  OBVIOUS
<1> PICK h : h = [joins |-> i, fs |-> fs, scope |-> scope, investigated |-> again, rows |-> rs]
  OBVIOUS
<1>2. /\ cases \in Seq(Cases) /\ investigated \in [Pipelines -> {<<>>} \cup {<<k>> : k \in Work}]
      /\ level \in AutonomyLevels
  BY DEF ResponseInv, ResponseTypes
<1>3. i # 0 => i \in DOMAIN cases
  BY <1>1 DEF Response!Joined, Response!Candidates
<1>4. fs \in Evidence /\ scope \in Evidence
  <2>1. fs \in Evidence
    BY FoundFacts
  <2>2. i # 0 => cases[i].fs \in Evidence
    <3>1. i # 0 => cases[i] \in Cases
      BY <1>2, <1>3
    <3> QED  BY <3>1 DEF Cases
  <2> QED  BY <2>1, <2>2 DEF Evidence
<1>5. rs \subseteq Rows /\ RowsSound(rs, scope)
  <2>1. CASE again
    BY <1>2, <1>4, <2>1, InvestigateSound
  <2>2. CASE ~again
    BY <2>2 DEF RowsSound
  <2> QED  BY <2>1, <2>2
<1>6. h \in Work
  <2>1. i \in Nat
    BY <1>2, <1>3
  <2> QED  BY <1>4, <1>5, <2>1 DEF Work
<1>7. h.joins = i /\ h.fs = fs /\ h.scope = scope /\ h.investigated = again /\ h.rows = rs
  OBVIOUS
<1>8. investigated' = [investigated EXCEPT ![p] = <<h>>] /\ UNCHANGED <<level, proposals>> /\ investigated[p] = <<>>
  BY <1>1
<1>9. /\ investigated' \in [Pipelines -> {<<>>} \cup {<<k>> : k \in Work}]
      /\ investigated'[p] = <<h>> /\ investigated'[p][1] = h
      /\ \A q \in Pipelines \ {p} : investigated'[q] = investigated[q]
  BY <1>2, <1>6, <1>8
<1>10. \A j \in DOMAIN cases : cases[j] \in Cases /\ [cases[j] EXCEPT !.raced = TRUE] \in Cases
  <2>1. \A j \in DOMAIN cases : cases[j] \in Cases
    BY <1>2
  <2>2. \A c \in Cases : [c EXCEPT !.raced = TRUE] \in Cases
    BY DEF Cases
  <2> QED  BY <2>1, <2>2
<1>11. /\ cases' \in Seq(Cases) /\ Len(cases') = Len(cases) /\ DOMAIN cases' = DOMAIN cases
       /\ \A j \in DOMAIN cases : cases'[j] \in {cases[j], [cases[j] EXCEPT !.raced = TRUE]}
  <2>1. DOMAIN cases = 1..Len(cases) /\ Len(cases) \in Nat
    BY <1>2
  <2>2. /\ DOMAIN cases' = DOMAIN cases
        /\ \A j \in DOMAIN cases : cases'[j] \in {cases[j], [cases[j] EXCEPT !.raced = TRUE]}
    BY <1>1
  <2>3. cases' = [j \in 1..Len(cases) |-> cases'[j]] /\ \A j \in 1..Len(cases) : cases'[j] \in Cases
    BY <1>1, <1>10, <2>1, <2>2
  <2> QED  BY <2>1, <2>2, <2>3
<1>12. \A j \in DOMAIN cases : /\ cases'[j].fs = cases[j].fs /\ cases'[j].judged = cases[j].judged
                               /\ cases'[j].orphan = cases[j].orphan
                               /\ cases[j].raced => cases'[j].raced
  BY <1>10, <1>11 DEF Cases
<1>13. ASSUME i # 0, NEW q \in Pipelines, investigated[q] # <<>>, investigated[q][1].joins = i
       PROVE  cases'[i].raced
  <2>1. cases'[i] = [cases[i] EXCEPT !.raced = TRUE]
    BY <1>1, <1>3, <1>13
  <2> QED  BY <1>3, <1>10, <1>13, <2>1 DEF Cases
<1>14. ASSUME NEW q \in Pipelines, investigated'[q] # <<>>, NEW k, k = investigated'[q][1]
       PROVE  (/\ RowsSound(k.rows, k.scope) /\ k.joins \in 0..Len(cases)
               /\ k.joins = 0 => k.scope = k.fs /\ k.investigated
               /\ k.joins # 0 => k.scope \subseteq k.fs \cup cases[k.joins].fs
               /\ Alone(q, k))'
  <2>1. CASE q = p
    <3>1. k = h
      BY <1>9, <1>14, <2>1
    <3>2. RowsSound(k.rows, k.scope)'
      BY <1>5, <1>7, <1>8, <3>1 DEF RowsSound, Grounded
    <3>3. k.joins \in 0..Len(cases')
      BY <1>2, <1>3, <1>7, <1>11, <3>1
    <3>4. k.joins = 0 => k.scope = k.fs /\ k.investigated
      BY <1>7, <3>1
    <3>5. k.joins # 0 => k.scope = k.fs \cup cases'[k.joins].fs
                         /\ (k.investigated <=> Response!Material(cases'[k.joins].fs, k.scope))
      BY <1>3, <1>7, <1>12, <3>1
    <3>6. k.joins # 0 /\ ~cases'[k.joins].raced =>
             \A r \in Pipelines : investigated'[r] # <<>> /\ investigated'[r][1].joins = k.joins => r = p
      BY <1>7, <1>9, <1>13, <3>1
    <3> QED  BY <2>1, <3>2, <3>3, <3>4, <3>5, <3>6 DEF Alone
  <2>2. CASE q # p
    <3>1. investigated[q] # <<>> /\ k = investigated[q][1]
      BY <1>9, <1>14, <2>2
    <3>2. /\ RowsSound(k.rows, k.scope) /\ k.joins \in 0..Len(cases)
          /\ k.joins = 0 => k.scope = k.fs /\ k.investigated
          /\ k.joins # 0 => k.scope \subseteq k.fs \cup cases[k.joins].fs
          /\ Alone(q, k)
      BY <3>1 DEF ResponseInv, WorkSound
    <3>3. k.joins # 0 => k.joins \in DOMAIN cases
      BY <1>2, <3>2
    <3>4. RowsSound(k.rows, k.scope)'
      BY <1>8, <3>2 DEF RowsSound, Grounded
    <3>5. k.joins # 0 /\ ~cases'[k.joins].raced => k.joins # i
      BY <1>13, <3>1
    <3>6. Alone(q, k)'
      BY <1>7, <1>9, <1>12, <3>2, <3>3, <3>5 DEF Alone
    <3> QED  BY <1>11, <1>12, <3>2, <3>3, <3>4, <3>6
  <2> QED  BY <2>1, <2>2
<1>15. WorkSound'
  BY <1>14 DEF WorkSound
<1> QED  BY <1>8, <1>9, <1>11, <1>12, <1>15, CasesAlone

LEMMA FiledSound ==
  ASSUME NEW i \in Nat, NEW h \in Work, NEW r \in h.rows
  PROVE  LET q == Response!Filed(i, h, r)
         IN  /\ q \in FiledRows /\ q.incident = i /\ q.action = r.action /\ q.target = r.target
             /\ q.executable = r.executable /\ q.approval = r.approval /\ q.origin = r.origin
             /\ q.status = "pending" /\ q.by = h.scope
<1>1. r \in Rows /\ h.scope \in Evidence
  BY DEF Work
<1> QED  BY <1>1 DEF Rows, FiledRows, Response!Filed

NewRows(i, h, skip) ==
  {Response!Filed(i, h, r) : r \in {r \in h.rows : <<r.action, r.target>> \notin skip}}

\* What is filed, with what becomes of the cases left open.
LEMMA SaveKept ==
  ASSUME ResponseInv, NEW p \in Pipelines, Response!Save(p)
  PROVE  ResponseInv'
<1>1. PICK h, i, skip :
        /\ h = investigated[p][1] /\ investigated[p] # <<>>
        /\ Response!Merges(h) => /\ i = h.joins /\ skip = Response!Live(i)
                                 /\ cases' = [cases EXCEPT ![i] = Response!WithMerge(cases[i], h)]
        /\ ~Response!Merges(h) => i = Len(cases) + 1 /\ cases' = Append(cases, Response!Opened(h))
        /\ proposals' = proposals \cup NewRows(i, h, skip)
        /\ investigated' = [investigated EXCEPT ![p] = <<>>] /\ UNCHANGED level
  <2> DEFINE h == investigated[p][1]
             i == IF Response!Merges(h) THEN h.joins ELSE Len(cases) + 1
             skip == IF Response!Merges(h) THEN Response!Live(i) ELSE {}
  <2>1. /\ investigated[p] # <<>>
        /\ cases' = IF Response!Merges(h) THEN [cases EXCEPT ![i] = Response!WithMerge(cases[i], h)]
                                          ELSE Append(cases, Response!Opened(h))
        /\ proposals' = proposals \cup NewRows(i, h, skip)
        /\ investigated' = [investigated EXCEPT ![p] = <<>>] /\ UNCHANGED level
    BY DEF Response!Save, NewRows
  <2>2. /\ Response!Merges(h) => /\ i = h.joins /\ skip = Response!Live(i)
                                 /\ cases' = [cases EXCEPT ![i] = Response!WithMerge(cases[i], h)]
        /\ ~Response!Merges(h) => i = Len(cases) + 1 /\ cases' = Append(cases, Response!Opened(h))
    BY <2>1
  <2>3. h = investigated[p][1]
    OBVIOUS
  <2> HIDE DEF h, i, skip
  <2> QED  BY <2>1, <2>2, <2>3
<1>2. /\ cases \in Seq(Cases) /\ investigated \in [Pipelines -> {<<>>} \cup {<<k>> : k \in Work}]
      /\ level \in AutonomyLevels /\ proposals \subseteq FiledRows
  BY DEF ResponseInv, ResponseTypes
<1>3. h \in Work
  BY <1>1, <1>2
<1>4. /\ h.joins \in Nat /\ h.fs \in Evidence /\ h.scope \in Evidence /\ h.investigated \in BOOLEAN
      /\ h.rows \subseteq Rows
  BY <1>3 DEF Work
<1>5. /\ RowsSound(h.rows, h.scope) /\ h.joins \in 0..Len(cases)
      /\ h.joins = 0 => h.scope = h.fs /\ h.investigated
      /\ h.joins # 0 => h.scope \subseteq h.fs \cup cases[h.joins].fs
      /\ Alone(p, h)
  BY <1>1 DEF ResponseInv, WorkSound
<1>6. /\ Len(cases) \in Nat /\ DOMAIN cases = 1..Len(cases) /\ i \in Nat
      /\ Response!Merges(h) => i \in DOMAIN cases /\ h.joins = i
      /\ ~Response!Merges(h) => i = Len(cases) + 1
      /\ Response!Merges(h) <=> h.joins # 0 /\ cases[h.joins].open
  BY <1>1, <1>2, <1>5 DEF Response!Merges
<1>7. \A j \in DOMAIN cases : cases[j] \in Cases
  BY <1>2

\* The case that is opened or joined.
<1>8. PICK c \in Cases :
        /\ cases'[i] = c
        /\ Response!Merges(h) =>
             /\ c.fs = cases[i].fs \cup h.fs /\ c.orphan = cases[i].orphan /\ c.raced = cases[i].raced
             /\ c.judged = IF h.investigated THEN h.scope ELSE cases[i].judged
        /\ ~Response!Merges(h) =>
             /\ c.fs = h.fs /\ c.orphan = (h.joins # 0)
             /\ c.judged = IF h.investigated THEN h.scope ELSE {}
        /\ cases' \in Seq(Cases) /\ DOMAIN cases' = DOMAIN cases \cup {i}
        /\ \A j \in DOMAIN cases \ {i} : cases'[j] = cases[j]
  <2>1. CASE Response!Merges(h)
    <3> DEFINE c == Response!WithMerge(cases[i], h)
    <3>1. cases[i] \in Cases
      BY <1>6, <1>7, <2>1
    <3>2. /\ c \in Cases /\ c.fs = cases[i].fs \cup h.fs
          /\ c.orphan = cases[i].orphan /\ c.raced = cases[i].raced
          /\ c.judged = IF h.investigated THEN h.scope ELSE cases[i].judged
      BY <1>4, <3>1 DEF Cases, Evidence, Response!WithMerge
    <3> HIDE DEF c
    <3>3. cases' = [cases EXCEPT ![i] = c]
      BY <1>1, <2>1 DEF c
    <3>4. cases' \in Seq(Cases) /\ DOMAIN cases' = DOMAIN cases \cup {i} /\ cases'[i] = c
          /\ \A j \in DOMAIN cases \ {i} : cases'[j] = cases[j]
      BY <1>2, <1>6, <2>1, <3>2, <3>3
    <3> QED  BY <2>1, <3>2, <3>4
  <2>2. CASE ~Response!Merges(h)
    <3> DEFINE c == Response!Opened(h)
    <3>1. /\ c \in Cases /\ c.fs = h.fs /\ c.orphan = (h.joins # 0)
          /\ c.judged = IF h.investigated THEN h.scope ELSE {}
      BY <1>4 DEF Cases, Evidence, Response!Opened
    <3> HIDE DEF c
    <3>2. cases' = Append(cases, c)
      BY <1>1, <2>2 DEF c
    <3>3. cases' \in Seq(Cases) /\ DOMAIN cases' = DOMAIN cases \cup {i} /\ cases'[i] = c
          /\ \A j \in DOMAIN cases \ {i} : cases'[j] = cases[j]
      BY <1>2, <1>6, <2>2, <3>1, <3>2
    <3> QED  BY <2>2, <3>1, <3>3
  <2> QED  BY <2>1, <2>2

\* What is filed.
<1>9. \A q \in proposals' \ proposals : \E r \in h.rows :
        /\ q \in FiledRows /\ q.incident = i /\ q.action = r.action /\ q.target = r.target
        /\ q.executable = r.executable /\ q.approval = r.approval /\ q.origin = r.origin
        /\ q.status = "pending" /\ q.by = h.scope /\ q = Response!Filed(i, h, r)
        /\ <<r.action, r.target>> \notin skip
  <2> SUFFICES ASSUME NEW q \in proposals', q \notin proposals
               PROVE  \E r \in h.rows :
                  /\ q \in FiledRows /\ q.incident = i /\ q.action = r.action /\ q.target = r.target
                  /\ q.executable = r.executable /\ q.approval = r.approval /\ q.origin = r.origin
                  /\ q.status = "pending" /\ q.by = h.scope /\ q = Response!Filed(i, h, r)
                  /\ <<r.action, r.target>> \notin skip
    OBVIOUS
  <2>1. PICK r \in h.rows : q = Response!Filed(i, h, r) /\ <<r.action, r.target>> \notin skip
    BY <1>1 DEF NewRows
  <2>2. /\ q \in FiledRows /\ q.incident = i /\ q.action = r.action /\ q.target = r.target
        /\ q.executable = r.executable /\ q.approval = r.approval /\ q.origin = r.origin
        /\ q.status = "pending" /\ q.by = h.scope
    BY <1>3, <1>6, <2>1, FiledSound
  <2> QED  BY <2>1, <2>2
<1>10. proposals \subseteq proposals'
  BY <1>1
<1>11. /\ investigated' \in [Pipelines -> {<<>>} \cup {<<k>> : k \in Work}]
       /\ investigated'[p] = <<>> /\ \A q \in Pipelines \ {p} : investigated'[q] = investigated[q]
  BY <1>1, <1>2
<1>12. ResponseTypes' /\ FiledKnown'
  <2>1. proposals' \subseteq FiledRows
    BY <1>2, <1>9
  <2>2. FiledKnown'
    BY <1>8, <1>9 DEF ResponseInv, FiledKnown
  <2> QED  BY <1>1, <1>2, <1>8, <1>11, <2>1, <2>2 DEF ResponseTypes
<1>13. WorkSound'
  <2> SUFFICES ASSUME NEW q \in Pipelines \ {p}, investigated[q] # <<>>, NEW k, k = investigated[q][1]
               PROVE  (/\ RowsSound(k.rows, k.scope) /\ k.joins \in 0..Len(cases)
                       /\ k.joins = 0 => k.scope = k.fs /\ k.investigated
                       /\ k.joins # 0 => k.scope \subseteq k.fs \cup cases[k.joins].fs
                       /\ Alone(q, k))'
    BY <1>11 DEF WorkSound
  <2>1. /\ RowsSound(k.rows, k.scope) /\ k.joins \in 0..Len(cases)
        /\ k.joins = 0 => k.scope = k.fs /\ k.investigated
        /\ k.joins # 0 => k.scope \subseteq k.fs \cup cases[k.joins].fs
        /\ Alone(q, k)
    BY DEF ResponseInv, WorkSound
  <2>2. k.joins # 0 => k.joins \in DOMAIN cases
    BY <1>6, <2>1
  <2>3. RowsSound(k.rows, k.scope)'
    BY <1>1, <2>1 DEF RowsSound, Grounded
  <2>4. k.joins \in 0..Len(cases')
    <3>1. DOMAIN cases \subseteq DOMAIN cases' /\ DOMAIN cases' = 1..Len(cases') /\ Len(cases') \in Nat
      BY <1>8, LenProperties
    <3> QED  BY <2>1, <2>2, <3>1
  <2>5. ASSUME k.joins # 0
        PROVE  cases[k.joins].fs \subseteq cases'[k.joins].fs /\ cases'[k.joins].raced = cases[k.joins].raced
    <3>1. CASE k.joins = i
      BY <1>6, <1>8, <2>2, <2>5, <3>1
    <3>2. CASE k.joins # i
      BY <1>8, <2>2, <2>5, <3>2
    <3> QED  BY <3>1, <3>2
  <2>6. Alone(q, k)'
    <3> SUFFICES ASSUME k.joins # 0, ~cases'[k.joins].raced
                 PROVE  (/\ k.scope = k.fs \cup cases[k.joins].fs
                         /\ k.investigated <=> Response!Material(cases[k.joins].fs, k.scope)
                         /\ \A r \in Pipelines : investigated[r] # <<>> /\ investigated[r][1].joins = k.joins
                              => r = q)'
      BY DEF Alone
    <3>1. ~cases[k.joins].raced
      BY <2>5
    <3>2. k.joins # i
      <4>1. SUFFICES ASSUME k.joins = i PROVE FALSE
        OBVIOUS
      <4>2. Response!Merges(h)
        BY <1>6, <2>2, <4>1
      <4> QED  BY <1>1, <1>6, <2>1, <3>1, <4>1, <4>2 DEF Alone
    <3>3. cases'[k.joins] = cases[k.joins]
      BY <1>8, <2>2, <3>2
    <3> QED  BY <1>11, <2>1, <3>1, <3>3 DEF Alone
  <2> QED  BY <2>1, <2>3, <2>4, <2>5, <2>6
<1>14. Response!ActsOnlyOnEvidence'
  <2>1. \A q \in proposals : Grounded(q, q.by)
    BY ClaimsGrounded DEF ResponseInv
  <2>2. ASSUME NEW q \in proposals' PROVE Grounded(q, q.by)
    <3>1. CASE q \in proposals
      BY <2>1, <3>1
    <3>2. CASE q \notin proposals
      <4>1. PICK r \in h.rows : /\ q.action = r.action /\ q.target = r.target /\ q.executable = r.executable
                                /\ q.approval = r.approval /\ q.origin = r.origin /\ q.by = h.scope
        BY <1>9, <3>2
      <4>2. Grounded(r, h.scope)
        BY <1>5 DEF RowsSound
      <4> QED  BY <4>1, <4>2 DEF Grounded
    <3> QED  BY <3>1, <3>2
  <2> QED  BY <1>1, <2>2 DEF Response!ActsOnlyOnEvidence, Grounded
<1>15. Response!NotRaisedAgain'
  <2> SUFFICES ASSUME Terminal, NEW q \in proposals', NEW r \in proposals',
                      q # r, q.incident = r.incident, q.action = r.action, q.target = r.target
               PROVE  "rejected" \in {q.status, r.status}
    BY DEF Response!NotRaisedAgain
  <2>1. ASSUME NEW old \in proposals, NEW row \in h.rows, old.incident = i, old.action = row.action,
               old.target = row.target, <<row.action, row.target>> \notin skip
        PROVE  old.status = "rejected"
    <3>1. Response!Merges(h)
      BY <1>6, <2>1 DEF ResponseInv, FiledKnown
    <3>2. old.status \notin {"pending", "approved"}
      BY <1>1, <2>1, <3>1 DEF Response!Live
    <3> QED  BY <1>2, <3>2 DEF FiledRows
  <2>2. CASE q \in proposals /\ r \in proposals
    BY <2>2 DEF ResponseInv, Response!NotRaisedAgain
  <2>3. CASE q \in proposals /\ r \notin proposals
    <3>1. PICK y \in h.rows : /\ r.incident = i /\ r.action = y.action /\ r.target = y.target
                             /\ <<y.action, y.target>> \notin skip
      BY <1>9, <2>3
    <3>2. q.status = "rejected"
      BY <2>1, <2>3, <3>1
    <3> QED  BY <3>2
  <2>4. CASE q \notin proposals /\ r \in proposals
    <3>1. PICK y \in h.rows : /\ q.incident = i /\ q.action = y.action /\ q.target = y.target
                             /\ <<y.action, y.target>> \notin skip
      BY <1>9, <2>4
    <3>2. r.status = "rejected"
      BY <2>1, <2>4, <3>1
    <3> QED  BY <3>2
  <2>5. CASE q \notin proposals /\ r \notin proposals
    <3>1. PICK x \in h.rows : q = Response!Filed(i, h, x) /\ q.action = x.action /\ q.target = x.target
      BY <1>9, <2>5
    <3>2. PICK y \in h.rows : r = Response!Filed(i, h, y) /\ r.action = y.action /\ r.target = y.target
      BY <1>9, <2>5
    <3>3. x = y
      BY <1>5, <3>1, <3>2 DEF RowsSound
    <3> QED  BY <3>1, <3>2, <3>3
  <2> QED  BY <2>2, <2>3, <2>4, <2>5
<1>16. Response!MaterialChangesInvestigated'
  <2> SUFFICES ASSUME NEW j \in DOMAIN cases', ~cases'[j].orphan, ~cases'[j].raced
               PROVE  cases'[j].judged # {} /\ ~Response!Material(cases'[j].judged, cases'[j].fs)
    BY DEF Response!MaterialChangesInvestigated, Response!Investigated
  <2>1. \A k \in DOMAIN cases : ~cases[k].orphan /\ ~cases[k].raced
           => cases[k].judged # {} /\ ~Response!Material(cases[k].judged, cases[k].fs)
    BY DEF ResponseInv, Response!MaterialChangesInvestigated, Response!Investigated
  <2>2. CASE j # i
    BY <1>8, <2>1, <2>2
  <2>3. CASE j = i /\ Response!Merges(h)
    <3>1. /\ h.scope = h.fs \cup cases[i].fs /\ c.fs = h.scope
          /\ h.investigated <=> Response!Material(cases[i].fs, h.scope)
          /\ cases[i].judged # {} /\ ~Response!Material(cases[i].judged, cases[i].fs)
      BY <1>5, <1>6, <1>8, <2>1, <2>3 DEF Alone
    <3>2. CASE h.investigated
      BY <1>4, <1>8, <2>3, <3>1, <3>2, MaterialFacts DEF Evidence
    <3>3. CASE ~h.investigated
      <4>1. cases[i].judged \in Evidence /\ cases[i].fs \in Evidence
        <5>1. cases[i] \in Cases
          BY <1>6, <1>7, <2>3
        <5> QED  BY <3>1, <5>1 DEF Cases, Evidence
      <4> QED  BY <1>4, <1>8, <2>3, <3>1, <3>3, <4>1, MaterialFacts
    <3> QED  BY <3>2, <3>3
  <2>4. CASE j = i /\ ~Response!Merges(h)
    <3>1. h.joins = 0 /\ c.judged = h.scope /\ c.fs = h.scope
      BY <1>5, <1>8, <2>4
    <3> QED  BY <1>4, <1>8, <2>4, <3>1, MaterialFacts DEF Evidence
  <2> QED  BY <2>2, <2>3, <2>4
<1>17. Response!TargetsOfOwnIncident'
  <2> SUFFICES ASSUME NEW q \in proposals', ~cases'[q.incident].orphan, Response!Concrete(q)
               PROVE  q.target \in Response!Entities(cases'[q.incident].fs)
    BY DEF Response!TargetsOfOwnIncident, Response!OwnTargets
  <2>1. \A a, b : a \subseteq b => Response!Entities(a) \subseteq Response!Entities(b)
    BY DEF Response!Entities
  <2>2. CASE q \in proposals
    <3>1. q.incident \in DOMAIN cases
      BY <2>2 DEF ResponseInv, FiledKnown
    <3>2. cases[q.incident].fs \subseteq cases'[q.incident].fs
          /\ cases'[q.incident].orphan = cases[q.incident].orphan
      <4>1. CASE q.incident = i
        BY <1>6, <1>8, <3>1, <4>1
      <4>2. CASE q.incident # i
        BY <1>8, <3>1, <4>2
      <4> QED  BY <4>1, <4>2
    <3>3. q.target \in Response!Entities(cases[q.incident].fs)
      BY <2>2, <3>2 DEF ResponseInv, Response!TargetsOfOwnIncident, Response!OwnTargets
    <3> QED  BY <2>1, <3>2, <3>3
  <2>3. CASE q \notin proposals
    <3>1. PICK r \in h.rows : q.incident = i /\ q.action = r.action /\ q.target = r.target
      BY <1>9, <2>3
    <3>2. r.target \in Response!Entities(h.scope)
      BY <1>5, <3>1 DEF RowsSound, Response!Concrete
    <3>3. h.scope \subseteq c.fs
      BY <1>5, <1>6, <1>8, <3>1
    <3> QED  BY <1>8, <2>1, <3>1, <3>2, <3>3
  <2> QED  BY <2>2, <2>3
<1> QED  BY <1>12, <1>13, <1>14, <1>15, <1>16, <1>17 DEF ResponseInv

LEMMA ResponseUnchanged == ResponseInv /\ UNCHANGED caseVars => ResponseInv'
<1> SUFFICES ASSUME ResponseInv, UNCHANGED caseVars PROVE ResponseInv'
  OBVIOUS
<1>1. UNCHANGED <<level, investigated, cases, proposals>>
  BY DEF caseVars
<1>2. WorkSound'
  BY <1>1 DEF ResponseInv, WorkSound, RowsSound, Grounded, Alone
<1> QED  BY <1>1, <1>2, CasesAlone DEF ResponseInv, ResponseTypes

LEMMA ResponseStepKept == ResponseInv /\ Response!Next => ResponseInv'
  BY SaveKept, ProcessKept, CloseKept, DecideKept DEF Response!Next

\* Proposals act alone only on the runtime's own evidence, are not raised twice
\* and aim at their incident's entities; and what changes an incident materially
\* is investigated, but for the races and orphans the module names.
THEOREM ResponseStaysSound == Spec => []ResponseSound
<1>1. ResponseInv /\ [Next]_vars => ResponseInv'
  <2> SUFFICES ASSUME ResponseInv, [Next]_vars PROVE ResponseInv'
    OBVIOUS
  <2>1. Response!Next \/ UNCHANGED caseVars
    BY DEF Next, WebStep, StoryStep, LearnStep, AdviceStep, CaseStep, EnrichStep, vars
  <2> QED  BY <2>1, ResponseStepKept, ResponseUnchanged
<1>2. ResponseInv => ResponseSound
  BY DEF ResponseInv, ResponseSound
<1> QED  BY ResponseInitially, <1>1, <1>2, PTL DEF Spec
-------------------------------------------------------------------------------
(* The model's advice.                                                     *)

\* The settings: a fallback is another provider than the first.
LEMMA ConfigIs ==
  ASSUME NEW c \in Advice!Configs
  PROVE  /\ c.provider \in {"jev", "laya"} /\ c.fallback \in {"jev", "laya", "none"}
         /\ c.fallback # c.provider
         /\ c.onLow \in BOOLEAN /\ c.gate \in BOOLEAN /\ c.severity \in {"choice", "score"}
<1>1. PICK e \in FiveSettings : c = [e EXCEPT !.fallback = IF @ = e.provider THEN "none" ELSE @]
  BY DEF Advice!Configs, Advice!ConfigFromEnv
<1>2. ASSUME NEW p, NEW f, NEW l, NEW g, NEW v, NEW u, e = Setting(p, f, l, g, v, u)
      PROVE  /\ c.provider = p /\ c.fallback = (IF f = p THEN "none" ELSE f)
             /\ c.onLow = l /\ c.gate = g /\ c.severity = v
  BY <1>1, <1>2 DEF Setting
<1>3. \E p \in {"jev", "laya"}, f \in {"jev", "laya", "none"}, l \in BOOLEAN, g \in BOOLEAN,
         v \in {"choice", "score"} : \E u : e = Setting(p, f, l, g, v, u)
  BY DEF FiveSettings
<1> QED  BY <1>2, <1>3

LEMMA AdviceMax ==
  ASSUME NEW a \in Int, NEW b \in Int
  PROVE  Advice!Max({a, b}) = IF a >= b THEN a ELSE b
  BY DEF Advice!Max

LEMMA AdviceMin ==
  ASSUME NEW a \in Int, NEW b \in Int
  PROVE  Advice!Min({a, b}) = IF a <= b THEN a ELSE b
  BY DEF Advice!Min

\* A reply that validates is in range, and says yes or no where that is asked.
LEMMA RawIs ==
  ASSUME config.severity \in {"choice", "score"}, NEW raw \in Advice!RawSets, Advice!ValidAnswers(raw)
  PROVE  /\ \A q \in Advice!Questions : raw[q].num \in -1..100 /\ raw[q].conf \in -1..100
         /\ raw["malicious"].type = "noul" /\ raw["needs_llm_analysis"].type = "noul"
         /\ raw["malicious"].num \in 0..100 /\ raw["needs_llm_analysis"].num \in 0..100
<1>1. /\ DOMAIN raw = Advice!Questions
      /\ \A q \in Advice!Questions : Advice!ValidAnswer(q, raw[q])
  BY DEF Advice!ValidAnswers
<1>2. PICK p \in {10, 60, 95, 130}, b \in Advice!Severities, n \in {10, 60} :
        raw = [malicious |-> Advice!Noul(p), severity |-> b, needs_llm_analysis |-> Advice!Noul(n)]
  <2>1. \/ \E p \in {10, 60, 95, 130}, b \in Advice!Severities, n \in {10, 60} :
              raw = [malicious |-> Advice!Noul(p), severity |-> b, needs_llm_analysis |-> Advice!Noul(n)]
        \/ \E m, s : raw = [malicious |-> m, severity |-> s]
    BY DEF Advice!RawSets
  <2>2. ASSUME NEW m, NEW s, raw = [malicious |-> m, severity |-> s] PROVE FALSE
    BY <1>1, <2>2 DEF Advice!Questions
  <2> QED  BY <2>1, <2>2
<1>3. raw["malicious"] = Advice!Noul(p) /\ raw["severity"] = b /\ raw["needs_llm_analysis"] = Advice!Noul(n)
  BY <1>2
<1>4. /\ Advice!Noul(p).type = "noul" /\ Advice!Noul(p).num = p /\ Advice!Noul(p).conf = -1
      /\ Advice!Noul(n).type = "noul" /\ Advice!Noul(n).num = n /\ Advice!Noul(n).conf = -1
  BY DEF Advice!Noul
<1>5. p \in 0..100
  <2>1. Advice!ValidAnswer("malicious", raw["malicious"])
    BY <1>1 DEF Advice!Questions
  <2> QED  BY <1>3, <1>4, <2>1 DEF Advice!ValidAnswer, Advice!Probability
<1>6. b.num \in -1..100 /\ b.conf \in -1..100
  <2>1. Advice!ValidAnswer("severity", b)
    BY <1>1, <1>3 DEF Advice!Questions
  <2>2. b.type = config.severity
    BY <2>1 DEF Advice!ValidAnswer, Advice!TypeOf
  <2>3. CASE config.severity = "choice"
    <3>1. b \in [type : {"choice"}, pick : {"high", "other"}, num : {0}, conf : {-1, 60, 90}]
      BY <2>2, <2>3 DEF Advice!Severities, Advice!Noul
    <3> QED  BY <3>1
  <2>4. CASE config.severity = "score"
    <3>1. b.num \in {-2, -1, 3, 5, 6} /\ b.conf \in {60, 90, 130}
      BY <2>2, <2>4 DEF Advice!Severities, Advice!Noul
    <3>2. -1 <= b.num /\ b.conf \in 0..100
      BY <2>1, <2>2, <2>4, <3>1 DEF Advice!ValidAnswer, Advice!Probability
    <3> QED  BY <3>1, <3>2
  <2> QED  BY <2>3, <2>4
<1> QED  BY <1>3, <1>4, <1>5, <1>6 DEF Advice!Questions

\* Prompts do not get shorter with more findings.
Grows(p) == /\ p.budget \in Nat /\ p.system \in Nat /\ p.user \in Seq(Nat) /\ Len(p.user) >= 1
            /\ \A j, k \in 1..Len(p.user) : j <= k => p.user[j] <= p.user[k]

LEMMA PromptsGrow == \A p \in ThreePrompts : Grows(p)
<1>1. ASSUME NEW b \in Nat, NEW a1 \in Nat, NEW a2 \in Nat, NEW a3 \in Nat, NEW a4 \in Nat,
             a1 <= a2, a2 <= a3, a3 <= a4
      PROVE  Grows([budget |-> b, system |-> 6, user |-> <<a1, a2, a3, a4>>])
  BY <1>1 DEF Grows
<1>2. Grows([budget |-> 9, system |-> 6, user |-> <<5, 6>>])
  BY DEF Grows
<1>3. /\ Grows([budget |-> 20, system |-> 6, user |-> <<4, 7, 10, 13>>])
      /\ Grows([budget |-> 14, system |-> 6, user |-> <<4, 5, 8, 11>>])
  BY <1>1
<1> QED  BY <1>2, <1>3 DEF ThreePrompts

\* The most findings up to hi that fit, or lo.
Largest(x, p, lo, hi) ==
  /\ x \in lo..hi /\ (x = lo \/ Advice!Fits(p, x))
  /\ \A k \in lo..hi : Advice!Fits(p, k) => k <= x

LEMMA FitsFewer ==
  ASSUME NEW p, Grows(p), NEW k \in 0..(Len(p.user) - 1)
  PROVE  /\ Advice!UserLength(p, k) = p.user[k + 1] /\ Advice!UserLength(p, k) \in Nat
         /\ \A j \in 0..k : Advice!Fits(p, k) => Advice!Fits(p, j)
<1>1. Len(p.user) \in Nat /\ \A j \in 1..Len(p.user) : p.user[j] \in Nat
  BY DEF Grows
<1>2. ASSUME NEW j \in 0..(Len(p.user) - 1)
      PROVE  Advice!UserLength(p, j) = p.user[j + 1] /\ p.user[j + 1] \in Nat
  <2>1. Advice!Min({j, Len(p.user) - 1}) = j
    BY <1>1, AdviceMin
  <2>2. 1 + j = j + 1 /\ j + 1 \in 1..Len(p.user)
    BY <1>1
  <2> QED  BY <1>1, <2>1, <2>2 DEF Advice!UserLength
<1>3. ASSUME NEW j \in 0..k, Advice!Fits(p, k) PROVE Advice!Fits(p, j)
  <2>1. j \in 0..(Len(p.user) - 1)
    BY <1>1
  <2>2. p.user[j + 1] <= p.user[k + 1]
    <3> DEFINE x == j + 1
               y == k + 1
    <3>1. x \in 1..Len(p.user) /\ y \in 1..Len(p.user) /\ x <= y
      BY <1>1, <2>1
    <3> HIDE DEF x, y
    <3>2. p.user[x] <= p.user[y]
      BY <3>1 DEF Grows
    <3> QED  BY <3>2 DEF x, y
  <2>3. /\ Advice!UserLength(p, j) = p.user[j + 1] /\ Advice!UserLength(p, k) = p.user[k + 1]
        /\ p.user[j + 1] \in Nat /\ p.user[k + 1] \in Nat
    BY <1>2, <2>1
  <2>4. p.system \in Nat /\ p.budget \in Nat
    BY DEF Grows
  <2> QED  BY <1>3, <2>2, <2>3, <2>4 DEF Advice!Fits
<1> QED  BY <1>2, <1>3

\* The search, as a function of its bounds.
Searches(f, p, D) ==
  f = [r \in D |->
         IF r[1] >= r[2] THEN r[1]
         ELSE IF Advice!Fits(p, (r[1] + r[2] + 1) \div 2)
              THEN f[<<(r[1] + r[2] + 1) \div 2, r[2]>>]
              ELSE f[<<r[1], ((r[1] + r[2] + 1) \div 2) - 1>>]]

LEMMA BisectSearches ==
  ASSUME NEW p
  PROVE  LET n == Len(p.user) - 1
             D == (0..n) \X (0..n)
         IN  Advice!Bisect(p) = (CHOOSE f : Searches(f, p, D))[<<0, n>>]
  BY Zenon DEF Advice!Bisect, Searches

\* Any function that does what the search does finds the largest that fits.
LEMMA SearchFinds ==
  ASSUME NEW p, Grows(p), NEW n, n = Len(p.user) - 1,
         NEW D, D = (0..n) \X (0..n), NEW f, Searches(f, p, D)
  PROVE  \A lo, hi \in 0..n : lo <= hi => Largest(f[<<lo, hi>>], p, lo, hi)
<1>1. n \in Nat
  BY DEF Grows
<1> DEFINE Good(lo, hi) == Largest(f[<<lo, hi>>], p, lo, hi)
           T == {d \in Nat : \A lo, hi \in 0..n : lo <= hi /\ hi - lo <= d => Good(lo, hi)}
<1>2. ASSUME NEW lo \in 0..n, NEW hi \in 0..n, NEW mid, mid = (lo + hi + 1) \div 2
      PROVE  f[<<lo, hi>>] = IF lo >= hi THEN lo
                             ELSE IF Advice!Fits(p, mid) THEN f[<<mid, hi>>] ELSE f[<<lo, mid - 1>>]
  <2> DEFINE r == <<lo, hi>>
  <2>1. r \in D /\ r[1] = lo /\ r[2] = hi
    BY <1>2
  <2> HIDE DEF r
  <2>2. f[r] = IF r[1] >= r[2] THEN r[1]
               ELSE IF Advice!Fits(p, (r[1] + r[2] + 1) \div 2)
                    THEN f[<<(r[1] + r[2] + 1) \div 2, r[2]>>]
                    ELSE f[<<r[1], ((r[1] + r[2] + 1) \div 2) - 1>>]
    BY <2>1, Zenon DEF Searches
  <2> QED  BY <1>2, <2>1, <2>2 DEF r
<1>3. 0 \in T
  <2> SUFFICES ASSUME NEW lo \in 0..n, NEW hi \in 0..n, lo <= hi, hi - lo <= 0 PROVE Good(lo, hi)
    OBVIOUS
  <2>1. lo = hi
    BY <1>1
  <2>2. f[<<lo, hi>>] = lo
    BY <1>2, <2>1
  <2> QED  BY <1>1, <2>1, <2>2 DEF Largest
<1>4. ASSUME NEW d \in Nat, d \in T PROVE d + 1 \in T
  <2> SUFFICES ASSUME NEW lo \in 0..n, NEW hi \in 0..n, lo <= hi, hi - lo <= d + 1 PROVE Good(lo, hi)
    OBVIOUS
  <2>1. CASE lo = hi
    <3>1. f[<<lo, hi>>] = lo
      BY <1>2, <2>1
    <3> QED  BY <1>1, <2>1, <3>1 DEF Largest
  <2>2. CASE lo # hi
    <3> DEFINE mid == (lo + hi + 1) \div 2
    <3>1. mid \in Int /\ lo < mid /\ mid <= hi /\ mid \in 0..n /\ mid - 1 \in 0..n
      BY <1>1, <2>2
    <3>2. f[<<lo, hi>>] = IF Advice!Fits(p, mid) THEN f[<<mid, hi>>] ELSE f[<<lo, mid - 1>>]
      BY <1>1, <1>2, <2>2
    <3> HIDE DEF mid
    <3>3. CASE Advice!Fits(p, mid)
      <4>1. Good(mid, hi)
        BY <1>1, <1>4, <3>1
      <4>2. f[<<lo, hi>>] = f[<<mid, hi>>]
        BY <3>2, <3>3
      <4> DEFINE x == f[<<mid, hi>>]
      <4> HIDE DEF x
      <4>3. Largest(x, p, mid, hi)
        BY <4>1 DEF x
      <4>4. Largest(x, p, lo, hi)
        BY <1>1, <3>1, <3>3, <4>3 DEF Largest
      <4> QED  BY <4>2, <4>4 DEF x
    <3>4. CASE ~Advice!Fits(p, mid)
      <4>1. Good(lo, mid - 1)
        BY <1>1, <1>4, <3>1
      <4>2. f[<<lo, hi>>] = f[<<lo, mid - 1>>]
        BY <3>2, <3>4
      <4>3. \A k \in mid..hi : ~Advice!Fits(p, k)
        <5> SUFFICES ASSUME NEW k \in mid..hi, Advice!Fits(p, k) PROVE FALSE
          OBVIOUS
        <5>1. k \in 0..(Len(p.user) - 1) /\ mid \in 0..k
          BY <1>1, <3>1
        <5> QED  BY <3>4, <5>1, FitsFewer
      <4> DEFINE x == f[<<lo, mid - 1>>]
      <4> HIDE DEF x
      <4>4. Largest(x, p, lo, mid - 1)
        BY <4>1 DEF x
      <4>5. Largest(x, p, lo, hi)
        BY <1>1, <3>1, <4>3, <4>4 DEF Largest
      <4> QED  BY <4>2, <4>5 DEF x
    <3> QED  BY <3>3, <3>4
  <2> QED  BY <2>1, <2>2
<1>5. Nat \subseteq T
  <2> HIDE DEF T
  <2> QED  BY <1>3, <1>4, Stories!Induct
<1>6. n \in T
  BY <1>1, <1>5
<1> QED  BY <1>1, <1>6

\* There is one: what it finds can be said without the search.
LEMMA SearchExists ==
  ASSUME NEW p, Grows(p), NEW n, n = Len(p.user) - 1, NEW D, D = (0..n) \X (0..n)
  PROVE  \E f : Searches(f, p, D)
<1>1. n \in Nat
  BY DEF Grows
<1> DEFINE top(lo, hi) == CHOOSE x \in lo..hi : Largest(x, p, lo, hi)
           f == [r \in D |-> IF r[1] >= r[2] THEN r[1] ELSE top(r[1], r[2])]
<1>2. ASSUME NEW lo \in 0..n, NEW hi \in 0..n, lo <= hi PROVE Largest(top(lo, hi), p, lo, hi)
  <2> DEFINE T == {lo} \cup {k \in lo..hi : Advice!Fits(p, k)}
  <2>1. T \in SUBSET (0..hi) /\ lo \in T
    BY <1>1, <1>2
  <2>2. PICK x \in T : \A y \in T : y <= x
    <3>1. hi \in Nat /\ T # {}
      BY <1>1, <2>1
    <3> HIDE DEF T
    <3> QED  BY <2>1, <3>1, Stories!Greatest
  <2>3. x \in lo..hi /\ Largest(x, p, lo, hi)
    BY <1>1, <1>2, <2>2 DEF Largest
  <2> QED  BY <2>3
<1>3. ASSUME NEW lo \in 0..n, NEW hi \in 0..n, NEW x, NEW y, Largest(x, p, lo, hi), Largest(y, p, lo, hi)
      PROVE  x = y
  BY <1>1, <1>3 DEF Largest
<1>4. ASSUME NEW r \in D, r[1] < r[2], NEW mid, mid = (r[1] + r[2] + 1) \div 2
      PROVE  f[r] = IF Advice!Fits(p, mid) THEN f[<<mid, r[2]>>] ELSE f[<<r[1], mid - 1>>]
  <2> DEFINE lo == r[1]
             hi == r[2]
  <2>1. lo \in 0..n /\ hi \in 0..n /\ lo < hi /\ f[r] = top(lo, hi)
    BY <1>1, <1>4
  <2>2. mid \in Int /\ lo < mid /\ mid <= hi /\ mid \in 0..n /\ mid - 1 \in 0..n
    BY <1>1, <1>4, <2>1, SMTT(30)
  <2>3. ASSUME NEW a \in 0..n, NEW b \in 0..n, a <= b PROVE Largest(f[<<a, b>>], p, a, b)
    <3>1. <<a, b>> \in D
      OBVIOUS
    <3>2. f[<<a, b>>] = IF a >= b THEN a ELSE top(a, b)
      <4> DEFINE q == <<a, b>>
      <4>1. q \in D /\ q[1] = a /\ q[2] = b
        OBVIOUS
      <4> HIDE DEF q, top
      <4>2. f[q] = IF q[1] >= q[2] THEN q[1] ELSE top(q[1], q[2])
        BY <4>1
      <4> QED  BY <4>1, <4>2, Zenon DEF q
    <3>3. CASE a >= b
      BY <1>1, <2>3, <3>2, <3>3 DEF Largest
    <3>4. CASE ~(a >= b)
      <4> HIDE DEF top, f
      <4> QED  BY <1>2, <2>3, <3>2, <3>4
    <3> QED  BY <3>3, <3>4
  <2>4. Largest(f[r], p, lo, hi)
    <3> HIDE DEF top, f
    <3> QED  BY <1>1, <1>2, <2>1
  <2> DEFINE z == f[r]
             u == f[<<mid, hi>>]
             v == f[<<lo, mid - 1>>]
  <2>5. Largest(u, p, mid, hi) /\ Largest(v, p, lo, mid - 1)
    <3> HIDE DEF f
    <3> QED  BY <1>1, <2>1, <2>2, <2>3
  <2>6. Largest(z, p, lo, hi)
    BY <2>4
  <2> HIDE DEF z, u, v, f, top, lo, hi
  <2>7. CASE Advice!Fits(p, mid)
    <3>1. Largest(u, p, lo, hi)
      BY <1>1, <2>1, <2>2, <2>5, <2>7 DEF Largest
    <3> QED  BY <1>3, <2>1, <2>6, <2>7, <3>1 DEF z, u, hi
  <2>8. CASE ~Advice!Fits(p, mid)
    <3>1. \A k \in mid..hi : ~Advice!Fits(p, k)
      <4> SUFFICES ASSUME NEW k \in mid..hi, Advice!Fits(p, k) PROVE FALSE
        OBVIOUS
      <4>1. k \in 0..(Len(p.user) - 1) /\ mid \in 0..k
        BY <1>1, <2>1, <2>2
      <4> QED  BY <2>8, <4>1, FitsFewer
    <3>2. Largest(v, p, lo, hi)
      BY <1>1, <2>1, <2>2, <2>5, <3>1 DEF Largest
    <3> QED  BY <1>3, <2>1, <2>6, <2>8, <3>2 DEF z, v, lo
  <2> QED  BY <2>7, <2>8
<1>5. ASSUME NEW r \in D
      PROVE  f[r] = IF r[1] >= r[2] THEN r[1]
                    ELSE IF Advice!Fits(p, (r[1] + r[2] + 1) \div 2)
                         THEN f[<<(r[1] + r[2] + 1) \div 2, r[2]>>]
                         ELSE f[<<r[1], ((r[1] + r[2] + 1) \div 2) - 1>>]
  <2>1. CASE r[1] >= r[2]
    BY <2>1
  <2>2. CASE ~(r[1] >= r[2])
    <3>1. r[1] < r[2]
      BY <1>1, <2>2
    <3> HIDE DEF f
    <3> QED  BY <1>4, <2>2, <3>1
  <2> QED  BY <2>1, <2>2
<1>6. f = [r \in D |-> f[r]]
  OBVIOUS
<1> HIDE DEF f
<1>7. Searches(f, p, D)
  BY <1>5, <1>6, Zenon DEF Searches
<1> QED  BY <1>7

LEMMA BisectFinds ==
  ASSUME NEW p, Grows(p)
  PROVE  Largest(Advice!Bisect(p), p, 0, Len(p.user) - 1)
<1> DEFINE n == Len(p.user) - 1
           D == (0..n) \X (0..n)
           F == CHOOSE f : Searches(f, p, D)
<1>1. n \in Nat
  BY DEF Grows
<1>2. Advice!Bisect(p) = F[<<0, n>>]
  BY BisectSearches
<1> HIDE DEF n
<1> HIDE DEF D
<1>3. \E f : Searches(f, p, D)
  BY SearchExists DEF n, D
<1>4. Searches(F, p, D)
  BY <1>3
<1> HIDE DEF F
<1>5. \A lo, hi \in 0..n : lo <= hi => Largest(F[<<lo, hi>>], p, lo, hi)
  BY <1>4, SearchFinds DEF n, D
<1>6. Largest(F[<<0, n>>], p, 0, n)
  BY <1>1, <1>5
<1> QED  BY <1>2, <1>6 DEF n

\* What is cut fits, if the mark does.
LEMMA CutFits ==
  ASSUME AdviceAssumption, NEW length \in Nat, NEW room \in Int, Marker <= room
  PROVE  Advice!Cut(length, room) \in Nat /\ Advice!Cut(length, room) <= room
<1>1. Marker \in Nat /\ room - Marker \in Nat
  BY DEF AdviceAssumption
<1>2. Advice!Max({room - Marker, 0}) = room - Marker
  BY <1>1, AdviceMax
<1>3. Advice!Cut(length, room) = IF length > room - Marker THEN (room - Marker) + Marker ELSE length
  BY <1>2 DEF Advice!Cut
<1> QED  BY <1>1, <1>3

LEMMA PromptGoodly ==
  ASSUME AdviceAssumption, NEW p, Grows(p), NEW sent, sent = Advice!FitContext(p)
  PROVE  /\ sent.of = p
         /\ p.budget >= 2 * Marker + 1 => sent.system + sent.user <= p.budget
         /\ \A k \in 0..Advice!Min({EvidenceCap, Len(p.user) - 1}) : Advice!Fits(p, k) => k <= sent.kept
<1> DEFINE n == Len(p.user) - 1
           kept == IF Advice!Fits(p, EvidenceCap) THEN EvidenceCap ELSE Advice!Bisect(p)
<1>1. /\ n \in Nat /\ EvidenceCap \in Nat /\ Marker \in Nat /\ p.budget \in Nat /\ p.system \in Nat
      /\ Len(p.user) \in Nat /\ \A k \in 1..Len(p.user) : p.user[k] \in Nat
  BY DEF Grows, AdviceAssumption
<1>2. Largest(Advice!Bisect(p), p, 0, n)
  BY BisectFinds
<1>3. sent = IF Advice!Fits(p, kept)
             THEN [system |-> p.system, user |-> Advice!UserLength(p, kept), kept |-> kept, of |-> p]
             ELSE [system |-> Advice!Cut(p.system, p.budget \div 2), kept |-> kept, of |-> p,
                   user |-> Advice!Cut(Advice!UserLength(p, kept), p.budget - p.budget \div 2)]
  BY DEF Advice!FitContext
<1>4. kept \in Nat
  BY <1>1, <1>2 DEF Largest
<1>5. \A k \in 0..Advice!Min({EvidenceCap, n}) : Advice!Fits(p, k) => k <= kept
  <2>1. Advice!Min({EvidenceCap, n}) = IF EvidenceCap <= n THEN EvidenceCap ELSE n
    BY <1>1, AdviceMin
  <2>2. CASE Advice!Fits(p, EvidenceCap)
    BY <1>1, <2>1, <2>2
  <2>3. CASE ~Advice!Fits(p, EvidenceCap)
    BY <1>1, <1>2, <2>1, <2>3 DEF Largest
  <2> QED  BY <2>2, <2>3
<1> HIDE DEF kept
<1>6. Advice!UserLength(p, kept) \in Nat
  <2>1. Advice!Min({kept, n}) = IF kept <= n THEN kept ELSE n
    BY <1>1, <1>4, AdviceMin
  <2>2. 1 + Advice!Min({kept, n}) \in 1..Len(p.user)
    BY <1>1, <1>4, <2>1
  <2> QED  BY <1>1, <2>2 DEF Advice!UserLength
<1> DEFINE u == Advice!UserLength(p, kept)
<1>7. CASE Advice!Fits(p, kept)
  <2>1. sent.of = p /\ sent.kept = kept /\ sent.system = p.system /\ sent.user = u
    BY <1>3, <1>7
  <2>2. sent.system + sent.user <= p.budget
    BY <1>7, <2>1 DEF Advice!Fits
  <2> QED  BY <1>5, <2>1, <2>2
<1>8. CASE ~Advice!Fits(p, kept)
  <2> DEFINE room == p.budget \div 2
  <2>1. /\ sent.of = p /\ sent.kept = kept /\ sent.system = Advice!Cut(p.system, room)
        /\ sent.user = Advice!Cut(u, p.budget - room)
    BY <1>3, <1>8
  <2>2. ASSUME p.budget >= 2 * Marker + 1 PROVE sent.system + sent.user <= p.budget
    <3>1. room \in Int /\ p.budget - room \in Int /\ Marker <= room /\ Marker <= p.budget - room
      BY <1>1, <2>2
    <3> HIDE DEF room, u
    <3>2. /\ Advice!Cut(p.system, room) \in Nat /\ Advice!Cut(p.system, room) <= room
          /\ Advice!Cut(u, p.budget - room) \in Nat /\ Advice!Cut(u, p.budget - room) <= p.budget - room
      BY <1>1, <1>6, <3>1, CutFits DEF u
    <3> QED  BY <1>1, <2>1, <3>1, <3>2
  <2> QED  BY <1>5, <2>1, <2>2
<1> QED  BY <1>7, <1>8

-------------------------------------------------------------------------------
Valid(t) == Advice!ValidAnswers(t[2])
Given(t) == [source |-> t[1], given |-> Advice!NormalizeAnswers(t[2])]
Asking == step \in {"ask", "call"}
Statuses == {"200", "429", "503", "401", "422", "404", "unreachable"}

\* What was told is what was asked for, the answer kept is a valid one of them,
\* and a valid one of the first provider stays where it need not be sure.
ToldInv ==
  /\ config \in Advice!Configs
  /\ Asking => asking \in {config.provider, config.fallback} /\ asking # "none"
  /\ \A t \in told :
        /\ t[1] \in {config.provider, config.fallback} /\ t[2] \in Advice!RawSets
        /\ Asking => asking = config.fallback /\ t[1] = config.provider
        /\ t[1] = config.fallback => asking = config.fallback
        /\ Valid(t) /\ t[1] = config.provider /\ ~config.onLow =>
              asking = config.provider /\ answers # <<>> /\ answers[1].source = config.provider
        /\ Valid(t) /\ t[1] = config.fallback => answers # <<>> /\ answers[1].source = config.fallback
  /\ IF answers = <<>> THEN \A t \in told : ~Valid(t)
     ELSE \E t \in told : Valid(t) /\ answers = <<Given(t)>>

\* What the answers weigh.
Weighing ==
  IF answers = <<>>
  THEN [disposition |-> "unavailable", fallback |-> FALSE, advice |-> <<>>]
  ELSE [disposition |-> Advice!Disposition(Advice!Certainty(answers[1].given)),
        fallback |-> answers[1].source = config.fallback, advice |-> answers]
WeighedInv ==
  /\ step \in {"idle", "ask", "call", "weigh", "gate", "chat", "raised"}
  /\ Asking \/ step = "weigh" => outcome = <<>> /\ ~chatted
  /\ step \in {"gate", "chat"} => outcome # <<>> /\ ~chatted
  /\ outcome # <<>> /\ ~chatted => outcome = <<Weighing>>
  /\ step = "idle" /\ outcome # <<>> /\ ~chatted => ~Advice!ShouldRunLlm

\* What the LLM was sent and said.
SaidInv ==
  /\ decision # <<>> => decision[1].confidence \in 0..100 /\ decision[1].type # "delete_everything"
  /\ prompt # <<>> => \E p \in ThreePrompts : prompt = <<Advice!FitContext(p)>>

\* Each call of the provider over HTTP has left its status.
CallsInv ==
  /\ attempt \in Nat /\ statuses \in Seq(Statuses) /\ Advice!CallsBounded
  /\ Asking /\ asking = "jev" => /\ Len(statuses) = attempt /\ attempt <= Retries
                                 /\ \A i \in 1..Len(statuses) : statuses[i] \in Advice!Retryable
  /\ Asking /\ asking = "laya" /\ config.provider = "laya" => statuses = <<>>

AdviceInv == ToldInv /\ WeighedInv /\ SaidInv /\ CallsInv

LEMMA AdviceInitially == Init => AdviceInv
<1> SUFFICES ASSUME Init PROVE AdviceInv
  OBVIOUS
<1>1. Advice!Init
  BY DEF Init, AdviceInit
<1>2. /\ config \in Advice!Configs
      /\ step = "idle" /\ attempt = 0 /\ answers = <<>> /\ outcome = <<>> /\ decision = <<>>
      /\ prompt = <<>> /\ told = {} /\ statuses = <<>>
  BY <1>1 DEF Advice!Init
<1>3. ToldInv /\ WeighedInv /\ SaidInv
  BY <1>2 DEF ToldInv, WeighedInv, SaidInv, Asking
<1>4. statuses \in Seq(Statuses) /\ Len(statuses) = 0
  BY <1>2, EmptySeq
<1>5. CallsInv
  BY <1>2, <1>4, AdviceAssumption DEF CallsInv, Advice!CallsBounded, AdviceAssumption, Asking
<1> QED  BY <1>3, <1>5 DEF AdviceInv

\* Which replies are valid depends on the settings alone.
LEMMA ValidStays ==
  ASSUME config' = config
  PROVE  /\ Advice!RawSets' = Advice!RawSets
         /\ \A raw : Advice!ValidAnswers(raw)' <=> Advice!ValidAnswers(raw)
  BY DEF Advice!RawSets, Advice!Severities, Advice!ValidAnswers, Advice!ValidAnswer, Advice!TypeOf,
         Advice!Noul, Advice!Questions, Advice!Probability

\* A provider has answered, or has failed.
LEMMA ReturnsTold ==
  ASSUME ToldInv, Asking, config' = config, NEW got, Advice!AskReturns(got),
         NEW N, told' = told \cup N, N \in SUBSET ({asking} \X Advice!RawSets),
         \/ got = <<>> /\ \A t \in N : ~Valid(t)
         \/ \E t \in N : N = {t} /\ Valid(t) /\ got = <<Given(t)>>
  PROVE  ToldInv' /\ step' \in {"ask", "weigh"}
<1> DEFINE c == config
<1>1. /\ c.provider \in {"jev", "laya"} /\ c.fallback \in {"jev", "laya", "none"}
      /\ c.fallback # c.provider /\ c \in Advice!Configs
  BY ConfigIs DEF ToldInv
<1>2. /\ answers' = IF got # <<>> THEN got ELSE answers
      /\ \/ /\ step' = "ask" /\ asking' = c.fallback /\ asking = c.provider /\ c.fallback # "none"
            /\ got # <<>> => c.onLow
         \/ step' = "weigh" /\ asking' = asking
  BY DEF Advice!AskReturns, Advice!WantsFallback
<1>3. \A t \in told : t[1] = c.provider /\ asking = c.fallback
  BY DEF ToldInv
<1>4. \A t \in told : Valid(t) => c.onLow
  BY <1>1, <1>3 DEF ToldInv
<1>5. \A t \in N : t[1] = asking /\ t[2] \in Advice!RawSets
  OBVIOUS
<1>6. asking \in {c.provider, c.fallback} /\ asking # "none"
  BY DEF ToldInv
<1> HIDE DEF c
<1>7. \A t : Valid(t)' <=> Valid(t)
  BY ValidStays DEF Valid
<1>8. ASSUME NEW t \in told'
      PROVE  /\ t[1] \in {c.provider, c.fallback} /\ t[2] \in Advice!RawSets
             /\ Asking' => asking' = c.fallback /\ t[1] = c.provider
             /\ t[1] = c.fallback => asking' = c.fallback
             /\ Valid(t) /\ t[1] = c.provider /\ ~c.onLow =>
                   asking' = c.provider /\ answers' # <<>> /\ answers'[1].source = c.provider
             /\ Valid(t) /\ t[1] = c.fallback => answers' # <<>> /\ answers'[1].source = c.fallback
  <2>1. CASE t \in told
    <3>1. t[1] \in {c.provider, c.fallback} /\ t[2] \in Advice!RawSets
      BY <2>1 DEF ToldInv, c
    <3>2. t[1] = c.provider /\ asking = c.fallback /\ (Valid(t) => c.onLow)
      BY <1>3, <1>4, <2>1
    <3> QED  BY <1>1, <1>2, <3>1, <3>2 DEF Asking
  <2>2. CASE t \in N
    <3>1. t[1] = asking /\ t[2] \in Advice!RawSets
      BY <1>5, <2>2
    <3>2. Valid(t) => got # <<>> /\ got[1].source = asking
      BY <2>2, <3>1 DEF Given
    <3> QED  BY <1>1, <1>2, <1>6, <3>1, <3>2 DEF Asking
  <2> QED  BY <2>1, <2>2
<1>9. IF answers' = <<>> THEN \A t \in told' : ~Valid(t)
      ELSE \E t \in told' : Valid(t) /\ answers' = <<Given(t)>>
  <2>1. CASE got = <<>>
    <3>1. \A t \in N : ~Valid(t)
      BY <2>1
    <3> QED  BY <1>2, <2>1, <3>1 DEF ToldInv
  <2>2. CASE got # <<>>
    <3>1. PICK t \in N : Valid(t) /\ got = <<Given(t)>>
      BY <2>2
    <3> QED  BY <1>2, <2>2, <3>1
  <2> QED  BY <2>1, <2>2
<1>10. Asking' => asking' \in {c.provider, c.fallback} /\ asking' # "none"
  BY <1>2, <1>6
<1>11. ToldInv'
  <2>1. config' = c /\ Advice!Configs' = Advice!Configs
    BY DEF c, Advice!Configs
  <2> QED  BY <1>1, <1>7, <1>8, <1>9, <1>10, <2>1, ValidStays DEF ToldInv, Given
<1> QED  BY <1>2, <1>11

LEMMA AppendIs ==
  ASSUME NEW S, NEW q \in Seq(S), NEW x \in S
  PROVE  /\ Append(q, x) \in Seq(S) /\ Len(Append(q, x)) = Len(q) + 1 /\ Len(q) \in Nat
         /\ \A i \in 1..Len(q) : Append(q, x)[i] = q[i]
         /\ Append(q, x)[Len(q) + 1] = x
  OBVIOUS

\* The calls of a provider stay within their limit when it has returned.
LEMMA ReturnsCalls ==
  ASSUME ToldInv, CallsInv, Asking, config' = config, NEW got, Advice!AskReturns(got),
         \/ statuses' = statuses
         \/ asking = "jev" /\ \E x \in Statuses : statuses' = Append(statuses, x)
  PROVE  CallsInv'
<1> DEFINE c == config
<1>1. /\ c.provider \in {"jev", "laya"} /\ c.fallback \in {"jev", "laya", "none"}
      /\ c.fallback # c.provider
  BY ConfigIs DEF ToldInv
<1>2. /\ attempt' = 0
      /\ \/ step' = "ask" /\ asking' = c.fallback /\ asking = c.provider
         \/ step' = "weigh" /\ asking' = asking
  BY DEF Advice!AskReturns, Advice!WantsFallback
<1>3. Retries \in Nat
  BY AdviceAssumption DEF AdviceAssumption
<1>4. config' = c
  OBVIOUS
<1> HIDE DEF c
<1>5. CASE statuses' = statuses
  <2>1. Advice!CallsBounded'
    BY <1>5 DEF CallsInv, Advice!CallsBounded, Advice!Retryable
  <2>2. Asking' /\ asking' = "jev" => statuses = <<>>
    BY <1>1, <1>2 DEF CallsInv, Asking, c
  <2>3. statuses = <<>> => Len(statuses) = 0
    BY EmptySeq
  <2>4. Asking' => ~(asking' = "laya" /\ c.provider = "laya")
    BY <1>1, <1>2 DEF Asking
  <2> QED  BY <1>2, <1>3, <1>4, <1>5, <2>1, <2>2, <2>3, <2>4 DEF CallsInv, Statuses
<1>6. CASE asking = "jev" /\ \E x \in Statuses : statuses' = Append(statuses, x)
  <2>1. PICK x \in Statuses : statuses' = Append(statuses, x)
    BY <1>6
  <2>2. /\ statuses \in Seq(Statuses) /\ Len(statuses) = attempt /\ attempt <= Retries /\ attempt \in Nat
        /\ \A i \in 1..Len(statuses) : statuses[i] \in Advice!Retryable
    BY <1>6 DEF CallsInv
  <2>3. /\ statuses' \in Seq(Statuses) /\ Len(statuses') = attempt + 1
        /\ \A i \in 1..attempt : statuses'[i] \in Advice!Retryable
    BY <2>1, <2>2, AppendIs
  <2>4. Len(statuses') <= Retries + 1 /\ Len(statuses') - 1 = attempt
    BY <1>3, <2>2, <2>3
  <2>5. Advice!CallsBounded'
    BY <2>3, <2>4 DEF Advice!CallsBounded, Advice!Retryable
  <2>6. Asking' => asking' # "jev" /\ ~(asking' = "laya" /\ c.provider = "laya")
    BY <1>1, <1>2, <1>6 DEF Asking
  <2> QED  BY <1>2, <1>4, <2>3, <2>5, <2>6 DEF CallsInv, Statuses
<1> QED  BY <1>5, <1>6

LEMMA Returns ==
  ASSUME AdviceInv, Asking, Advice!Quiet, NEW got, Advice!AskReturns(got),
         NEW N, told' = told \cup N, N \in SUBSET ({asking} \X Advice!RawSets),
         \/ got = <<>> /\ \A t \in N : ~Valid(t)
         \/ \E t \in N : N = {t} /\ Valid(t) /\ got = <<Given(t)>>,
         \/ statuses' = statuses
         \/ asking = "jev" /\ \E x \in Statuses : statuses' = Append(statuses, x)
  PROVE  AdviceInv'
<1>1. /\ config' = config /\ outcome' = outcome /\ decision' = decision /\ prompt' = prompt
      /\ chatted' = chatted
  BY DEF Advice!Quiet
<1>2. ToldInv /\ WeighedInv /\ SaidInv /\ CallsInv
  BY DEF AdviceInv
<1>3. ToldInv' /\ step' \in {"ask", "weigh"}
  BY <1>1, <1>2, ReturnsTold
<1>4. CallsInv'
  BY <1>1, <1>2, ReturnsCalls
<1>5. WeighedInv'
  BY <1>1, <1>2, <1>3 DEF WeighedInv, Asking
<1>6. SaidInv'
  BY <1>1, <1>2 DEF SaidInv
<1> QED  BY <1>3, <1>4, <1>5, <1>6 DEF AdviceInv

LEMMA AskKept == AdviceInv /\ Advice!Ask => AdviceInv'
<1> SUFFICES ASSUME AdviceInv, Advice!Ask PROVE AdviceInv'
  OBVIOUS
<1>1. step = "ask" /\ Asking /\ Advice!Quiet /\ told' = told /\ statuses' = statuses
  BY DEF Advice!Ask, Asking
<1>2. CASE Advice!Fails
  <2>1. Advice!AskReturns(<<>>) /\ told' = told \cup {}
    BY <1>1, <1>2 DEF Advice!Fails
  <2> QED  BY <1>1, <2>1, Returns
<1>3. CASE step' = "call" /\ UNCHANGED <<asking, attempt, answers, errors>>
  <2>1. /\ config' = config /\ outcome' = outcome /\ decision' = decision /\ prompt' = prompt
        /\ chatted' = chatted
    BY <1>1 DEF Advice!Quiet
  <2>2. ToldInv'
    BY <1>1, <1>3, <2>1, ValidStays DEF AdviceInv, ToldInv, Asking, Valid, Advice!Configs
  <2>3. WeighedInv' /\ SaidInv'
    BY <1>1, <1>3, <2>1 DEF AdviceInv, WeighedInv, SaidInv, Asking
  <2>4. CallsInv'
    BY <1>1, <1>3, <2>1 DEF AdviceInv, CallsInv, Asking, Advice!CallsBounded
  <2> QED  BY <2>2, <2>3, <2>4 DEF AdviceInv
<1> QED  BY <1>2, <1>3 DEF Advice!Ask

\* A call fails for good, or is tried again.
LEMMA JevCallKept ==
  ASSUME AdviceInv, NEW x \in Statuses, Advice!JevCall(x)
  PROVE  AdviceInv'
<1>1. /\ step = "call" /\ asking = "jev" /\ Asking /\ Advice!Quiet /\ told' = told
      /\ statuses' = Append(statuses, x)
  BY DEF Advice!JevCall, Asking
<1>2. CASE Advice!Fails
  <2>1. Advice!AskReturns(<<>>) /\ told' = told \cup {}
    BY <1>1, <1>2 DEF Advice!Fails
  <2> QED  BY <1>1, <2>1, Returns
<1>3. CASE ~Advice!Fails
  <2>1. /\ x \in Advice!Retryable /\ attempt < Retries /\ attempt' = attempt + 1
        /\ UNCHANGED <<step, asking, answers, errors>>
    BY <1>3 DEF Advice!JevCall, Advice!RetriesCall
  <2>2. /\ config' = config /\ outcome' = outcome /\ decision' = decision /\ prompt' = prompt
        /\ chatted' = chatted
    BY <1>1 DEF Advice!Quiet
  <2>3. ToldInv'
    BY <1>1, <2>1, <2>2, ValidStays DEF AdviceInv, ToldInv, Asking, Valid, Advice!Configs
  <2>4. WeighedInv' /\ SaidInv'
    BY <1>1, <2>1, <2>2 DEF AdviceInv, WeighedInv, SaidInv, Asking
  <2>5. /\ statuses \in Seq(Statuses) /\ Len(statuses) = attempt /\ attempt \in Nat /\ Retries \in Nat
        /\ \A i \in 1..Len(statuses) : statuses[i] \in Advice!Retryable
    BY <1>1, AdviceAssumption DEF AdviceInv, CallsInv, AdviceAssumption
  <2>6. /\ statuses' \in Seq(Statuses) /\ Len(statuses') = attempt + 1
        /\ \A i \in 1..attempt : statuses'[i] \in Advice!Retryable
        /\ statuses'[attempt + 1] \in Advice!Retryable
    BY <1>1, <2>1, <2>5, AppendIs
  <2>7. \A i \in 1..Len(statuses') : statuses'[i] \in Advice!Retryable
    <3>1. \A i \in 1..(attempt + 1) : i \in 1..attempt \/ i = attempt + 1
      BY <2>5
    <3> QED  BY <2>6, <3>1
  <2>8. attempt' \in Nat /\ attempt' <= Retries /\ Len(statuses') = attempt' /\ Len(statuses') <= Retries + 1
    BY <2>1, <2>5, <2>6
  <2>9. \A i \in 1..(Len(statuses') - 1) : i \in 1..Len(statuses')
    <3>1. Len(statuses') \in Nat
      BY <2>8
    <3> QED  BY <3>1
  <2>10. CallsInv'
    BY <1>1, <2>1, <2>6, <2>7, <2>8, <2>9 DEF CallsInv, Advice!CallsBounded, Asking, Advice!Retryable, Statuses
  <2> QED  BY <2>3, <2>4, <2>10 DEF AdviceInv
<1> QED  BY <1>2, <1>3

\* A provider replies, and the reply is accepted if it validates.
LEMMA RepliesKept ==
  ASSUME AdviceInv, Asking, Advice!Quiet, NEW raw \in Advice!RawSets, Advice!Replies(raw),
         \/ statuses' = statuses
         \/ asking = "jev" /\ \E x \in Statuses : statuses' = Append(statuses, x)
  PROVE  AdviceInv'
<1> DEFINE t == <<asking, raw>>
<1>1. told' = told \cup {t} /\ {t} \in SUBSET ({asking} \X Advice!RawSets) /\ t[1] = asking /\ t[2] = raw
  BY DEF Advice!Replies
<1>2. CASE Advice!ValidAnswers(raw)
  <2>1. Advice!AskReturns(<<Given(t)>>)
    BY <1>2 DEF Advice!Replies, Given
  <2>2. Valid(t)
    BY <1>2 DEF Valid
  <2> HIDE DEF t
  <2> QED  BY <1>1, <2>1, <2>2, Returns
<1>3. CASE ~Advice!ValidAnswers(raw)
  <2>1. Advice!AskReturns(<<>>)
    BY <1>3 DEF Advice!Replies, Advice!Fails
  <2>2. ~Valid(t)
    BY <1>3 DEF Valid
  <2> HIDE DEF t
  <2> QED  BY <1>1, <2>1, <2>2, Returns
<1> QED  BY <1>2, <1>3

LEMMA AnswersKept ==
  AdviceInv /\ (Advice!JevAnswers \/ Advice!LayaAnswers \/ Advice!LayaFails) => AdviceInv'
<1>1. ASSUME AdviceInv, Advice!JevAnswers PROVE AdviceInv'
  <2>1. PICK raw \in Advice!RawSets : Advice!Replies(raw)
    BY <1>1 DEF Advice!JevAnswers
  <2>2. Asking /\ asking = "jev" /\ Advice!Quiet /\ statuses' = Append(statuses, "200") /\ "200" \in Statuses
    BY <1>1 DEF Advice!JevAnswers, Asking, Statuses
  <2> QED  BY <1>1, <2>1, <2>2, RepliesKept
<1>2. ASSUME AdviceInv, Advice!LayaAnswers PROVE AdviceInv'
  <2>1. PICK raw \in Advice!RawSets : Advice!Replies(raw)
    BY <1>2 DEF Advice!LayaAnswers
  <2>2. Asking /\ Advice!Quiet /\ statuses' = statuses
    BY <1>2 DEF Advice!LayaAnswers, Asking
  <2> QED  BY <1>2, <2>1, <2>2, RepliesKept
<1>3. ASSUME AdviceInv, Advice!LayaFails PROVE AdviceInv'
  <2>1. /\ Asking /\ Advice!Quiet /\ statuses' = statuses /\ told' = told \cup {}
        /\ Advice!AskReturns(<<>>)
    BY <1>3 DEF Advice!LayaFails, Advice!Fails, Asking
  <2> QED  BY <1>3, <2>1, Returns
<1> QED  BY <1>1, <1>2, <1>3

LEMMA AssessKept == AdviceInv /\ Advice!Assess => AdviceInv'
<1> SUFFICES ASSUME AdviceInv, Advice!Assess PROVE AdviceInv'
  OBVIOUS
<1>1. /\ step' = "ask" /\ asking' = config.provider /\ attempt' = 0 /\ answers' = <<>>
      /\ outcome' = <<>> /\ decision' = <<>> /\ prompt' = <<>> /\ told' = {} /\ statuses' = <<>>
      /\ chatted' = FALSE /\ config' = config
  BY DEF Advice!Assess
<1>2. config \in Advice!Configs /\ config.provider \in {"jev", "laya"}
  BY ConfigIs DEF AdviceInv, ToldInv
<1>3. ToldInv' /\ WeighedInv' /\ SaidInv'
  BY <1>1, <1>2 DEF ToldInv, WeighedInv, SaidInv, Asking, Advice!Configs
<1>4. statuses' \in Seq(Statuses) /\ Len(statuses') = 0
  BY <1>1, EmptySeq
<1>5. CallsInv'
  BY <1>1, <1>4, AdviceAssumption DEF CallsInv, Advice!CallsBounded, AdviceAssumption, Asking,
     Advice!Retryable, Statuses
<1> QED  BY <1>3, <1>5 DEF AdviceInv

\* The outcome is what the answers weigh, and no more is asked.
LEMMA WeighKept == AdviceInv /\ Advice!Weigh => AdviceInv'
<1> SUFFICES ASSUME AdviceInv, Advice!Weigh PROVE AdviceInv'
  OBVIOUS
<1>1. /\ step = "weigh" /\ step' = "gate" /\ config' = config /\ asking' = asking
      /\ attempt' = attempt /\ answers' = answers /\ decision' = decision /\ prompt' = prompt
      /\ told' = told /\ statuses' = statuses /\ chatted' = chatted
  BY DEF Advice!Weigh
<1>2. outcome' = <<Weighing>>
  BY DEF Advice!Weigh, Weighing
<1>3. Weighing' = Weighing
  BY <1>1 DEF Weighing, Advice!Disposition, Advice!Certainty
<1>4. ToldInv'
  BY <1>1, ValidStays DEF AdviceInv, ToldInv, Asking, Valid, Given, Advice!Configs
<1>5. ~chatted
  BY <1>1 DEF AdviceInv, WeighedInv
<1> HIDE DEF Weighing
<1>6. WeighedInv'
  BY <1>1, <1>2, <1>3, <1>5 DEF WeighedInv, Asking
<1>7. SaidInv'
  BY <1>1 DEF AdviceInv, SaidInv
<1>8. CallsInv'
  BY <1>1 DEF AdviceInv, CallsInv, Asking, Advice!CallsBounded, Advice!Retryable, Statuses
<1> QED  BY <1>4, <1>6, <1>7, <1>8 DEF AdviceInv

LEMMA GateKept == AdviceInv /\ Advice!Gate => AdviceInv'
<1> SUFFICES ASSUME AdviceInv, Advice!Gate PROVE AdviceInv'
  OBVIOUS
<1>1. /\ step = "gate" /\ step' = (IF Advice!ShouldRunLlm THEN "chat" ELSE "idle")
      /\ config' = config /\ asking' = asking /\ outcome' = outcome
      /\ attempt' = attempt /\ answers' = answers /\ decision' = decision /\ prompt' = prompt
      /\ told' = told /\ statuses' = statuses /\ chatted' = chatted
  BY DEF Advice!Gate
<1>2. Weighing' = Weighing /\ (Advice!ShouldRunLlm' <=> Advice!ShouldRunLlm)
  BY <1>1 DEF Weighing, Advice!Disposition, Advice!Certainty, Advice!ShouldRunLlm, Advice!Decisive
<1>3. ToldInv'
  BY <1>1, ValidStays DEF AdviceInv, ToldInv, Asking, Valid, Given, Advice!Configs
<1>4. WeighedInv'
  BY <1>1, <1>2 DEF AdviceInv, WeighedInv, Asking
<1>5. SaidInv'
  BY <1>1 DEF AdviceInv, SaidInv
<1>6. CallsInv'
  BY <1>1 DEF AdviceInv, CallsInv, Asking, Advice!CallsBounded, Advice!Retryable, Statuses
<1> QED  BY <1>3, <1>4, <1>5, <1>6 DEF AdviceInv

LEMMA Clamped ==
  ASSUME NEW m \in Int, m <= 100
  PROVE  Advice!Max({0, m}) \in 0..100
<1>1. Advice!Max({0, m}) = IF 0 >= m THEN 0 ELSE m
  BY AdviceMax
<1> QED  BY <1>1

\* What the LLM says of itself is clamped, and of no unknown type.
LEMMA DecisionIs ==
  ASSUME NEW reply \in Advice!ModelReplies, reply # <<>>
  PROVE  /\ Advice!ValidateDecision(reply[1]).confidence \in 0..100
         /\ Advice!ValidateDecision(reply[1]).type # "delete_everything"
<1>1. PICK t \in {"escalate", "delete_everything"}, c \in {150, 99, Advice!NotANumber} :
        reply = <<[type |-> t, confidence |-> c]>>
  BY DEF Advice!ModelReplies
<1> DEFINE d == [type |-> t, confidence |-> c]
<1>2. reply[1] = d /\ d.type = t /\ d.confidence = c /\ c \in Int
  BY <1>1 DEF Advice!NotANumber
<1>3. Advice!Min({100, c}) \in Int /\ Advice!Min({100, c}) <= 100
  BY <1>2, AdviceMin
<1>4. Advice!Max({0, Advice!Min({100, c})}) \in 0..100
  BY <1>3, Clamped
<1> HIDE DEF d
<1> QED  BY <1>2, <1>4 DEF Advice!ValidateDecision

LEMMA ChatKept ==
  ASSUME AdviceInv, Advice!Prompt, step' \in {"idle", "raised"},
         decision' = <<>> \/ \E reply \in Advice!ModelReplies :
            reply # <<>> /\ decision' = <<Advice!ValidateDecision(reply[1])>>
  PROVE  AdviceInv'
<1>1. /\ step = "chat" /\ chatted' = TRUE /\ config' = config /\ outcome' = outcome
      /\ told' = {} /\ statuses' = <<>> /\ answers' = <<>> /\ attempt' = attempt
      /\ asking' = asking
      /\ \E p \in ThreePrompts : prompt' = <<Advice!FitContext(p)>>
  BY DEF Advice!Prompt
<1>2. ToldInv' /\ WeighedInv'
  BY <1>1 DEF AdviceInv, ToldInv, WeighedInv, Asking, Advice!Configs
<1>3. decision' # <<>> =>
        decision'[1].confidence \in 0..100 /\ decision'[1].type # "delete_everything"
  <2>1. CASE decision' = <<>>
    BY <2>1
  <2>2. ASSUME NEW reply \in Advice!ModelReplies, reply # <<>>,
               decision' = <<Advice!ValidateDecision(reply[1])>>
        PROVE  decision'[1].confidence \in 0..100 /\ decision'[1].type # "delete_everything"
    <3>1. decision'[1] = Advice!ValidateDecision(reply[1])
      BY <2>2
    <3> QED  BY <2>2, <3>1, DecisionIs
  <2> QED  BY <2>1, <2>2
<1>4. SaidInv'
  <2>1. PICK p \in ThreePrompts : prompt' = <<Advice!FitContext(p)>>
    BY <1>1
  <2> QED  BY <1>3, <2>1 DEF SaidInv
<1>5. statuses' \in Seq(Statuses) /\ Len(statuses') = 0
  BY <1>1, EmptySeq
<1>6. CallsInv'
  BY <1>1, <1>5, AdviceAssumption DEF AdviceInv, CallsInv, Advice!CallsBounded, AdviceAssumption, Asking,
     Advice!Retryable, Statuses
<1> QED  BY <1>2, <1>4, <1>6 DEF AdviceInv

LEMMA AdviceUnchanged == AdviceInv /\ UNCHANGED adviceVars => AdviceInv'
<1> SUFFICES ASSUME AdviceInv, UNCHANGED adviceVars PROVE AdviceInv'
  OBVIOUS
<1>1. /\ config' = config /\ step' = step /\ asking' = asking /\ outcome' = outcome
      /\ attempt' = attempt /\ answers' = answers /\ decision' = decision /\ prompt' = prompt
      /\ told' = told /\ statuses' = statuses /\ chatted' = chatted
  BY DEF adviceVars
<1>2. Weighing' = Weighing /\ (Advice!ShouldRunLlm' <=> Advice!ShouldRunLlm)
  BY <1>1 DEF Weighing, Advice!Disposition, Advice!Certainty, Advice!ShouldRunLlm, Advice!Decisive
<1>3. ToldInv'
  BY <1>1, ValidStays DEF AdviceInv, ToldInv, Asking, Valid, Given, Advice!Configs
<1>4. WeighedInv' /\ SaidInv'
  BY <1>1, <1>2 DEF AdviceInv, WeighedInv, SaidInv, Asking
<1>5. CallsInv'
  BY <1>1 DEF AdviceInv, CallsInv, Asking, Advice!CallsBounded, Advice!Retryable, Statuses
<1> QED  BY <1>3, <1>4, <1>5 DEF AdviceInv

LEMMA AdviceSteps == AdviceInv /\ Advice!Next => AdviceInv'
<1> SUFFICES ASSUME AdviceInv, Advice!Next PROVE AdviceInv'
  OBVIOUS
<1>1. ASSUME NEW x \in Advice!Retryable \cup {"401", "422", "404", "unreachable"}, Advice!JevCall(x)
      PROVE  AdviceInv'
  <2>1. x \in Statuses
    BY DEF Advice!Retryable, Statuses
  <2> QED  BY <1>1, <2>1, JevCallKept
<1>2. ASSUME NEW reply \in Advice!ModelReplies, Advice!Chat(reply) PROVE AdviceInv'
  BY <1>2, ChatKept DEF Advice!Chat
<1>3. ASSUME Advice!ChatRaises PROVE AdviceInv'
  BY <1>3, ChatKept DEF Advice!ChatRaises
<1> QED  BY <1>1, <1>2, <1>3, AssessKept, AskKept, AnswersKept, WeighKept, GateKept DEF Advice!Next

\* How sure an answer is: that of the verdict, as far as it is from a coin's.
LEMMA CertaintyIs ==
  ASSUME config.severity \in {"choice", "score"}, NEW raw \in Advice!RawSets, Advice!ValidAnswers(raw),
         NEW c, c = Advice!Certainty(Advice!NormalizeAnswers(raw))
  PROVE  /\ c \in Int
         /\ c <= Advice!Max({raw["malicious"].num, 100 - raw["malicious"].num})
         /\ Advice!NormalizeAnswers(raw)["needs_llm_analysis"].value = raw["needs_llm_analysis"].num
<1> DEFINE a == Advice!NormalizeAnswers(raw)
           m == raw["malicious"]
           s == raw["severity"]
<1>1. /\ DOMAIN raw = Advice!Questions
      /\ Advice!ValidAnswer("severity", s) /\ m.type = "noul" /\ raw["needs_llm_analysis"].type = "noul"
      /\ m.num \in 0..100 /\ s.num \in Int /\ s.conf \in Int
  BY RawIs DEF Advice!Questions, Advice!ValidAnswers
<1>2. /\ a["malicious"] = Advice!NormalizeAnswer(m) /\ a["severity"] = Advice!NormalizeAnswer(s)
      /\ a["needs_llm_analysis"] = Advice!NormalizeAnswer(raw["needs_llm_analysis"])
  BY <1>1 DEF Advice!NormalizeAnswers, Advice!Questions
<1>3. /\ Advice!NormalizeAnswer(m).certainty = Advice!Max({m.num, 100 - m.num})
      /\ Advice!NormalizeAnswer(raw["needs_llm_analysis"]).value = raw["needs_llm_analysis"].num
  BY <1>1 DEF Advice!NormalizeAnswer
<1>4. Advice!NormalizeAnswer(s).certainty \in Int
  <2>1. s.type \in {"noul", "choice", "score"}
    BY <1>1 DEF Advice!ValidAnswer, Advice!TypeOf
  <2>2. /\ s.type = "noul" => Advice!NormalizeAnswer(s).certainty = Advice!Max({s.num, 100 - s.num})
        /\ s.type = "choice" => Advice!NormalizeAnswer(s).certainty = Advice!Max({s.conf, 0})
        /\ s.type = "score" => Advice!NormalizeAnswer(s).certainty = s.conf
    BY DEF Advice!NormalizeAnswer
  <2> HIDE DEF s
  <2>3. Advice!Max({s.num, 100 - s.num}) \in Int /\ Advice!Max({s.conf, 0}) \in Int
    BY <1>1, AdviceMax
  <2> QED  BY <1>1, <2>1, <2>2, <2>3
<1> DEFINE x == Advice!NormalizeAnswer(m).certainty
           y == Advice!NormalizeAnswer(s).certainty
<1>5. x \in Int /\ x = Advice!Max({m.num, 100 - m.num})
  <2>1. m.num \in Int /\ 100 - m.num \in Int
    BY <1>1
  <2> HIDE DEF m
  <2> QED  BY <1>3, <2>1, AdviceMax
<1>6. c = Advice!Min({x, y})
  BY <1>2 DEF Advice!Certainty
<1> HIDE DEF a, x, y
<1>7. c = IF x <= y THEN x ELSE y
  BY <1>4, <1>5, <1>6, AdviceMin DEF y
<1> QED  BY <1>2, <1>3, <1>4, <1>5, <1>7 DEF a, y

\* What the invariant says is what is promised.
LEMMA AdviceReplies == AdviceInv => Advice!AdviceIsAReply
<1> SUFFICES ASSUME AdviceInv, outcome # <<>>, ~chatted,
                    NEW valid, valid = {t \in told : Valid(t)},
                    NEW primary, primary = {t \in valid : t[1] = config.provider}
             PROVE  /\ outcome[1].disposition = "unavailable" <=> valid = {}
                    /\ valid # {} => \E t \in valid :
                          /\ outcome[1].advice[1] = Given(t)
                          /\ \A q \in Advice!Questions : t[2][q].num \in -1..100 /\ t[2][q].conf \in -1..100
                    /\ primary # {} /\ ~config.onLow => outcome[1].advice[1].source = config.provider
                    /\ outcome[1].fallback <=> \E t \in valid : t[1] = config.fallback
  BY DEF Advice!AdviceIsAReply, Valid, Given
<1>1. outcome = <<Weighing>> /\ outcome[1] = Weighing
  BY DEF AdviceInv, WeighedInv
<1>2. config.severity \in {"choice", "score"}
  BY ConfigIs DEF AdviceInv, ToldInv
<1>3. CASE answers = <<>>
  <2>1. valid = {}
    BY <1>3 DEF AdviceInv, ToldInv
  <2>2. Weighing.disposition = "unavailable" /\ Weighing.fallback = FALSE
    BY <1>3 DEF Weighing
  <2> QED  BY <1>1, <2>1, <2>2
<1>4. CASE answers # <<>>
  <2>1. PICK t \in told : Valid(t) /\ answers = <<Given(t)>>
    BY <1>4 DEF AdviceInv, ToldInv
  <2>2. /\ Weighing.disposition = Advice!Disposition(Advice!Certainty(answers[1].given))
        /\ Weighing.fallback = (answers[1].source = config.fallback) /\ Weighing.advice = answers
    BY <1>4 DEF Weighing
  <2>3. Weighing.disposition # "unavailable"
    BY <2>2 DEF Advice!Disposition
  <2>4. \A q \in Advice!Questions : t[2][q].num \in -1..100 /\ t[2][q].conf \in -1..100
    <3>1. t[2] \in Advice!RawSets /\ Advice!ValidAnswers(t[2])
      BY <2>1 DEF AdviceInv, ToldInv, Valid
    <3> QED  BY <1>2, <3>1, RawIs
  <2>5. answers[1] = Given(t) /\ t \in valid
    BY <2>1
  <2>6. primary # {} /\ ~config.onLow => answers[1].source = config.provider
    BY DEF AdviceInv, ToldInv
  <2>7. answers[1].source = config.fallback <=> \E u \in valid : u[1] = config.fallback
    <3>1. answers[1].source = t[1]
      BY <2>1 DEF Given
    <3>2. \A u \in valid : u[1] = config.fallback => answers[1].source = config.fallback
      BY DEF AdviceInv, ToldInv
    <3> QED  BY <2>5, <3>1, <3>2
  <2> QED  BY <1>1, <2>2, <2>3, <2>4, <2>5, <2>6, <2>7
<1> QED  BY <1>3, <1>4

LEMMA AdviceGates == AdviceInv => Advice!OnlyDecisiveAdviceGates
<1> SUFFICES ASSUME AdviceInv, step = "idle", outcome # <<>>, ~chatted
             PROVE  /\ config.gate /\ outcome[1].disposition = "accepted"
                    /\ \E t \in told : /\ Valid(t) /\ t[2]["needs_llm_analysis"].num <= 100 - Accept
                                       /\ t[2]["malicious"].num \notin (100 - Accept + 1)..(Accept - 1)
  BY DEF Advice!OnlyDecisiveAdviceGates, AdviceInv, SaidInv, Valid
<1>1. outcome = <<Weighing>> /\ outcome[1] = Weighing /\ ~Advice!ShouldRunLlm
  BY DEF AdviceInv, WeighedInv
<1>2. config.severity \in {"choice", "score"}
  BY ConfigIs DEF AdviceInv, ToldInv
<1>3. config.gate /\ Weighing.disposition = "accepted" /\ Advice!Decisive(Weighing.advice[1].given)
  BY <1>1 DEF Advice!ShouldRunLlm
<1>4. answers # <<>>
  BY <1>3 DEF Weighing
<1>5. PICK t \in told : Valid(t) /\ answers = <<Given(t)>>
  BY <1>4 DEF AdviceInv, ToldInv
<1> DEFINE raw == t[2]
           c == Advice!Certainty(Advice!NormalizeAnswers(raw))
           m == raw["malicious"].num
<1>6. raw \in Advice!RawSets /\ Advice!ValidAnswers(raw)
  BY <1>5 DEF AdviceInv, ToldInv, Valid
<1>7. Weighing.advice[1].given = Advice!NormalizeAnswers(raw) /\ Weighing.disposition = Advice!Disposition(c)
  BY <1>4, <1>5 DEF Weighing, Given
<1>8. Accept \in Int /\ m \in 0..100
  BY <1>2, <1>6, RawIs, AdviceAssumption DEF AdviceAssumption
<1>9. /\ c \in Int /\ c <= Advice!Max({m, 100 - m})
      /\ Advice!NormalizeAnswers(raw)["needs_llm_analysis"].value = raw["needs_llm_analysis"].num
  <2> HIDE DEF raw
  <2> QED  BY <1>2, <1>6, CertaintyIs
<1>10. raw["needs_llm_analysis"].num <= 100 - Accept
  BY <1>3, <1>7, <1>9 DEF Advice!Decisive
<1>11. c >= Accept
  BY <1>3, <1>7 DEF Advice!Disposition
<1> HIDE DEF c, m
<1>12. Advice!Max({m, 100 - m}) = IF m >= 100 - m THEN m ELSE 100 - m
  BY <1>8, AdviceMax
<1>13. m \notin (100 - Accept + 1)..(Accept - 1)
  BY <1>8, <1>9, <1>11, <1>12
<1> QED  BY <1>1, <1>3, <1>5, <1>10, <1>13 DEF m

LEMMA AdviceGives == AdviceInv => AdviceSound
<1> SUFFICES ASSUME AdviceInv PROVE AdviceSound
  OBVIOUS
<1>1. Advice!PromptFits
  <2> SUFFICES ASSUME prompt # <<>>
               PROVE  LET p == prompt[1].of
                      IN  /\ p.budget >= 2 * Marker + 1 => prompt[1].system + prompt[1].user <= p.budget
                          /\ \A k \in 0..Advice!Min({EvidenceCap, Len(p.user) - 1}) :
                               Advice!Fits(p, k) => k <= prompt[1].kept
    BY Zenon DEF Advice!PromptFits
  <2>1. PICK p \in ThreePrompts : prompt = <<Advice!FitContext(p)>>
    BY DEF AdviceInv, SaidInv
  <2> DEFINE sent == Advice!FitContext(p)
  <2>2. prompt[1] = sent
    BY <2>1
  <2>3. Grows(p)
    BY PromptsGrow
  <2> HIDE DEF sent
  <2>4. /\ sent.of = p
        /\ p.budget >= 2 * Marker + 1 => sent.system + sent.user <= p.budget
        /\ \A k \in 0..Advice!Min({EvidenceCap, Len(p.user) - 1}) : Advice!Fits(p, k) => k <= sent.kept
    BY <2>3, PromptGoodly, AdviceAssumption DEF sent
  <2> QED  BY <2>2, <2>4
<1> QED  BY <1>1, AdviceReplies, AdviceGates DEF AdviceSound, AdviceInv, CallsInv

THEOREM AdviceStaysSound == Spec => []AdviceSound
<1>1. AdviceInv /\ [Next]_vars => AdviceInv'
  <2> SUFFICES ASSUME AdviceInv, [Next]_vars PROVE AdviceInv'
    OBVIOUS
  <2>1. Advice!Next \/ UNCHANGED adviceVars
    BY DEF Next, WebStep, StoryStep, LearnStep, AdviceStep, CaseStep, EnrichStep, vars
  <2> QED  BY <2>1, AdviceSteps, AdviceUnchanged
<1> QED  BY <1>1, AdviceInitially, AdviceGives, PTL DEF Spec

-------------------------------------------------------------------------------
(* Enrichment.                                                             *)

LEMMA LastOf ==
  ASSUME NEW k \in Nat, NEW t \in SUBSET (0..k), t # {}
  PROVE  Context!Max(t) \in t /\ \A y \in t : y <= Context!Max(t)
<1>1. \E x \in t : \A y \in t : x >= y
  <2>1. PICK x \in t : \A y \in t : y <= x
    BY Stories!Greatest
  <2> QED  BY <2>1
<1> QED  BY <1>1 DEF Context!Max

LEMMA FirstOf ==
  ASSUME NEW t \in SUBSET Nat, t # {}
  PROVE  Context!Min(t) \in t /\ \A y \in t : Context!Min(t) <= y
<1>1. \E x \in t : \A y \in t : x <= y
  BY Stories!Least
<1> QED  BY <1>1 DEF Context!Min

LEMMA MaxUpTo ==
  ASSUME NEW k \in Nat, NEW j \in 1..k
  PROVE  /\ Context!Max(1..j) = j /\ (1..j) \ {j} = 1..(j - 1)
         /\ 1..j \in SUBSET (1..k) /\ 1..j # {} /\ 1..(j - 1) \in SUBSET (1..k)
<1>1. 1..j \in SUBSET (0..k) /\ j \in 1..j
  OBVIOUS
<1>2. Context!Max(1..j) \in 1..j /\ j <= Context!Max(1..j)
  BY <1>1, LastOf
<1> QED  BY <1>2

\* Two functions of sets that begin alike and go on alike are alike.
LEMMA FoldEnds ==
  ASSUME NEW k \in Nat, NEW it, NEW cl, it[{}] = cl[{}],
         \A j \in 1..k : it[1..(j - 1)] = cl[1..(j - 1)] => it[1..j] = cl[1..j]
  PROVE  it[1..k] = cl[1..k]
<1> DEFINE T == {j \in Nat : j <= k => it[1..j] = cl[1..j]}
<1>1. 0 \in T
  <2>1. 1..0 = {}
    OBVIOUS
  <2> QED  BY <2>1
<1>2. ASSUME NEW j \in Nat, j \in T PROVE j + 1 \in T
  <2> SUFFICES ASSUME j + 1 <= k PROVE it[1..(j + 1)] = cl[1..(j + 1)]
    OBVIOUS
  <2> DEFINE i == j + 1
  <2>1. i \in 1..k /\ i - 1 = j /\ it[1..j] = cl[1..j]
    BY <1>2
  <2> HIDE DEF i
  <2>2. it[1..(i - 1)] = cl[1..(i - 1)]
    BY <2>1
  <2>3. it[1..i] = cl[1..i]
    BY <2>1, <2>2
  <2> QED  BY <2>3 DEF i
<1> HIDE DEF T
<1>3. Nat \subseteq T
  BY <1>1, <1>2, Stories!Induct
<1> QED  BY <1>3 DEF T

\* What a list of records says of names: of the records at t, the last that has
\* the name as its own speaks, or else the first that has it in part.
With(of, t, n) == {i \in t : n \in of[i]}
Table(s, own, loc, t) ==
  [n \in UNION {own[i] \cup loc[i] : i \in t} |->
     IF With(own, t, n) # {} THEN s[Context!Max(With(own, t, n))]
     ELSE s[Context!Min(With(loc, t, n))]]

\* A record more: it takes over its own names, and fills in the others.
Put(m, o, p, r) ==
  [n \in DOMAIN m \cup o \cup p |-> IF n \in o THEN r ELSE IF n \in DOMAIN m THEN m[n] ELSE r]

LEMMA TableEmpty ==
  ASSUME NEW s, NEW own, NEW loc
  PROVE  Table(s, own, loc, {}) = Context!None
  BY DEF Table, Context!None

LEMMA TableGrows ==
  ASSUME NEW k \in Nat, NEW s, NEW own, NEW loc,
         NEW t \in SUBSET (1..k), t # {}, NEW m \in 1..k, m = Context!Max(t)
  PROVE  Table(s, own, loc, t) = Put(Table(s, own, loc, t \ {m}), own[m], loc[m], s[m])
<1> DEFINE u == t \ {m}
           a == Table(s, own, loc, t)
           b == Table(s, own, loc, u)
           c == Put(b, own[m], loc[m], s[m])
<1>1. m \in t /\ (\A y \in t : y <= m) /\ u \in SUBSET (1..k) /\ m \in 1..k
  <2>1. t \in SUBSET (0..k)
    OBVIOUS
  <2> QED  BY <2>1, LastOf
<1>2. \A i : i \in t <=> i \in u \/ i = m
  BY <1>1
<1>3. /\ DOMAIN a = UNION {own[i] \cup loc[i] : i \in t}
      /\ DOMAIN b = UNION {own[i] \cup loc[i] : i \in u}
      /\ DOMAIN c = DOMAIN b \cup own[m] \cup loc[m]
  BY DEF Table, Put
<1>4. DOMAIN a = DOMAIN c
  <2> DEFINE f == [i \in t |-> own[i] \cup loc[i]]
  <2>1. \A i \in t : f[i] = own[i] \cup loc[i]
    OBVIOUS
  <2>2. /\ DOMAIN a = UNION {f[i] : i \in t}
        /\ DOMAIN c = (UNION {f[i] : i \in u}) \cup f[m]
    <3> HIDE DEF a, b, c, u, f
    <3> QED  BY <1>1, <1>2, <1>3, <2>1
  <2> HIDE DEF a, b, c, f
  <2> QED  BY <1>2, <2>2
<1>5. ASSUME NEW n \in DOMAIN a PROVE a[n] = c[n]
  <2> DEFINE ft == With(own, t, n)
             fu == With(own, u, n)
             pt == With(loc, t, n)
             pu == With(loc, u, n)
  <2>1. a[n] = IF ft # {} THEN s[Context!Max(ft)] ELSE s[Context!Min(pt)]
    BY <1>3 DEF Table
  <2>2. n \in DOMAIN b => b[n] = IF fu # {} THEN s[Context!Max(fu)] ELSE s[Context!Min(pu)]
    BY <1>3 DEF Table
  <2>3. c[n] = IF n \in own[m] THEN s[m] ELSE IF n \in DOMAIN b THEN b[n] ELSE s[m]
    BY <1>3, <1>4 DEF Put
  <2>4. /\ ft = fu \cup (IF n \in own[m] THEN {m} ELSE {})
        /\ pt = pu \cup (IF n \in loc[m] THEN {m} ELSE {})
    BY <1>2 DEF With
  <2>5. ft \in SUBSET (0..k) /\ fu \subseteq u /\ pu \subseteq u /\ pt \in SUBSET Nat /\ pu \in SUBSET Nat
    BY <1>1 DEF With
  <2>6. n \in DOMAIN b <=> fu # {} \/ pu # {}
    BY <1>3 DEF With
  <2> HIDE DEF a, b, c, ft, fu, pt, pu
  <2>7. CASE n \in own[m]
    <3>1. m \in ft /\ \A y \in ft : y <= m
      BY <1>1, <2>4, <2>5, <2>7
    <3>2. Context!Max(ft) \in ft /\ m <= Context!Max(ft)
      BY <2>5, <3>1, LastOf
    <3>3. Context!Max(ft) = m
      <4>1. PICK x : x = Context!Max(ft)
        OBVIOUS
      <4>2. x \in ft /\ m <= x /\ x <= m /\ x \in Int /\ m \in Int
        BY <1>1, <2>5, <3>1, <3>2, <4>1
      <4>3. x = m
        BY <4>2
      <4> QED  BY <4>1, <4>3
    <3> QED  BY <2>1, <2>3, <2>7, <3>1, <3>3
  <2>8. CASE n \notin own[m] /\ fu # {}
    BY <2>1, <2>2, <2>3, <2>4, <2>6, <2>8
  <2>9. CASE n \notin own[m] /\ fu = {} /\ pu # {}
    <3>1. Context!Min(pu) \in pu /\ \A y \in pu : Context!Min(pu) <= y
      BY <2>5, <2>9, FirstOf
    <3>2. Context!Min(pt) \in pt /\ \A y \in pt : Context!Min(pt) <= y
      BY <2>4, <2>5, <2>9, FirstOf
    <3>3. \A y \in pu : y < m
      BY <1>1, <2>5
    <3>4. Context!Min(pt) = Context!Min(pu)
      BY <1>1, <2>4, <2>5, <3>1, <3>2, <3>3, SMTT(30)
    <3> QED  BY <2>1, <2>2, <2>3, <2>4, <2>6, <2>9, <3>4
  <2>10. CASE n \notin own[m] /\ fu = {} /\ pu = {}
    <3>1. ft = {}
      BY <2>4, <2>10
    <3>2. n \in loc[m]
      BY <1>2, <1>3, <1>5, <2>6, <2>10 DEF a
    <3>3. pt = {m}
      BY <2>4, <2>10, <3>2
    <3>4. Context!Min(pt) = m
      BY <2>5, <3>3, FirstOf
    <3> QED  BY <2>1, <2>3, <2>6, <2>10, <3>1, <3>4
  <2> QED  BY <2>7, <2>8, <2>9, <2>10
<1>6. a = [n \in DOMAIN a |-> a[n]] /\ c = [n \in DOMAIN c |-> c[n]]
  BY DEF Table, Put
<1> HIDE DEF a, c
<1>7. a = c
  BY <1>4, <1>5, <1>6
<1> QED  BY <1>7 DEF a, c

\* The names of a record are put one by one.
OwnName(b, name, r) == [n \in DOMAIN b \cup {name} |-> IF n = name THEN r ELSE b[n]]
PutName(b, name, r) ==
  [n \in DOMAIN OwnName(b, name, r) \cup {Context!Bare(name)} |->
     IF n \in DOMAIN OwnName(b, name, r) THEN OwnName(b, name, r)[n] ELSE r]

LEMMA PutMore ==
  ASSUME NEW m, NEW o, NEW p, NEW r, NEW name
  PROVE  PutName(Put(m, o, p, r), name, r) = Put(m, o \cup {name}, p \cup {Context!Bare(name)}, r)
<1> DEFINE b == Put(m, o, p, r)
           own == OwnName(b, name, r)
           c == PutName(b, name, r)
           d == Put(m, o \cup {name}, p \cup {Context!Bare(name)}, r)
           bare == Context!Bare(name)
<1>1. /\ DOMAIN b = DOMAIN m \cup o \cup p
      /\ \A n \in DOMAIN b : b[n] = IF n \in o THEN r ELSE IF n \in DOMAIN m THEN m[n] ELSE r
  BY DEF Put
<1>2. /\ DOMAIN own = DOMAIN b \cup {name}
      /\ \A n \in DOMAIN own : own[n] = IF n = name THEN r ELSE b[n]
  BY DEF OwnName
<1>3. /\ DOMAIN c = DOMAIN own \cup {bare}
      /\ \A n \in DOMAIN c : c[n] = IF n \in DOMAIN own THEN own[n] ELSE r
  BY DEF PutName
<1>4. /\ DOMAIN d = DOMAIN m \cup (o \cup {name}) \cup (p \cup {bare})
      /\ \A n \in DOMAIN d : d[n] = IF n \in o \cup {name} THEN r
                                    ELSE IF n \in DOMAIN m THEN m[n] ELSE r
  BY DEF Put
<1>5. c = [n \in DOMAIN c |-> c[n]] /\ d = [n \in DOMAIN d |-> d[n]]
  BY DEF Put, PutName
<1> HIDE DEF b, own, c, d, bare
<1>6. DOMAIN c = DOMAIN d
  BY <1>1, <1>2, <1>3, <1>4
<1>7. \A n \in DOMAIN c : c[n] = d[n]
  BY <1>1, <1>2, <1>3, <1>4, <1>6
<1>8. c = d
  BY <1>5, <1>6, <1>7
<1> QED  BY <1>8 DEF b, c, d, bare

LEMMA AddIdentityIs ==
  ASSUME NEW users, users = [n \in DOMAIN users |-> users[n]],
         NEW r, NEW X, r.names \in Seq(X)
  PROVE  Context!AddIdentity(users, r)
           = Put(users, {r.names[i] : i \in 1..Len(r.names)},
                 {Context!Bare(r.names[i]) : i \in 1..Len(r.names)}, r)
<1> DEFINE s == r.names
           k == Len(s)
           D == DOMAIN s
           Folds(it) == it = [t \in SUBSET D |->
                                 IF t = {} THEN users
                                 ELSE PutName(it[t \ {Context!Max(t)}], s[Context!Max(t)], r)]
           cl == [t \in SUBSET D |-> Put(users, {s[i] : i \in t}, {Context!Bare(s[i]) : i \in t}, r)]
           iter == CHOOSE it : Folds(it)
<1>1. k \in Nat /\ D = 1..k
  OBVIOUS
<1>2. Context!AddIdentity(users, r) = iter[D]
  BY Zenon DEF PutName, OwnName, Context!AddIdentity, Context!FoldLeft, Context!MapThenFoldSet
<1>3. cl[{}] = users
  <2>1. Put(users, {}, {}, r) = users
    BY DEF Put
  <2>2. {s[i] : i \in {}} = {} /\ {Context!Bare(s[i]) : i \in {}} = {}
    OBVIOUS
  <2>3. cl[{}] = Put(users, {s[i] : i \in {}}, {Context!Bare(s[i]) : i \in {}}, r)
    OBVIOUS
  <2> QED  BY <2>1, <2>2, <2>3
<1>4. ASSUME NEW t \in SUBSET D, t # {}
      PROVE  cl[t] = PutName(cl[t \ {Context!Max(t)}], s[Context!Max(t)], r)
  <2> DEFINE m == Context!Max(t)
             u == t \ {m}
             b == cl[u]
  <2>1. m \in t
    <3>1. t \in SUBSET (0..k)
      BY <1>1
    <3> QED  BY <1>1, <1>4, <3>1, LastOf
  <2>2. /\ {s[i] : i \in t} = {s[i] : i \in u} \cup {s[m]}
        /\ {Context!Bare(s[i]) : i \in t} = {Context!Bare(s[i]) : i \in u} \cup {Context!Bare(s[m])}
    <3> HIDE DEF m
    <3> QED  BY <2>1
  <2>3. b = Put(users, {s[i] : i \in u}, {Context!Bare(s[i]) : i \in u}, r)
    OBVIOUS
  <2>4. cl[t] = Put(users, {s[i] : i \in t}, {Context!Bare(s[i]) : i \in t}, r)
    OBVIOUS
  <2> HIDE DEF cl, m, b
  <2>5. PutName(b, s[m], r) = Put(users, {s[i] : i \in u} \cup {s[m]},
                           {Context!Bare(s[i]) : i \in u} \cup {Context!Bare(s[m])}, r)
    <3> DEFINE O == {s[i] : i \in u}
               P == {Context!Bare(s[i]) : i \in u}
               x == s[m]
    <3>1. b = Put(users, O, P, r)
      BY <2>3
    <3> HIDE DEF O, P, x
    <3>2. PutName(b, x, r) = Put(users, O \cup {x}, P \cup {Context!Bare(x)}, r)
      BY <3>1, PutMore
    <3> QED  BY <3>2 DEF x, O, P
  <2>6. cl[t] = PutName(b, s[m], r)
    BY <2>2, <2>4, <2>5
  <2> QED  BY <2>6 DEF b, m
<1>5. Folds(cl)
  <2>1. cl = [t \in SUBSET D |-> cl[t]]
    OBVIOUS
  <2> HIDE DEF cl, D
  <2>2. \A t \in SUBSET D : cl[t] = IF t = {} THEN users
                                    ELSE PutName(cl[t \ {Context!Max(t)}], s[Context!Max(t)], r)
    BY <1>3, <1>4
  <2> QED  BY <2>1, <2>2, Zenon
<1>6. Folds(iter)
  <2> HIDE DEF Folds
  <2> QED  BY <1>5
<1> HIDE DEF iter, cl
<1>7. iter[1..k] = cl[1..k]
  <2>1. iter[{}] = cl[{}]
    BY <1>5, <1>6
  <2>2. ASSUME NEW j \in 1..k, iter[1..(j - 1)] = cl[1..(j - 1)] PROVE iter[1..j] = cl[1..j]
    <3>1. /\ Context!Max(1..j) = j /\ (1..j) \ {j} = 1..(j - 1) /\ 1..j \in SUBSET D /\ 1..j # {}
      BY <1>1, MaxUpTo
    <3> HIDE DEF D
    <3>2. /\ iter[1..j] = PutName(iter[(1..j) \ {Context!Max(1..j)}], s[Context!Max(1..j)], r)
          /\ cl[1..j] = PutName(cl[(1..j) \ {Context!Max(1..j)}], s[Context!Max(1..j)], r)
      BY <1>5, <1>6, <3>1
    <3> QED  BY <2>2, <3>1, <3>2
  <2> HIDE DEF k
  <2> QED  BY <1>1, <2>1, <2>2, FoldEnds
<1>8. cl[D] = Put(users, {s[i] : i \in D}, {Context!Bare(s[i]) : i \in D}, r)
  BY DEF cl
<1> QED  BY <1>1, <1>2, <1>7, <1>8

LEMMA TableNext ==
  ASSUME NEW k \in Nat, NEW s, NEW own, NEW loc, NEW j \in 1..k
  PROVE  Table(s, own, loc, 1..j) = Put(Table(s, own, loc, 1..(j - 1)), own[j], loc[j], s[j])
<1> DEFINE t == 1..j
<1>1. t \in SUBSET (1..k) /\ t # {} /\ j = Context!Max(t)
  BY MaxUpTo
<1>2. t \ {j} = 1..(j - 1)
  BY MaxUpTo
<1> HIDE DEF t
<1>3. Table(s, own, loc, t) = Put(Table(s, own, loc, t \ {j}), own[j], loc[j], s[j])
  BY <1>1, TableGrows
<1> QED  BY <1>2, <1>3 DEF t

LEMMA TableSteps ==
  ASSUME NEW k \in Nat, NEW s, NEW own, NEW loc
  PROVE  \A j \in 1..k :
            Table(s, own, loc, 1..j) = Put(Table(s, own, loc, 1..(j - 1)), own[j], loc[j], s[j])
<1> SUFFICES ASSUME NEW j \in 1..k
             PROVE  Table(s, own, loc, 1..j) = Put(Table(s, own, loc, 1..(j - 1)), own[j], loc[j], s[j])
  OBVIOUS
<1> QED  BY TableNext, Zenon

\* What adds the records one after the other has the table of them all.
Grown(k, s, own, loc, iter) ==
  /\ iter[{}] = Context!None
  /\ \A j \in 1..k : iter[1..(j - 1)] = Table(s, own, loc, 1..(j - 1)) =>
        iter[1..j] = Put(Table(s, own, loc, 1..(j - 1)), own[j], loc[j], s[j])

LEMMA TableFold ==
  ASSUME NEW k \in Nat, NEW s, NEW own, NEW loc, NEW iter, Grown(k, s, own, loc, iter)
  PROVE  iter[1..k] = Table(s, own, loc, 1..k)
<1> DEFINE cl == [t \in SUBSET (1..k) |-> Table(s, own, loc, t)]
<1>1. \A j \in 1..k :
         Table(s, own, loc, 1..j) = Put(Table(s, own, loc, 1..(j - 1)), own[j], loc[j], s[j])
  BY TableSteps
<1>2. iter[{}] = cl[{}]
  BY TableEmpty DEF Grown
<1>3. ASSUME NEW j \in 1..k, iter[1..(j - 1)] = cl[1..(j - 1)] PROVE iter[1..j] = cl[1..j]
  <2>1. 1..j \in SUBSET (1..k) /\ 1..(j - 1) \in SUBSET (1..k)
    BY MaxUpTo
  <2>2. cl[1..j] = Table(s, own, loc, 1..j) /\ cl[1..(j - 1)] = Table(s, own, loc, 1..(j - 1))
    BY <2>1
  <2> HIDE DEF cl
  <2>3. iter[1..(j - 1)] = Table(s, own, loc, 1..(j - 1))
    BY <1>3, <2>2
  <2>4. iter[1..j] = Put(Table(s, own, loc, 1..(j - 1)), own[j], loc[j], s[j])
    BY <2>3 DEF Grown
  <2> QED  BY <1>1, <2>2, <2>4
<1>4. iter[1..k] = cl[1..k]
  <2> HIDE DEF cl
  <2> QED  BY <1>2, <1>3, FoldEnds
<1> QED  BY <1>4

\* What a process may have read of each export.
Good(x) == {line \in ExportLines : line.file = x /\ line.bad # "json"}
SpokenNames == {<<"alice", "corp">>, <<"alice", "">>, <<"alice", "x">>}

LEMMA GoodAre ==
  /\ \A r \in Good("identities") : r.names \in Seq(SpokenNames) /\ r.crit \in {0, 1}
  /\ \A r \in Good("assets") : r.crit \in {1, 3}
  /\ \A r \in Good("vulnerabilities") : r.cves # {}
<1> DEFINE a == Account(<<<<"alice", "corp">>>>, "active", "backup", {"AUTO-EXFIL-001"}, TRUE, 0, "no")
           b == Account(<<Alice>>, "disabled", "backup", {}, FALSE, 1, "no")
           c == Account(<<Alice, <<"alice", "x">>>>, "active", "typo", {"AUTO-EXEC-001"}, FALSE, 1, "tags")
           d == Asset(1, "no")
           e == Asset(3, "tags")
           g == Weak({"k1"})
           h == Weak({"k2", "k3"})
           j == [Asset(4, "json") EXCEPT !.file = "identities"]
<1>1. ExportLines = {a, b, c, d, e, g, h, j}
  BY DEF ExportLines
<1>2. /\ a.file = "identities" /\ b.file = "identities" /\ c.file = "identities"
      /\ a.names = <<<<"alice", "corp">>>> /\ b.names = <<<<"alice", "">>>>
      /\ c.names = <<<<"alice", "">>, <<"alice", "x">>>>
      /\ a.crit = 0 /\ b.crit = 1 /\ c.crit = 1
  BY DEF Account, Alice
<1>3. d.file = "assets" /\ e.file = "assets" /\ d.crit = 1 /\ e.crit = 3 /\ j.bad = "json"
  BY DEF Asset
<1>4. /\ g.file = "vulnerabilities" /\ h.file = "vulnerabilities" /\ g.cves = {"k1"}
      /\ h.cves = {"k2", "k3"}
  BY DEF Weak
<1> HIDE DEF a, b, c, d, e, g, h, j
<1>5. Good("identities") \subseteq {a, b, c} /\ Good("assets") \subseteq {d, e}
      /\ Good("vulnerabilities") \subseteq {g, h}
  BY <1>1, <1>2, <1>3, <1>4 DEF Good
<1>6. /\ <<<<"alice", "corp">>>> \in Seq(SpokenNames) /\ <<<<"alice", "">>>> \in Seq(SpokenNames)
      /\ <<<<"alice", "">>, <<"alice", "x">>>> \in Seq(SpokenNames)
  BY DEF SpokenNames
<1> QED  BY <1>2, <1>3, <1>4, <1>5, <1>6

\* What each of the three indexes is.
OwnNames(q) == [i \in 1..Len(q) |-> Context!Range(q[i].names)]
PartNames(q) == [i \in 1..Len(q) |-> {Context!Bare(n) : n \in Context!Range(q[i].names)}]
Hosts(q) == [i \in 1..Len(q) |-> {q[i].host}]
UsersOf(q) == Table(q, OwnNames(q), PartNames(q), 1..Len(q))
HostsOf(q) == Table(q, Hosts(q), Hosts(q), 1..Len(q))

LEMMA HostPut ==
  ASSUME NEW m, NEW r
  PROVE  /\ Context!AddHost(m, r) = Put(m, {r.host}, {r.host}, r)
         /\ r.cves # {} => Context!AddCves(m, r) = Put(m, {r.host}, {r.host}, r)
<1> DEFINE a == Context!AddHost(m, r)
           b == Put(m, {r.host}, {r.host}, r)
<1>1. /\ a = [n \in DOMAIN a |-> a[n]] /\ b = [n \in DOMAIN b |-> b[n]] /\ DOMAIN a = DOMAIN b
      /\ \A n \in DOMAIN a : a[n] = b[n]
  BY DEF Context!AddHost, Put
<1> HIDE DEF a, b
<1>2. a = b
  BY <1>1
<1> QED  BY <1>2 DEF a, b, Context!AddCves

LEMMA IdentityPut ==
  ASSUME NEW users, users = [n \in DOMAIN users |-> users[n]], NEW r \in Good("identities")
  PROVE  Context!AddIdentity(users, r)
           = Put(users, Context!Range(r.names),
                 {Context!Bare(n) : n \in Context!Range(r.names)}, r)
<1>1. r.names \in Seq(SpokenNames) /\ DOMAIN r.names = 1..Len(r.names)
  BY GoodAre
<1>2. /\ {r.names[i] : i \in 1..Len(r.names)} = Context!Range(r.names)
      /\ {Context!Bare(r.names[i]) : i \in 1..Len(r.names)}
           = {Context!Bare(n) : n \in Context!Range(r.names)}
  BY <1>1 DEF Context!Range
<1> QED  BY <1>1, <1>2, AddIdentityIs

LEMMA TableFunction ==
  ASSUME NEW s, NEW own, NEW loc, NEW t, NEW b, b = Table(s, own, loc, t)
  PROVE  b = [n \in DOMAIN b |-> b[n]]
  BY DEF Table

\* Each index is what folding the records makes of them.
LEMMA UsersFold ==
  ASSUME NEW q \in Seq(Good("identities"))
  PROVE  Context!FoldLeft(Context!AddIdentity, Context!None, q) = UsersOf(q)
<1> DEFINE k == Len(q)
           D == DOMAIN q
           own == OwnNames(q)
           loc == PartNames(q)
           Folds(it) == it = [t \in SUBSET D |->
                                 IF t = {} THEN Context!None
                                 ELSE Context!AddIdentity(it[t \ {Context!Max(t)}], q[Context!Max(t)])]
           cl == [t \in SUBSET D |-> Table(q, own, loc, t)]
           iter == CHOOSE it : Folds(it)
<1>1. k \in Nat /\ D = 1..k /\ \A i \in 1..k : q[i] \in Good("identities")
  OBVIOUS
<1>2. Context!FoldLeft(Context!AddIdentity, Context!None, q) = iter[D]
  BY Zenon DEF Context!FoldLeft, Context!MapThenFoldSet
<1>3. ASSUME NEW t, NEW i \in 1..k
      PROVE  Context!AddIdentity(Table(q, own, loc, t), q[i]) = Put(Table(q, own, loc, t), own[i], loc[i], q[i])
  <2>1. own[i] = Context!Range(q[i].names) /\ loc[i] = {Context!Bare(n) : n \in Context!Range(q[i].names)}
    BY DEF OwnNames, PartNames
  <2> DEFINE b == Table(q, own, loc, t)
             r == q[i]
  <2>2. b = [n \in DOMAIN b |-> b[n]]
    BY TableFunction
  <2>3. r \in Good("identities")
    BY <1>1
  <2> HIDE DEF b, r
  <2>4. Context!AddIdentity(b, r) = Put(b, Context!Range(r.names), {Context!Bare(n) : n \in Context!Range(r.names)}, r)
    BY <2>2, <2>3, IdentityPut
  <2> QED  BY <2>1, <2>4 DEF b, r
<1>4. Folds(cl)
  <2>1. ASSUME NEW t \in SUBSET D, t # {}
        PROVE  Table(q, own, loc, t)
                 = Context!AddIdentity(Table(q, own, loc, t \ {Context!Max(t)}), q[Context!Max(t)])
    <3> DEFINE m == Context!Max(t)
    <3>1. t \in SUBSET (0..k) /\ t \in SUBSET (1..k)
      BY <1>1
    <3>2. m \in 1..k
      BY <1>1, <2>1, <3>1, LastOf
    <3> HIDE DEF own, loc, m
    <3>3. Table(q, own, loc, t) = Put(Table(q, own, loc, t \ {m}), own[m], loc[m], q[m])
      <4>1. k \in Nat /\ m = Context!Max(t) /\ m \in 1..k
        BY <1>1, <3>2 DEF m
      <4>2. t \in SUBSET (1..k) /\ t # {}
        BY <2>1, <3>1
      <4> HIDE DEF k
      <4> QED  BY <4>1, <4>2, TableGrows, SMTT(30)
    <3> QED  BY <1>3, <3>2, <3>3 DEF m
  <2>2. ASSUME NEW t \in SUBSET D
        PROVE  cl[t] = IF t = {} THEN Context!None
                       ELSE Context!AddIdentity(cl[t \ {Context!Max(t)}], q[Context!Max(t)])
    <3>1. cl[t] = Table(q, own, loc, t)
          /\ cl[t \ {Context!Max(t)}] = Table(q, own, loc, t \ {Context!Max(t)})
      OBVIOUS
    <3> HIDE DEF cl, own, loc
    <3> QED  BY <2>1, <3>1, TableEmpty
  <2>3. cl = [t \in SUBSET D |-> cl[t]]
    OBVIOUS
  <2> HIDE DEF cl
  <2> QED  BY <2>2, <2>3, Zenon
<1>5. Folds(iter)
  <2> HIDE DEF Folds
  <2> QED  BY <1>4
<1> HIDE DEF iter, own, loc
<1>6. iter[{}] = Context!None
  BY <1>5
<1>7. ASSUME NEW j \in 1..k, iter[1..(j - 1)] = Table(q, own, loc, 1..(j - 1))
      PROVE  iter[1..j] = Put(Table(q, own, loc, 1..(j - 1)), own[j], loc[j], q[j])
  <2>1. /\ Context!Max(1..j) = j /\ (1..j) \ {j} = 1..(j - 1) /\ 1..j \in SUBSET D /\ 1..j # {}
    BY <1>1, MaxUpTo
  <2> HIDE DEF D
  <2>2. iter[1..j] = Context!AddIdentity(iter[(1..j) \ {Context!Max(1..j)}], q[Context!Max(1..j)])
    BY <1>5, <2>1
  <2> QED  BY <1>3, <1>7, <2>1, <2>2
<1>8. iter[1..k] = Table(q, own, loc, 1..k)
  <2>1. Grown(k, q, own, loc, iter)
    BY <1>6, <1>7 DEF Grown
  <2> HIDE DEF k
  <2> QED  BY <1>1, <2>1, TableFold
<1> QED  BY <1>1, <1>2, <1>8 DEF UsersOf, own, loc

LEMMA HostsFold ==
  ASSUME NEW q \in Seq(Good("assets"))
  PROVE  Context!FoldLeft(Context!AddHost, Context!None, q) = HostsOf(q)
<1> DEFINE k == Len(q)
           D == DOMAIN q
           own == Hosts(q)
           loc == Hosts(q)
           Folds(it) == it = [t \in SUBSET D |->
                                 IF t = {} THEN Context!None
                                 ELSE Context!AddHost(it[t \ {Context!Max(t)}], q[Context!Max(t)])]
           cl == [t \in SUBSET D |-> Table(q, own, loc, t)]
           iter == CHOOSE it : Folds(it)
<1>1. k \in Nat /\ D = 1..k /\ \A i \in 1..k : q[i] \in Good("assets")
  OBVIOUS
<1>2. Context!FoldLeft(Context!AddHost, Context!None, q) = iter[D]
  BY Zenon DEF Context!FoldLeft, Context!MapThenFoldSet
<1>3. ASSUME NEW t, NEW i \in 1..k
      PROVE  Context!AddHost(Table(q, own, loc, t), q[i]) = Put(Table(q, own, loc, t), own[i], loc[i], q[i])
  <2>1. own[i] = {q[i].host} /\ loc[i] = {q[i].host}
    BY DEF Hosts
  <2> DEFINE b == Table(q, own, loc, t)
             r == q[i]
  <2>2. r \in Good("assets")
    BY <1>1
  <2> HIDE DEF b, r
  <2>3. Context!AddHost(b, r) = Put(b, {r.host}, {r.host}, r)
    BY <2>2, HostPut, GoodAre
  <2> QED  BY <2>1, <2>3 DEF b, r
<1>4. Folds(cl)
  <2>1. ASSUME NEW t \in SUBSET D, t # {}
        PROVE  Table(q, own, loc, t)
                 = Context!AddHost(Table(q, own, loc, t \ {Context!Max(t)}), q[Context!Max(t)])
    <3> DEFINE m == Context!Max(t)
    <3>1. t \in SUBSET (0..k) /\ t \in SUBSET (1..k)
      BY <1>1
    <3>2. m \in 1..k
      BY <1>1, <2>1, <3>1, LastOf
    <3> HIDE DEF own, loc, m
    <3>3. Table(q, own, loc, t) = Put(Table(q, own, loc, t \ {m}), own[m], loc[m], q[m])
      <4>1. k \in Nat /\ m = Context!Max(t) /\ m \in 1..k
        BY <1>1, <3>2 DEF m
      <4>2. t \in SUBSET (1..k) /\ t # {}
        BY <2>1, <3>1
      <4> HIDE DEF k
      <4> QED  BY <4>1, <4>2, TableGrows, SMTT(30)
    <3> QED  BY <1>3, <3>2, <3>3 DEF m
  <2>2. ASSUME NEW t \in SUBSET D
        PROVE  cl[t] = IF t = {} THEN Context!None
                       ELSE Context!AddHost(cl[t \ {Context!Max(t)}], q[Context!Max(t)])
    <3>1. cl[t] = Table(q, own, loc, t)
          /\ cl[t \ {Context!Max(t)}] = Table(q, own, loc, t \ {Context!Max(t)})
      OBVIOUS
    <3> HIDE DEF cl, own, loc
    <3> QED  BY <2>1, <3>1, TableEmpty
  <2>3. cl = [t \in SUBSET D |-> cl[t]]
    OBVIOUS
  <2> HIDE DEF cl
  <2> QED  BY <2>2, <2>3, Zenon
<1>5. Folds(iter)
  <2> HIDE DEF Folds
  <2> QED  BY <1>4
<1> HIDE DEF iter, own, loc
<1>6. iter[{}] = Context!None
  BY <1>5
<1>7. ASSUME NEW j \in 1..k, iter[1..(j - 1)] = Table(q, own, loc, 1..(j - 1))
      PROVE  iter[1..j] = Put(Table(q, own, loc, 1..(j - 1)), own[j], loc[j], q[j])
  <2>1. /\ Context!Max(1..j) = j /\ (1..j) \ {j} = 1..(j - 1) /\ 1..j \in SUBSET D /\ 1..j # {}
    BY <1>1, MaxUpTo
  <2> HIDE DEF D
  <2>2. iter[1..j] = Context!AddHost(iter[(1..j) \ {Context!Max(1..j)}], q[Context!Max(1..j)])
    BY <1>5, <2>1
  <2> QED  BY <1>3, <1>7, <2>1, <2>2
<1>8. iter[1..k] = Table(q, own, loc, 1..k)
  <2>1. Grown(k, q, own, loc, iter)
    BY <1>6, <1>7 DEF Grown
  <2> HIDE DEF k
  <2> QED  BY <1>1, <2>1, TableFold
<1> QED  BY <1>1, <1>2, <1>8 DEF HostsOf, own, loc

LEMMA CvesFold ==
  ASSUME NEW q \in Seq(Good("vulnerabilities"))
  PROVE  Context!FoldLeft(Context!AddCves, Context!None, q) = HostsOf(q)
<1> DEFINE k == Len(q)
           D == DOMAIN q
           own == Hosts(q)
           loc == Hosts(q)
           Folds(it) == it = [t \in SUBSET D |->
                                 IF t = {} THEN Context!None
                                 ELSE Context!AddCves(it[t \ {Context!Max(t)}], q[Context!Max(t)])]
           cl == [t \in SUBSET D |-> Table(q, own, loc, t)]
           iter == CHOOSE it : Folds(it)
<1>1. k \in Nat /\ D = 1..k /\ \A i \in 1..k : q[i] \in Good("vulnerabilities")
  OBVIOUS
<1>2. Context!FoldLeft(Context!AddCves, Context!None, q) = iter[D]
  BY Zenon DEF Context!FoldLeft, Context!MapThenFoldSet
<1>3. ASSUME NEW t, NEW i \in 1..k
      PROVE  Context!AddCves(Table(q, own, loc, t), q[i]) = Put(Table(q, own, loc, t), own[i], loc[i], q[i])
  <2>1. own[i] = {q[i].host} /\ loc[i] = {q[i].host}
    BY DEF Hosts
  <2> DEFINE b == Table(q, own, loc, t)
             r == q[i]
  <2>2. r \in Good("vulnerabilities")
    BY <1>1
  <2> HIDE DEF b, r
  <2>3. Context!AddCves(b, r) = Put(b, {r.host}, {r.host}, r)
    BY <2>2, HostPut, GoodAre
  <2> QED  BY <2>1, <2>3 DEF b, r
<1>4. Folds(cl)
  <2>1. ASSUME NEW t \in SUBSET D, t # {}
        PROVE  Table(q, own, loc, t)
                 = Context!AddCves(Table(q, own, loc, t \ {Context!Max(t)}), q[Context!Max(t)])
    <3> DEFINE m == Context!Max(t)
    <3>1. t \in SUBSET (0..k) /\ t \in SUBSET (1..k)
      BY <1>1
    <3>2. m \in 1..k
      BY <1>1, <2>1, <3>1, LastOf
    <3> HIDE DEF own, loc, m
    <3>3. Table(q, own, loc, t) = Put(Table(q, own, loc, t \ {m}), own[m], loc[m], q[m])
      <4>1. k \in Nat /\ m = Context!Max(t) /\ m \in 1..k
        BY <1>1, <3>2 DEF m
      <4>2. t \in SUBSET (1..k) /\ t # {}
        BY <2>1, <3>1
      <4> HIDE DEF k
      <4> QED  BY <4>1, <4>2, TableGrows, SMTT(30)
    <3> QED  BY <1>3, <3>2, <3>3 DEF m
  <2>2. ASSUME NEW t \in SUBSET D
        PROVE  cl[t] = IF t = {} THEN Context!None
                       ELSE Context!AddCves(cl[t \ {Context!Max(t)}], q[Context!Max(t)])
    <3>1. cl[t] = Table(q, own, loc, t)
          /\ cl[t \ {Context!Max(t)}] = Table(q, own, loc, t \ {Context!Max(t)})
      OBVIOUS
    <3> HIDE DEF cl, own, loc
    <3> QED  BY <2>1, <3>1, TableEmpty
  <2>3. cl = [t \in SUBSET D |-> cl[t]]
    OBVIOUS
  <2> HIDE DEF cl
  <2> QED  BY <2>2, <2>3, Zenon
<1>5. Folds(iter)
  <2> HIDE DEF Folds
  <2> QED  BY <1>4
<1> HIDE DEF iter, own, loc
<1>6. iter[{}] = Context!None
  BY <1>5
<1>7. ASSUME NEW j \in 1..k, iter[1..(j - 1)] = Table(q, own, loc, 1..(j - 1))
      PROVE  iter[1..j] = Put(Table(q, own, loc, 1..(j - 1)), own[j], loc[j], q[j])
  <2>1. /\ Context!Max(1..j) = j /\ (1..j) \ {j} = 1..(j - 1) /\ 1..j \in SUBSET D /\ 1..j # {}
    BY <1>1, MaxUpTo
  <2> HIDE DEF D
  <2>2. iter[1..j] = Context!AddCves(iter[(1..j) \ {Context!Max(1..j)}], q[Context!Max(1..j)])
    BY <1>5, <2>1
  <2> QED  BY <1>3, <1>7, <2>1, <2>2
<1>8. iter[1..k] = Table(q, own, loc, 1..k)
  <2>1. Grown(k, q, own, loc, iter)
    BY <1>6, <1>7 DEF Grown
  <2> HIDE DEF k
  <2> QED  BY <1>1, <2>1, TableFold
<1> QED  BY <1>1, <1>2, <1>8 DEF HostsOf, own, loc
-------------------------------------------------------------------------------
LEMMA ContextOrders == \A S : Context!InOrder(S) = Stories!InOrder(S)
<1>1. \A S : Context!Cardinality(S) = Stories!Cardinality(S)
  BY DEF Context!Cardinality, Stories!Cardinality
<1>2. \A S, x : Context!Below(S, x) = Stories!Below(S, x)
  BY DEF Context!Below, Stories!Below
<1> QED  BY <1>1, <1>2 DEF Context!InOrder, Stories!InOrder

LEMMA StoriesFinite == \A S : IsFiniteSet(S) => Stories!IsFiniteSet(S)
  BY DEF IsFiniteSet, Stories!IsFiniteSet

LEMMA UpToFinite == \A k \in Nat : IsFiniteSet(1..k)
  BY FS_Interval

\* The lines of an export are its own, and what is read of them is good.
Written(x) == {line \in ExportLines : line.file = x}

LEMMA LoadsGood ==
  ASSUME NEW x, files[x] \in Seq(Written(x))
  PROVE  Context!LoadRecords(x) \in Seq(Good(x))
<1> DEFINE fx == files[x]
           R == {i \in DOMAIN fx : fx[i].bad # "json"}
           g == Context!InOrder(R)
           load == [n \in DOMAIN g |-> fx[g[n]]]
<1>1. DOMAIN fx = 1..Len(fx) /\ Len(fx) \in Nat /\ \A i \in 1..Len(fx) : fx[i] \in Written(x)
  OBVIOUS
<1>2. R \in SUBSET Nat /\ R \in SUBSET (1..Len(fx))
  BY <1>1
<1>3. Stories!IsFiniteSet(R)
  <2>1. IsFiniteSet(1..Len(fx))
    BY <1>1, UpToFinite
  <2> HIDE DEF R
  <2>2. IsFiniteSet(R)
    BY <1>2, <2>1, FS_Subset
  <2> QED  BY <2>2, StoriesFinite
<1>4. \A i \in R : fx[i] \in Good(x)
  BY <1>1 DEF Written, Good
<1> HIDE DEF R
<1>5. Stories!Lists(Stories!InOrder(R), R)
  BY <1>2, <1>3, Stories!InOrderLists
<1>6. g \in Seq(R)
  BY <1>5, ContextOrders DEF Stories!Lists
<1> HIDE DEF g
<1>7. DOMAIN g = 1..Len(g) /\ Len(g) \in Nat /\ \A n \in 1..Len(g) : g[n] \in R
  BY <1>6
<1>8. load \in Seq(Good(x))
  <2>1. \A n \in 1..Len(g) : fx[g[n]] \in Good(x)
    BY <1>4, <1>7
  <2>2. load \in [1..Len(g) -> Good(x)]
    BY <1>7, <2>1
  <2> QED  BY <1>7, <2>2, SeqDef
<1>9. Context!LoadRecords(x) = IF x \in Arrays /\ \E i \in DOMAIN fx : fx[i].bad = "json" THEN <<>> ELSE load
  BY Zenon DEF Context!LoadRecords, load, g, R
<1> HIDE DEF load
<1> QED  BY <1>8, <1>9

\* What was read speaks for a name just where the index has it.
LEMMA SpeaksIs ==
  ASSUME NEW q \in Seq(Good("identities")), read["identities"] = q, NEW n
  PROVE  /\ \A r : Context!Speaks(n, r) <=> n \in DOMAIN UsersOf(q) /\ r = UsersOf(q)[n]
         /\ n \in DOMAIN UsersOf(q) => \E i \in DOMAIN q : UsersOf(q)[n] = q[i]
<1> DEFINE k == Len(q)
           own == OwnNames(q)
           loc == PartNames(q)
           full == With(own, 1..k, n)
           some == With(loc, 1..k, n)
           u == UsersOf(q)
<1>1. k \in Nat /\ DOMAIN q = 1..k
  OBVIOUS
<1>2. /\ full = {i \in DOMAIN q : n \in Context!Range(q[i].names)}
      /\ some = {i \in DOMAIN q : n \in {Context!Bare(m) : m \in Context!Range(q[i].names)}}
  BY <1>1 DEF With, OwnNames, PartNames
<1>3. n \in DOMAIN u <=> full # {} \/ some # {}
  BY DEF UsersOf, Table, With
<1>4. n \in DOMAIN u => u[n] = IF full # {} THEN q[Context!Max(full)] ELSE q[Context!Min(some)]
  BY DEF UsersOf, Table
<1>5. full \in SUBSET (0..k) /\ full \in SUBSET (1..k) /\ some \in SUBSET Nat /\ some \in SUBSET (1..k)
  BY <1>1 DEF With
<1>6. \A r : Context!Speaks(n, r) <=>
                IF full # {} THEN r = q[Context!Max(full)] ELSE some # {} /\ r = q[Context!Min(some)]
  BY <1>2 DEF Context!Speaks
<1> HIDE DEF full, some, u
<1>7. \A r : Context!Speaks(n, r) <=> n \in DOMAIN u /\ r = u[n]
  BY <1>3, <1>4, <1>6
<1>8. n \in DOMAIN u => \E i \in DOMAIN q : u[n] = q[i]
  <2>1. full # {} => Context!Max(full) \in 1..k
    BY <1>1, <1>5, LastOf
  <2>2. some # {} => Context!Min(some) \in 1..k
    BY <1>1, <1>5, FirstOf
  <2> QED  BY <1>1, <1>3, <1>4, <2>1, <2>2
<1> QED  BY <1>7, <1>8 DEF u

LEMMA HostKnown ==
  ASSUME NEW S, NEW q \in Seq(S), NEW n
  PROVE  n \in DOMAIN HostsOf(q) <=> \E i \in DOMAIN q : q[i].host = n
<1> DEFINE full == With(Hosts(q), 1..Len(q), n)
<1>1. n \in DOMAIN HostsOf(q) <=> full # {}
  BY DEF HostsOf, Table, With
<1>2. full = {i \in DOMAIN q : q[i].host = n}
  BY DEF With, Hosts
<1> QED  BY <1>1, <1>2

LEMMA HostsAre ==
  ASSUME NEW S, NEW q \in Seq(S), NEW n, NEW at, at = {i \in DOMAIN q : q[i].host = n}
  PROVE  /\ n \in DOMAIN HostsOf(q) <=> at # {}
         /\ at # {} => Context!Max(at) \in DOMAIN q /\ HostsOf(q)[n] = q[Context!Max(at)]
<1> DEFINE k == Len(q)
           full == With(Hosts(q), 1..k, n)
           u == HostsOf(q)
<1>1. k \in Nat /\ DOMAIN q = 1..k
  OBVIOUS
<1>2. full = at
  BY <1>1 DEF With, Hosts
<1>3. n \in DOMAIN u <=> full # {}
  BY DEF HostsOf, Table, With
<1>4. full # {} => u[n] = q[Context!Max(full)]
  BY <1>3 DEF HostsOf, Table
<1>5. full \in SUBSET (0..k) /\ full \in SUBSET (1..k)
  BY <1>1 DEF With
<1> HIDE DEF full, u
<1>6. full # {} => Context!Max(full) \in 1..k
  BY <1>1, <1>5, LastOf
<1> QED  BY <1>1, <1>2, <1>3, <1>4, <1>6 DEF u
-------------------------------------------------------------------------------
\* What scoring makes of a finding.
IndexIs == /\ index.users = UsersOf(read["identities"])
           /\ index.hosts = HostsOf(read["assets"])
           /\ index.cves = HostsOf(read["vulnerabilities"])
ReadGood == \A x \in Context!Exports : read[x] \in Seq(Good(x))
Scored(f) ==
  IF Context!RoutineMatch(f)
  THEN [of |-> f, routine |-> TRUE, sev |-> Context!Min({Context!Low, f.sev}),
        risk |-> IF f.risk > 0 THEN Context!Max({1, Context!RoundQuarters(f.risk)}) ELSE f.risk]
  ELSE [of |-> f, routine |-> FALSE, sev |-> f.sev, risk |-> Context!AdjustedRisk(f)]

LEMMA ContextMax ==
  ASSUME NEW a \in Int, NEW b \in Int
  PROVE  Context!Max({a, b}) = IF a >= b THEN a ELSE b
  BY DEF Context!Max

LEMMA Criticalities ==
  ASSUME NEW t \in SUBSET (0..4), t # {}
  PROVE  Context!Max(t) \in 0..4 /\ Context!Max(t) \in t /\ \A y \in t : y <= Context!Max(t)
  BY LastOf

\* A quarter more or less.
LEMMA Rounds ==
  ASSUME NEW r \in Nat, r > 0
  PROVE  /\ Context!RoundQuarters(4 * r) = r /\ Context!RoundQuarters(8 * r) = 2 * r
         /\ \A q \in {3, 4, 6, 8} :
               LET z == Context!Max({1, Context!RoundQuarters(r * q)})
               IN  z \in Nat /\ z > 0 /\ z <= 2 * r /\ 4 * z >= 3 * r - 2
<1>1. ASSUME NEW n \in Nat, NEW y, y = Context!RoundQuarters(n)
      PROVE  y \in Nat /\ 4 * y <= n + 2 /\ 4 * y >= n - 2
  BY <1>1 DEF Context!RoundQuarters
<1>2. Context!RoundQuarters(4 * r) = r
  BY DEF Context!RoundQuarters
<1>3. Context!RoundQuarters(8 * r) = 2 * r
  BY DEF Context!RoundQuarters
<1>4. ASSUME NEW n \in Nat, n >= 3 * r, n <= 8 * r,
             NEW z, z = Context!Max({1, Context!RoundQuarters(n)})
      PROVE  z \in Nat /\ z > 0 /\ z <= 2 * r /\ 4 * z >= 3 * r - 2
  <2>1. PICK y : y = Context!RoundQuarters(n)
    OBVIOUS
  <2>2. y \in Nat /\ 4 * y <= n + 2 /\ 4 * y >= n - 2
    BY <1>1, <2>1
  <2>3. z = IF 1 >= y THEN 1 ELSE y
    BY <1>4, <2>1, <2>2, ContextMax
  <2> QED  BY <1>4, <2>2, <2>3
<1>5. ASSUME NEW q \in {3, 4, 6, 8}
      PROVE  r * q \in Nat /\ r * q >= 3 * r /\ r * q <= 8 * r
  <2>1. CASE q = 3
    BY <2>1
  <2>2. CASE q = 4
    BY <2>2
  <2>3. CASE q = 6
    BY <2>3
  <2>4. CASE q = 8
    BY <2>4
  <2> QED  BY <2>1, <2>2, <2>3, <2>4
<1>6. ASSUME NEW q \in {3, 4, 6, 8}, NEW z, z = Context!Max({1, Context!RoundQuarters(r * q)})
      PROVE  z \in Nat /\ z > 0 /\ z <= 2 * r /\ 4 * z >= 3 * r - 2
  <2>1. PICK n : n = r * q
    OBVIOUS
  <2> QED  BY <1>4, <1>5, <1>6, <2>1
<1> QED  BY <1>2, <1>3, <1>6

LEMMA FindingsHaveRisk ==
  \A f \in EnrichedFindings :
    f.risk \in Nat /\ f.risk > 0 /\ f.sev \in Nat /\ \A e \in f.ents : e[1] \in {"user", "host", "ip"}
  BY DEF EnrichedFindings

\* What each enricher says lies between unknown and critical.
LEMMA SaysWithin ==
  ASSUME ReadGood, IndexIs, NEW e
  PROVE  /\ Context!AssetSays(e) \in 0..4 /\ Context!IdentitySays(e) \in 0..4
         /\ Context!IntelSays(e) \in 0..4 /\ Context!VulnerabilitySays(e) \in 0..4
<1> DEFINE n == e[2]
<1>1. Context!AssetSays(e) \in 0..4
  <2> DEFINE q == read["assets"]
             at == {i \in DOMAIN q : q[i].host = n}
  <2>1. q \in Seq(Good("assets"))
    BY DEF ReadGood, Context!Exports
  <2>2. n \in DOMAIN index.hosts => index.hosts[n].crit \in 0..4
    <3> HIDE DEF q
    <3>1. n \in DOMAIN HostsOf(q) => Context!Max(at) \in DOMAIN q /\ HostsOf(q)[n] = q[Context!Max(at)]
      <4> HIDE DEF n
      <4> QED  BY <2>1, HostsAre
    <3>2. \A i \in DOMAIN q : q[i].crit \in 0..4
      <4>1. \A i \in DOMAIN q : q[i] \in Good("assets")
        BY <2>1
      <4> QED  BY <4>1, GoodAre
    <3> QED  BY <3>1, <3>2 DEF IndexIs, q
  <2> QED  BY <2>2 DEF Context!AssetSays
<1>2. Context!IdentitySays(e) \in 0..4
  <2> DEFINE q == read["identities"]
  <2>1. q \in Seq(Good("identities"))
    BY DEF ReadGood, Context!Exports
  <2>2. n \in DOMAIN index.users => index.users[n].crit \in 0..4
    <3>1. n \in DOMAIN UsersOf(q) => \E i \in DOMAIN q : UsersOf(q)[n] = q[i]
      BY <2>1, SpeaksIs
    <3> HIDE DEF q
    <3>2. \A i \in DOMAIN q : q[i].crit \in 0..4
      <4>1. \A i \in DOMAIN q : q[i] \in Good("identities")
        BY <2>1
      <4> QED  BY <4>1, GoodAre
    <3> QED  BY <3>1, <3>2 DEF IndexIs, q
  <2> QED  BY <2>2 DEF Context!IdentitySays, Context!Critical
<1>3. Context!IntelSays(e) \in 0..4 /\ Context!VulnerabilitySays(e) \in 0..4
  BY DEF Context!IntelSays, Context!VulnerabilitySays, Context!Critical, Context!High
<1> QED  BY <1>1, <1>2, <1>3

LEMMA CriticalityIs ==
  ASSUME ReadGood, IndexIs, NEW e, NEW c, c = Context!CriticalityFor(e)
  PROVE  /\ c \in 0..4
         /\ c >= Context!IdentitySays(e) /\ c >= Context!IntelSays(e) /\ c >= Context!VulnerabilitySays(e)
         /\ Context!AssetSays(e) = 0 /\ Context!IdentitySays(e) = 0 /\ Context!IntelSays(e) = 0
              /\ Context!VulnerabilitySays(e) = 0 => c = 0
<1> DEFINE t == {Context!AssetSays(e), Context!IdentitySays(e), Context!IntelSays(e), Context!VulnerabilitySays(e)}
<1>1. t \in SUBSET (0..4) /\ t # {}
  BY SaysWithin
<1>2. c = Context!Max(t)
  BY DEF Context!CriticalityFor
<1>3. Context!Max(t) \in 0..4 /\ Context!Max(t) \in t /\ \A y \in t : y <= Context!Max(t)
  <2> HIDE DEF t
  <2> QED  BY <1>1, Criticalities
<1> QED  BY <1>2, <1>3

\* The risk after scaling.
LEMMA AdjustedIs ==
  ASSUME ReadGood, IndexIs, NEW f \in EnrichedFindings, NEW z, z = Context!AdjustedRisk(f)
  PROVE  /\ z > 0 /\ z <= 2 * f.risk /\ 4 * z >= 3 * f.risk - 2
         /\ (\A e \in f.ents : Context!CriticalityFor(e) = 0) => z = f.risk
         /\ (\E e \in f.ents : Context!CriticalityFor(e) = 4) => z = 2 * f.risk
<1> DEFINE t == {0} \cup {Context!CriticalityFor(e) : e \in f.ents}
           rating == Context!Max(t)
           q == Context!Quarters(rating)
           r == f.risk
<1>1. t \in SUBSET (0..4) /\ t # {} /\ 0 \in t
  BY CriticalityIs
<1>2. rating \in 0..4 /\ rating \in t /\ \A y \in t : y <= rating
  <2> HIDE DEF t
  <2> QED  BY <1>1, Criticalities
<1>3. r \in Nat /\ r > 0
  BY FindingsHaveRisk
<1>4. z = Context!Max({1, Context!RoundQuarters(r * q)})
  BY <1>3 DEF Context!AdjustedRisk
<1>5. /\ q \in {3, 4, 6, 8} /\ (rating = 0 => q = 4) /\ (rating = 4 => q = 8)
  <2> HIDE DEF rating
  <2> QED  BY <1>2 DEF Context!Quarters, Context!Low, Context!Medium, Context!High, Context!Critical
<1>6. (\A e \in f.ents : Context!CriticalityFor(e) = 0) => rating = 0
  BY <1>2
<1>7. (\E e \in f.ents : Context!CriticalityFor(e) = 4) => rating = 4
  <2> HIDE DEF rating
  <2> QED  BY <1>2
<1> HIDE DEF rating, q, r
<1>8. z > 0 /\ z <= 2 * r /\ 4 * z >= 3 * r - 2
  BY <1>3, <1>4, <1>5, Rounds
<1>9. ASSUME NEW y \in Nat, y > 0, Context!RoundQuarters(r * q) = y PROVE z = y
  BY <1>4, <1>9, ContextMax
<1>10. q = 4 => z = r
  <2>1. q = 4 => r * q = 4 * r
    BY <1>3
  <2> QED  BY <1>3, <1>9, <2>1, Rounds
<1>11. q = 8 => z = 2 * r
  <2>1. q = 8 => r * q = 8 * r
    BY <1>3
  <2>2. 2 * r \in Nat /\ 2 * r > 0
    BY <1>3
  <2> QED  BY <1>3, <1>9, <2>1, <2>2, Rounds
<1> QED  BY <1>5, <1>6, <1>7, <1>8, <1>10, <1>11 DEF r

\* A finding is turned down by a record that speaks for an account in it.
LEMMA QuietEarned ==
  ASSUME ReadGood, IndexIs, NEW f \in EnrichedFindings, scored = <<Scored(f)>>
  PROVE  Context!QuietIsEarned
<1> DEFINE s == Scored(f)
           q == read["identities"]
<1>1. scored[1] = s
  OBVIOUS
<1>2. s.of = f
  BY DEF Scored
<1>3. f.risk \in Nat /\ f.risk > 0 /\ \A e \in f.ents : e[1] \in {"user", "host", "ip"}
  BY FindingsHaveRisk
<1>4. q \in Seq(Good("identities"))
  BY DEF ReadGood, Context!Exports
<1>5. s.sev # f.sev \/ s.routine =>
        /\ f.sev # Context!Critical /\ f.rule \notin Context!NEVER_ROUTINE
        /\ \E e \in f.ents : \E i \in DOMAIN q :
              /\ e[1] = "user" /\ Context!Speaks(e[2], q[i]) /\ q[i].status # "disabled"
              /\ f.rule \in Context!RoutineRules(q[i])
  <2> SUFFICES ASSUME s.sev # f.sev \/ s.routine
               PROVE  /\ f.sev # Context!Critical /\ f.rule \notin Context!NEVER_ROUTINE
                      /\ \E e \in f.ents : \E i \in DOMAIN q :
                            /\ e[1] = "user" /\ Context!Speaks(e[2], q[i]) /\ q[i].status # "disabled"
                            /\ f.rule \in Context!RoutineRules(q[i])
    OBVIOUS
  <2>1. Context!RoutineMatch(f)
    BY DEF Scored
  <2> HIDE DEF s, q
  <2>2. f.sev # Context!Critical /\ f.rule \notin Context!NEVER_ROUTINE
    BY <2>1 DEF Context!RoutineMatch
  <2>3. PICK e \in f.ents : /\ e[1] = "user" /\ e[2] \in DOMAIN index.users
                            /\ f.rule \in Context!RoutineRules(index.users[e[2]])
    BY <2>1 DEF Context!RoutineMatch
  <2>4. index.users = UsersOf(q)
    BY DEF IndexIs, q
  <2> DEFINE n == e[2]
  <2>5. n \in DOMAIN UsersOf(q) /\ f.rule \in Context!RoutineRules(UsersOf(q)[n])
    BY <2>3, <2>4
  <2>6. PICK i \in DOMAIN q : UsersOf(q)[n] = q[i]
    BY <1>4, <2>5, SpeaksIs DEF q
  <2>7. Context!Speaks(n, q[i])
    BY <1>4, <2>5, <2>6, SpeaksIs DEF q
  <2>8. q[i].status # "disabled" /\ f.rule \in Context!RoutineRules(q[i])
    BY <2>5, <2>6 DEF Context!RoutineRules
  <2> QED  BY <2>2, <2>3, <2>7, <2>8
<1>6. s.risk > 0
  <2>1. CASE Context!RoutineMatch(f)
    <3>1. s.risk = Context!Max({1, Context!RoundQuarters(f.risk)})
      BY <1>3, <2>1 DEF Scored
    <3>2. PICK y : y = Context!RoundQuarters(f.risk)
      OBVIOUS
    <3>3. y \in Int
      BY <1>3, <3>2 DEF Context!RoundQuarters
    <3> HIDE DEF s
    <3>4. s.risk = IF 1 >= y THEN 1 ELSE y
      BY <3>1, <3>2, <3>3, ContextMax
    <3> QED  BY <3>3, <3>4
  <2>2. CASE ~Context!RoutineMatch(f)
    <3>1. s.risk = Context!AdjustedRisk(f)
      BY <2>2 DEF Scored
    <3> HIDE DEF s
    <3> QED  BY <3>1, AdjustedIs
  <2> QED  BY <2>1, <2>2
<1> HIDE DEF s
<1> QED  BY <1>1, <1>2, <1>5, <1>6 DEF Context!QuietIsEarned

\* What nobody knows does not scale, and what alarms doubles.
LEMMA UnknownScalesNothing ==
  ASSUME ReadGood, IndexIs, NEW e, ~Context!Known(e)
  PROVE  Context!CriticalityFor(e) = 0
<1> DEFINE n == e[2]
           u == read["identities"]
           a == read["assets"]
           v == read["vulnerabilities"]
<1>1. /\ u \in Seq(Good("identities")) /\ a \in Seq(Good("assets")) /\ v \in Seq(Good("vulnerabilities"))
  BY DEF ReadGood, Context!Exports
<1>2. /\ index.users = UsersOf(u) /\ index.hosts = HostsOf(a) /\ index.cves = HostsOf(v)
  BY DEF IndexIs
<1>3. /\ n \notin Indicators
      /\ e[1] = "user" => ~\E i \in DOMAIN u : Context!Speaks(n, u[i])
      /\ e[1] = "host" => (\A i \in DOMAIN a : a[i].host # n) /\ (\A i \in DOMAIN v : v[i].host # n)
  BY DEF Context!Known
<1>4. e[1] = "user" => n \notin DOMAIN UsersOf(u)
  <2> HIDE DEF n
  <2> QED  BY <1>1, <1>3, SpeaksIs
<1>5. e[1] = "host" => n \notin DOMAIN HostsOf(a) /\ n \notin DOMAIN HostsOf(v)
  <2> HIDE DEF n, a, v
  <2> QED  BY <1>1, <1>3, HostKnown
<1>6. Context!AssetSays(e) = 0 /\ Context!IdentitySays(e) = 0
      /\ Context!IntelSays(e) = 0 /\ Context!VulnerabilitySays(e) = 0
  <2> HIDE DEF u, a, v
  <2> QED  BY <1>2, <1>3, <1>4, <1>5 DEF Context!AssetSays, Context!IdentitySays, Context!IntelSays,
                Context!VulnerabilitySays
<1> QED  BY <1>6, CriticalityIs

LEMMA AlarmDoubles ==
  ASSUME ReadGood, IndexIs, NEW e, Context!Alarming(e)
  PROVE  Context!CriticalityFor(e) = 4
<1> DEFINE n == e[2]
           u == read["identities"]
           v == read["vulnerabilities"]
           at == {i \in DOMAIN v : v[i].host = n /\ v[i].cves # {}}
<1>1. u \in Seq(Good("identities")) /\ v \in Seq(Good("vulnerabilities"))
  BY DEF ReadGood, Context!Exports
<1>2. index.users = UsersOf(u) /\ index.cves = HostsOf(v)
  BY DEF IndexIs
<1>3. CASE n \in Indicators
  <2>1. Context!IntelSays(e) = 4
    BY <1>3 DEF Context!IntelSays, Context!Critical
  <2> QED  BY <2>1, CriticalityIs
<1>4. CASE e[1] = "host" /\ at # {} /\ v[Context!Max(at)].cves \cap Exploited \cap Ransomware # {}
  <2>1. at = {i \in DOMAIN v : v[i].host = n}
    <3>1. \A i \in DOMAIN v : v[i] \in Good("vulnerabilities")
      BY <1>1
    <3> HIDE DEF v, n
    <3> QED  BY <3>1, GoodAre
  <2> DEFINE m == Context!Max(at)
  <2>2. n \in DOMAIN HostsOf(v) /\ HostsOf(v)[n] = v[m]
    <3>1. at # {}
      BY <1>4
    <3> HIDE DEF v, n, at
    <3> QED  BY <1>1, <2>1, <3>1, HostsAre
  <2>3. (v[m].cves \cap Exploited) \cap Ransomware # {}
    BY <1>4
  <2> HIDE DEF v, m, at
  <2>4. Context!VulnerabilitySays(e) = 4
    BY <1>2, <1>4, <2>2, <2>3 DEF Context!VulnerabilitySays, Context!Critical
  <2> QED  BY <2>4, CriticalityIs
<1>5. ASSUME e[1] = "user", NEW i \in DOMAIN u, Context!Speaks(n, u[i]), u[i].bad = "no", u[i].status = "disabled"
      PROVE  Context!CriticalityFor(e) = 4
  <2>1. n \in DOMAIN UsersOf(u) /\ u[i] = UsersOf(u)[n]
    <3> HIDE DEF n
    <3> QED  BY <1>1, <1>5, SpeaksIs
  <2> HIDE DEF u
  <2>2. Context!IdentitySays(e) = 4
    BY <1>2, <1>5, <2>1 DEF Context!IdentitySays, Context!Critical
  <2> QED  BY <2>2, CriticalityIs
<1> QED  BY <1>3, <1>4, <1>5 DEF Context!Alarming

LEMMA SharpensContext ==
  ASSUME ReadGood, IndexIs, NEW f \in EnrichedFindings, scored = <<Scored(f)>>
  PROVE  Context!ContextSharpens
<1> SUFFICES ASSUME ~scored[1].routine
             PROVE  LET g == scored[1].of  risk == scored[1].risk
                    IN  /\ risk <= 2 * g.risk /\ 4 * risk >= 3 * g.risk - 2
                        /\ (\A e \in g.ents : ~Context!Known(e)) => risk = g.risk
                        /\ (\E e \in g.ents : Context!Alarming(e)) => risk = 2 * g.risk
  BY DEF Context!ContextSharpens
<1>1. scored[1] = Scored(f) /\ scored[1].of = f /\ scored[1].risk = Context!AdjustedRisk(f)
  BY DEF Scored
<1>2. (\A e \in f.ents : ~Context!Known(e)) => \A e \in f.ents : Context!CriticalityFor(e) = 0
  BY UnknownScalesNothing
<1>3. (\E e \in f.ents : Context!Alarming(e)) => \E e \in f.ents : Context!CriticalityFor(e) = 4
  BY AlarmDoubles
<1>4. PICK z : z = Context!AdjustedRisk(f)
  OBVIOUS
<1>5. /\ z <= 2 * f.risk /\ 4 * z >= 3 * f.risk - 2
      /\ (\A e \in f.ents : Context!CriticalityFor(e) = 0) => z = f.risk
      /\ (\E e \in f.ents : Context!CriticalityFor(e) = 4) => z = 2 * f.risk
  BY <1>4, AdjustedIs
<1> QED  BY <1>1, <1>2, <1>3, <1>4, <1>5

\* The inductive invariant: a process holds what it read, and scored by that.
ContextInv ==
  /\ \A x \in Context!Exports : files[x] \in Seq(Written(x))
  /\ DOMAIN files = Context!Exports
  /\ ReadGood
  /\ index = <<>> \/ IndexIs
  /\ scored = <<>> \/ (IndexIs /\ \E f \in EnrichedFindings : scored = <<Scored(f)>>)

LEMMA ScoredStays ==
  ASSUME index' = index
  PROVE  \A f : Scored(f)' = Scored(f)
  BY DEF Scored, Context!RoutineMatch, Context!AdjustedRisk, Context!CriticalityFor, Context!AssetSays,
         Context!IdentitySays, Context!IntelSays, Context!VulnerabilitySays

LEMMA ContextInitially == Init => ContextInv
<1> SUFFICES ASSUME Init PROVE ContextInv
  OBVIOUS
<1>1. /\ files = [x \in Context!Exports |-> <<>>] /\ read = files /\ index = <<>> /\ scored = <<>>
  BY DEF Init, Context!Init
<1>2. \A x : <<>> \in Seq(Written(x)) /\ <<>> \in Seq(Good(x))
  BY EmptySeq
<1>3. \A x \in Context!Exports : files[x] = <<>> /\ read[x] = <<>>
  BY <1>1
<1>4. DOMAIN files = Context!Exports
  BY <1>1
<1> QED  BY <1>1, <1>2, <1>3, <1>4 DEF ContextInv, ReadGood

LEMMA WriteLineKept == ASSUME ContextInv, NEW line \in ExportLines, Context!WriteLine(line) PROVE ContextInv'
<1>1. files' = [files EXCEPT ![line.file] = Append(@, line)] /\ read' = read /\ index' = index /\ scored' = scored
  BY DEF Context!WriteLine
<1>2. ASSUME NEW x \in Context!Exports PROVE files'[x] \in Seq(Written(x))
  <2>1. files[x] \in Seq(Written(x)) /\ DOMAIN files = Context!Exports
    BY DEF ContextInv
  <2>2. CASE x = line.file
    <3>1. line \in Written(x)
      BY <2>2 DEF Written
    <3>2. files'[x] = Append(files[x], line)
      BY <1>1, <2>1, <2>2
    <3> QED  BY <2>1, <3>1, <3>2, AppendIs
  <2>3. CASE x # line.file
    <3>1. files'[x] = files[x]
      BY <1>1, <2>1, <2>3
    <3> QED  BY <2>1, <3>1
  <2> QED  BY <2>2, <2>3
<1>3. DOMAIN files' = Context!Exports
  BY <1>1 DEF ContextInv
<1>4. (IndexIs' <=> IndexIs) /\ ReadGood'
  BY <1>1 DEF IndexIs, ReadGood, ContextInv, Context!Exports
<1> QED  BY <1>1, <1>2, <1>3, <1>4, ScoredStays DEF ContextInv

LEMMA StartKept == ContextInv /\ Context!Start => ContextInv'
<1> SUFFICES ASSUME ContextInv, Context!Start PROVE ContextInv'
  OBVIOUS
<1>1. /\ read' = [x \in Context!Exports |-> Context!LoadRecords(x)] /\ scored' = <<>> /\ files' = files
  BY DEF Context!Start
<1>2. index' = [users |-> Context!FoldLeft(Context!AddIdentity, Context!None, read'["identities"]),
                hosts |-> Context!FoldLeft(Context!AddHost, Context!None, read'["assets"]),
                cves  |-> Context!FoldLeft(Context!AddCves, Context!None, read'["vulnerabilities"])]
  BY Zenon DEF Context!Start
<1>3. ASSUME NEW x \in Context!Exports PROVE read'[x] \in Seq(Good(x))
  BY <1>1, LoadsGood DEF ContextInv
<1>4. /\ read'["identities"] \in Seq(Good("identities")) /\ read'["assets"] \in Seq(Good("assets"))
      /\ read'["vulnerabilities"] \in Seq(Good("vulnerabilities"))
  BY <1>3 DEF Context!Exports
<1>5. /\ Context!FoldLeft(Context!AddIdentity, Context!None, read'["identities"]) = UsersOf(read'["identities"])
      /\ Context!FoldLeft(Context!AddHost, Context!None, read'["assets"]) = HostsOf(read'["assets"])
      /\ Context!FoldLeft(Context!AddCves, Context!None, read'["vulnerabilities"]) = HostsOf(read'["vulnerabilities"])
  BY <1>4, UsersFold, HostsFold, CvesFold
<1>6. /\ index'.users = UsersOf(read'["identities"]) /\ index'.hosts = HostsOf(read'["assets"])
      /\ index'.cves = HostsOf(read'["vulnerabilities"])
  BY <1>2, <1>5
<1>7. IndexIs'
  BY <1>6 DEF IndexIs
<1>8. ReadGood'
  BY <1>3 DEF ReadGood, Context!Exports
<1> QED  BY <1>1, <1>7, <1>8 DEF ContextInv, Context!Exports

LEMMA ScoreKept == ASSUME ContextInv, NEW f \in EnrichedFindings, Context!Score(f) PROVE ContextInv'
<1>1. files' = files /\ read' = read /\ index' = index /\ index # <<>>
  BY DEF Context!Score
<1>2. scored' = <<Scored(f)>>
  BY Zenon DEF Context!Score, Scored
<1>3. IndexIs /\ (IndexIs' <=> IndexIs) /\ ReadGood'
  BY <1>1 DEF IndexIs, ReadGood, ContextInv, Context!Exports
<1>4. Scored(f)' = Scored(f)
  BY <1>1, ScoredStays
<1> QED  BY <1>1, <1>2, <1>3, <1>4 DEF ContextInv, Context!Exports

LEMMA ContextUnchanged == ContextInv /\ UNCHANGED enrichVars => ContextInv'
<1> SUFFICES ASSUME ContextInv, UNCHANGED enrichVars PROVE ContextInv'
  OBVIOUS
<1>1. files' = files /\ read' = read /\ index' = index /\ scored' = scored
  BY DEF enrichVars
<1>2. (IndexIs' <=> IndexIs) /\ ReadGood'
  BY <1>1 DEF IndexIs, ReadGood, ContextInv, Context!Exports
<1> QED  BY <1>1, <1>2, ScoredStays DEF ContextInv, Context!Exports

\* A finding is turned down only for what the account's own record says, and
\* context scales a risk within its bounds, whatever the order of an export.
THEOREM EnrichmentStaysSound == Spec => []EnrichmentSound
<1>1. ContextInv /\ [Next]_vars => ContextInv'
  <2> SUFFICES ASSUME ContextInv, [Next]_vars PROVE ContextInv'
    OBVIOUS
  <2>1. Context!Next \/ UNCHANGED enrichVars
    BY DEF Next, WebStep, StoryStep, LearnStep, AdviceStep, CaseStep, EnrichStep, vars
  <2> QED  BY <2>1, WriteLineKept, StartKept, ScoreKept, ContextUnchanged DEF Context!Next
<1>2. ContextInv => EnrichmentSound
  <2> SUFFICES ASSUME ContextInv PROVE EnrichmentSound
    OBVIOUS
  <2>1. CASE scored = <<>>
    BY <2>1 DEF EnrichmentSound, Context!QuietIsEarned, Context!ContextSharpens
  <2>2. CASE scored # <<>>
    <3>1. PICK f \in EnrichedFindings : scored = <<Scored(f)>>
      BY <2>2 DEF ContextInv
    <3>2. IndexIs /\ ReadGood
      BY <2>2 DEF ContextInv
    <3> QED  BY <3>1, <3>2, QuietEarned, SharpensContext DEF EnrichmentSound
  <2> QED  BY <2>1, <2>2
<1> QED  BY ContextInitially, <1>1, <1>2, PTL DEF Spec
-------------------------------------------------------------------------------
(* Correlation, from what Correlation_proofs shows of any findings.         *)

\* A behaviour of the whole is one of correlation, by itself.
LEMMA StoriesRun == Spec => Stories!Spec
<1>1. Init => Stories!Init
  BY DEF Init
<1>2. [Next]_vars => [Stories!Next]_Stories!vars
  BY DEF Next, vars, Stories!vars, storyVars,
         StoryStep, LearnStep, AdviceStep, CaseStep, EnrichStep, WebStep
<1> QED  BY <1>1, <1>2, PTL DEF Spec, Stories!Spec

\* The findings of the model are findings: no rule reports an event twice.
LEMMA FindingsAre == Stories!FindingsAssumption
<1>1. Stories!IsFiniteSet(FourFindings)
  <2> DEFINE a == Found(1, "r1", {"u"}, "u", 1, 30)
             b == Found(2, "r1", {"u", "h"}, "u", 3, 10)
             c == Found(3, "r2", {"h"}, "h", 5, 50)
             d == Found(4, "r1", {"u"}, "u", 2, 10)
  <2>1. FourFindings = {a, b, c, d}
    BY DEF FourFindings
  <2> HIDE DEF a, b, c, d
  <2> DEFINE all == <<a, b, c, d>>
  <2>2. all \in Seq(FourFindings) /\ Len(all) = 4 /\ all[1] = a /\ all[2] = b /\ all[3] = c /\ all[4] = d
    BY <2>1
  <2> HIDE DEF all
  <2>3. \A f \in FourFindings : \E n \in 1..Len(all) : all[n] = f
    BY <2>1, <2>2
  <2> QED  BY <2>2, <2>3 DEF Stories!IsFiniteSet
<1>2. \A f \in FourFindings : f.time \in Int /\ f.risk \in Int
  BY DEF FourFindings, Found
<1>3. \A f, g \in FourFindings : f.rule = g.rule /\ f.event = g.event => f = g
  <2>1. /\ \A f \in FourFindings : f.event \in 1..4
        /\ \A f, g \in FourFindings : f.event = g.event => f = g
    BY DEF FourFindings, Found
  <2> QED  BY <2>1
<1> QED  BY <1>1, <1>2, <1>3 DEF Stories!FindingsAssumption

\* While batches come in order, only what repeated more than the threshold
\* within its window is suppressed, also when a save failed and the batch is
\* processed again (SuppressionEngine, distributed._settle).
THEOREM RepeatsAlone == Spec => []OnlyRepeatsSuppressed
<1>1. Stories!Spec => []Stories!OnlyRepeatsSuppressed
  BY Stories!RepeatsCounted, FindingsAre, CorrelationAssumption
<1>2. Stories!OnlyRepeatsSuppressed => OnlyRepeatsSuppressed
  BY DEF OnlyRepeatsSuppressed
<1> QED  BY <1>1, <1>2, StoriesRun, PTL

\* Clusters are connected components, an incident stays one story, and what is
\* saved is filed once (risk.correlate_findings, risk.merge_into_stored and
\* storage.save_pipeline_result).
THEOREM StoriesStayKept == Spec => []StoriesKept
<1>1. Stories!Spec => [](Stories!ClustersAreComponents /\ Stories!OneStory /\ Stories!FiledOnce)
  BY Stories!StoriesAreKept, FindingsAre, CorrelationAssumption
<1>2. Stories!ClustersAreComponents /\ Stories!OneStory /\ Stories!FiledOnce => StoriesKept
  BY DEF StoriesKept
<1> QED  BY <1>1, <1>2, StoriesRun, PTL
=============================================================================
