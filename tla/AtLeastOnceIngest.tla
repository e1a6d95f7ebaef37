-------------------------- MODULE AtLeastOnceIngest --------------------------
(***************************************************************************)
(* What durable ingest promises for every line it accepts, without queue,  *)
(* batches, threads or failures: the line waits, its event is stored, and  *)
(* only then does it stop waiting. One process stores it at most once; a   *)
(* process that died may have stored it before. A line is put aside only   *)
(* when the store has shown that it works, and can be put back.            *)
(***************************************************************************)
EXTENDS Integers

CONSTANT Lines

VARIABLES
  phase,    \* of each line: "absent", "waiting", "done" or "aside"
  copies,   \* times its event has been stored
  restarts  \* processes that died

vars == <<phase, copies, restarts>>

In(p) == {l \in Lines : phase[l] = p}
Moved(S, p) == [l \in Lines |-> IF l \in S THEN p ELSE phase[l]]

Init ==
  /\ phase = [l \in Lines |-> "absent"]
  /\ copies = [l \in Lines |-> 0]
  /\ restarts = 0

Accept ==
  /\ \E S \in SUBSET In("absent") : phase' = Moved(S, "waiting")
  /\ UNCHANGED <<copies, restarts>>

Store ==
  /\ \E S \in SUBSET {l \in In("waiting") : copies[l] <= restarts} :
       copies' = [l \in Lines |-> IF l \in S THEN copies[l] + 1 ELSE copies[l]]
  /\ UNCHANGED <<phase, restarts>>

Finish ==
  /\ \E S \in SUBSET {l \in In("waiting") : copies[l] > 0} : phase' = Moved(S, "done")
  /\ UNCHANGED <<copies, restarts>>

PutAside ==
  /\ \E l \in Lines : copies[l] > 0
  /\ \E l \in In("waiting") : phase' = Moved({l}, "aside")
  /\ UNCHANGED <<copies, restarts>>

PutBack ==
  /\ phase' = Moved(In("aside"), "waiting")
  /\ UNCHANGED <<copies, restarts>>

Restart ==
  /\ restarts' = restarts + 1
  /\ UNCHANGED <<phase, copies>>

Next == Accept \/ Store \/ Finish \/ PutAside \/ PutBack \/ Restart

Spec == Init /\ [][Next]_vars
==============================================================================
