----------------------------- MODULE MCBaseline -----------------------------
(* A baseline that one pipeline of a restarting process learns, on PostgreSQL *)
(* and with the thread that `listen` gives its batches.                       *)
EXTENDS Baseline

Observed(id, ents, action, hour, ip) ==
  [id |-> id, at |-> 1, ents |-> ents, action |-> action, hour |-> hour, user |-> 1, ip |-> ip]
TwoBatches == {Observed(1, {<<"user", 1>>, <<"host", 1>>}, "a", 1, 1),
               Observed(2, {<<"user", 1>>}, "b", 2, 2)}
=============================================================================
