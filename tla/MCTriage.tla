------------------------------- MODULE MCTriage -------------------------------
(* Model values for Triage: clients and incidents are interchangeable.     *)
EXTENDS Triage

BothDrivers == {"sqlite", "postgres"}
OnlySQLite == {"sqlite"}
Symmetry == Permutations(Clients) \union Permutations(Incidents)
===============================================================================
