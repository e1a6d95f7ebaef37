------------------------------ MODULE MCEvents ------------------------------
(* What is made of an event, the rules included.  SigmaRules has recursive    *)
(* operators, which keep the provers out of every module that reaches it, so  *)
(* MCAnalysis, about which theorems are stated, leaves it to this module.     *)
(* Without the rules' own steps this is MCAnalysis: each behaviour of         *)
(* EventSpec is one of its Spec.                                              *)
EXTENDS MCAnalysis

VARIABLES rule, stage, selection, exported

sigmaVars == <<rule, stage, selection, exported>>
Sigma == INSTANCE SigmaRules

\* While another part runs, one rule stays given.
SigmaInit == /\ part = "rules" => rule \in Sigma!Rules
             /\ part # "rules" => rule \in {CHOOSE r \in Sigma!Rules : TRUE}
             /\ Sigma!Given
SigmaStep == part = "rules" /\ Sigma!Next /\ UNCHANGED vars

EventInit == Init /\ SigmaInit
EventNext == SigmaStep \/ (Next /\ UNCHANGED sigmaVars)
EventSpec == EventInit /\ [][EventNext]_<<vars, sigmaVars>>
-----------------------------------------------------------------------------
\* A compiled Sigma rule, and one exported and imported again, matches exactly
\* the events its condition describes, with two exceptions: of a block that names
\* a field twice it keeps the last word only, and a lone null or number may be
\* compared as text.
RulesExact == Sigma!CompiledExactly /\ Sigma!RoundTripExact
=============================================================================
