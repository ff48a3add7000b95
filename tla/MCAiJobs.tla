------------------------------ MODULE MCAiJobs ------------------------------
EXTENDS AiJobs, TLC

(* BOUND: the definitions a tenant starts with: any for the escalation, and *)
(* none for the jobs, or some that stop two of them.                        *)
Starts ==
    {[f \in Features |-> IF f = AUTO THEN d ELSE "absent"] : d \in Definitions}
      \cup {[f \in Features |-> CASE f = "urgency" -> "off" [] f = "risk-score" -> "partial" [] OTHER -> "on"]}

MCInit == AiInit /\ flags \in Starts

MCSpec == MCInit /\ [][AiNext]_aiVars

Symmetry == Permutations(Jobs)
=============================================================================
