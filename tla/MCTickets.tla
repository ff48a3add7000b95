------------------------------ MODULE MCTickets ------------------------------
EXTENDS Tickets, FiniteSets

UnderWay == {r \in Requests : req[r] # Idle} \cup {m \in Managers : mgr[m] # Idle}

(* Requests are interchangeable: one of them stands for all. *)
First == CHOOSE r \in Requests : TRUE

(* BOUND: requests meet in pairs, and one at a time meets the overdue-     *)
(* ticket job, which has work once the clock runs.                         *)
InPairs ==
    /\ Cardinality(UnderWay) <= IF now = 0 THEN 2 ELSE 1
    /\ now > 0 => UnderWay \subseteq {First} \cup Managers

MCSpec == Init /\ [][Next /\ InPairs']_vars /\ WF_vars(JobStep)
=============================================================================
