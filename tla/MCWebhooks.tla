----------------------------- MODULE MCWebhooks -----------------------------
EXTENDS Webhooks, TLC

NoMessages == row = [i \in Rows |-> NoRow]

Enabled == {t \in Tenants : channel[t].enabled}

(* BOUND: messages arrive once a channel is enabled, while the managers   *)
(* are done or about to disable it, and no request begins after.  Routing  *)
(* reads the channels in one query, so what managers do otherwise matters  *)
(* only by the table they leave.                                           *)
ManagersBefore ==
    \/ NoMessages'
    \/ ~NoMessages /\ managed' = managed
    \/ /\ Enabled # {} /\ outdated = {} /\ mixed = {}
       /\ Cardinality(Busy) = managed - 3
       /\ \A q \in Busy : managing[q].op = "disable" /\ managing[q].tenant \in Enabled

(* BOUND: the customer's account changes while no call is running; one    *)
(* query of a call reads it.                                               *)
AccountRests == linked' = linked \/ \A w \in Runs : call[w] = NoCall

MCSpec == Init /\ [][Next /\ ManagersBefore /\ AccountRests]_vars

Symmetry == Permutations(Tenants) \cup Permutations(Numbers) \cup Permutations(Managers)
              \cup Permutations(Rows) \cup Permutations(Runs) \cup Permutations(TicketIds)
=============================================================================
