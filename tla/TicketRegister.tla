--------------------------- MODULE TicketRegister ---------------------------
(***************************************************************************)
(* What the tickets of a tenant look like to whoever reads the table,      *)
(* without requests, transactions, locks or a clock: a register to which   *)
(* tickets are added one at a time, each with the next number and a date   *)
(* that is not earlier than any before it, as long as the day has not had  *)
(* as many as some limit allows.  Nothing is ever changed or taken out.    *)
(* Intake.tla is shown to implement this specification.                    *)
(***************************************************************************)
EXTENDS Integers, FiniteSets

CONSTANTS Tickets, Limits, Days

VARIABLES issued,   \* the tickets in the register
          number,   \* number[t]: the number of ticket t
          dated     \* dated[t]: its day

vars == <<issued, number, dated>>

DatedOn(d) == {t \in issued : dated[t] = d}

Init == issued = {} /\ number = [t \in {} |-> 0] /\ dated = [t \in {} |-> 0]

Issue(t, d) ==
    /\ t \notin issued
    /\ \A s \in issued : dated[s] <= d
    /\ \E limit \in Limits : Cardinality(DatedOn(d)) < limit
    /\ issued' = issued \cup {t}
    /\ number' = [s \in issued \cup {t} |-> IF s = t THEN Cardinality(issued) + 1 ELSE number[s]]
    /\ dated' = [s \in issued \cup {t} |-> IF s = t THEN d ELSE dated[s]]

Next == \E t \in Tickets, d \in Days : Issue(t, d)

Spec == Init /\ [][Next]_vars
=============================================================================
