--------------------------- MODULE EventDelivery ---------------------------
(***************************************************************************)
(* What the transactional outbox promises to the rest of the application,  *)
(* without workers, leases, retries or ledgers: an event that was queued   *)
(* stays queued until it is delivered, given up or cancelled, and it       *)
(* counts as delivered only when every handler subscribed to it has        *)
(* completed for it.  Outbox.tla is shown to implement this specification. *)
(***************************************************************************)
CONSTANTS Rows, Handlers

VARIABLES fate,      \* fate[r]: what became of the event of row r
          received   \* the <<row, handler>> pairs whose handler completed

vars == <<fate, received>>

Fates == {"unborn", "queued", "delivered", "dead", "cancelled", "gone"}

TypeOK == /\ fate \in [Rows -> Fates]
          /\ received \subseteq Rows \X Handlers

Init == /\ fate = [r \in Rows |-> "unborn"]
        /\ received = {}

(* Every row of S moves from one of the fates From to the fate To. *)
Move(S, From, To) ==
    /\ \A r \in S : fate[r] \in From
    /\ fate' = [r \in Rows |-> IF r \in S THEN To ELSE fate[r]]
    /\ UNCHANGED received

Complete(S) == \A r \in S, h \in Handlers : <<r, h>> \in received

Publish(S) == Move(S, {"unborn"}, "queued")
Deliver(S) == Complete(S) /\ Move(S, {"queued"}, "delivered")
GiveUp(S)  == Move(S, {"queued"}, "dead")
Revive(S)  == Move(S, {"dead"}, "queued")
Cancel(S)  == Move(S, {"queued", "dead"}, "cancelled")
Purge(S)   == Move(S, {"delivered", "cancelled"}, "gone")

(* A handler completes.  It may do so for an event that has already been   *)
(* settled by somebody else, but never for one that was not published.     *)
Receive(r, h) ==
    /\ fate[r] # "unborn"
    /\ received' = received \cup {<<r, h>>}
    /\ UNCHANGED fate

Next == \/ \E S \in SUBSET Rows :
              \/ Publish(S) \/ Deliver(S) \/ GiveUp(S)
              \/ Revive(S) \/ Cancel(S) \/ Purge(S)
        \/ \E r \in Rows, h \in Handlers : Receive(r, h)

Spec == Init /\ [][Next]_vars
=============================================================================
