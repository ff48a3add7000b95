------------------------------ MODULE MCFiles ------------------------------
(* The two parts that keep files in storage.  They share nothing but the   *)
(* provider, whose paths never collide, so a behaviour is about one part.  *)
EXTENDS Reports, Attachments

VARIABLE part

allVars == <<vars, attVars, part>>

(* BOUND: one part moves in a behaviour. *)
OfReports(A)     == part = "reports" /\ A /\ UNCHANGED <<attVars, part>>
OfAttachments(A) == part = "attachments" /\ A /\ UNCHANGED <<vars, part>>

MCInit ==
    /\ Init /\ AttInit
    /\ part \in {"reports", "attachments"}
    /\ part = "reports" => ~assigned /\ ~required
    /\ part = "attachments" => local

MCNext == OfReports(Next) \/ OfAttachments(AttNext)

(* A call goes on until it is answered, and signed URLs expire. *)
MCFairness ==
    /\ \A w \in Workers : WF_allVars(OfReports(processPending(w)))
    /\ \A j \in Jobs : WF_allVars(OfReports(TimePasses(j)))
    /\ \A c \in Calls : WF_allVars(OfAttachments(Proceed(c)))
    /\ \A u \in Users, a \in Uploads : WF_allVars(OfAttachments(UrlLapses(u, a)))

MCSpec == MCInit /\ [][MCNext]_allVars /\ MCFairness
============================================================================
