----------------------------- MODULE MCRealtime -----------------------------
EXTENDS Realtime

(* BOUND: the handlers of events run while nobody is connected; their      *)
(* messages are delivered while clients come and go.  The two parts share  *)
(* only the channel and what they read, and neither waits for the other.   *)
HandlersRunBefore ==
    (\E c \in Clients : client[c].phase # "new") =>
        \A e \in Events : event[e].state = "none"
                            \/ (event[e].kind = "INTERNAL" /\ event[e].state = "done")

MCSpec == GatewayInit /\ [][GatewayNext /\ HandlersRunBefore']_gatewayVars /\ GatewayFairness
=============================================================================
