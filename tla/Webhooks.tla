------------------------------ MODULE Webhooks ------------------------------
(***************************************************************************)
(* Inbound WhatsApp messages.  A signed request is stored in               *)
(* webhook_events and answered; process() then claims the row, routes the  *)
(* message to the one tenant whose enabled channel has the number, and     *)
(* comments on the open ticket of the conversation or creates one.         *)
(* Operators retry, replay, cancel and purge rows (platform-operations     *)
(* .service.ts).  The tenants change their channels meanwhile (Channels).  *)
(*                                                                         *)
(* One customer writes the messages, so a conversation is a tenant.        *)
(***************************************************************************)
EXTENDS Channels

CONSTANTS Rows,         \* rows of webhook_events
          Runs,         \* concurrent calls of process()
          TicketIds,    \* BOUND: tickets the messages create
          MaxClaims,    \* BOUND: claims in a behaviour
          MaxFaults     \* BOUND: deaths and exceptions in a behaviour

ASSUME WebhookAssumption ==
    None \notin Rows \cup Runs \cup TicketIds /\ {MaxClaims, MaxFaults} \subseteq Nat

VARIABLES
    row,       \* webhook_events
    ticket,    \* the tickets of the customer
    linked,    \* the customer exists and has an active linked account
    call,      \* the calls of process() between claim and settlement
    claims, faults,
    \* history
    applied,   \* comments and tickets made from a row
    lapsed,    \* rows claimed from a call that outlived its lease, or whose call ended after its effect
    forked     \* conversations where two calls overlapped, or a ticket was not linked

webhooks == <<row, ticket, linked, call, claims, faults, applied, lapsed, forked>>

vars == <<channels, webhooks>>

RETRYABLE_WEBHOOK_STATUSES == {"RECEIVED", "SKIPPED", "FAILED"}

WEBHOOK_REPLAYABLE == {"PROCESSED", "SKIPPED", "CANCELLED"}

Statuses == {"none", "purged", "PROCESSING"} \cup RETRYABLE_WEBHOOK_STATUSES \cup WEBHOOK_REPLAYABLE

NoRow == [status |-> "none", to |-> None, replayOf |-> None, by |-> None, stale |-> FALSE]

NoTicket == [state |-> "none", tenant |-> None, ref |-> FALSE]

NoCall == [pc |-> "idle", row |-> None, tenant |-> None, ticket |-> None, outcome |-> "none"]

WebhookTypeOK ==
    /\ ChannelTypeOK
    /\ row \in [Rows -> [status : Statuses, to : Numbers \cup {None}, replayOf : Rows \cup {None},
                         by : Runs \cup {None}, stale : BOOLEAN]]
    /\ ticket \in [TicketIds -> [state : {"none", "open", "resolved"}, tenant : Tenants \cup {None},
                                 ref : BOOLEAN]]
    /\ linked \in BOOLEAN
    /\ call \in [Runs -> [pc : {"idle", "route", "lookup", "comment", "create", "link", "settle"},
                          row : Rows \cup {None}, tenant : Tenants \cup {None},
                          ticket : TicketIds \cup {None},
                          outcome : {"none", "PROCESSED", "SKIPPED", "FAILED"}]]
    /\ claims \in 0..MaxClaims
    /\ faults \in 0..MaxFaults
    /\ applied \in [Rows -> Nat]
    /\ lapsed \subseteq Rows
    /\ forked \subseteq Tenants

Init ==
    /\ ChannelInit
    /\ row = [i \in Rows |-> NoRow]
    /\ ticket = [k \in TicketIds |-> NoTicket]
    /\ linked \in BOOLEAN
    /\ call = [w \in Runs |-> NoCall]
    /\ claims = 0
    /\ faults = 0
    /\ applied = [i \in Rows |-> 0]
    /\ lapsed = {}
    /\ forked = {}

(* POST /inbound stores the message and answers; a redelivery of the same *)
(* message is another row.                                                 *)
Receive(i, n) ==
    /\ row[i] = NoRow
    /\ row' = [row EXCEPT ![i] = [NoRow EXCEPT !.status = "RECEIVED", !.to = n]]
    /\ UNCHANGED <<channels, ticket, linked, call, claims, faults, applied, lapsed, forked>>

(* webhook_events_active_replay_key: one replay of a row at a time. *)
ReplayActive(i) ==
    i # None /\ \E j \in Rows : row[j].replayOf = i /\ row[j].status \in {"RECEIVED", "PROCESSING", "FAILED"}

(* MUTANT: the lease of the row is not looked at. *)
ClaimableAlways(i) == row[i].status \in RETRYABLE_WEBHOOK_STATUSES \cup {"PROCESSING"}

Claimable(i) ==
    \/ row[i].status \in RETRYABLE_WEBHOOK_STATUSES
    \/ row[i].status = "PROCESSING" /\ row[i].stale

(* The conditional update of process(), called after the message was       *)
(* stored, by an operator's retry, and for a replay.  A skipped replay     *)
(* cannot be claimed while another one is under way.                       *)
Claim(w, i) ==
    /\ call[w] = NoCall
    /\ Claimable(i)
    /\ row[i].status = "SKIPPED" => ~ReplayActive(row[i].replayOf)
    /\ claims < MaxClaims
    /\ claims' = claims + 1
    /\ row' = [row EXCEPT ![i].status = "PROCESSING", ![i].by = w, ![i].stale = FALSE]
    /\ call' = [call EXCEPT ![w] = [NoCall EXCEPT !.pc = "route", !.row = i]]
    /\ lapsed' = IF row[i].stale /\ \E v \in Runs : call[v].row = i THEN lapsed \cup {i} ELSE lapsed
    /\ UNCHANGED <<channels, ticket, linked, faults, applied, forked>>

Matches(n) == {t \in Tenants : channel[t].enabled /\ channel[t].number = n}

(* A number shared by several tenants is routed to none. *)
resolveTenantId(n) ==
    IF Cardinality(Matches(n)) = 1 THEN CHOOSE t \in Tenants : t \in Matches(n) ELSE None

Open(t) == {k \in TicketIds : ticket[k].state = "open" /\ ticket[k].tenant = t}

(* MUTANT: looks for tickets without a reference. *)
OpenTicketsUnreferenced(t) == {k \in Open(t) : ~ticket[k].ref}

(* The open tickets of the conversation. *)
OpenTickets(t) == {k \in Open(t) : ticket[k].ref}

(* Another call has found no ticket either and has not linked its own. *)
Creating(t) == {v \in Runs : call[v].tenant = t /\ call[v].pc \in {"create", "link"}}

(* Tenant, customer and linked account. *)
Route(w) ==
    LET t == resolveTenantId(row[call[w].row].to)
    IN /\ call[w].pc = "route"
       /\ call' = [call EXCEPT ![w] = IF t = None \/ ~linked
                                      THEN [@ EXCEPT !.pc = "settle", !.outcome = "SKIPPED"]
                                      ELSE [@ EXCEPT !.pc = "lookup", !.tenant = t]]
       /\ UNCHANGED <<channels, row, ticket, linked, claims, faults, applied, lapsed, forked>>

(* The latest open ticket; which of two is later the model leaves open. *)
Lookup(w) ==
    LET t == call[w].tenant
    IN /\ call[w].pc = "lookup"
       /\ \/ /\ \E k \in OpenTickets(t) : call' = [call EXCEPT ![w].pc = "comment", ![w].ticket = k]
             /\ UNCHANGED forked
          \/ /\ OpenTickets(t) = {}
             /\ call' = [call EXCEPT ![w].pc = "create"]
             /\ forked' = IF Creating(t) # {} THEN forked \cup {t} ELSE forked
       /\ UNCHANGED <<channels, row, ticket, linked, claims, faults, applied, lapsed>>

Applied(w) == applied' = [applied EXCEPT ![call[w].row] = @ + 1]

Done(w, outcome) ==
    call' = [call EXCEPT ![w] = [NoCall EXCEPT !.pc = "settle", !.row = call[w].row, !.outcome = outcome]]

(* The comment is added even if the ticket was resolved since. *)
Comment(w) ==
    /\ call[w].pc = "comment"
    /\ Applied(w)
    /\ Done(w, "PROCESSED")
    /\ UNCHANGED <<channels, row, ticket, linked, claims, faults, lapsed, forked>>

Create(w) ==
    /\ call[w].pc = "create"
    /\ \E k \in TicketIds :
          /\ ticket[k] = NoTicket
          /\ ticket' = [ticket EXCEPT ![k] = [state |-> "open", tenant |-> call[w].tenant, ref |-> FALSE]]
          /\ call' = [call EXCEPT ![w].pc = "link", ![w].ticket = k]
    /\ Applied(w)
    /\ UNCHANGED <<channels, row, linked, claims, faults, lapsed, forked>>

(* externalRef is written after the ticket. *)
Link(w) ==
    /\ call[w].pc = "link"
    /\ ticket' = [ticket EXCEPT ![call[w].ticket].ref = TRUE]
    /\ Done(w, "PROCESSED")
    /\ UNCHANGED <<channels, row, linked, claims, faults, applied, lapsed, forked>>

(* What a call leaves behind that ends before its time. *)
LeftBehind(w) ==
    /\ faults < MaxFaults
    /\ faults' = faults + 1
    /\ forked' = IF call[w].pc = "link" THEN forked \cup {call[w].tenant} ELSE forked
    /\ lapsed' = IF call[w].pc = "link" \/ call[w].outcome = "PROCESSED"
                 THEN lapsed \cup {call[w].row} ELSE lapsed
    /\ UNCHANGED <<channels, row, ticket, linked, claims, applied>>

(* The queue of the AI jobs throws after the commit of the comment. *)
QueueFails(w) ==
    /\ call[w].pc = "comment"
    /\ faults < MaxFaults
    /\ faults' = faults + 1
    /\ Applied(w)
    /\ Done(w, "FAILED")
    /\ lapsed' = lapsed \cup {call[w].row}
    /\ UNCHANGED <<channels, row, ticket, linked, claims, forked>>

(* A query throws, or that queue after the commit of createTicket. *)
HandlerFails(w) ==
    /\ call[w].pc \in {"route", "lookup", "comment", "create", "link"}
    /\ Done(w, "FAILED")
    /\ LeftBehind(w)

(* The process is killed, or the update that settles the row throws. *)
Die(w) ==
    /\ call[w] # NoCall
    /\ call' = [call EXCEPT ![w] = NoCall]
    /\ LeftBehind(w)

Settled(w) ==
    [row EXCEPT ![call[w].row] = [@ EXCEPT !.status = call[w].outcome, !.by = None, !.stale = FALSE]]

(* MUTANT: settles the row whoever holds it. *)
SettleAnyway(w) ==
    /\ call[w].pc = "settle"
    /\ row' = Settled(w)
    /\ call' = [call EXCEPT ![w] = NoCall]
    /\ UNCHANGED <<channels, ticket, linked, claims, faults, applied, lapsed, forked>>

(* The outcome is written where the row is still locked by this call. *)
Settle(w) ==
    /\ call[w].pc = "settle"
    /\ row' = IF row[call[w].row].by = w THEN Settled(w) ELSE row
    /\ call' = [call EXCEPT ![w] = NoCall]
    /\ UNCHANGED <<channels, ticket, linked, claims, faults, applied, lapsed, forked>>

(* Five minutes after the claim. *)
LeaseExpires(i) ==
    /\ row[i].status = "PROCESSING" /\ ~row[i].stale
    /\ row' = [row EXCEPT ![i].stale = TRUE]
    /\ UNCHANGED <<channels, ticket, linked, call, claims, faults, applied, lapsed, forked>>

cancelWebhook(i) ==
    /\ row[i].status \in RETRYABLE_WEBHOOK_STATUSES
    /\ row' = [row EXCEPT ![i].status = "CANCELLED"]
    /\ UNCHANGED <<channels, ticket, linked, call, claims, faults, applied, lapsed, forked>>

(* The copy; process() is then called for it. *)
replayWebhook(i, j) ==
    /\ row[i].status \in WEBHOOK_REPLAYABLE
    /\ row[j] = NoRow
    /\ ~ReplayActive(i)
    /\ row' = [row EXCEPT ![j] = [NoRow EXCEPT !.status = "RECEIVED", !.to = row[i].to, !.replayOf = i]]
    /\ UNCHANGED <<channels, ticket, linked, call, claims, faults, applied, lapsed, forked>>

(* Finished rows past the retention. *)
purge(i) ==
    /\ row[i].status \in WEBHOOK_REPLAYABLE
    /\ row' = [row EXCEPT ![i].status = "purged"]
    /\ UNCHANGED <<channels, ticket, linked, call, claims, faults, applied, lapsed, forked>>

(* Staff resolve a ticket, or reopen it next to a newer one. *)
Resolve(k) ==
    /\ ticket[k].state = "open"
    /\ ticket' = [ticket EXCEPT ![k].state = "resolved"]
    /\ UNCHANGED <<channels, row, linked, call, claims, faults, applied, lapsed, forked>>

Reopen(k) ==
    LET t == ticket[k].tenant IN
    /\ ticket[k].state = "resolved"
    /\ ticket' = [ticket EXCEPT ![k].state = "open"]
    /\ forked' = IF Open(t) # {} \/ Creating(t) # {} THEN forked \cup {t} ELSE forked
    /\ UNCHANGED <<channels, row, linked, call, claims, faults, applied, lapsed>>

(* The customer accepts an invitation, or the account is deactivated. *)
LinkChanges ==
    /\ linked' = ~linked
    /\ UNCHANGED <<channels, row, ticket, call, claims, faults, applied, lapsed, forked>>

WebhookStep ==
    \/ \E i \in Rows, n \in Numbers : Receive(i, n)
    \/ \E i \in Rows : LeaseExpires(i) \/ cancelWebhook(i) \/ purge(i) \/ \E j \in Rows : replayWebhook(i, j)
    \/ \E w \in Runs :
          \/ \E i \in Rows : Claim(w, i)
          \/ Route(w) \/ Lookup(w) \/ Comment(w) \/ Create(w) \/ Link(w) \/ Settle(w) 
          \/ QueueFails(w) \/ HandlerFails(w) \/ Die(w)
    \/ \E k \in TicketIds : Resolve(k) \/ Reopen(k)
    \/ LinkChanges

ManagementStep == ChannelStep /\ UNCHANGED webhooks

Next == WebhookStep \/ ManagementStep

Spec == Init /\ [][Next]_vars

(***************************************************************************)
(* Properties                                                              *)
(***************************************************************************)

(* A row tells what became of the message: PROCESSED rows have been turned *)
(* into one comment or ticket, and rows an operator may retry or has       *)
(* cancelled into none, unless a call outlived its lease and the row was   *)
(* claimed from it, or a call ended after its effect.                      *)
RowTellsTheTruth ==
    \A i \in Rows \ lapsed :
        /\ row[i].status = "PROCESSED" => applied[i] = 1
        /\ row[i].status \in RETRYABLE_WEBHOOK_STATUSES \cup {"CANCELLED"} => applied[i] = 0

(* "PROCESSED and CANCELLED are terminal": a call that lost its lease and  *)
(* returns late changes nothing.                                           *)
TerminalStays ==
    [][\A i \in Rows :
          row[i].status \in {"PROCESSED", "CANCELLED"} => row'[i].status \in {row[i].status, "purged"}]_vars

(* "Later messages from the same number are threaded onto this ticket":   *)
(* a conversation has one open ticket unless two calls overlapped, a call  *)
(* ended before it linked its ticket, or staff reopened an old one.        *)
ThreadsAreOne == \A t \in Tenants \ forked : Cardinality(Open(t)) <= 1
=============================================================================
