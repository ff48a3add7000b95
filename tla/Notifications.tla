--------------------------- MODULE Notifications ---------------------------
(***************************************************************************)
(* What the notification handlers do with a ticket event that the outbox   *)
(* delivers (notification.handlers.ts, notification.service.ts): queries,  *)
(* e-mail jobs, rows for the in-app list and realtime messages, in a try   *)
(* block that swallows every error.  A handler that dies is started again  *)
(* with the event.                                                         *)
(*                                                                         *)
(* One organization, one ticket and one person of each class; a person is  *)
(* named after the class, a personal room after its person.                *)
(***************************************************************************)
EXTENDS Integers, Sequences, FiniteSets

CONSTANTS Events,      \* ids of ticket events
          Kinds,       \* the kinds of event that occur
          MaxFaults,   \* BOUND: failing calls, lost messages and crashes
          MaxChanges   \* BOUND: changes of accounts and assignments

Persons == {"manager", "agent", "customer"}
Rooms   == Persons \cup {"tenant", "ticket"}

(* A comment is internal, a reply of the staff or the customer's. *)
AllKinds == {"TICKET_CREATED", "TICKET_ASSIGNED", "TICKET_ESCALATED", "TICKET_RESOLVED",
             "INTERNAL", "REPLY", "QUESTION"}

ASSUME NotificationAssumption ==
    /\ Kinds \subseteq AllKinds
    /\ MaxFaults \in Nat /\ MaxChanges \in Nat

VARIABLES
    active,    \* the persons whose account is ACTIVE
    assigned,  \* the ticket has the agent
    linked,    \* the customer's account has a customer record
    granted,   \* a role gives the agent realtime:tenant
    event,     \* the handling of the events
    waiting,   \* e-mail jobs that wait, by recipient
    inbox,     \* notification rows that are unread, and read, by recipient
    bus,       \* realtime messages in the Redis channel
    faults, changes

people       == <<active, assigned, linked, granted, changes>>
notification == <<event, waiting, inbox>>

(* A call of a handler: a query, a job, a row or a message, for a person   *)
(* or a room.  `part` tells the nested notifyTicketAssigned, with a try    *)
(* block of its own, from the handler.  Queries in a row are one call.     *)
Call(do, to, part) == [do |-> do, to |-> to, part |-> part]
Deeds == [do : {"mail", "row"}, to : Persons] \cup [do : {"read", "ws"}, to : Rooms]
Calls == [do : {"mail", "row"}, to : Persons, part : {"handler", "nested"}]
           \cup [do : {"read", "ws"}, to : Rooms, part : {"handler", "nested"}]

Handlings == [state : {"none", "new", "running", "done"}, kind : AllKinds, todo : Seq(Calls),
              told : SUBSET Deeds, agent : BOOLEAN, manager : BOOLEAN, failed : SUBSET Deeds]

NoEvent == [state |-> "none", kind |-> "INTERNAL", todo |-> <<>>, told |-> {},
            agent |-> FALSE, manager |-> FALSE, failed |-> {}]

NotificationTypeOK ==
    /\ active \subseteq Persons
    /\ {assigned, linked, granted} \subseteq BOOLEAN
    /\ event \in [Events -> Handlings]
    /\ waiting \in [Persons -> Nat]
    /\ inbox \in [Persons -> [unread : Nat, read : Nat]]
    /\ bus \subseteq [room : Rooms, kind : AllKinds]
    /\ faults \in 0..MaxFaults /\ changes \in 0..MaxChanges

NotificationInit ==
    /\ active = Persons
    /\ assigned = TRUE
    /\ linked = TRUE
    /\ granted = TRUE
    /\ event = [e \in Events |-> NoEvent]
    /\ waiting = [u \in Persons |-> 0]
    /\ inbox = [u \in Persons |-> [unread |-> 0, read |-> 0]]
    /\ bus = {}
    /\ faults = 0 /\ changes = 0

(***************************************************************************)
(* The surroundings: accounts, assignment, portal link and roles change.   *)
(***************************************************************************)
Change ==
    /\ changes < MaxChanges
    /\ changes' = changes + 1
    /\ \/ \E u \in Persons : active' = (active \ {u}) \cup ({u} \ active)
                             /\ UNCHANGED <<assigned, linked, granted>>
       \/ assigned' = ~assigned /\ UNCHANGED <<active, linked, granted>>
       \/ linked' = ~linked /\ UNCHANGED <<active, assigned, granted>>
       \/ granted' = ~granted /\ UNCHANGED <<active, assigned, linked>>
    /\ UNCHANGED <<notification, bus, faults>>

Fault == faults < MaxFaults /\ faults' = faults + 1

(***************************************************************************)
(* The handlers                                                            *)
(***************************************************************************)
notifyTicketAssigned(part) ==
    <<Call("read", "agent", part), Call("mail", "agent", part),
      Call("ws", "agent", part), Call("row", "agent", part)>>

(* MUTANT: the agent is notified in the try block of the handler. *)
notifyTicketCreatedFlat(agent) ==
    <<Call("read", "customer", "handler"), Call("mail", "customer", "handler"),
      Call("row", "customer", "handler")>>
      \o (IF agent THEN notifyTicketAssigned("handler") ELSE <<>>)
      \o <<Call("ws", "tenant", "handler")>>

notifyTicketCreated(agent) ==
    <<Call("read", "customer", "handler"), Call("mail", "customer", "handler"),
      Call("row", "customer", "handler")>>
      \o (IF agent THEN notifyTicketAssigned("nested") ELSE <<>>)
      \o <<Call("ws", "tenant", "handler")>>

notifyTicketEscalated(agent, manager) ==
    <<Call("read", "tenant", "handler")>>
      \o (IF manager THEN <<Call("mail", "manager", "handler"), Call("ws", "manager", "handler")>>
                     ELSE <<>>)
      \o (IF agent THEN <<Call("read", "agent", "handler"), Call("mail", "agent", "handler")>>
                   ELSE <<>>)
      \o <<Call("ws", "tenant", "handler")>>

notifyTicketResolved ==
    <<Call("read", "ticket", "handler"), Call("mail", "customer", "handler"),
      Call("ws", "ticket", "handler")>>

notifyCommentAdded(kind, agent) ==
    (IF kind = "INTERNAL" THEN <<>> ELSE <<Call("read", "ticket", "handler")>>)
      \o (IF kind = "REPLY" THEN <<Call("mail", "customer", "handler")>> ELSE <<>>)
      \o (IF kind = "QUESTION" /\ agent THEN <<Call("ws", "agent", "handler")>> ELSE <<>>)
      \o <<Call("ws", "ticket", "handler")>>

(* registerNotificationHandlers *)
Handler(kind, agent, manager) ==
    CASE kind = "TICKET_CREATED"   -> notifyTicketCreated(agent)
      [] kind = "TICKET_ASSIGNED"  -> notifyTicketAssigned("handler")
      [] kind = "TICKET_ESCALATED" -> notifyTicketEscalated(agent, manager)
      [] kind = "TICKET_RESOLVED"  -> notifyTicketResolved
      [] OTHER                     -> notifyCommentAdded(kind, agent)

(* A ticket operation commits an event with its changes; that of an        *)
(* escalation names the agent.                                             *)
Publish(e, kind) ==
    /\ event[e].state = "none"
    /\ event' = [event EXCEPT ![e].state = "new", ![e].kind = kind, ![e].agent = assigned]
    /\ UNCHANGED <<people, waiting, inbox, bus, faults>>

(* The handler reads the ticket, the accounts and the managers. *)
Start(e) ==
    LET manager == "manager" \in active
        agent   == IF event[e].kind = "TICKET_ESCALATED" THEN event[e].agent ELSE assigned IN
    /\ event[e].state = "new"
    /\ event' = [event EXCEPT ![e] =
                   [@ EXCEPT !.state = "running", !.agent = agent, !.manager = manager,
                             !.todo = Handler(event[e].kind, agent, manager),
                             !.told = {}, !.failed = {}]]
    /\ UNCHANGED <<people, waiting, inbox, bus, faults>>

(* The next call succeeds; sending a message never fails for the caller. *)
MakeCall(e) ==
    LET c == Head(event[e].todo) IN
    /\ event[e].state = "running" /\ event[e].todo # <<>>
    /\ event' = [event EXCEPT ![e].todo = Tail(@),
                              ![e].told = @ \cup {[do |-> c.do, to |-> c.to]}]
    /\ waiting' = IF c.do = "mail" THEN [waiting EXCEPT ![c.to] = @ + 1] ELSE waiting
    /\ inbox' = IF c.do = "row" THEN [inbox EXCEPT ![c.to].unread = @ + 1] ELSE inbox
    /\ bus' = IF c.do = "ws" THEN bus \cup {[room |-> c.to, kind |-> event[e].kind]} ELSE bus
    /\ UNCHANGED <<people, faults>>

(* What is left to do after the try block of the nested call. *)
AfterTry(todo) ==
    LET Outside(i) == todo[i].part = "handler"
        first == CHOOSE i \in DOMAIN todo : Outside(i) /\ \A j \in 1..(i - 1) : ~Outside(j)
    IN SubSeq(todo, first, Len(todo))

(* A query fails, a job or a row cannot be written: the try block around   *)
(* it is left.                                                             *)
CallFails(e) ==
    LET c == Head(event[e].todo) IN
    /\ event[e].state = "running" /\ event[e].todo # <<>>
    /\ c.do # "ws"
    /\ Fault
    /\ event' = [event EXCEPT
                   ![e].todo = IF c.part = "nested" THEN AfterTry(@) ELSE <<>>,
                   ![e].failed = @ \cup {[do |-> c.do, to |-> c.to]}]
    /\ UNCHANGED <<people, waiting, inbox, bus>>

(* The handler returns without an error: the event is processed. *)
Processed(e) ==
    /\ event[e].state = "running" /\ event[e].todo = <<>>
    /\ event' = [event EXCEPT ![e].state = "done"]
    /\ UNCHANGED <<people, waiting, inbox, bus, faults>>

(* The worker dies, and the outbox delivers the event again. *)
HandlerDies(e) ==
    /\ event[e].state = "running"
    /\ Fault
    /\ event' = [event EXCEPT ![e].state = "new", ![e].todo = <<>>]
    /\ UNCHANGED <<people, waiting, inbox, bus>>

(* A job is sent, or its third attempt has failed. *)
EmailJobEnds(u) ==
    /\ waiting[u] > 0
    /\ waiting' = [waiting EXCEPT ![u] = @ - 1]
    /\ UNCHANGED <<people, event, inbox, bus, faults>>

(* Only rows with a user id are listed and read: a customer's has none. *)
MarkAsRead(u) ==
    /\ u # "customer" /\ u \in active /\ inbox[u].unread > 0
    /\ inbox' = [inbox EXCEPT ![u] = [unread |-> @.unread - 1, read |-> @.read + 1]]
    /\ UNCHANGED <<people, event, waiting, bus, faults>>

MarkAllAsRead(u) ==
    /\ u # "customer" /\ u \in active /\ inbox[u].unread > 1
    /\ inbox' = [inbox EXCEPT ![u] = [unread |-> 0, read |-> @.unread + @.read]]
    /\ UNCHANGED <<people, event, waiting, bus, faults>>

NotificationStep ==
    \/ \E e \in Events :
          \/ \E kind \in Kinds : Publish(e, kind)
          \/ Start(e) \/ MakeCall(e) \/ CallFails(e) \/ Processed(e) \/ HandlerDies(e)
    \/ \E u \in Persons : EmailJobEnds(u) \/ MarkAsRead(u) \/ MarkAllAsRead(u)

(***************************************************************************)
(* Properties                                                              *)
(***************************************************************************)

(* Who is to hear of an event, by e-mail and in which room. *)
MailTo(v) ==
    CASE v.kind = "TICKET_CREATED"   -> {"customer"} \cup (IF v.agent THEN {"agent"} ELSE {})
      [] v.kind = "TICKET_ASSIGNED"  -> {"agent"}
      [] v.kind = "TICKET_ESCALATED" -> (IF v.manager THEN {"manager"} ELSE {})
                                          \cup (IF v.agent THEN {"agent"} ELSE {})
      [] v.kind \in {"TICKET_RESOLVED", "REPLY"} -> {"customer"}
      [] OTHER -> {}

RoomOf(v) ==
    CASE v.kind \in {"TICKET_CREATED", "TICKET_ESCALATED"} -> "tenant"
      [] v.kind = "TICKET_ASSIGNED" -> "agent"
      [] OTHER -> "ticket"

(* The failures that may keep others from hearing of the event: the agent  *)
(* of a new ticket is notified apart from the rest.                        *)
Excuses(v) == {f \in v.failed : v.kind = "TICKET_CREATED" => f.to # "agent"}

(* A processed event has reached everybody it concerns, although the       *)
(* handler may have been restarted, unless one of its own calls failed; a  *)
(* failure while the agent of a new ticket is notified costs the managers' *)
(* room nothing, and nobody else an e-mail.                                *)
ToldOrFailed ==
    \A e \in Events :
        LET v == event[e] IN
        v.state = "done" /\ Excuses(v) = {} =>
            /\ [do |-> "ws", to |-> RoomOf(v)] \in v.told
            /\ \A u \in MailTo(v) : [do |-> "mail", to |-> u] \in v.told
                                        \/ \E f \in v.failed : f.to = u
=============================================================================
