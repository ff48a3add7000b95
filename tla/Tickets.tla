------------------------------ MODULE Tickets ------------------------------
(***************************************************************************)
(* The life of a ticket: TicketService (ticket.service.ts), the aggregate  *)
(* TicketEntity with its status workflow, the ticket repository, the       *)
(* overdue-ticket job of the scheduler, and StaffLifecycleService, which   *)
(* deactivates and removes the agents tickets are assigned to.             *)
(*                                                                         *)
(* Every operation of TicketService reads the row into an entity, decides  *)
(* and changes the entity in memory, and writes the whole entity back in a *)
(* transaction.  Between the read and the write anybody may step: `req`    *)
(* holds the changed entity of a request in that window.  Nothing in the   *)
(* write depends on the row still being the one that was read.             *)
(*                                                                         *)
(* A timestamp column is abstracted to whether it is set.  TicketRepository*)
(* passes undefined for an unset field, and Prisma leaves a column alone   *)
(* when its value is undefined (Merge).                                    *)
(***************************************************************************)
EXTENDS Integers

CONSTANTS Ids,        \* ticket ids
          Agents,     \* the agents of the tenant
          Requests,   \* concurrent requests of users
          Managers,   \* concurrent requests of tenant managers about staff
          Job,        \* the escalation job, a caller of escalateTicket
          Ops,        \* the ticket operations users perform
          Horizon,    \* BOUND: due dates are 1..Horizon
          LastNow,    \* BOUND: the last instant of the clock
          MaxFaults,  \* BOUND: failed calls and crashes of the job
          None        \* null / undefined

ASSUME CallersAssumption == Job \notin Requests
ASSUME TicketNoneAssumption == None \notin Agents /\ None \notin Ids
ASSUME OpsAssumption == Ops \subseteq {"update", "assign", "status", "escalate", "reply"}
ASSUME TicketBoundsAssumption == /\ Horizon \in Nat \ {0}
                                 /\ LastNow \in Nat
                                 /\ MaxFaults \in Nat

VARIABLES
    ticket,       \* the tickets table: a row for every id
    published,    \* published[t]: the events stored in the outbox for t
    req,          \* the entity a caller has changed and not yet written
    now,
    agentStatus,  \* the users table, column status ...
    removed,      \* ... and whether metadata has a removedAt
    mgr,          \* a staff request between its reads and its transaction
    job,          \* the escalation job
    faults,
    \* history
    stale         \* callers whose entity is older than the row

callers == <<req, stale>>
staff   == <<agentStatus, removed, mgr>>
vars    == <<ticket, published, callers, now, staff, job, faults>>

Callers == Requests \cup {Job}

ActiveStatuses == {"OPEN", "IN_PROGRESS", "PENDING_CUSTOMER"}
Statuses       == ActiveStatuses \cup {"RESOLVED", "CLOSED"}

Rows == [status : Statuses, assignee : Agents \cup {None}, escalated : BOOLEAN,
         escalatedAt : BOOLEAN, resolvedAt : BOOLEAN, closedAt : BOOLEAN,
         breached : BOOLEAN, dueAt : 1..Horizon]

EventTypes == {"StatusChanged", "Resolved", "Assigned", "Escalated"}

(* step = "agent": assignTicket has not looked the agent up yet. *)
Entities == [step : {"agent", "write"}, id : Ids, data : Rows,
             events : SUBSET EventTypes]
Idle     == [step |-> "idle"]

StaffOps == [op : {"remove"}, agent : Agents, other : Agents \cup {None}]
              \cup [op : {"ACTIVE", "INACTIVE"}, agent : Agents]

TypeOK ==
    /\ ticket \in [Ids -> Rows]
    /\ published \in [Ids -> SUBSET EventTypes]
    /\ req \in [Callers -> Entities \cup {Idle}]
    /\ now \in 0..LastNow
    /\ agentStatus \in [Agents -> {"ACTIVE", "INACTIVE"}]
    /\ removed \in [Agents -> BOOLEAN]
    /\ mgr \in [Managers -> StaffOps \cup {Idle}]
    /\ job \in [todo : SUBSET Ids, may : SUBSET Ids, cur : Ids \cup {None}]
    /\ faults \in 0..MaxFaults
    /\ stale \subseteq Callers

(* createTicket's entity: an open, unassigned ticket with a due date. *)
Init ==
    /\ ticket = [t \in Ids |->
                   [status |-> "OPEN", assignee |-> None, escalated |-> FALSE,
                    escalatedAt |-> FALSE, resolvedAt |-> FALSE, closedAt |-> FALSE,
                    breached |-> FALSE, dueAt |-> 1]]
    /\ published = [t \in Ids |-> {}]
    /\ req = [c \in Callers |-> Idle]
    /\ now = 0
    /\ agentStatus = [a \in Agents |-> "ACTIVE"]
    /\ removed = [a \in Agents |-> FALSE]
    /\ mgr = [m \in Managers |-> Idle]
    /\ job = [todo |-> {}, may |-> {}, cur |-> None]
    /\ faults = 0
    /\ stale = {}

(***************************************************************************)
(* The aggregate                                                           *)
(***************************************************************************)
isActive(e) == e.status \in ActiveStatuses

(* canTransitionTo *)
Transitions(s) == CASE s = "OPEN" -> {"IN_PROGRESS", "CLOSED"}
                    [] s = "IN_PROGRESS" -> {"PENDING_CUSTOMER", "RESOLVED", "OPEN"}
                    [] s = "PENDING_CUSTOMER" -> {"IN_PROGRESS", "RESOLVED", "CLOSED"}
                    [] s = "RESOLVED" -> {"CLOSED", "OPEN"}
                    [] s = "CLOSED" -> {}

(* MUTANT: the closing time is not set when a resolved ticket is closed. *)
ChangedStatusForgets(e, s) ==
    [e EXCEPT !.status = s,
              !.resolvedAt = IF s \in ActiveStatuses THEN FALSE ELSE @ \/ s = "RESOLVED",
              !.closedAt = IF s \in ActiveStatuses THEN FALSE
                           ELSE @ \/ (s = "CLOSED" /\ ~e.resolvedAt)]

(* The fields changeStatus leaves behind; an active status resets both. *)
ChangedStatus(e, s) ==
    [e EXCEPT !.status = s,
              !.resolvedAt = IF s \in ActiveStatuses THEN FALSE ELSE @ \/ s = "RESOLVED",
              !.closedAt = IF s \in ActiveStatuses THEN FALSE ELSE @ \/ s = "CLOSED"]

(* changeStatus raises one event; resolve() raises a second one. *)
StatusEvents(s) == IF s = "RESOLVED" THEN {"StatusChanged", "Resolved"} ELSE {"StatusChanged"}

canEscalate(e) == isActive(e) /\ ~e.escalated

Escalated(e) == [e EXCEPT !.escalated = TRUE, !.escalatedAt = TRUE]

(***************************************************************************)
(* TicketService: read, decide, change the entity                          *)
(***************************************************************************)
Read(c, t, step, data, events) ==
    /\ req[c] = Idle
    /\ req' = [req EXCEPT ![c] = [step |-> step, id |-> t, data |-> data, events |-> events]]
    /\ stale' = stale \ {c}

(* updateTicket: of the details only the due date is modelled. *)
updateTicket(c, t, due) ==
    /\ "update" \in Ops
    /\ isActive(ticket[t])
    /\ Read(c, t, "write", [ticket[t] EXCEPT !.dueAt = due], {})
    /\ UNCHANGED <<ticket, published, now, staff, job, faults>>

(* MUTANT: canTransitionTo is not consulted. *)
changeStatusUnchecked(c, t, s) ==
    /\ "status" \in Ops
    /\ Read(c, t, "write", ChangedStatus(ticket[t], s), StatusEvents(s))
    /\ UNCHANGED <<ticket, published, now, staff, job, faults>>

(* changeStatus, with resolve() for RESOLVED. *)
changeStatus(c, t, s) ==
    /\ "status" \in Ops
    /\ s \in Transitions(ticket[t].status)
    /\ Read(c, t, "write", ChangedStatus(ticket[t], s), StatusEvents(s))
    /\ UNCHANGED <<ticket, published, now, staff, job, faults>>

(* escalateTicket, called by a user or by the job. *)
escalateTicket(c, t) ==
    /\ canEscalate(ticket[t])
    /\ Read(c, t, "write", Escalated(ticket[t]), {"Escalated"})

escalate(c, t) ==
    /\ "escalate" \in Ops
    /\ escalateTicket(c, t)
    /\ UNCHANGED <<ticket, published, now, staff, job, faults>>

(* addComment: a customer's reply to a ticket that waits for the customer. *)
(* Any other comment leaves the ticket alone.                              *)
addComment(c, t) ==
    /\ "reply" \in Ops
    /\ ticket[t].status = "PENDING_CUSTOMER"
    /\ Read(c, t, "write", ChangedStatus(ticket[t], "IN_PROGRESS"), StatusEvents("IN_PROGRESS"))
    /\ UNCHANGED <<ticket, published, now, staff, job, faults>>

(* assignTicket reads the ticket first ... *)
assignTicket(c, t, a) ==
    /\ "assign" \in Ops
    /\ isActive(ticket[t])
    /\ Read(c, t, "agent", [ticket[t] EXCEPT !.assignee = a], {"Assigned"})
    /\ UNCHANGED <<ticket, published, now, staff, job, faults>>

(* ... and the agent second: NotFoundError unless the agent is active. *)
findAssignableAgentOrThrow(c) ==
    /\ req[c].step = "agent"
    /\ req' = [req EXCEPT ![c] = IF agentStatus[req[c].data.assignee] = "ACTIVE"
                                 THEN [@ EXCEPT !.step = "write"] ELSE Idle]
    /\ UNCHANGED <<ticket, published, now, stale, staff, job, faults>>

(* TicketRepository.update: every column gets the entity's value, except   *)
(* that an undefined value leaves its column as it is.                     *)
Merge(row, e) ==
    [e EXCEPT !.assignee = IF @ = None THEN row.assignee ELSE @,
              !.escalatedAt = @ \/ row.escalatedAt,
              !.resolvedAt = @ \/ row.resolvedAt,
              !.closedAt = @ \/ row.closedAt]

(* The transaction: the row, the activity and audit records (left out) and *)
(* the events.                                                             *)
Write(c) ==
    LET t == req[c].id IN
    /\ req[c].step = "write"
    /\ ticket' = [ticket EXCEPT ![t] = Merge(@, req[c].data)]
    /\ published' = [published EXCEPT ![t] = @ \cup req[c].events]
    /\ req' = [req EXCEPT ![c] = Idle]
    /\ stale' = (stale \cup {d \in Callers : req[d] # Idle /\ req[d].id = t}) \ {c}
    /\ UNCHANGED <<now, staff, job, faults>>

(* The transaction fails or the process dies: nothing was written. *)
Abort(c) ==
    /\ req[c] # Idle
    /\ c = Job => faults < MaxFaults
    /\ faults' = IF c = Job THEN faults + 1 ELSE faults
    /\ req' = [req EXCEPT ![c] = Idle]
    /\ UNCHANGED <<ticket, published, now, stale, staff, job>>

(***************************************************************************)
(* The overdue-ticket job (ticket-escalation.job.ts)                       *)
(***************************************************************************)
Overdue(t) == ticket[t].dueAt < now /\ isActive(ticket[t]) /\ ~ticket[t].breached

(* findOverdueTickets.  An empty list ends the run. *)
JobLists ==
    /\ job.todo = {} /\ job.cur = None /\ req[Job] = Idle
    /\ \E t \in Ids : Overdue(t)
    /\ job' = [todo |-> {t \in Ids : Overdue(t)}, cur |-> None,
               may |-> {t \in Ids : Overdue(t) /\ canEscalate(ticket[t])}]
    /\ UNCHANGED <<ticket, published, callers, now, staff, faults>>

(* MUTANT: the ticket is escalated without being marked. *)
JobSkipsMark(t) ==
    /\ t \in job.todo /\ job.cur = None /\ req[Job] = Idle
    /\ job' = [job EXCEPT !.todo = @ \ {t}, !.cur = t]
    /\ UNCHANGED <<ticket, published, callers, now, staff, faults>>

(* markSlaBreached, before anything else is done about the ticket. *)
JobMarks(t) ==
    /\ t \in job.todo /\ job.cur = None /\ req[Job] = Idle
    /\ job' = [job EXCEPT !.todo = @ \ {t}, !.cur = t]
    /\ ticket' = [ticket EXCEPT ![t].breached = TRUE]
    /\ stale' = IF ticket[t].breached THEN stale
                ELSE stale \cup {d \in Callers : req[d] # Idle /\ req[d].id = t}
    /\ UNCHANGED <<published, req, now, staff, faults>>

(* The policy is checked on the listed ticket; escalateTicket reads the    *)
(* ticket anew and checks the policy on that.                              *)
JobEscalates ==
    /\ job.cur \in job.may
    /\ escalateTicket(Job, job.cur)
    /\ job' = [job EXCEPT !.cur = None]
    /\ UNCHANGED <<ticket, published, now, staff, faults>>

(* `continue`, or escalateTicket throws. *)
JobSkips ==
    /\ job.cur # None
    /\ job.cur \in job.may => ~canEscalate(ticket[job.cur])
    /\ job' = [job EXCEPT !.cur = None]
    /\ UNCHANGED <<ticket, published, callers, now, staff, faults>>

(* One failing ticket does not stop the others: its error is counted. *)
JobTicketFails(t) ==
    /\ faults < MaxFaults
    /\ t \in job.todo /\ job.cur = None /\ req[Job] = Idle
    /\ job' = [job EXCEPT !.todo = @ \ {t}]
    /\ faults' = faults + 1
    /\ UNCHANGED <<ticket, published, callers, now, staff>>

JobCrashes ==
    /\ faults < MaxFaults
    /\ job.todo # {} \/ job.cur # None \/ req[Job] # Idle
    /\ job' = [todo |-> {}, may |-> {}, cur |-> None]
    /\ req' = [req EXCEPT ![Job] = Idle]
    /\ faults' = faults + 1
    /\ UNCHANGED <<ticket, published, now, stale, staff>>

(***************************************************************************)
(* StaffLifecycleService                                                   *)
(***************************************************************************)

(* setActive: the removedAt check is made on the user that was read ... *)
setActiveRead(m, a, s) ==
    /\ mgr[m] = Idle
    /\ s = "ACTIVE" => ~removed[a]
    /\ mgr' = [mgr EXCEPT ![m] = [op |-> s, agent |-> a]]
    /\ UNCHANGED <<ticket, published, callers, now, agentStatus, removed, job, faults>>

(* ... and the status is written afterwards. *)
setActiveWrite(m) ==
    /\ mgr[m] # Idle /\ mgr[m].op # "remove"
    /\ agentStatus' = [agentStatus EXCEPT ![mgr[m].agent] = mgr[m].op]
    /\ mgr' = [mgr EXCEPT ![m] = Idle]
    /\ UNCHANGED <<ticket, published, callers, now, removed, job, faults>>

(* remove: the replacement, if any, is active when it is read. *)
removeRead(m, a, other) ==
    /\ mgr[m] = Idle
    /\ other # a
    /\ other # None => agentStatus[other] = "ACTIVE"
    /\ mgr' = [mgr EXCEPT ![m] = [op |-> "remove", agent |-> a, other |-> other]]
    /\ UNCHANGED <<ticket, published, callers, now, agentStatus, removed, job, faults>>

(* The transaction moves the active tickets and ends the membership. *)
removeWrite(m) ==
    LET a == mgr[m].agent
        moved == {t \in Ids : ticket[t].assignee = a /\ isActive(ticket[t])}
    IN
    /\ mgr[m] # Idle /\ mgr[m].op = "remove"
    /\ ticket' = [t \in Ids |-> IF t \in moved THEN [ticket[t] EXCEPT !.assignee = mgr[m].other]
                                ELSE ticket[t]]
    /\ agentStatus' = [agentStatus EXCEPT ![a] = "INACTIVE"]
    /\ removed' = [removed EXCEPT ![a] = TRUE]
    /\ mgr' = [mgr EXCEPT ![m] = Idle]
    /\ stale' = stale \cup {d \in Callers : req[d] # Idle /\ req[d].id \in moved}
    /\ UNCHANGED <<published, req, now, job, faults>>

Tick ==
    /\ now < LastNow
    /\ now' = now + 1
    /\ UNCHANGED <<ticket, published, callers, staff, job, faults>>

(***************************************************************************)
(* Specification                                                           *)
(***************************************************************************)
UserStep(c) ==
    \/ \E t \in Ids : \/ \E due \in 1..Horizon : updateTicket(c, t, due)
                      \/ \E s \in Statuses : changeStatus(c, t, s)
                      \/ escalate(c, t)
                      \/ addComment(c, t)
                      \/ \E a \in Agents : assignTicket(c, t, a)
    \/ findAssignableAgentOrThrow(c)
    \/ Write(c)
    \/ Abort(c)

JobStep == \/ JobLists
           \/ \E t \in Ids : JobMarks(t)
           \/ JobEscalates
           \/ JobSkips
           \/ Write(Job)

JobFault == JobCrashes \/ Abort(Job) \/ \E t \in Ids : JobTicketFails(t)

StaffStep(m) ==
    \/ \E a \in Agents : \/ \E s \in {"ACTIVE", "INACTIVE"} : setActiveRead(m, a, s)
                         \/ \E other \in Agents \cup {None} : removeRead(m, a, other)
    \/ setActiveWrite(m)
    \/ removeWrite(m)

Next == \/ \E c \in Requests : UserStep(c)
        \/ JobStep
        \/ JobFault
        \/ \E m \in Managers : StaffStep(m)
        \/ Tick

Spec == Init /\ [][Next]_vars

(* The scheduler runs the job every 15 minutes and its calls return. *)
FairSpec == Spec /\ WF_vars(JobStep)
(***************************************************************************)
(* Properties                                                              *)
(***************************************************************************)

Recorded(e, events) ==
    /\ e.status = "RESOLVED" => e.resolvedAt /\ "Resolved" \in events
    /\ e.status = "CLOSED" => e.closedAt /\ "StatusChanged" \in events
    /\ e.escalated => e.escalatedAt /\ "Escalated" \in events

(* A ticket that is RESOLVED, CLOSED or escalated has the timestamp of it, *)
(* and its resolution or escalation was put into the outbox by the same    *)
(* transaction (resolve() "drives the customer notification"), although    *)
(* concurrent requests overwrite each other's whole rows.                  *)
OutcomeRecorded == \A t \in Ids : Recorded(ticket[t], published[t])

(* What the workflow allows one step to do to a ticket: a transition of    *)
(* canTransitionTo, no lost escalation or SLA breach, and no new assignee  *)
(* for a ticket that is not active.                                        *)
LegalChange(old, new) ==
    /\ new.status = old.status \/ new.status \in Transitions(old.status)
    /\ old.escalated => new.escalated
    /\ old.breached => new.breached
    /\ ~isActive(old) => new.assignee = old.assignee

StaleWrite(t) == \E c \in stale : req[c].step = "write" /\ req[c].id = t /\ req'[c] = Idle

(* A step that breaks the workflow is always the write of an entity that   *)
(* was read before somebody else changed the row: without lost updates     *)
(* every operation of the service, the job and the removal of an agent     *)
(* keeps to LegalChange.                                                   *)
OnlyLostUpdatesBreakWorkflow ==
    [][\A t \in Ids : LegalChange(ticket[t], ticket'[t]) \/ StaleWrite(t)]_vars

(* An active ticket past its due date does not stay unmarked: the job      *)
(* marks it unless it is resolved, closed or given a later due date, in    *)
(* spite of failures for other tickets and of crashes of the worker.       *)
OverdueIsMarked == \A t \in Ids : Overdue(t) ~> ~Overdue(t)

(* Why OutcomeRecorded holds: an entity that waits to be written carries   *)
(* the timestamps and events of its outcome, or they are stored already.   *)
EntityInv ==
    \A c \in Callers : req[c] # Idle =>
        Recorded(req[c].data, published[req[c].id] \cup req[c].events)

(* Why OnlyLostUpdatesBreakWorkflow holds: as long as nobody has changed   *)
(* the row a caller has read, its write is a legal change of that row.     *)
FreshInv ==
    \A c \in Callers \ stale : req[c] # Idle =>
        LET old == ticket[req[c].id] IN LegalChange(old, Merge(old, req[c].data))

(* ticket.entity.ts: "Reopened: previous resolution/closure no longer      *)
(* applies."                                                               *)
ReopenedIsNotResolved == \A t \in Ids : isActive(ticket[t]) => ~ticket[t].resolvedAt

=============================================================================
