------------------------------- MODULE Intake -------------------------------
(***************************************************************************)
(* How tickets come into being: TicketService.createTicket with the        *)
(* tenant's ticket sequence and daily limit, against CustomerService       *)
(* (status changes, risk scores, deletion) and TenantService (limits,      *)
(* suspension), for one tenant.  Tenants share no row.                     *)
(*                                                                         *)
(* A request creates at most one ticket, so the request stands for the     *)
(* ticket's id.  createTicket reads the customer and the tenant, then runs *)
(* a READ COMMITTED transaction: getNextTicketNumber locks the sequence    *)
(* row until the end, countCreatedSince counts the committed tickets of    *)
(* the day, and everything else becomes visible with the commit.           *)
(* Prisma fills createdAt (@default(now())) when the row is inserted.      *)
(***************************************************************************)
EXTENDS Integers, FiniteSets

CONSTANTS Requests,   \* calls of createTicket
          Customers,
          Editors,    \* calls of CustomerService
          Admins,     \* calls of TenantService
          Limits,     \* values of maxTicketsPerDay
          LastDay,    \* BOUND: the clock runs from day 0 to LastDay
          None

ASSUME RequestsFinite == IsFiniteSet(Requests) /\ None \notin Requests
ASSUME LimitsAssumption == Limits \subseteq Nat \ {0}
ASSUME DaysAssumption == LastDay \in Nat

VARIABLES
    \* the database
    seq,         \* ticket_sequences.lastNumber
    holder,      \* the transaction that has locked the sequence row
    tickets,     \* the committed tickets
    number,      \* number[r]: ticketNumber
    createdDay,  \* createdDay[r]: the day of createdAt
    customer,    \* customers.status
    tenant,      \* the tenants row
    announced,   \* tickets with a TicketCreated event in the outbox
    \* createTicket
    pc, of, entity, quota, allowed,
    \* others
    editing,     \* a customer entity read and not yet written
    admin,       \* a tenant entity read and not yet written
    aiQueue,     \* tickets queued for AI analysis
    day

db    == <<seq, holder, tickets, number, createdDay, announced>>
local == <<pc, of, entity, quota, allowed>>
vars  == <<db, customer, tenant, local, editing, admin, aiQueue, day>>

PCs == {"start", "tenant", "number", "count", "insert", "commit", "queue",
        "done", "rejected", "error"}

CustomerStatuses == {"ACTIVE", "INACTIVE", "BLOCKED"}
Idle             == [step |-> "idle"]
Ended            == [step |-> "ended"]
Edits            == [step : {"write", "delete"}, id : Customers, status : CustomerStatuses]

(* No operation sets CANCELLED. *)
TenantStatuses == {"TRIAL", "ACTIVE", "SUSPENDED"}
Tenants        == [status : TenantStatuses, limit : Limits, suspendedAt : BOOLEAN]

TypeOK ==
    /\ seq \in Nat
    /\ holder \in Requests \cup {None}
    /\ tickets \subseteq Requests
    /\ number \in [Requests -> Nat]
    /\ createdDay \in [Requests -> 0..LastDay]
    /\ announced \subseteq Requests
    /\ customer \in [Customers -> CustomerStatuses \cup {"DELETED"}]
    /\ tenant \in Tenants
    /\ pc \in [Requests -> PCs]
    /\ of \in [Requests -> Customers]
    /\ entity \in [Requests -> CustomerStatuses]
    /\ quota \in [Requests -> Limits]
    /\ allowed \in [Requests -> BOOLEAN]
    /\ editing \in [Editors -> Edits \cup {Idle, Ended}]
    /\ admin \in [Admins -> Tenants \cup {Idle, Ended}]
    /\ aiQueue \subseteq Requests
    /\ day \in 0..LastDay

Init ==
    /\ seq = 0
    /\ holder = None
    /\ tickets = {}
    /\ number = [r \in Requests |-> 0]
    /\ createdDay = [r \in Requests |-> 0]
    /\ announced = {}
    /\ customer = [c \in Customers |-> "ACTIVE"]
    /\ tenant \in [status : {"TRIAL"}, limit : Limits, suspendedAt : {FALSE}]
    /\ pc = [r \in Requests |-> "start"]
    /\ of \in [Requests -> Customers]
    /\ entity = [r \in Requests |-> "ACTIVE"]
    /\ quota = [r \in Requests |-> tenant.limit]
    /\ allowed = [r \in Requests |-> FALSE]
    /\ editing = [e \in Editors |-> Idle]
    /\ admin = [a \in Admins |-> Idle]
    /\ aiQueue = {}
    /\ day = 0

(***************************************************************************)
(* createTicket                                                            *)
(***************************************************************************)
GoTo(r, p) == pc' = [pc EXCEPT ![r] = p]

(* NotFoundError or ForbiddenError, or the entity is kept for later. *)
ReadCustomer(r) ==
    LET c == of[r] IN
    /\ pc[r] = "start"
    /\ IF customer[c] \in {"DELETED", "BLOCKED"}
       THEN GoTo(r, "rejected") /\ UNCHANGED entity
       ELSE GoTo(r, "tenant") /\ entity' = [entity EXCEPT ![r] = customer[c]]
    /\ UNCHANGED <<db, customer, tenant, of, quota, allowed,
                   editing, admin, aiQueue, day>>

(* The limit and canCreateTicket() are those of this read. *)
ReadTenant(r) ==
    /\ pc[r] = "tenant"
    /\ GoTo(r, "number")
    /\ quota' = [quota EXCEPT ![r] = tenant.limit]
    /\ allowed' = [allowed EXCEPT ![r] = tenant.status \in {"ACTIVE", "TRIAL"}]
    /\ UNCHANGED <<db, customer, tenant, of, entity,
                   editing, admin, aiQueue, day>>

(* After the tenant is read, findAssignableAgentOrThrow may reject the     *)
(* agent of the request.                                                   *)
AgentNotAssignable(r) ==
    /\ pc[r] = "tenant"
    /\ GoTo(r, "rejected")
    /\ UNCHANGED <<db, customer, tenant, of, entity, quota, allowed,
                   editing, admin, aiQueue, day>>

(* MUTANT: the number is taken without holding on to the sequence row. *)
NumberUnlocked(r) ==
    /\ pc[r] = "number"
    /\ number' = [number EXCEPT ![r] = seq + 1]
    /\ GoTo(r, "count")
    /\ UNCHANGED <<seq, holder, tickets, createdDay, announced, customer, tenant, of, entity,
                   quota, allowed, editing, admin, aiQueue, day>>

(* getNextTicketNumber: the upsert waits for the row and keeps it locked.  *)
(* The increment is visible to others with the commit only.                *)
getNextTicketNumber(r) ==
    /\ pc[r] = "number"
    /\ holder = None
    /\ holder' = r
    /\ number' = [number EXCEPT ![r] = seq + 1]
    /\ GoTo(r, "count")
    /\ UNCHANGED <<seq, tickets, createdDay, announced, customer, tenant, of, entity,
                   quota, allowed, editing, admin, aiQueue, day>>

CreatedOn(d) == {t \in tickets : createdDay[t] = d}

(* MUTANT: off by one. *)
canCreateTicketOver(r, count) == allowed[r] /\ count <= quota[r]

canCreateTicket(r, count) == allowed[r] /\ count < quota[r]

(* countCreatedSince(startOfUtcDay(now)) and the policy. *)
CountAndCheck(r) ==
    /\ pc[r] = "count"
    /\ canCreateTicket(r, Cardinality(CreatedOn(day)))
    /\ GoTo(r, "insert")
    /\ UNCHANGED <<db, customer, tenant, of, entity, quota, allowed,
                   editing, admin, aiQueue, day>>

(* ROLLBACK gives the number back. *)
Release(r) == holder' = IF holder = r THEN None ELSE holder

(* MUTANT: the limit error leaves the transaction open. *)
LimitReachedHangs(r) ==
    /\ pc[r] = "count"
    /\ ~canCreateTicket(r, Cardinality(CreatedOn(day)))
    /\ GoTo(r, "rejected")
    /\ UNCHANGED <<db, customer, tenant, of, entity, quota, allowed,
                   editing, admin, aiQueue, day>>

LimitReached(r) ==
    /\ pc[r] = "count"
    /\ ~canCreateTicket(r, Cardinality(CreatedOn(day)))
    /\ GoTo(r, "rejected")
    /\ Release(r)
    /\ UNCHANGED <<seq, tickets, number, createdDay, announced, customer, tenant, of, entity,
                   quota, allowed, editing, admin, aiQueue, day>>

(* TicketRepository.save: the foreign key needs the customer, and keeps it *)
(* from being deleted until the transaction ends.                          *)
InsertTicket(r) ==
    /\ pc[r] = "insert"
    /\ customer[of[r]] # "DELETED"
    /\ createdDay' = [createdDay EXCEPT ![r] = day]
    /\ GoTo(r, "commit")
    /\ UNCHANGED <<seq, holder, tickets, number, announced, customer, tenant, of, entity,
                   quota, allowed, editing, admin, aiQueue, day>>

(* recordActivity writes the whole customer back as it was read; activity, *)
(* audit (left out) and outbox rows belong to the same commit.             *)
Commit(r) ==
    /\ pc[r] = "commit"
    /\ seq' = number[r]
    /\ tickets' = tickets \cup {r}
    /\ announced' = announced \cup {r}
    /\ customer' = [customer EXCEPT ![of[r]] = entity[r]]
    /\ Release(r)
    /\ GoTo(r, "queue")
    /\ UNCHANGED <<number, createdDay, tenant, of, entity, quota, allowed,
                   editing, admin, aiQueue, day>>

(* Any statement may fail, the customer may be gone, the process may die.  *)
Rollback(r) ==
    /\ pc[r] \in {"count", "insert", "commit"}
    /\ GoTo(r, "error")
    /\ Release(r)
    /\ UNCHANGED <<seq, tickets, number, createdDay, announced, customer, tenant, of, entity,
                   quota, allowed, editing, admin, aiQueue, day>>

(* After the commit: addTicketAnalysis and the dashboard cache. *)
QueueAnalysis(r) ==
    /\ pc[r] = "queue"
    /\ aiQueue' = aiQueue \cup {r}
    /\ GoTo(r, "done")
    /\ UNCHANGED <<db, customer, tenant, of, entity, quota, allowed,
                   editing, admin, day>>

(* The queue is down: the caller gets an error for a ticket that exists. *)
QueueFails(r) ==
    /\ pc[r] = "queue"
    /\ GoTo(r, "error")
    /\ UNCHANGED <<db, customer, tenant, of, entity, quota, allowed,
                   editing, admin, aiQueue, day>>

(***************************************************************************)
(* CustomerService                                                         *)
(***************************************************************************)

(* updateCustomer, or updateRiskScore, which keeps the status it has read. *)
ReadToUpdate(e, c, s) ==
    /\ editing[e] = Idle
    /\ customer[c] # "DELETED"
    /\ editing' = [editing EXCEPT ![e] = [step |-> "write", id |-> c, status |-> s]]
    /\ UNCHANGED <<db, customer, tenant, local, admin, aiQueue, day>>

(* customerRepo.update writes the whole entity; on a deleted row it fails. *)
WriteCustomer(e) ==
    LET c == editing[e].id IN
    /\ editing[e].step = "write"
    /\ customer' = IF customer[c] = "DELETED" THEN customer
                   ELSE [customer EXCEPT ![c] = editing[e].status]
    /\ editing' = [editing EXCEPT ![e] = Ended]
    /\ UNCHANGED <<db, tenant, local, admin, aiQueue, day>>

(* deleteCustomer: ConflictError if the customer has tickets ... *)
CheckBeforeDelete(e, c) ==
    /\ editing[e] = Idle
    /\ customer[c] \in CustomerStatuses
    /\ \A t \in tickets : of[t] # c
    /\ editing' = [editing EXCEPT ![e] = [step |-> "delete", id |-> c, status |-> customer[c]]]
    /\ UNCHANGED <<db, customer, tenant, local, admin, aiQueue, day>>

(* MUTANT: the tickets table has no foreign key. *)
DeleteAnyway(e) ==
    LET c == editing[e].id IN
    /\ editing[e].step = "delete"
    /\ customer' = [customer EXCEPT ![c] = "DELETED"]
    /\ editing' = [editing EXCEPT ![e] = Ended]
    /\ UNCHANGED <<db, tenant, local, admin, aiQueue, day>>

(* ... and the delete, which the foreign key rejects if a ticket has been  *)
(* committed since.  It waits for a transaction that has inserted one.     *)
DeleteCustomer(e) ==
    LET c == editing[e].id IN
    /\ editing[e].step = "delete"
    /\ \A r \in Requests : ~(pc[r] = "commit" /\ of[r] = c)
    /\ customer' = IF \E t \in tickets : of[t] = c THEN customer
                   ELSE [customer EXCEPT ![c] = "DELETED"]
    /\ editing' = [editing EXCEPT ![e] = Ended]
    /\ UNCHANGED <<db, tenant, local, admin, aiQueue, day>>

(***************************************************************************)
(* TenantService: every operation reads the tenant and writes it whole     *)
(***************************************************************************)
ReadTenantToUpdate(a, new) ==
    /\ admin[a] = Idle
    /\ admin' = [admin EXCEPT ![a] = new]
    /\ UNCHANGED <<db, customer, tenant, local, editing, aiQueue, day>>

updateTenant(a) ==
    \E l \in Limits : ReadTenantToUpdate(a, [tenant EXCEPT !.limit = l])

suspendTenant(a) ==
    /\ tenant.status # "SUSPENDED"
    /\ ReadTenantToUpdate(a, [tenant EXCEPT !.status = "SUSPENDED", !.suspendedAt = TRUE])

restoreTenant(a) ==
    ReadTenantToUpdate(a, [tenant EXCEPT !.status = "ACTIVE", !.suspendedAt = FALSE])

(* TenantRepository.update; an undefined suspendedAt leaves the column. *)
WriteTenant(a) ==
    /\ admin[a] \notin {Idle, Ended}
    /\ tenant' = [admin[a] EXCEPT !.suspendedAt = @ \/ tenant.suspendedAt]
    /\ admin' = [admin EXCEPT ![a] = Ended]
    /\ UNCHANGED <<db, customer, local, editing, aiQueue, day>>

Midnight ==
    /\ day < LastDay
    /\ day' = day + 1
    /\ UNCHANGED <<db, customer, tenant, local, editing, admin, aiQueue>>

(***************************************************************************)
(* Specification                                                           *)
(***************************************************************************)
CreateStep(r) ==
    \/ ReadCustomer(r) \/ ReadTenant(r) \/ AgentNotAssignable(r) \/ getNextTicketNumber(r)
    \/ CountAndCheck(r) \/ LimitReached(r) \/ InsertTicket(r) \/ Commit(r)
    \/ Rollback(r) \/ QueueAnalysis(r) \/ QueueFails(r)

EditStep(e) ==
    \/ \E c \in Customers : \/ \E s \in CustomerStatuses : ReadToUpdate(e, c, s)
                            \/ CheckBeforeDelete(e, c)
    \/ WriteCustomer(e)
    \/ DeleteCustomer(e)

AdminStep(a) == updateTenant(a) \/ suspendTenant(a) \/ restoreTenant(a) \/ WriteTenant(a)

Next == \/ \E r \in Requests : CreateStep(r)
        \/ \E e \in Editors : EditStep(e)
        \/ \E a \in Admins : AdminStep(a)
        \/ Midnight

Spec == Init /\ [][Next]_vars

(* A request goes on, and PostgreSQL grants a free row lock to a waiter;   *)
(* the queue for the lock is fair, so a waiter is served eventually.       *)
FairSpec == Spec /\ \A r \in Requests : WF_vars(CreateStep(r)) /\ SF_vars(getNextTicketNumber(r))

(***************************************************************************)
(* Properties                                                              *)
(***************************************************************************)

(* There is no unique index on ticketNumber: only the row lock that        *)
(* getNextTicketNumber keeps until the commit makes the numbers of the     *)
(* committed tickets 1, 2, ..., lastNumber without duplicates or gaps,     *)
(* whatever transactions roll back.                                        *)
NumbersDense ==
    /\ \A s, t \in tickets : number[s] = number[t] => s = t
    /\ \A n \in 1..seq : \E t \in tickets : number[t] = n
    /\ \A t \in tickets : number[t] \in 1..seq

(* The committed tickets are a register: each commit adds one ticket, with *)
(* the number after the last, a date no earlier than any before it (it is  *)
(* inserted under the lock) and room left on that date.  What waits, fails *)
(* or rolls back is not seen, and a number is never changed or reused.     *)
Register == INSTANCE TicketRegister
                WITH Tickets <- Requests, Days <- 0..LastDay, issued <- tickets,
                     number <- [t \in tickets |-> number[t]],
                     dated <- [t \in tickets |-> createdDay[t]]

ImplementsRegister == Register!Spec

(* The daily limit (createTicket: concurrent creates are serialized and    *)
(* the limit is checked against committed rows): on no day are there more  *)
(* tickets than the largest limit that a creator of that day was given,    *)
(* also when midnight passes between the count and the insert.             *)
DailyLimit ==
    \A d \in 0..LastDay : CreatedOn(d) # {} =>
        \E t \in CreatedOn(d) : Cardinality(CreatedOn(d)) <= quota[t]

(* "AI analysis never runs for a ticket that was rolled back", and every   *)
(* committed ticket has its TicketCreated event in the outbox.             *)
CommittedOrNothing == aiQueue \subseteq tickets /\ announced = tickets

(* Tickets reference their customer, although deleteCustomer looks for     *)
(* tickets in a statement of its own.                                      *)
NoOrphans == \A t \in tickets : customer[of[t]] # "DELETED"

(* Every call of createTicket ends: nobody waits for the sequence row of a *)
(* transaction that is gone.                                               *)
EveryRequestEnds == \A r \in Requests : <>(pc[r] \in {"done", "rejected", "error"})
=============================================================================
