---------------------------- MODULE TicketProofs ----------------------------
(***************************************************************************)
(* Theorems about Tickets for any number of tickets, agents, concurrent    *)
(* requests and staff operations, and any clock.                           *)
(***************************************************************************)
EXTENDS Tickets, TLAPS

(* The part of the type invariant that callers of TicketService touch. *)
ServiceOK == /\ ticket \in [Ids -> Rows]
             /\ published \in [Ids -> SUBSET EventTypes]
             /\ req \in [Callers -> Entities \cup {Idle}]
             /\ stale \subseteq Callers

ServiceInv == ServiceOK /\ OutcomeRecorded /\ EntityInv /\ FreshInv

(* A caller that is not idle holds a well-typed entity. *)
LEMMA BusyCaller ==
  ASSUME ServiceOK, NEW c \in Callers, req[c] # Idle
  PROVE  req[c] \in Entities
  BY DEF ServiceOK

(* step = "agent" or "write" means that the caller is busy. *)
LEMMA StepIsBusy ==
  ASSUME NEW c, req[c].step \in {"agent", "write"}
  PROVE  req[c] # Idle
  BY DEF Idle

(* TicketRepository.update keeps a row well typed and every outcome        *)
(* recorded.                                                               *)
LEMMA MergeRow ==
  ASSUME NEW row \in Rows, NEW e \in Rows
  PROVE  /\ Merge(row, e) \in Rows
         /\ \A events : Recorded(e, events) => Recorded(Merge(row, e), events)
<1>1. Merge(row, e) \in Rows
  <2> DEFINE a == IF e.assignee = None THEN row.assignee ELSE e.assignee
             x == e.escalatedAt \/ row.escalatedAt
             y == e.resolvedAt \/ row.resolvedAt
             z == e.closedAt \/ row.closedAt
  <2>1. a \in Agents \cup {None}
    BY DEF Rows
  <2>2. x \in BOOLEAN /\ y \in BOOLEAN /\ z \in BOOLEAN
    OBVIOUS
  <2>3. Merge(row, e) = [e EXCEPT !.assignee = a, !.escalatedAt = x, !.resolvedAt = y,
                                  !.closedAt = z]
    BY Zenon DEF Merge
  <2> HIDE DEF a, x, y, z
  <2> QED BY <2>1, <2>2, <2>3 DEF Rows
<1>2. /\ Merge(row, e).status = e.status
      /\ Merge(row, e).escalated = e.escalated
      /\ e.resolvedAt => Merge(row, e).resolvedAt
      /\ e.closedAt => Merge(row, e).closedAt
      /\ e.escalatedAt => Merge(row, e).escalatedAt
  BY DEF Merge, Rows
<1> QED BY <1>1, <1>2, Zenon DEF Recorded

(* Events are never taken back, so what is recorded stays recorded. *)
LEMMA RecordedGrows ==
  ASSUME NEW e, NEW A, NEW B, A \subseteq B, Recorded(e, A)
  PROVE  Recorded(e, B)
  BY DEF Recorded

(* A step that only reads a ticket and changes the entity: it suffices     *)
(* that the entity is well typed, carries its outcome, and would be a      *)
(* legal change of the row it was read from.                               *)
LEMMA ReadStep ==
  ASSUME ServiceInv,
         NEW c \in Callers, NEW t \in Ids, NEW step \in {"agent", "write"},
         NEW data \in Rows, NEW events \in SUBSET EventTypes,
         Read(c, t, step, data, events),
         Recorded(data, published[t] \cup events),
         LegalChange(ticket[t], Merge(ticket[t], data)),
         UNCHANGED <<ticket, published>>
  PROVE  ServiceInv'
<1> DEFINE e == [step |-> step, id |-> t, data |-> data, events |-> events]
<1>1. e \in Entities
  BY DEF Entities
<1>2. req' = [req EXCEPT ![c] = e] /\ stale' = stale \ {c}
  BY DEF Read
<1>3. /\ req'[c] = e
      /\ \A d \in Callers : d # c => req'[d] = req[d]
  BY <1>2 DEF ServiceInv, ServiceOK
<1> HIDE DEF e
<1>4. ServiceOK'
  BY <1>1, <1>2 DEF ServiceInv, ServiceOK
<1>5. OutcomeRecorded'
  BY DEF ServiceInv, OutcomeRecorded
<1>6. e.data = data /\ e.id = t /\ e.events = events
  BY DEF e
<1>7. EntityInv'
  BY <1>3, <1>6 DEF ServiceInv, EntityInv
<1>8. FreshInv'
  BY <1>2, <1>3, <1>6 DEF ServiceInv, FreshInv
<1> QED BY <1>4, <1>5, <1>7, <1>8 DEF ServiceInv

(* A step that leaves the tables alone and drops or keeps entities. *)
LEMMA DropStep ==
  ASSUME ServiceInv,
         req' \in [Callers -> Entities \cup {Idle}],
         \A c \in Callers : req'[c] # Idle =>
             /\ req[c] # Idle
             /\ req'[c].id = req[c].id
             /\ req'[c].data = req[c].data
             /\ req'[c].events = req[c].events,
         stale' = stale,
         UNCHANGED <<ticket, published>>
  PROVE  ServiceInv'
<1>1. ServiceOK'
  BY DEF ServiceInv, ServiceOK
<1>2. OutcomeRecorded'
  BY DEF ServiceInv, OutcomeRecorded
<1>3. EntityInv'
  BY DEF ServiceInv, EntityInv
<1>4. FreshInv'
  BY DEF ServiceInv, FreshInv
<1> QED BY <1>1, <1>2, <1>3, <1>4 DEF ServiceInv

(* The entities that the operations build. *)
LEMMA StatusEntity ==
  ASSUME NEW e \in Rows, NEW s \in Statuses, NEW pub,
         s \in Transitions(e.status), Recorded(e, pub)
  PROVE  /\ ChangedStatus(e, s) \in Rows
         /\ Recorded(ChangedStatus(e, s), pub \cup StatusEvents(s))
         /\ LegalChange(e, Merge(e, ChangedStatus(e, s)))
<1>1. ChangedStatus(e, s) \in Rows
  BY DEF ChangedStatus, Rows
<1>2. /\ ChangedStatus(e, s).status = s
      /\ ChangedStatus(e, s).escalated = e.escalated
      /\ ChangedStatus(e, s).escalatedAt = e.escalatedAt
      /\ ChangedStatus(e, s).assignee = e.assignee
      /\ ChangedStatus(e, s).breached = e.breached
      /\ s = "RESOLVED" => ChangedStatus(e, s).resolvedAt = TRUE
      /\ s = "CLOSED" => ChangedStatus(e, s).closedAt = TRUE
  BY DEF ChangedStatus, Rows, ActiveStatuses
<1>3. Recorded(ChangedStatus(e, s), pub \cup StatusEvents(s))
  BY <1>2, Zenon DEF Recorded, StatusEvents
<1>4. /\ Merge(e, ChangedStatus(e, s)).status = s
      /\ Merge(e, ChangedStatus(e, s)).escalated = e.escalated
      /\ Merge(e, ChangedStatus(e, s)).breached = e.breached
      /\ Merge(e, ChangedStatus(e, s)).assignee = e.assignee
  BY <1>1, <1>2 DEF Merge, Rows
<1>5. LegalChange(e, Merge(e, ChangedStatus(e, s)))
  BY <1>4, Zenon DEF LegalChange
<1> QED BY <1>1, <1>3, <1>5

LEMMA EscalatedEntity ==
  ASSUME NEW e \in Rows, NEW pub, canEscalate(e), Recorded(e, pub)
  PROVE  /\ Escalated(e) \in Rows
         /\ Recorded(Escalated(e), pub \cup {"Escalated"})
         /\ LegalChange(e, Merge(e, Escalated(e)))
<1>1. Escalated(e) \in Rows
  BY DEF Escalated, Rows
<1>2. /\ Escalated(e).status = e.status
      /\ Escalated(e).resolvedAt = e.resolvedAt
      /\ Escalated(e).closedAt = e.closedAt
      /\ Escalated(e).escalatedAt = TRUE
      /\ Escalated(e).assignee = e.assignee
      /\ Escalated(e).breached = e.breached
  BY DEF Escalated, Rows
<1>3. Recorded(Escalated(e), pub \cup {"Escalated"})
  BY <1>2, Zenon DEF Recorded
<1>4. /\ Merge(e, Escalated(e)).status = e.status
      /\ Merge(e, Escalated(e)).escalated = TRUE
      /\ Merge(e, Escalated(e)).breached = e.breached
      /\ Merge(e, Escalated(e)).assignee = e.assignee
  BY <1>1, <1>2 DEF Merge, Rows, Escalated
<1>5. LegalChange(e, Merge(e, Escalated(e)))
  BY <1>4, Zenon DEF LegalChange
<1> QED BY <1>1, <1>3, <1>5

(* updateTicket and assignTicket: a due date or an assignee is replaced.   *)
LEMMA DetailEntity ==
  ASSUME NEW e \in Rows, NEW pub, NEW extra, isActive(e), Recorded(e, pub),
         NEW f \in Rows, f.status = e.status, f.escalated = e.escalated,
         f.escalatedAt = e.escalatedAt, f.resolvedAt = e.resolvedAt,
         f.closedAt = e.closedAt, f.breached = e.breached
  PROVE  /\ Recorded(f, pub \cup extra)
         /\ LegalChange(e, Merge(e, f))
<1>1. Recorded(f, pub \cup extra)
  BY Zenon DEF Recorded
<1>2. /\ Merge(e, f).status = e.status
      /\ Merge(e, f).escalated = e.escalated
      /\ Merge(e, f).breached = e.breached
  BY DEF Merge, Rows
<1>3. LegalChange(e, Merge(e, f))
  BY <1>2, Zenon DEF LegalChange
<1> QED BY <1>1, <1>3

(* The transaction of a request: every other caller that had read the row  *)
(* becomes stale, so nothing has to be shown of its entity's freshness.    *)
LEMMA WriteStep ==
  ASSUME ServiceInv, NEW c \in Callers, Write(c)
  PROVE  /\ ServiceInv'
         /\ \A t \in Ids : LegalChange(ticket[t], ticket'[t]) \/ StaleWrite(t)
<1> DEFINE t == req[c].id
           new == Merge(ticket[t], req[c].data)
<1>0. ServiceOK /\ req[c].step = "write"
  BY DEF ServiceInv, Write
<1>1. req[c] # Idle /\ req[c] \in Entities
  BY <1>0, BusyCaller, StepIsBusy
<1>2. t \in Ids /\ req[c].data \in Rows /\ req[c].events \in SUBSET EventTypes
  BY <1>1 DEF Entities
<1>3. ticket[t] \in Rows /\ published[t] \in SUBSET EventTypes
  BY <1>0, <1>2 DEF ServiceOK
<1>4. new \in Rows
  BY <1>2, <1>3, MergeRow
<1>5. /\ ticket' = [ticket EXCEPT ![t] = new]
      /\ published' = [published EXCEPT ![t] = @ \cup req[c].events]
      /\ req' = [req EXCEPT ![c] = Idle]
      /\ stale' = (stale \cup {d \in Callers : req[d] # Idle /\ req[d].id = t}) \ {c}
  BY DEF Write
<1>6. Recorded(new, published[t] \cup req[c].events)
  <2>1. Recorded(req[c].data, published[t] \cup req[c].events)
    BY <1>1 DEF ServiceInv, EntityInv
  <2> QED BY <2>1, <1>2, <1>3, MergeRow
<1>7. c \notin stale => LegalChange(ticket[t], new)
  BY <1>1 DEF ServiceInv, FreshInv
<1> HIDE DEF t, new
<1>8. ServiceOK'
  BY <1>0, <1>2, <1>3, <1>4, <1>5 DEF ServiceOK
<1>9. OutcomeRecorded'
  <2>1. \A u \in Ids : u # t => ticket'[u] = ticket[u] /\ published'[u] = published[u]
    BY <1>0, <1>5 DEF ServiceOK
  <2>2. ticket'[t] = new /\ published'[t] = published[t] \cup req[c].events
    BY <1>0, <1>2, <1>5 DEF ServiceOK
  <2> QED BY <2>1, <2>2, <1>6 DEF ServiceInv, OutcomeRecorded
<1>10. EntityInv'
  <2> SUFFICES ASSUME NEW d \in Callers, req'[d] # Idle
               PROVE  Recorded(req'[d].data, published'[req'[d].id] \cup req'[d].events)
    BY DEF EntityInv
  <2>1. d # c /\ req'[d] = req[d]
    BY <1>0, <1>5 DEF ServiceOK
  <2>2. req[d] \in Entities
    BY <2>1, <1>0, BusyCaller
  <2>3. published[req[d].id] \subseteq published'[req[d].id]
    BY <2>2, <1>0, <1>5 DEF ServiceOK, Entities
  <2>4. Recorded(req[d].data, published[req[d].id] \cup req[d].events)
    BY <2>1 DEF ServiceInv, EntityInv
  <2> QED BY <2>1, <2>3, <2>4, RecordedGrows
<1>11. FreshInv'
  <2> SUFFICES ASSUME NEW d \in Callers, d \notin stale', req'[d] # Idle
               PROVE  LegalChange(ticket'[req'[d].id], Merge(ticket'[req'[d].id], req'[d].data))
    BY DEF FreshInv
  <2>1. d # c /\ req'[d] = req[d]
    BY <1>0, <1>5 DEF ServiceOK
  <2>2. req[d] \in Entities
    BY <2>1, <1>0, BusyCaller
  <2>3. d \notin stale /\ req[d].id # t
    BY <2>1, <1>5
  <2>4. ticket'[req[d].id] = ticket[req[d].id]
    BY <2>2, <2>3, <1>0, <1>5 DEF ServiceOK, Entities
  <2> QED BY <2>1, <2>3, <2>4 DEF ServiceInv, FreshInv
<1>12. ASSUME NEW u \in Ids PROVE LegalChange(ticket[u], ticket'[u]) \/ StaleWrite(u)
  <2>1. CASE u # t
    <3>1. ticket'[u] = ticket[u]
      BY <2>1, <1>0, <1>5 DEF ServiceOK
    <3> QED BY <3>1 DEF LegalChange
  <2>2. CASE u = t /\ c \notin stale
    <3>1. ticket'[u] = new
      BY <2>2, <1>0, <1>2, <1>5 DEF ServiceOK
    <3> QED BY <3>1, <2>2, <1>7
  <2>3. CASE u = t /\ c \in stale
    <3>1. req'[c] = Idle
      BY <1>0, <1>5 DEF ServiceOK
    <3> QED BY <3>1, <2>3, <1>0 DEF StaleWrite, t
  <2> QED BY <2>1, <2>2, <2>3
<1> QED BY <1>8, <1>9, <1>10, <1>11, <1>12 DEF ServiceInv

(* markSlaBreached and the transfer of an agent's tickets change the table *)
(* without reading an entity: a legal change of every row that keeps the   *)
(* outcome, and makes every reader of a changed row stale.                 *)
LEMMA DirectStep ==
  ASSUME ServiceInv,
         ticket' \in [Ids -> Rows],
         published' = published, req' = req,
         stale' \subseteq Callers, stale \subseteq stale',
         \A c \in Callers : req[c] # Idle /\ ticket'[req[c].id] # ticket[req[c].id] => c \in stale',
         \A t \in Ids : /\ ticket'[t].status = ticket[t].status
                        /\ ticket'[t].escalated = ticket[t].escalated
                        /\ ticket'[t].escalatedAt = ticket[t].escalatedAt
                        /\ ticket'[t].resolvedAt = ticket[t].resolvedAt
                        /\ ticket'[t].closedAt = ticket[t].closedAt
  PROVE  ServiceInv'
<1>1. ServiceOK'
  BY DEF ServiceInv, ServiceOK
<1>2. OutcomeRecorded'
  BY Zenon DEF ServiceInv, OutcomeRecorded, Recorded
<1>3. EntityInv'
  BY DEF ServiceInv, EntityInv
<1>4. FreshInv'
  BY DEF ServiceInv, FreshInv
<1> QED BY <1>1, <1>2, <1>3, <1>4 DEF ServiceInv

LEMMA JobMarksStep ==
  ASSUME ServiceInv, NEW t \in Ids, JobMarks(t)
  PROVE  /\ ServiceInv'
         /\ \A u \in Ids : LegalChange(ticket[u], ticket'[u])
<1>1. /\ ticket' = [ticket EXCEPT ![t].breached = TRUE]
      /\ ticket \in [Ids -> Rows]
      /\ stale' = IF ticket[t].breached THEN stale
                  ELSE stale \cup {d \in Callers : req[d] # Idle /\ req[d].id = t}
      /\ stale \subseteq Callers
      /\ published' = published /\ req' = req
  BY DEF JobMarks, ServiceInv, ServiceOK
<1>2. /\ ticket' \in [Ids -> Rows]
      /\ \A u \in Ids : /\ ticket'[u].status = ticket[u].status
                         /\ ticket'[u].escalated = ticket[u].escalated
                         /\ ticket'[u].escalatedAt = ticket[u].escalatedAt
                         /\ ticket'[u].resolvedAt = ticket[u].resolvedAt
                         /\ ticket'[u].closedAt = ticket[u].closedAt
  BY <1>1 DEF Rows
<1>7. \A u \in Ids : /\ ticket'[u].assignee = ticket[u].assignee
                     /\ ticket[u].breached => ticket'[u].breached
  BY <1>1 DEF Rows
<1>3. /\ \A u \in Ids : u # t => ticket'[u] = ticket[u]
      /\ ticket[t].breached => ticket'[t] = ticket[t]
  <2>1. \A u \in Ids : u # t => ticket'[u] = ticket[u]
    BY <1>1
  <2>2. ticket[t].breached \in BOOLEAN /\ ticket'[t] = [ticket[t] EXCEPT !.breached = TRUE]
    BY <1>1 DEF Rows
  <2>3. ASSUME ticket[t].breached PROVE ticket'[t] = ticket[t]
    <3>1. ticket[t].breached = TRUE
      BY <2>2, <2>3
    <3> QED BY <1>1, <2>2, <3>1 DEF Rows
  <2> QED BY <2>1, <2>3
<1>4. \A c \in Callers : req[c] # Idle /\ ticket'[req[c].id] # ticket[req[c].id] => c \in stale'
  <2> SUFFICES ASSUME NEW c \in Callers, req[c] # Idle, ticket'[req[c].id] # ticket[req[c].id]
               PROVE  c \in stale'
    OBVIOUS
  <2>1. req[c].id \in Ids
    BY BusyCaller DEF ServiceInv, Entities
  <2> QED BY <2>1, <1>1, <1>3
<1>5. stale' \subseteq Callers /\ stale \subseteq stale'
  BY <1>1
<1>6. ServiceInv'
  BY <1>1, <1>2, <1>4, <1>5, DirectStep
<1>8. \A u \in Ids : LegalChange(ticket[u], ticket'[u])
  BY <1>2, <1>7, Zenon DEF LegalChange
<1> QED BY <1>6, <1>8

LEMMA removeWriteStep ==
  ASSUME TypeOK, ServiceInv, NEW m \in Managers, removeWrite(m)
  PROVE  /\ ServiceInv'
         /\ \A u \in Ids : LegalChange(ticket[u], ticket'[u])
<1> DEFINE a == mgr[m].agent
           o == mgr[m].other
           moved == {t \in Ids : ticket[t].assignee = a /\ isActive(ticket[t])}
<1>1. /\ ticket' = [t \in Ids |-> IF t \in moved THEN [ticket[t] EXCEPT !.assignee = o]
                                  ELSE ticket[t]]
      /\ stale' = stale \cup {d \in Callers : req[d] # Idle /\ req[d].id \in moved}
      /\ published' = published /\ req' = req
  BY DEF removeWrite
<1>2. o \in Agents \cup {None}
  BY DEF TypeOK, StaffOps, removeWrite, Idle
<1>3. ticket \in [Ids -> Rows] /\ stale \subseteq Callers
  BY DEF ServiceInv, ServiceOK
<1>4. \A u \in Ids : ~isActive(ticket[u]) => u \notin moved
  OBVIOUS
<1> HIDE DEF a, o, moved
<1>5. /\ ticket' \in [Ids -> Rows]
      /\ \A u \in Ids : /\ ticket'[u].status = ticket[u].status
                         /\ ticket'[u].escalated = ticket[u].escalated
                         /\ ticket'[u].escalatedAt = ticket[u].escalatedAt
                         /\ ticket'[u].resolvedAt = ticket[u].resolvedAt
                         /\ ticket'[u].closedAt = ticket[u].closedAt
                         /\ ticket'[u].breached = ticket[u].breached
  BY <1>1, <1>2, <1>3 DEF Rows
<1>6. \A u \in Ids : u \notin moved => ticket'[u] = ticket[u]
  BY <1>1
<1>7. \A c \in Callers : req[c] # Idle /\ ticket'[req[c].id] # ticket[req[c].id] => c \in stale'
  <2> SUFFICES ASSUME NEW c \in Callers, req[c] # Idle, ticket'[req[c].id] # ticket[req[c].id]
               PROVE  c \in stale'
    OBVIOUS
  <2>1. req[c].id \in Ids
    BY BusyCaller DEF ServiceInv, Entities
  <2> QED BY <2>1, <1>1, <1>6
<1>8. stale' \subseteq Callers /\ stale \subseteq stale'
  BY <1>1, <1>3
<1>9. ServiceInv'
  BY <1>1, <1>5, <1>7, <1>8, DirectStep
<1> QED BY <1>4, <1>5, <1>6, <1>9, Zenon DEF LegalChange

(* The rest of the type invariant: the clock, the staff, the job and the   *)
(* history.                                                                *)
OtherOK == /\ now \in 0..LastNow
           /\ agentStatus \in [Agents -> {"ACTIVE", "INACTIVE"}]
           /\ removed \in [Agents -> BOOLEAN]
           /\ mgr \in [Managers -> StaffOps \cup {Idle}]
           /\ job \in [todo : SUBSET Ids, may : SUBSET Ids, cur : Ids \cup {None}]
           /\ faults \in 0..MaxFaults

LEMMA TypeParts == TypeOK <=> ServiceOK /\ OtherOK
  BY Zenon DEF TypeOK, ServiceOK, OtherOK

(* The inductive invariant. *)
Inv == ServiceInv /\ OtherOK

LEMMA InvImpliesTypeOK == Inv => TypeOK
  BY TypeParts, Zenon DEF Inv, ServiceInv

(* One operation of TicketService by a user. *)
LEMMA UserReads ==
  ASSUME ServiceInv, NEW c \in Callers, NEW t \in Ids,
         \/ \E due \in 1..Horizon : updateTicket(c, t, due)
         \/ \E s \in Statuses : changeStatus(c, t, s)
         \/ escalate(c, t)
         \/ addComment(c, t)
         \/ \E a \in Agents : assignTicket(c, t, a)
  PROVE  ServiceInv' /\ UNCHANGED <<ticket, now, staff, job, faults>>
<1> DEFINE e == ticket[t]
<1>1. e \in Rows /\ Recorded(e, published[t])
  BY DEF ServiceInv, ServiceOK, OutcomeRecorded
<1>2. ASSUME NEW due \in 1..Horizon, updateTicket(c, t, due)
      PROVE  ServiceInv' /\ UNCHANGED <<ticket, now, staff, job, faults>>
  <2> DEFINE f == [e EXCEPT !.dueAt = due]
  <2>1. /\ f \in Rows /\ f.status = e.status /\ f.escalated = e.escalated
        /\ f.escalatedAt = e.escalatedAt /\ f.resolvedAt = e.resolvedAt
        /\ f.closedAt = e.closedAt /\ f.breached = e.breached
    BY <1>1 DEF Rows
  <2>2. isActive(e) /\ Read(c, t, "write", f, {})
    BY <1>2 DEF updateTicket
  <2>3. UNCHANGED <<ticket, published, now, staff, job, faults>>
    BY <1>2 DEF updateTicket
  <2> HIDE DEF f
  <2>4. Recorded(f, published[t] \cup {}) /\ LegalChange(e, Merge(e, f))
    BY <1>1, <2>1, <2>2, DetailEntity
  <2>5. ServiceInv'
    BY <2>1, <2>2, <2>3, <2>4, ReadStep
  <2> QED BY <2>3, <2>5
<1>3. ASSUME NEW a \in Agents, assignTicket(c, t, a)
      PROVE  ServiceInv' /\ UNCHANGED <<ticket, now, staff, job, faults>>
  <2> DEFINE f == [e EXCEPT !.assignee = a]
  <2>1. /\ f \in Rows /\ f.status = e.status /\ f.escalated = e.escalated
        /\ f.escalatedAt = e.escalatedAt /\ f.resolvedAt = e.resolvedAt
        /\ f.closedAt = e.closedAt /\ f.breached = e.breached
    BY <1>1 DEF Rows
  <2>2. isActive(e) /\ Read(c, t, "agent", f, {"Assigned"})
    BY <1>3 DEF assignTicket
  <2>3. UNCHANGED <<ticket, published, now, staff, job, faults>>
    BY <1>3 DEF assignTicket
  <2> HIDE DEF f
  <2>4. Recorded(f, published[t] \cup {"Assigned"}) /\ LegalChange(e, Merge(e, f))
    BY <1>1, <2>1, <2>2, DetailEntity
  <2>5. {"Assigned"} \in SUBSET EventTypes
    BY DEF EventTypes
  <2>6. ServiceInv'
    BY <2>1, <2>2, <2>3, <2>4, <2>5, ReadStep
  <2> QED BY <2>3, <2>6
<1>4. ASSUME NEW s \in Statuses, s \in Transitions(e.status),
             Read(c, t, "write", ChangedStatus(e, s), StatusEvents(s)),
             UNCHANGED <<ticket, published>>
      PROVE  ServiceInv'
  <2>1. StatusEvents(s) \in SUBSET EventTypes
    BY DEF StatusEvents, EventTypes
  <2>2. /\ ChangedStatus(e, s) \in Rows
        /\ Recorded(ChangedStatus(e, s), published[t] \cup StatusEvents(s))
        /\ LegalChange(e, Merge(e, ChangedStatus(e, s)))
    BY <1>1, <1>4, StatusEntity
  <2> QED BY <1>4, <2>1, <2>2, ReadStep
<1>5. ASSUME NEW s \in Statuses, changeStatus(c, t, s)
      PROVE  ServiceInv' /\ UNCHANGED <<ticket, now, staff, job, faults>>
  BY <1>4, <1>5 DEF changeStatus
<1>6. ASSUME addComment(c, t)
      PROVE  ServiceInv' /\ UNCHANGED <<ticket, now, staff, job, faults>>
  <2>1. "IN_PROGRESS" \in Statuses /\ "IN_PROGRESS" \in Transitions("PENDING_CUSTOMER")
    BY DEF Statuses, ActiveStatuses, Transitions
  <2> QED BY <1>4, <1>6, <2>1 DEF addComment
<1>7. ASSUME escalate(c, t)
      PROVE  ServiceInv' /\ UNCHANGED <<ticket, now, staff, job, faults>>
  <2>1. {"Escalated"} \in SUBSET EventTypes
    BY DEF EventTypes
  <2>2. canEscalate(e) /\ Read(c, t, "write", Escalated(e), {"Escalated"})
    BY <1>7 DEF escalate, escalateTicket
  <2>3. UNCHANGED <<ticket, published, now, staff, job, faults>>
    BY <1>7 DEF escalate
  <2>4. /\ Escalated(e) \in Rows
        /\ Recorded(Escalated(e), published[t] \cup {"Escalated"})
        /\ LegalChange(e, Merge(e, Escalated(e)))
    BY <1>1, <2>2, EscalatedEntity
  <2>5. ServiceInv'
    BY <2>1, <2>2, <2>3, <2>4, ReadStep
  <2> QED BY <2>3, <2>5
<1> QED BY <1>2, <1>3, <1>5, <1>6, <1>7

(* The job's call of escalateTicket. *)
LEMMA JobEscalatesStep ==
  ASSUME ServiceInv, OtherOK, JobEscalates
  PROVE  ServiceInv' /\ OtherOK' /\ UNCHANGED ticket
<1> DEFINE t == job.cur
           e == ticket[t]
<1>1. t \in Ids /\ Job \in Callers
  BY DEF JobEscalates, OtherOK, Callers
<1>2. e \in Rows /\ Recorded(e, published[t])
  BY <1>1 DEF ServiceInv, ServiceOK, OutcomeRecorded
<1>3. {"Escalated"} \in SUBSET EventTypes
  BY DEF EventTypes
<1>4. canEscalate(e) /\ Read(Job, t, "write", Escalated(e), {"Escalated"})
  BY DEF JobEscalates, escalateTicket
<1>5. UNCHANGED <<ticket, published, now, staff, faults>>
  BY DEF JobEscalates
<1>6. job' \in [todo : SUBSET Ids, may : SUBSET Ids, cur : Ids \cup {None}]
  BY DEF JobEscalates, OtherOK
<1> HIDE DEF t
<1>7. /\ Escalated(e) \in Rows
      /\ Recorded(Escalated(e), published[t] \cup {"Escalated"})
      /\ LegalChange(e, Merge(e, Escalated(e)))
  BY <1>2, <1>4, EscalatedEntity
<1>8. ServiceInv'
  BY <1>1, <1>3, <1>4, <1>5, <1>7, ReadStep
<1> QED BY <1>5, <1>6, <1>8 DEF OtherOK, staff

(* Requests that end without writing: NotFoundError, a failed transaction  *)
(* or a dead process; and an agent that was found.                         *)
LEMMA DropSteps ==
  ASSUME ServiceInv, NEW c \in Callers,
         \/ findAssignableAgentOrThrow(c)
         \/ Abort(c)
         \/ JobCrashes
  PROVE  ServiceInv'
<1>1. req \in [Callers -> Entities \cup {Idle}] /\ Job \in Callers
  BY DEF ServiceInv, ServiceOK, Callers
<1>2. ASSUME NEW d \in Callers, req' = [req EXCEPT ![d] = Idle], stale' = stale,
             UNCHANGED <<ticket, published>>
      PROVE  ServiceInv'
  BY <1>1, <1>2, DropStep
<1>3. CASE findAssignableAgentOrThrow(c)
  <2> DEFINE e == IF agentStatus[req[c].data.assignee] = "ACTIVE"
                  THEN [req[c] EXCEPT !.step = "write"] ELSE Idle
  <2>1. req[c] # Idle /\ req[c] \in Entities
    BY <1>1, <1>3 DEF findAssignableAgentOrThrow, Idle
  <2>2. e \in Entities \cup {Idle}
    BY <2>1 DEF Entities
  <2>3. e # Idle => e.id = req[c].id /\ e.data = req[c].data /\ e.events = req[c].events
    BY <2>1 DEF Entities
  <2>4. req' = [req EXCEPT ![c] = e] /\ stale' = stale /\ UNCHANGED <<ticket, published>>
    BY <1>3 DEF findAssignableAgentOrThrow
  <2> HIDE DEF e
  <2>5. req' \in [Callers -> Entities \cup {Idle}]
    BY <1>1, <2>2, <2>4
  <2> QED BY <1>1, <2>1, <2>3, <2>4, <2>5, DropStep
<1>4. CASE Abort(c)
  BY <1>2, <1>4 DEF Abort
<1>5. CASE JobCrashes
  BY <1>1, <1>2, <1>5 DEF JobCrashes
<1> QED BY <1>3, <1>4, <1>5

(* The steps that touch neither the tables nor the requests. *)
LEMMA IdleSteps ==
  ASSUME ServiceInv, UNCHANGED <<ticket, published, callers>>
  PROVE  ServiceInv'
  BY DEF ServiceInv, ServiceOK, OutcomeRecorded, EntityInv, FreshInv, callers, LegalChange

LEMMA SameTicketsLegal ==
  ASSUME UNCHANGED ticket
  PROVE  \A t \in Ids : LegalChange(ticket[t], ticket'[t])
  BY DEF LegalChange

Safe == Inv' /\ \A t \in Ids : LegalChange(ticket[t], ticket'[t]) \/ StaleWrite(t)

LEMMA WriteSafe ==
  ASSUME Inv, NEW c \in Callers, Write(c)
  PROVE  Safe
<1>1. ServiceInv /\ OtherOK
  BY DEF Inv
<1>2. /\ ServiceInv'
      /\ \A t \in Ids : LegalChange(ticket[t], ticket'[t]) \/ StaleWrite(t)
  BY <1>1, WriteStep
<1>3. req[c].id \in Ids
  BY <1>1, BusyCaller, StepIsBusy DEF Write, ServiceInv, Entities
<1>4. OtherOK'
  BY <1>1, <1>3 DEF OtherOK, Write, staff
<1> QED BY <1>2, <1>4 DEF Safe, Inv

LEMMA AbortSafe ==
  ASSUME Inv, NEW c \in Callers, Abort(c)
  PROVE  Safe
<1>1. ServiceInv /\ OtherOK
  BY DEF Inv
<1>2. ServiceInv'
  BY <1>1, DropSteps
<1>3. faults' \in 0..MaxFaults
  BY <1>1, TicketBoundsAssumption DEF OtherOK, Abort
<1>4. UNCHANGED <<ticket, now, staff, job>>
  BY DEF Abort
<1>5. OtherOK'
  BY <1>1, <1>3, <1>4 DEF OtherOK, staff
<1> QED BY <1>2, <1>4, <1>5, SameTicketsLegal DEF Safe, Inv

LEMMA UserSafe ==
  ASSUME Inv, NEW c \in Requests, UserStep(c)
  PROVE  Safe
<1>1. ServiceInv /\ OtherOK /\ c \in Callers
  BY DEF Inv, Callers
<1>2. ASSUME NEW t \in Ids,
             \/ \E due \in 1..Horizon : updateTicket(c, t, due)
             \/ \E s \in Statuses : changeStatus(c, t, s)
             \/ escalate(c, t)
             \/ addComment(c, t)
             \/ \E a \in Agents : assignTicket(c, t, a)
      PROVE  Safe
  <2>1. ServiceInv' /\ UNCHANGED <<ticket, now, staff, job, faults>>
    BY <1>1, <1>2, UserReads
  <2>2. OtherOK'
    BY <1>1, <2>1 DEF OtherOK, staff
  <2> QED BY <2>1, <2>2, SameTicketsLegal DEF Safe, Inv
<1>3. CASE findAssignableAgentOrThrow(c)
  <2>1. ServiceInv' /\ UNCHANGED <<ticket, now, staff, job, faults>>
    BY <1>1, <1>3, DropSteps DEF findAssignableAgentOrThrow
  <2>2. OtherOK'
    BY <1>1, <2>1 DEF OtherOK, staff
  <2> QED BY <2>1, <2>2, SameTicketsLegal DEF Safe, Inv
<1> QED BY <1>1, <1>2, <1>3, WriteSafe, AbortSafe DEF UserStep

LEMMA JobSafe ==
  ASSUME Inv, JobStep \/ JobFault
  PROVE  Safe
<1>1. ServiceInv /\ OtherOK /\ Job \in Callers
  BY DEF Inv, Callers
<1>2. CASE JobLists
  <2>1. job' \in [todo : SUBSET Ids, may : SUBSET Ids, cur : Ids \cup {None}]
    BY <1>2 DEF JobLists
  <2>2. UNCHANGED <<ticket, published, callers, now, staff, faults>>
    BY <1>2 DEF JobLists
  <2>3. ServiceInv'
    BY <1>1, <2>2, IdleSteps
  <2>4. OtherOK'
    BY <1>1, <2>1, <2>2 DEF OtherOK, staff
  <2> QED BY <2>2, <2>3, <2>4, SameTicketsLegal DEF Safe, Inv
<1>3. ASSUME NEW t \in Ids, JobMarks(t) PROVE Safe
  <2>1. ServiceInv' /\ \A u \in Ids : LegalChange(ticket[u], ticket'[u])
    BY <1>1, <1>3, JobMarksStep
  <2>2. job' \in [todo : SUBSET Ids, may : SUBSET Ids, cur : Ids \cup {None}]
    BY <1>1, <1>3 DEF OtherOK, JobMarks
  <2>3. OtherOK'
    BY <1>1, <1>3, <2>2 DEF OtherOK, JobMarks, staff
  <2> QED BY <2>1, <2>3 DEF Safe, Inv
<1>4. CASE JobEscalates
  BY <1>1, <1>4, JobEscalatesStep, SameTicketsLegal DEF Safe, Inv
<1>5. CASE JobSkips \/ \E t \in Ids : JobTicketFails(t)
  <2>1. job' \in [todo : SUBSET Ids, may : SUBSET Ids, cur : Ids \cup {None}]
    BY <1>1, <1>5 DEF OtherOK, JobSkips, JobTicketFails
  <2>2. UNCHANGED <<ticket, published, callers, now, staff>>
    BY <1>5 DEF JobSkips, JobTicketFails
  <2>3. faults' \in 0..MaxFaults
    BY <1>1, <1>5, TicketBoundsAssumption DEF OtherOK, JobSkips, JobTicketFails
  <2>4. ServiceInv'
    BY <1>1, <2>2, IdleSteps
  <2>5. OtherOK'
    BY <1>1, <2>1, <2>2, <2>3 DEF OtherOK, staff
  <2> QED BY <2>2, <2>4, <2>5, SameTicketsLegal DEF Safe, Inv
<1>6. CASE JobCrashes
  <2>1. ServiceInv'
    BY <1>1, <1>6, DropSteps
  <2>2. UNCHANGED <<ticket, now, staff>> /\ faults' \in 0..MaxFaults
    BY <1>1, <1>6, TicketBoundsAssumption DEF OtherOK, JobCrashes
  <2>3. job' \in [todo : SUBSET Ids, may : SUBSET Ids, cur : Ids \cup {None}]
    BY <1>6 DEF JobCrashes
  <2>4. OtherOK'
    BY <1>1, <2>2, <2>3 DEF OtherOK, staff
  <2> QED BY <2>1, <2>2, <2>4, SameTicketsLegal DEF Safe, Inv
<1> QED BY <1>1, <1>2, <1>3, <1>4, <1>5, <1>6, WriteSafe, AbortSafe DEF JobStep, JobFault

LEMMA StaffSafe ==
  ASSUME Inv, NEW m \in Managers, StaffStep(m)
  PROVE  Safe
<1>1. ServiceInv /\ OtherOK /\ TypeOK
  BY InvImpliesTypeOK DEF Inv
<1>2. ASSUME NEW a \in Agents,
             \/ \E s \in {"ACTIVE", "INACTIVE"} : setActiveRead(m, a, s)
             \/ \E other \in Agents \cup {None} : removeRead(m, a, other)
      PROVE  Safe
  <2>1. mgr' \in [Managers -> StaffOps \cup {Idle}]
    BY <1>1, <1>2 DEF OtherOK, setActiveRead, removeRead, StaffOps
  <2>2. UNCHANGED <<ticket, published, callers, now, agentStatus, removed, job, faults>>
    BY <1>2 DEF setActiveRead, removeRead
  <2>3. ServiceInv'
    BY <1>1, <2>2, IdleSteps
  <2>4. OtherOK'
    BY <1>1, <2>1, <2>2 DEF OtherOK
  <2> QED BY <2>2, <2>3, <2>4, SameTicketsLegal DEF Safe, Inv
<1>3. CASE setActiveWrite(m)
  <2>1. mgr[m].op \in {"ACTIVE", "INACTIVE"}
    BY <1>1, <1>3 DEF OtherOK, setActiveWrite, StaffOps
  <2>2. UNCHANGED <<ticket, published, callers, now, removed, job, faults>>
    BY <1>3 DEF setActiveWrite
  <2>3. ServiceInv'
    BY <1>1, <2>2, IdleSteps
  <2>4. agentStatus' \in [Agents -> {"ACTIVE", "INACTIVE"}]
        /\ mgr' \in [Managers -> StaffOps \cup {Idle}]
    BY <1>1, <1>3, <2>1 DEF OtherOK, setActiveWrite
  <2>5. OtherOK'
    BY <1>1, <2>2, <2>4 DEF OtherOK
  <2> QED BY <2>2, <2>3, <2>5, SameTicketsLegal DEF Safe, Inv
<1>4. CASE removeWrite(m)
  <2>1. ServiceInv' /\ \A u \in Ids : LegalChange(ticket[u], ticket'[u])
    BY <1>1, <1>4, removeWriteStep
  <2>2. agentStatus' \in [Agents -> {"ACTIVE", "INACTIVE"}]
        /\ mgr' \in [Managers -> StaffOps \cup {Idle}]
    BY <1>1, <1>4 DEF OtherOK, removeWrite
  <2>3. removed' \in [Agents -> BOOLEAN]
    BY <1>1, <1>4 DEF OtherOK, removeWrite
  <2>4. UNCHANGED <<now, job, faults>>
    BY <1>4 DEF removeWrite
  <2>5. OtherOK'
    BY <1>1, <2>2, <2>3, <2>4 DEF OtherOK
  <2> QED BY <2>1, <2>5 DEF Safe, Inv
<1> QED BY <1>2, <1>3, <1>4 DEF StaffStep

LEMMA InitInv == Init => Inv
<1> SUFFICES ASSUME Init PROVE Inv
  OBVIOUS
<1> USE DEF Init
<1>1. ServiceOK
  BY TicketBoundsAssumption DEF ServiceOK, Rows, Statuses, ActiveStatuses
<1>2. OtherOK
  BY TicketBoundsAssumption DEF OtherOK
<1>3. OutcomeRecorded
  BY DEF OutcomeRecorded, Recorded
<1>4. EntityInv /\ FreshInv
  BY DEF EntityInv, FreshInv
<1> QED BY <1>1, <1>2, <1>3, <1>4 DEF Inv, ServiceInv

LEMMA NextSafe ==
  ASSUME Inv, [Next]_vars
  PROVE  Safe
<1>1. ServiceInv /\ OtherOK
  BY DEF Inv
<1>2. CASE Tick
  <2>1. UNCHANGED <<ticket, published, callers, staff, job, faults>>
    BY <1>2 DEF Tick
  <2>2. ServiceInv'
    BY <1>1, <2>1, IdleSteps
  <2>3. now' \in 0..LastNow
    BY <1>1, <1>2, TicketBoundsAssumption DEF OtherOK, Tick
  <2>4. OtherOK'
    BY <1>1, <2>1, <2>3 DEF OtherOK, staff
  <2> QED BY <2>1, <2>2, <2>4, SameTicketsLegal DEF Safe, Inv
<1>3. CASE UNCHANGED vars
  <2>1. UNCHANGED <<ticket, published, callers, now, staff, job, faults>>
    BY <1>3 DEF vars
  <2>2. ServiceInv'
    BY <1>1, <2>1, IdleSteps
  <2>3. OtherOK'
    BY <1>1, <2>1 DEF OtherOK, staff
  <2> QED BY <2>1, <2>2, <2>3, SameTicketsLegal DEF Safe, Inv
<1> QED BY <1>2, <1>3, UserSafe, JobSafe, StaffSafe DEF Next

(* The invariant holds in every reachable state. *)
THEOREM TicketInvariant == Spec => []Inv
<1>1. Inv /\ [Next]_vars => Inv'
  BY NextSafe DEF Safe
<1> QED BY <1>1, InitInv, PTL DEF Spec

(* Type correctness of the tickets, requests, job and staff. *)
THEOREM TicketTypeCorrect == Spec => []TypeOK
<1> QED BY InvImpliesTypeOK, TicketInvariant, PTL

(* A resolved, closed or escalated ticket has its timestamp and its event, *)
(* whatever whole-row writes of concurrent requests overwrite.             *)
THEOREM OutcomesAreRecorded == Spec => []OutcomeRecorded
<1>1. Inv => OutcomeRecorded
  BY DEF Inv, ServiceInv
<1> QED BY <1>1, TicketInvariant, PTL

(* The workflow of a ticket is broken by lost updates only: the write of   *)
(* an entity read before somebody else changed the row.                    *)
THEOREM WorkflowBrokenByLostUpdatesOnly == Spec => OnlyLostUpdatesBreakWorkflow
<1>1. Inv /\ [Next]_vars =>
        [\A t \in Ids : LegalChange(ticket[t], ticket'[t]) \/ StaleWrite(t)]_vars
  BY NextSafe DEF Safe
<1> QED BY <1>1, TicketInvariant, PTL DEF Spec, OnlyLostUpdatesBreakWorkflow
=============================================================================
