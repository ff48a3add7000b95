---------------------------- MODULE IntakeProofs ----------------------------
(***************************************************************************)
(* Theorems about Intake for any finite number of requests and any limits: *)
(* ticket numbers are unique and dense, the daily limit holds, and the     *)
(* table is a register to which tickets are only added.                    *)
(***************************************************************************)
EXTENDS Intake, FiniteSetTheorems, TLAPS

(***************************************************************************)
(* Type correctness                                                        *)
(***************************************************************************)
DbOK == /\ seq \in Nat
        /\ holder \in Requests \cup {None}
        /\ tickets \subseteq Requests
        /\ number \in [Requests -> Nat]
        /\ createdDay \in [Requests -> 0..LastDay]
        /\ announced \subseteq Requests
        /\ aiQueue \subseteq Requests
        /\ day \in 0..LastDay

CallsOK == /\ pc \in [Requests -> PCs]
           /\ of \in [Requests -> Customers]
           /\ entity \in [Requests -> CustomerStatuses]
           /\ quota \in [Requests -> Limits]
           /\ allowed \in [Requests -> BOOLEAN]

OthersOK == /\ customer \in [Customers -> CustomerStatuses \cup {"DELETED"}]
            /\ tenant \in Tenants
            /\ editing \in [Editors -> Edits \cup {Idle, Ended}]
            /\ admin \in [Admins -> Tenants \cup {Idle, Ended}]

LEMMA TypeParts == TypeOK <=> DbOK /\ CallsOK /\ OthersOK
  BY Zenon DEF TypeOK, DbOK, CallsOK, OthersOK

(* The steps of createTicket write well-typed values. *)
LEMMA CreateTypes ==
  ASSUME DbOK, CallsOK, OthersOK, NEW r \in Requests, CreateStep(r)
  PROVE  DbOK' /\ CallsOK' /\ OthersOK'
<1> USE DEF GoTo
<1>1. CASE ReadCustomer(r)
  <2>1. of[r] \in Customers /\ customer[of[r]] \in CustomerStatuses \cup {"DELETED"}
    BY DEF CallsOK, OthersOK
  <2>2. CallsOK'
    BY <1>1, <2>1 DEF ReadCustomer, CallsOK, PCs
  <2> QED BY <1>1, <2>2 DEF ReadCustomer, DbOK, OthersOK, db
<1>2. CASE ReadTenant(r)
  <2>1. tenant.limit \in Limits
    BY DEF OthersOK, Tenants
  <2>2. pc' \in [Requests -> PCs] /\ quota' \in [Requests -> Limits] /\ UNCHANGED <<of, entity>>
    BY <1>2, <2>1 DEF ReadTenant, CallsOK, PCs
  <2> DEFINE b == tenant.status \in {"ACTIVE", "TRIAL"}
  <2>b. b \in BOOLEAN
    OBVIOUS
  <2>c. allowed' = [allowed EXCEPT ![r] = b]
    BY <1>2, Zenon DEF ReadTenant
  <2> HIDE DEF b
  <2>3. allowed' \in [Requests -> BOOLEAN]
    BY <2>b, <2>c DEF CallsOK
  <2>4. CallsOK'
    BY <2>2, <2>3 DEF CallsOK
  <2> QED BY <1>2, <2>4 DEF ReadTenant, DbOK, OthersOK, db
<1>3. CASE getNextTicketNumber(r)
  BY <1>3 DEF getNextTicketNumber, DbOK, CallsOK, OthersOK, PCs
<1>4. CASE CountAndCheck(r)
  BY <1>4 DEF CountAndCheck, DbOK, CallsOK, OthersOK, PCs, db
<1>5. CASE LimitReached(r)
  BY <1>5 DEF LimitReached, Release, DbOK, CallsOK, OthersOK, PCs
<1>6. CASE InsertTicket(r)
  BY <1>6 DEF InsertTicket, DbOK, CallsOK, OthersOK, PCs
<1>7. CASE Commit(r)
  <2>1. DbOK' /\ CallsOK'
    BY <1>7 DEF Commit, Release, DbOK, CallsOK, PCs
  <2>2. OthersOK'
    BY <1>7 DEF Commit, CallsOK, OthersOK
  <2> QED BY <2>1, <2>2
<1>8. CASE Rollback(r)
  BY <1>8 DEF Rollback, Release, DbOK, CallsOK, OthersOK, PCs
<1>9. CASE QueueAnalysis(r)
  BY <1>9 DEF QueueAnalysis, DbOK, CallsOK, OthersOK, PCs, db
<1>10. CASE QueueFails(r)
  BY <1>10 DEF QueueFails, DbOK, CallsOK, OthersOK, PCs, db
<1>11. CASE AgentNotAssignable(r)
  BY <1>11 DEF AgentNotAssignable, DbOK, CallsOK, OthersOK, PCs, db
<1> QED BY <1>1, <1>2, <1>3, <1>4, <1>5, <1>6, <1>7, <1>8, <1>9, <1>10, <1>11 DEF CreateStep

(* Customer and tenant operations leave createTicket and its tables alone. *)
LEMMA OtherTypes ==
  ASSUME DbOK, CallsOK, OthersOK,
         (\E e \in Editors : EditStep(e)) \/ (\E a \in Admins : AdminStep(a))
  PROVE  OthersOK' /\ UNCHANGED <<db, local, aiQueue, day>>
<1>1. ASSUME NEW e \in Editors, NEW c \in Customers,
             (\E s \in CustomerStatuses : ReadToUpdate(e, c, s)) \/ CheckBeforeDelete(e, c)
      PROVE  OthersOK' /\ UNCHANGED <<db, local, aiQueue, day>>
  BY <1>1 DEF ReadToUpdate, CheckBeforeDelete, OthersOK, Edits
<1>2. ASSUME NEW e \in Editors, WriteCustomer(e) \/ DeleteCustomer(e)
      PROVE  OthersOK' /\ UNCHANGED <<db, local, aiQueue, day>>
  <2>1. editing[e] \in Edits
    BY <1>2 DEF WriteCustomer, DeleteCustomer, OthersOK, Idle, Ended
  <2>2. editing[e].id \in Customers /\ editing[e].status \in CustomerStatuses
    BY <2>1 DEF Edits
  <2> QED BY <1>2, <2>2 DEF WriteCustomer, DeleteCustomer, OthersOK
<1>3. ASSUME NEW a \in Admins, NEW new \in Tenants, ReadTenantToUpdate(a, new)
      PROVE  OthersOK' /\ UNCHANGED <<db, local, aiQueue, day>>
  BY <1>3 DEF ReadTenantToUpdate, OthersOK
<1>4. ASSUME NEW a \in Admins, updateTenant(a) \/ suspendTenant(a) \/ restoreTenant(a)
      PROVE  OthersOK' /\ UNCHANGED <<db, local, aiQueue, day>>
  <2>1. /\ \A l \in Limits : [tenant EXCEPT !.limit = l] \in Tenants
        /\ [tenant EXCEPT !.status = "SUSPENDED", !.suspendedAt = TRUE] \in Tenants
        /\ [tenant EXCEPT !.status = "ACTIVE", !.suspendedAt = FALSE] \in Tenants
    BY DEF OthersOK, Tenants, TenantStatuses
  <2> QED BY <1>3, <1>4, <2>1 DEF updateTenant, suspendTenant, restoreTenant
<1>5. ASSUME NEW a \in Admins, WriteTenant(a)
      PROVE  OthersOK' /\ UNCHANGED <<db, local, aiQueue, day>>
  <2> DEFINE s == admin[a].suspendedAt \/ tenant.suspendedAt
  <2>1. admin[a] \in Tenants /\ s \in BOOLEAN
    BY <1>5 DEF WriteTenant, OthersOK
  <2>2. tenant' = [admin[a] EXCEPT !.suspendedAt = s]
    BY <1>5, Zenon DEF WriteTenant
  <2> HIDE DEF s
  <2>3. tenant' \in Tenants
    BY <2>1, <2>2 DEF Tenants
  <2> QED BY <1>5, <2>3 DEF WriteTenant, OthersOK
<1> QED BY <1>1, <1>2, <1>4, <1>5 DEF EditStep, AdminStep

(***************************************************************************)
(* The inductive invariant                                                 *)
(***************************************************************************)
InTransaction == {"count", "insert", "commit"}

(* Whoever is inside the transaction holds the row lock, its number is the *)
(* one after the last committed number, and its ticket does not exist yet. *)
LockInv ==
    \A r \in Requests :
        /\ pc[r] \in InTransaction => holder = r /\ number[r] = seq + 1
        /\ pc[r] \in {"start", "tenant", "number"} \cup InTransaction => r \notin tickets

(* How many tickets each day has; a new day begins with none. *)
OnDay == [d \in 0..LastDay |-> Cardinality(CreatedOn(d))]

(* The lock keeps the count valid from the check to the commit, also if    *)
(* midnight passes, and each day has a ticket that justifies its count.    *)
CountInv ==
    /\ OnDay \in [0..LastDay -> Nat]
    /\ \A t \in tickets : createdDay[t] <= day
    /\ \A d \in 0..LastDay : d > day => OnDay[d] = 0
    /\ \A r \in Requests :
          /\ pc[r] = "insert" => OnDay[day] < quota[r]
          /\ pc[r] = "commit" => createdDay[r] <= day /\ OnDay[createdDay[r]] < quota[r]
    /\ \A d \in 0..LastDay :
          OnDay[d] = 0 \/ \E t \in tickets : createdDay[t] = d /\ OnDay[d] <= quota[t]

(* The foreign key protects the customer from the insert to the commit. *)
CustomerInv ==
    /\ \A r \in Requests : pc[r] = "commit" => customer[of[r]] # "DELETED"
    /\ \A r \in Requests : pc[r] = "queue" => r \in tickets
    /\ CommittedOrNothing
    /\ NoOrphans

Inv == /\ DbOK /\ CallsOK /\ OthersOK
       /\ LockInv /\ NumbersDense /\ CountInv /\ CustomerInv

LEMMA CreatedOnFinite ==
  ASSUME DbOK, NEW d
  PROVE  IsFiniteSet(CreatedOn(d)) /\ Cardinality(CreatedOn(d)) \in Nat
  BY RequestsFinite, FS_Subset, FS_CardinalityType DEF DbOK, CreatedOn

LEMMA OnDayType ==
  ASSUME DbOK
  PROVE  OnDay \in [0..LastDay -> Nat]
  BY CreatedOnFinite DEF OnDay

LEMMA InitInv == ASSUME Init PROVE Inv
<1>1. DbOK /\ CallsOK
  <2>1. tenant.limit \in Limits
    BY DEF Init
  <2> QED BY <2>1, DaysAssumption DEF Init, DbOK, CallsOK, PCs, CustomerStatuses
<1>2. OthersOK
  BY DEF Init, OthersOK, Tenants, TenantStatuses, CustomerStatuses
<1>3. LockInv /\ NumbersDense /\ CustomerInv
  BY DEF Init, LockInv, InTransaction, NumbersDense, CustomerInv, CommittedOrNothing, NoOrphans
<1>4. \A d \in 0..LastDay : OnDay[d] = 0
  <2>1. \A d \in 0..LastDay : CreatedOn(d) = {}
    BY DEF Init, CreatedOn
  <2> QED BY <2>1, FS_EmptySet DEF OnDay
<1>5. CountInv
  BY <1>1, <1>4, OnDayType DEF CountInv, Init
<1> QED BY <1>1, <1>2, <1>3, <1>5 DEF Inv

(***************************************************************************)
(* Steps that commit nothing                                               *)
(***************************************************************************)

(* Nothing that concerns a committed ticket changes. *)
Quiet == /\ UNCHANGED <<seq, tickets, announced>>
         /\ \A t \in tickets : /\ number'[t] = number[t]
                               /\ createdDay'[t] = createdDay[t]
                               /\ quota'[t] = quota[t]

LEMMA QuietSteps ==
  ASSUME DbOK, Quiet, NumbersDense
  PROVE  NumbersDense' /\ OnDay' = OnDay
<1>1. NumbersDense'
  BY DEF Quiet, NumbersDense
<1>2. \A d \in 0..LastDay : CreatedOn(d)' = CreatedOn(d)
  BY DEF Quiet, CreatedOn
<1>3. OnDay' = OnDay
  BY <1>2 DEF OnDay
<1> QED BY <1>1, <1>3

LEMMA QuietCreate ==
  ASSUME Inv, NEW r \in Requests, CreateStep(r), ~Commit(r)
  PROVE  Quiet
<1> USE DEF Inv, LockInv, InTransaction, DbOK, CallsOK, Quiet
<1>1. CASE ReadCustomer(r) BY <1>1 DEF ReadCustomer, db
<1>2. CASE ReadTenant(r) BY <1>2 DEF ReadTenant, db
<1>3. CASE getNextTicketNumber(r) BY <1>3 DEF getNextTicketNumber
<1>4. CASE CountAndCheck(r) BY <1>4 DEF CountAndCheck, db
<1>5. CASE LimitReached(r) BY <1>5 DEF LimitReached
<1>6. CASE InsertTicket(r) BY <1>6 DEF InsertTicket
<1>7. CASE Rollback(r) BY <1>7 DEF Rollback
<1>8. CASE QueueAnalysis(r) BY <1>8 DEF QueueAnalysis, db
<1>9. CASE QueueFails(r) BY <1>9 DEF QueueFails, db
<1>10. CASE AgentNotAssignable(r) BY <1>10 DEF AgentNotAssignable, db
<1> QED BY <1>1, <1>2, <1>3, <1>4, <1>5, <1>6, <1>7, <1>8, <1>9, <1>10 DEF CreateStep

(* A step of createTicket other than its commit keeps the invariant. *)
LEMMA CreateInv ==
  ASSUME Inv, NEW r \in Requests, CreateStep(r), ~Commit(r)
  PROVE  Inv'
<1>1. Quiet
  BY QuietCreate
<1>2. DbOK' /\ CallsOK' /\ OthersOK'
  BY CreateTypes DEF Inv
<1>3. NumbersDense' /\ OnDay' = OnDay
  BY <1>1, QuietSteps DEF Inv
<1>4. /\ seq' = seq /\ tickets' = tickets /\ announced' = announced /\ day' = day
      /\ of' = of /\ customer' = customer
  BY <1>1 DEF Quiet, CreateStep, ReadCustomer, ReadTenant, AgentNotAssignable, getNextTicketNumber, CountAndCheck,
     LimitReached, InsertTicket, Rollback, QueueAnalysis, QueueFails
<1>5. LockInv'
  <2> USE DEF Inv, LockInv, InTransaction, DbOK, CallsOK, GoTo
  <2>1. CASE ReadCustomer(r) BY <2>1, <1>4 DEF ReadCustomer, db
  <2>2. CASE ReadTenant(r) BY <2>2, <1>4 DEF ReadTenant, db
  <2>3. CASE getNextTicketNumber(r)
    <3>1. \A x \in Requests : pc[x] \notin InTransaction
      BY <2>3, RequestsFinite DEF getNextTicketNumber
    <3> QED BY <2>3, <1>4, <3>1 DEF getNextTicketNumber
  <2>4. CASE CountAndCheck(r) BY <2>4, <1>4 DEF CountAndCheck, db
  <2>5. CASE LimitReached(r) BY <2>5, <1>4, RequestsFinite DEF LimitReached, Release
  <2>6. CASE InsertTicket(r) BY <2>6, <1>4 DEF InsertTicket
  <2>7. CASE Rollback(r) BY <2>7, <1>4, RequestsFinite DEF Rollback, Release
  <2>8. CASE QueueAnalysis(r) BY <2>8, <1>4 DEF QueueAnalysis, db
  <2>9. CASE QueueFails(r) BY <2>9, <1>4 DEF QueueFails, db
  <2>10. CASE AgentNotAssignable(r) BY <2>10, <1>4 DEF AgentNotAssignable, db
  <2> QED BY <2>1, <2>2, <2>3, <2>4, <2>5, <2>6, <2>7, <2>8, <2>9, <2>10 DEF CreateStep
<1>6. CountInv'
  <2>1. /\ OnDay' \in [0..LastDay -> Nat]
        /\ \A t \in tickets' : createdDay'[t] <= day'
        /\ \A d \in 0..LastDay : d > day' => OnDay'[d] = 0
        /\ \A d \in 0..LastDay :
              OnDay'[d] = 0 \/ \E t \in tickets' : createdDay'[t] = d /\ OnDay'[d] <= quota'[t]
    BY <1>1, <1>3, <1>4 DEF Inv, CountInv, Quiet
  <2>2. \A x \in Requests :
          /\ pc'[x] = "insert" => OnDay[day] < quota'[x]
          /\ pc'[x] = "commit" => createdDay'[x] <= day /\ OnDay[createdDay'[x]] < quota'[x]
    <3> USE DEF Inv, CountInv, DbOK, CallsOK, GoTo
    <3>1. CASE ReadCustomer(r) BY <3>1 DEF ReadCustomer, db
    <3>2. CASE ReadTenant(r) BY <3>2 DEF ReadTenant, db
    <3>3. CASE getNextTicketNumber(r) BY <3>3 DEF getNextTicketNumber
    <3>4. CASE CountAndCheck(r)
      <4>1. OnDay[day] < quota[r]
        BY <3>4 DEF CountAndCheck, canCreateTicket, OnDay
      <4> QED BY <3>4, <4>1 DEF CountAndCheck, db
    <3>5. CASE LimitReached(r) BY <3>5 DEF LimitReached
    <3>6. CASE InsertTicket(r) BY <3>6 DEF InsertTicket
    <3>7. CASE Rollback(r) BY <3>7 DEF Rollback
    <3>8. CASE QueueAnalysis(r) BY <3>8 DEF QueueAnalysis, db
    <3>9. CASE QueueFails(r) BY <3>9 DEF QueueFails, db
    <3>10. CASE AgentNotAssignable(r) BY <3>10 DEF AgentNotAssignable, db
  <3> QED BY <3>1, <3>2, <3>3, <3>4, <3>5, <3>6, <3>7, <3>8, <3>9, <3>10 DEF CreateStep
  <2> QED BY <2>1, <2>2, <1>3, <1>4 DEF CountInv
<1>7. CustomerInv'
  <2>1. /\ \A x \in Requests : pc'[x] = "commit" => customer[of[x]] # "DELETED"
        /\ \A x \in Requests : pc'[x] = "queue" => x \in tickets
        /\ aiQueue' \subseteq tickets
    BY DEF Inv, CustomerInv, CommittedOrNothing, CallsOK, GoTo,
       CreateStep, ReadCustomer, ReadTenant, AgentNotAssignable, getNextTicketNumber, CountAndCheck,
       LimitReached, InsertTicket, Rollback, QueueAnalysis, QueueFails
  <2> QED BY <2>1, <1>4 DEF Inv, CustomerInv, CommittedOrNothing, NoOrphans
<1> QED BY <1>2, <1>3, <1>5, <1>6, <1>7 DEF Inv

(***************************************************************************)
(* The commit                                                              *)
(***************************************************************************)
LEMMA CommitCounts ==
  ASSUME DbOK, NEW r \in Requests, r \notin tickets, Commit(r)
  PROVE  OnDay' = [OnDay EXCEPT ![createdDay[r]] = @ + 1]
<1>1. CreatedOn(createdDay[r])' = CreatedOn(createdDay[r]) \cup {r}
  BY DEF Commit, CreatedOn
<1>2. r \notin CreatedOn(createdDay[r])
  BY DEF CreatedOn
<1>3. Cardinality(CreatedOn(createdDay[r]) \cup {r}) = Cardinality(CreatedOn(createdDay[r])) + 1
  BY <1>2, CreatedOnFinite, FS_AddElement
<1>4. \A d \in 0..LastDay : d # createdDay[r] => CreatedOn(d)' = CreatedOn(d)
  BY DEF Commit, CreatedOn
<1>5. createdDay' = createdDay /\ createdDay[r] \in 0..LastDay
  BY DEF Commit, DbOK
<1> QED BY <1>1, <1>3, <1>4, <1>5 DEF OnDay

LEMMA CommitInv ==
  ASSUME Inv, NEW r \in Requests, Commit(r)
  PROVE  Inv'
<1>1. DbOK' /\ CallsOK' /\ OthersOK'
  BY CreateTypes DEF Inv, CreateStep
<1>2. holder = r /\ number[r] = seq + 1 /\ r \notin tickets
  BY DEF Inv, LockInv, InTransaction, Commit
<1>3. \A x \in Requests : x # r => pc[x] \notin InTransaction
  BY <1>2 DEF Inv, LockInv
<1>4. LockInv'
  BY <1>1, <1>2, <1>3 DEF Inv, LockInv, InTransaction, Commit, CallsOK, GoTo
<1>5. NumbersDense'
  BY <1>2 DEF Inv, NumbersDense, Commit, DbOK
<1>6. OnDay' = [OnDay EXCEPT ![createdDay[r]] = @ + 1]
  BY <1>2, CommitCounts DEF Inv
<1>7. CountInv'
  <2> DEFINE d0 == createdDay[r]
  <2>1. d0 \in 0..LastDay /\ d0 <= day /\ OnDay[d0] < quota[r] /\ OnDay \in [0..LastDay -> Nat]
    BY DEF Inv, DbOK, CountInv, Commit
  <2>2. OnDay' \in [0..LastDay -> Nat]
    BY <1>6, <2>1
  <2>3. \A t \in tickets' : createdDay'[t] <= day'
    BY <2>1 DEF Inv, CountInv, Commit
  <2>4. \A d \in 0..LastDay : d > day' => OnDay'[d] = 0
    BY <1>6, <2>1 DEF Inv, CountInv, Commit, DbOK
  <2>5. \A x \in Requests : pc'[x] # "insert" /\ pc'[x] # "commit"
    BY <1>3 DEF Inv, CallsOK, Commit, GoTo, InTransaction
  <2>6. ASSUME NEW d \in 0..LastDay
        PROVE  OnDay'[d] = 0 \/ \E t \in tickets' : createdDay'[t] = d /\ OnDay'[d] <= quota'[t]
    <3>1. CASE d = d0
      <4>1. quota[r] \in Nat /\ OnDay[d0] \in Nat /\ OnDay'[d0] = OnDay[d0] + 1
        BY <1>6, <2>1, LimitsAssumption DEF Inv, CallsOK
      <4>2. OnDay'[d] <= quota[r]
        BY <3>1, <2>1, <4>1
      <4> QED BY <3>1, <4>2 DEF Commit
    <3>2. CASE d # d0
      <4>1. OnDay'[d] = OnDay[d]
        BY <3>2, <1>6, <2>1
      <4> QED BY <4>1 DEF Inv, CountInv, Commit
    <3> QED BY <3>1, <3>2
  <2> QED BY <2>2, <2>3, <2>4, <2>5, <2>6 DEF CountInv
<1>8. CustomerInv'
  <2>1. entity[r] # "DELETED" /\ of[r] \in Customers
    BY DEF Inv, CallsOK, CustomerStatuses
  <2>2. \A x \in Requests : pc'[x] # "commit"
    BY <1>3 DEF Inv, CallsOK, Commit, GoTo, InTransaction
  <2>3. \A x \in Requests : pc'[x] = "queue" => x \in tickets'
    BY DEF Inv, CallsOK, CustomerInv, Commit, GoTo
  <2>4. CommittedOrNothing'
    BY DEF Inv, CustomerInv, CommittedOrNothing, Commit
  <2>5. NoOrphans'
    BY <2>1 DEF Inv, CustomerInv, NoOrphans, Commit, OthersOK, CallsOK, DbOK
  <2> QED BY <2>2, <2>3, <2>4, <2>5 DEF CustomerInv
<1> QED BY <1>1, <1>4, <1>5, <1>7, <1>8 DEF Inv

(***************************************************************************)
(* Customers, tenants and the clock                                        *)
(***************************************************************************)
LEMMA CreateUntouched ==
  ASSUME Inv, UNCHANGED <<db, local, aiQueue, day>>
  PROVE  DbOK' /\ CallsOK' /\ LockInv' /\ NumbersDense' /\ CountInv'
<1>1. DbOK' /\ CallsOK' /\ LockInv'
  BY DEF Inv, db, local, DbOK, CallsOK, LockInv
<1>2. Quiet
  BY DEF Quiet, db, local
<1>3. NumbersDense' /\ OnDay' = OnDay
  BY <1>2, QuietSteps DEF Inv
<1>4. CountInv'
  BY <1>3 DEF Inv, CountInv, db, local
<1> QED BY <1>1, <1>3, <1>4

LEMMA OtherInv ==
  ASSUME Inv, (\E e \in Editors : EditStep(e)) \/ (\E a \in Admins : AdminStep(a))
  PROVE  Inv'
<1>1. OthersOK' /\ UNCHANGED <<db, local, aiQueue, day>>
  BY OtherTypes DEF Inv
<1>2. DbOK' /\ CallsOK' /\ LockInv' /\ NumbersDense' /\ CountInv'
  BY <1>1, CreateUntouched
<1> DEFINE Kept == \A x \in Requests :
                     (pc[x] = "commit" \/ x \in tickets) /\ customer[of[x]] # "DELETED"
                        => customer'[of[x]] # "DELETED"
<1>3. Kept
  <2>1. ASSUME NEW e \in Editors, WriteCustomer(e) \/ DeleteCustomer(e)
        PROVE  Kept
    <3>1. editing[e] \in Edits
      BY <2>1 DEF WriteCustomer, DeleteCustomer, Inv, OthersOK, Idle, Ended
    <3>2. editing[e].id \in Customers /\ editing[e].status # "DELETED"
      BY <3>1 DEF Edits, CustomerStatuses
    <3>3. \A x \in Requests : of[x] \in Customers
      BY DEF Inv, CallsOK
    <3>4. CASE WriteCustomer(e)
      BY <3>4, <3>2, <3>3 DEF WriteCustomer, Inv, OthersOK
    <3>5. CASE DeleteCustomer(e)
      BY <3>5, <3>2, <3>3 DEF DeleteCustomer, Inv, OthersOK
    <3> QED BY <2>1, <3>4, <3>5
  <2>2. ASSUME UNCHANGED customer PROVE Kept
    BY <2>2
  <2> QED BY <2>1, <2>2 DEF EditStep, AdminStep, ReadToUpdate, CheckBeforeDelete, updateTenant,
             suspendTenant, restoreTenant, ReadTenantToUpdate, WriteTenant
<1>4. CustomerInv'
  BY <1>1, <1>3 DEF Inv, CustomerInv, CommittedOrNothing, NoOrphans, CallsOK, DbOK, db, local
<1> QED BY <1>1, <1>2, <1>4 DEF Inv

LEMMA MidnightInv == ASSUME Inv, Midnight PROVE Inv'
<1>1. DbOK' /\ CallsOK' /\ OthersOK' /\ LockInv' /\ CustomerInv'
  BY DaysAssumption DEF Midnight, Inv, DbOK, CallsOK, OthersOK, LockInv, CustomerInv, CommittedOrNothing, NoOrphans, db, local
<1>2. NumbersDense' /\ OnDay' = OnDay
  BY DEF Midnight, Inv, NumbersDense, OnDay, CreatedOn, db
<1>3. CountInv'
  <2>1. day' \in 0..LastDay /\ day' = day + 1 /\ day \in 0..LastDay
    BY <1>1 DEF Midnight, Inv, DbOK
  <2>2. UNCHANGED <<tickets, createdDay, pc, quota>>
    BY DEF Midnight, db, local
  <2>3. OnDay[day'] = 0
    BY <2>1 DEF Inv, CountInv
  <2>4. \A x \in Requests : quota[x] \in Nat \ {0} /\ createdDay[x] \in 0..LastDay
    BY LimitsAssumption DEF Inv, CallsOK, DbOK
  <2>5. /\ OnDay' \in [0..LastDay -> Nat]
        /\ \A t \in tickets' : createdDay'[t] <= day'
        /\ \A d \in 0..LastDay : d > day' => OnDay'[d] = 0
    BY <1>2, <2>1, <2>2, <2>4 DEF Inv, CountInv, DbOK
  <2>6. \A x \in Requests :
          /\ pc'[x] = "insert" => OnDay'[day'] < quota'[x]
          /\ pc'[x] = "commit" => createdDay'[x] <= day' /\ OnDay'[createdDay'[x]] < quota'[x]
    BY <1>2, <2>1, <2>2, <2>3, <2>4 DEF Inv, CountInv
  <2>7. \A d \in 0..LastDay :
          OnDay'[d] = 0 \/ \E t \in tickets' : createdDay'[t] = d /\ OnDay'[d] <= quota'[t]
    BY <1>2, <2>2 DEF Inv, CountInv
  <2> QED BY <2>5, <2>6, <2>7 DEF CountInv
<1> QED BY <1>1, <1>2, <1>3 DEF Inv

LEMMA StutterInv == ASSUME Inv, UNCHANGED vars PROVE Inv'
<1>1. UNCHANGED <<db, local, aiQueue, day>> /\ UNCHANGED <<customer, tenant, editing, admin>>
  BY DEF vars
<1>2. DbOK' /\ CallsOK' /\ LockInv' /\ NumbersDense' /\ CountInv'
  BY <1>1, CreateUntouched
<1>3. OthersOK' /\ CustomerInv'
  BY <1>1 DEF Inv, db, local, OthersOK, CustomerInv, CommittedOrNothing, NoOrphans
<1> QED BY <1>2, <1>3 DEF Inv

(* The reason for the theorems below: Inv is an inductive invariant. *)
THEOREM IntakeInvariant == Spec => []Inv
<1>1. Init => Inv
  BY InitInv
<1>2. Inv /\ [Next]_vars => Inv'
  BY CreateInv, CommitInv, OtherInv, MidnightInv, StutterInv DEF Next
<1> QED BY <1>1, <1>2, PTL DEF Spec

(* Every variable of Intake keeps its type, for any sets of calls. *)
THEOREM IntakeTypeCorrect == Spec => []TypeOK
<1>1. Inv => TypeOK
  BY TypeParts DEF Inv
<1> QED BY <1>1, IntakeInvariant, PTL

(* createTicket numbers the tickets 1, 2, ... without duplicates or gaps.  *)
THEOREM TicketNumbersAreDense == Spec => []NumbersDense
<1>1. Inv => NumbersDense
  BY DEF Inv
<1> QED BY <1>1, IntakeInvariant, PTL

(* Concurrent calls of createTicket never exceed the limit of the day,     *)
(* whatever the limits, also at midnight and while they are changed.       *)
THEOREM DailyLimitHolds == Spec => []DailyLimit
<1>1. Inv => DailyLimit
  <2> SUFFICES ASSUME Inv, NEW d \in 0..LastDay, CreatedOn(d) # {}
               PROVE  \E t \in CreatedOn(d) : Cardinality(CreatedOn(d)) <= quota[t]
    BY DEF DailyLimit
  <2>1. IsFiniteSet(CreatedOn(d)) /\ Cardinality(CreatedOn(d)) # 0
    BY CreatedOnFinite, FS_EmptySet DEF Inv
  <2>2. OnDay[d] = Cardinality(CreatedOn(d))
    BY DEF OnDay
  <2> QED BY <2>1, <2>2 DEF Inv, CountInv, CreatedOn
<1> QED BY <1>1, IntakeInvariant, PTL

(* What createTicket commits it announces, it analyses only what it has    *)
(* committed, and deleteCustomer leaves no ticket without its customer.    *)
THEOREM TicketsAreWhole == Spec => [](CommittedOrNothing /\ NoOrphans)
<1>1. Inv => CommittedOrNothing /\ NoOrphans
  BY DEF Inv, CustomerInv
<1> QED BY <1>1, IntakeInvariant, PTL

(***************************************************************************)
(* The register                                                            *)
(***************************************************************************)

(* lastNumber is the number of tickets, and the date of a ticket about to  *)
(* be committed, taken under the lock, is not earlier than the others'.    *)
RegisterInv ==
    /\ seq = Cardinality(tickets)
    /\ \A r \in Requests : pc[r] = "commit" => \A t \in tickets : createdDay[t] <= createdDay[r]

(* Only a commit adds a ticket, and nobody else is then in a transaction. *)
LEMMA RegisterStep ==
  ASSUME Inv, RegisterInv, [Next]_vars
  PROVE  RegisterInv'
<1>1. IsFiniteSet(tickets) /\ Cardinality(tickets) \in Nat
  BY RequestsFinite, FS_Subset, FS_CardinalityType DEF Inv, DbOK
<1>2. ASSUME NEW r \in Requests, Commit(r) PROVE RegisterInv'
  <2>1. holder = r /\ number[r] = seq + 1 /\ r \notin tickets
    BY <1>2 DEF Inv, LockInv, InTransaction, Commit
  <2>2. \A x \in Requests : pc'[x] # "commit"
    BY <1>2, <2>1 DEF Inv, LockInv, InTransaction, CallsOK, Commit, GoTo
  <2>3. Cardinality(tickets \cup {r}) = Cardinality(tickets) + 1
    BY <1>1, <2>1, FS_AddElement
  <2>4. seq' = Cardinality(tickets')
    BY <1>2, <2>1, <2>3 DEF RegisterInv, Commit
  <2> QED BY <2>2, <2>4 DEF RegisterInv
<1>3. ASSUME NEW r \in Requests, InsertTicket(r) PROVE RegisterInv'
  <2>1. /\ createdDay' = [createdDay EXCEPT ![r] = day] /\ pc' = [pc EXCEPT ![r] = "commit"]
        /\ seq' = seq /\ tickets' = tickets
    BY <1>3 DEF InsertTicket, GoTo
  <2>2. r \notin tickets
    BY <1>3 DEF Inv, LockInv, InTransaction, InsertTicket
  <2>3. \A x \in Requests : x # r => pc[x] # "commit"
    BY <1>3 DEF Inv, LockInv, InTransaction, InsertTicket
  <2>4. \A t \in tickets : createdDay[t] <= day
    BY DEF Inv, CountInv
  <2> QED BY <2>1, <2>2, <2>3, <2>4 DEF RegisterInv, Inv, DbOK, CallsOK
<1>4. ASSUME UNCHANGED <<seq, tickets, createdDay>>,
             \A x \in Requests : pc'[x] = "commit" => pc[x] = "commit"
      PROVE  RegisterInv'
  BY <1>4 DEF RegisterInv
<1>5. ASSUME NEW r \in Requests, CreateStep(r), ~Commit(r), ~InsertTicket(r)
      PROVE  RegisterInv'
  <2>1. UNCHANGED <<seq, tickets, createdDay>>
    BY <1>5 DEF CreateStep, ReadCustomer, ReadTenant, AgentNotAssignable, getNextTicketNumber,
       CountAndCheck, LimitReached, Rollback, QueueAnalysis, QueueFails, db
  <2>2. \E p \in PCs \ {"commit"} : pc' = [pc EXCEPT ![r] = p]
    BY <1>5 DEF CreateStep, ReadCustomer, ReadTenant, AgentNotAssignable, getNextTicketNumber,
       CountAndCheck, LimitReached, Rollback, QueueAnalysis, QueueFails, GoTo, PCs
  <2>3. \A x \in Requests : pc'[x] = "commit" => pc[x] = "commit"
    BY <2>2 DEF Inv, CallsOK
  <2> QED BY <1>4, <2>1, <2>3
<1>6. CASE (\E e \in Editors : EditStep(e)) \/ (\E a \in Admins : AdminStep(a))
  <2>1. UNCHANGED <<db, local>>
    BY <1>6, OtherTypes DEF Inv
  <2> QED BY <1>4, <2>1 DEF db, local
<1>7. CASE Midnight \/ UNCHANGED vars
  BY <1>4, <1>7 DEF Midnight, vars, db, local
<1> QED BY <1>2, <1>3, <1>5, <1>6, <1>7 DEF Next

(* The register counts as Intake does. *)
LEMMA SameCardinality == ASSUME NEW S PROVE Register!Cardinality(S) = Cardinality(S)
  BY Zenon DEF Register!Cardinality, Cardinality

(* A commit issues a ticket; no other step touches a ticket issued. *)
LEMMA RegisterSimulation ==
  ASSUME Inv, RegisterInv, [Next]_vars
  PROVE  [Register!Next]_(Register!vars)
<1>1. ASSUME NEW r \in Requests, Commit(r) PROVE Register!Next
  <2>0. PICK d \in 0..LastDay : d = createdDay[r]
    BY DEF Inv, DbOK
  <2>1. /\ r \notin tickets /\ number[r] = Cardinality(tickets) + 1
        /\ \A t \in tickets : createdDay[t] <= d
    BY <1>1, <2>0 DEF Inv, DbOK, LockInv, InTransaction, Commit, RegisterInv
  <2>2. Register!DatedOn(d) = CreatedOn(d)
    BY DEF Register!DatedOn, CreatedOn
  <2>3. \E limit \in Limits : Cardinality(Register!DatedOn(d)) < limit
    <3>1. OnDay[d] = Cardinality(CreatedOn(d))
      BY <2>1 DEF OnDay
    <3>2. OnDay[d] < quota[r] /\ quota[r] \in Limits
      BY <1>1, <2>0 DEF Inv, CountInv, CallsOK, Commit
    <3> QED BY <2>2, <3>1, <3>2
  <2>4. tickets' = tickets \cup {r} /\ number' = number /\ createdDay' = createdDay
    BY <1>1 DEF Commit
  <2>5. [t \in tickets' |-> number'[t]]
          = [s \in tickets \cup {r} |-> IF s = r THEN Cardinality(tickets) + 1
                                       ELSE [t \in tickets |-> number[t]][s]]
    BY <2>1, <2>4
  <2>6. [t \in tickets' |-> createdDay'[t]]
          = [s \in tickets \cup {r} |-> IF s = r THEN d ELSE [t \in tickets |-> createdDay[t]][s]]
    BY <2>0, <2>4
  <2>7. Register!Issue(r, d)
    <3>1. \A s \in tickets : [t \in tickets |-> createdDay[t]][s] <= d
      BY <2>1
    <3>2. /\ Register!Cardinality(tickets) = Cardinality(tickets)
          /\ Register!Cardinality(Register!DatedOn(d)) = Cardinality(Register!DatedOn(d))
      BY SameCardinality
    <3> QED BY <2>1, <2>3, <2>4, <2>5, <2>6, <3>1, <3>2, Zenon DEF Register!Issue
  <2> QED BY <2>7 DEF Register!Next
<1>2. ASSUME Quiet PROVE UNCHANGED Register!vars
  BY <1>2 DEF Quiet, Register!vars
<1>3. ASSUME NEW r \in Requests, CreateStep(r), ~Commit(r) PROVE UNCHANGED Register!vars
  BY <1>2, <1>3, QuietCreate
<1>4. CASE (\E e \in Editors : EditStep(e)) \/ (\E a \in Admins : AdminStep(a))
  <2>1. UNCHANGED <<db, local>>
    BY <1>4, OtherTypes DEF Inv
  <2> QED BY <1>2, <2>1 DEF Quiet, db, local
<1>5. CASE Midnight \/ UNCHANGED vars
  BY <1>2, <1>5 DEF Midnight, vars, Quiet, db, local
<1> QED BY <1>1, <1>3, <1>4, <1>5 DEF Next

(* Requests, locks, limits, rollbacks and a crash between any two steps    *)
(* implement a register of tickets: one ticket at a time, with the next    *)
(* number, dated no earlier than the last, and never changed again.        *)
THEOREM IntakeImplementsRegister == Spec => ImplementsRegister
<1>1. Init => Register!Init
  BY DEF Init, Register!Init
<1>2. Init => RegisterInv
  BY FS_EmptySet DEF Init, RegisterInv
<1>3. Inv /\ RegisterInv /\ [Next]_vars => RegisterInv'
  BY RegisterStep
<1>4. Inv /\ RegisterInv /\ [Next]_vars => [Register!Next]_(Register!vars)
  BY RegisterSimulation
<1> QED BY <1>1, <1>2, <1>3, <1>4, IntakeInvariant, PTL DEF Spec, ImplementsRegister, Register!Spec
=============================================================================
