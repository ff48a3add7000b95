------------------------------- MODULE Access -------------------------------
(***************************************************************************)
(* Who belongs to which tenant and may do what: invitations                *)
(* (invitation.service.ts), the permission catalog and effective           *)
(* permissions, tenant roles (role-management.service.ts), the class of an *)
(* account (RoleAssignmentPolicy, UserService.changeRole) and what staff   *)
(* management and profile updates do to the account's row.                 *)
(*                                                                         *)
(* A request checks what it has read and writes later.  `req` holds a      *)
(* request in that window; the acceptance of an invitation has a second    *)
(* window inside its transaction, between the count of the staff and the   *)
(* write of the account, in which it holds the lock of the invitation's    *)
(* row.  UserRepository.update writes the whole row that was read.         *)
(*                                                                         *)
(* Accounts are identified by their e-mail address.  `own`: the password   *)
(* was chosen by the owner of the address; `confirmed` (history): the      *)
(* owner has confirmed the account as registered.                          *)
(***************************************************************************)
EXTENDS Integers, FiniteSets

CONSTANTS Users,       \* e-mail addresses
          Tenants,
          Invitations, \* invitation ids
          Roles,       \* ids of tenant roles
          Requests,    \* concurrent requests
          Grants,      \* the permissions managers put into tenant roles
          MaxAgents,   \* maxAgents of every tenant
          MaxRequests, \* BOUND: requests in a behaviour
          None

VARIABLES
    account,     \* the users table
    tenantOk,    \* the tenants that are ACTIVE or TRIAL
    invitation,  \* the invitations table
    role,        \* the tenant's roles and their permissions
    member,      \* user_role_memberships
    req,
    served,      \* requests so far
    \* history
    stale,       \* requests whose account was changed after they read it
    raced,       \* acceptances whose count of the staff is outdated
    joined       \* how often an invitation gave somebody an account

access  == <<role, member>>
windows == <<req, served, stale, raced>>
vars    == <<account, tenantOk, invitation, access, windows, joined>>

(***************************************************************************)
(* The permission catalog                                                  *)
(***************************************************************************)
TENANT_PERMISSIONS ==
    {"tickets:create", "tickets:update", "tickets:assign", "tickets:escalate",
     "customers:read", "customers:write", "customers:delete", "customers:risk",
     "ai:use", "analytics:read", "dashboard:read", "search:use", "reports:create",
     "users:read", "users:manage", "invitations:manage", "roles:manage",
     "integrations:manage", "audit:read", "tenant:read", "realtime:tenant"}

PLATFORM_PERMISSIONS ==
    {"platform:tenants", "platform:analytics", "platform:operations", "platform:invitations"}

Classes == {"PLATFORM_ADMIN", "TENANT_MANAGER", "AGENT", "CUSTOMER"}
Staff   == {"AGENT", "TENANT_MANAGER"}

DEFAULT_GRANTS ==
    [PLATFORM_ADMIN |-> PLATFORM_PERMISSIONS
                          \cup {"users:read", "users:manage", "audit:read", "tenant:read"},
     TENANT_MANAGER |-> TENANT_PERMISSIONS,
     AGENT          |-> {"tickets:create", "tickets:update", "tickets:escalate",
                         "customers:read", "customers:write", "ai:use", "dashboard:read",
                         "search:use", "reports:create", "users:read"},
     CUSTOMER       |-> {"tickets:create"}]

MANAGER_ONLY == {"users:manage", "invitations:manage", "roles:manage", "integrations:manage"}

CLASS_BOUNDARY ==
    [DEFAULT_GRANTS EXCEPT !.AGENT = TENANT_PERMISSIONS \ MANAGER_ONLY]

ASSUME AccessAssumption ==
    /\ None \notin Users \cup Tenants \cup Invitations \cup Roles
    /\ Grants \subseteq TENANT_PERMISSIONS
    /\ IsFiniteSet(Users)
    /\ MaxAgents \in Nat /\ MaxRequests \in Nat

(* MUTANT: the grants are not clipped to the boundary of the class. *)
computeEffectivePermissionsUnclipped(class, grants) == DEFAULT_GRANTS[class] \cup grants

computeEffectivePermissions(class, grants) ==
    DEFAULT_GRANTS[class] \cup (grants \cap CLASS_BOUNDARY[class])

grantsOutsideBoundary(class, grants) == grants \ CLASS_BOUNDARY[class]

(***************************************************************************)
(* State                                                                   *)
(***************************************************************************)
Accounts == [exists : BOOLEAN, tenant : Tenants \cup {None}, class : Classes,
             status : {"ACTIVE", "INACTIVE", "PENDING_VERIFICATION"}, verified : BOOLEAN,
             link : BOOLEAN, own : BOOLEAN, removed : BOOLEAN, confirmed : BOOLEAN]

Nobody == [exists |-> FALSE, tenant |-> None, class |-> "CUSTOMER",
           status |-> "PENDING_VERIFICATION", verified |-> FALSE, link |-> FALSE,
           own |-> FALSE, removed |-> FALSE, confirmed |-> FALSE]

(* Accounts come from invitations only; the tables may hold accounts that  *)
(* somebody registered earlier, with a verification link not used yet.     *)
Registered == [Nobody EXCEPT !.exists = TRUE, !.link = TRUE]

InvitationRows == [accepted : BOOLEAN, revoked : BOOLEAN, expired : BOOLEAN,
                   tenant : Tenants \cup {None}, email : Users \cup {None},
                   role : Classes]

RoleRows == [tenant : Tenants \cup {None}, grants : SUBSET Grants]
NoRole   == [tenant |-> None, grants |-> {}]

Idle     == [op |-> "idle"]
Windows  == [op : {"accept", "commit"}, inv : Invitations, user : Users, seen : Accounts]
              \cup [op : {"save"}, user : Users, data : Accounts]
              \cup [op : {"ACTIVE", "INACTIVE", "remove"}, user : Users]
              \cup [op : {"grants"}, role : Roles, grants : SUBSET Grants]
              \cup [op : {"assign"}, role : Roles, user : Users, tenant : Tenants]
              \cup [op : {"resend"}, inv : Invitations]
              \cup {Idle}

TypeOK ==
    /\ account \in [Users -> Accounts]
    /\ tenantOk \subseteq Tenants
    /\ invitation \in [Invitations -> InvitationRows]
    /\ role \in [Roles -> RoleRows]
    /\ member \subseteq Users \X Roles
    /\ req \in [Requests -> Windows]
    /\ served \in 0..MaxRequests
    /\ stale \subseteq Requests
    /\ raced \subseteq Requests
    /\ joined \in [Invitations -> Nat]

Init ==
    /\ account \in [Users -> {Nobody, Registered}]
    /\ tenantOk = Tenants
    /\ invitation = [i \in Invitations |->
                       [accepted |-> FALSE, revoked |-> FALSE, expired |-> FALSE,
                        tenant |-> None, email |-> None, role |-> "CUSTOMER"]]
    /\ role = [g \in Roles |-> NoRole]
    /\ member = {}
    /\ req = [r \in Requests |-> Idle]
    /\ served = 0
    /\ stale = {}
    /\ raced = {}
    /\ joined = [i \in Invitations |-> 0]

(***************************************************************************)
(* Who may call what                                                       *)
(***************************************************************************)
InvitationRoutes == [invite |-> "invitations:manage", revoke |-> "invitations:manage",
                     resend |-> "invitations:manage", platform |-> "platform:invitations"]
RoleRoutes       == [create |-> "roles:manage", update |-> "roles:manage",
                     remove |-> "roles:manage", assign |-> "roles:manage",
                     unassign |-> "roles:manage"]
UserRoutes       == [role |-> "users:manage", ACTIVE |-> "users:manage",
                     INACTIVE |-> "users:manage", remove |-> "users:manage"]

(* createTenantMiddleware lets the members of an active tenant pass ... *)
TenantPasses(t) == t \in tenantOk

(* ... and createPermissionGuard those who hold the permission.  The       *)
(* actors are managers, who are not among Users ...                        *)
ManagerMay(t, p) == TenantPasses(t) /\ p \in computeEffectivePermissions("TENANT_MANAGER", {})

(* ... and platform admins, who have no tenant. *)
AdminMay(p) == p \in computeEffectivePermissions("PLATFORM_ADMIN", {})

(* A request occupies r from now on, having read what w says. *)
Open(r, w) ==
    /\ req[r] = Idle
    /\ served < MaxRequests
    /\ served' = served + 1
    /\ req' = [req EXCEPT ![r] = w]
    /\ stale' = stale \ {r}
    /\ raced' = raced \ {r}

(* A request that needs no window of its own. *)
AtOnce ==
    /\ served < MaxRequests
    /\ served' = served + 1
    /\ UNCHANGED req

Close(r) == req' = [req EXCEPT ![r] = Idle] /\ UNCHANGED served

About(u) == {r \in Requests : req[r] # Idle /\ "user" \in DOMAIN req[r] /\ req[r].user = u}

StaffOf(t) == {u \in Users : /\ account[u].tenant = t
                             /\ account[u].class \in Staff
                             /\ account[u].status = "ACTIVE"}

(* u's row becomes a: requests that have read it hold an outdated row, and *)
(* acceptances in their transaction an outdated count.                     *)
Store(u, a) ==
    /\ account' = [account EXCEPT ![u] = a]
    /\ stale' = IF account[u] = a THEN stale ELSE stale \cup About(u)
    /\ raced' = raced \cup {r \in Requests : req[r].op = "commit"}

(***************************************************************************)
(* Accounts                                                                *)
(***************************************************************************)

(* verifyEmail asks only for an unused link.  The owner follows it. *)
VerifyEmail(u) ==
    /\ account[u].link
    /\ AtOnce
    /\ Store(u, [account[u] EXCEPT !.verified = TRUE, !.status = "ACTIVE", !.link = FALSE,
                                   !.confirmed = TRUE])
    /\ UNCHANGED <<tenantOk, invitation, access, joined>>

(* updateProfile reads the user ... *)
UpdateProfile(r, u) ==
    /\ account[u].exists /\ account[u].status = "ACTIVE"
    /\ Open(r, [op |-> "save", user |-> u, data |-> account[u]])
    /\ UNCHANGED <<account, tenantOk, invitation, access, joined>>

(* RoleAssignmentPolicy for an actor of class c in tenant t. *)
MayAssign(c, t, target, new) ==
    \/ c = "PLATFORM_ADMIN" /\ (new = "PLATFORM_ADMIN" <=> target.tenant = None)
    \/ /\ c = "TENANT_MANAGER"
       /\ t = target.tenant
       /\ {target.class, new} \subseteq {"AGENT", "CUSTOMER"}

(* ... and changeRole reads the target and asks the policy. *)
ChangeRole(r, u, new) ==
    /\ account[u].exists
    /\ \/ AdminMay(UserRoutes.role) /\ MayAssign("PLATFORM_ADMIN", None, account[u], new)
       \/ \E t \in Tenants : /\ ManagerMay(t, UserRoutes.role)
                            /\ MayAssign("TENANT_MANAGER", t, account[u], new)
    /\ Open(r, [op |-> "save", user |-> u, data |-> [account[u] EXCEPT !.class = new]])
    /\ UNCHANGED <<account, tenantOk, invitation, access, joined>>

(* UserRepository.update: every column of the entity that was read; the    *)
(* metadata with removedAt and the links are not part of the entity.       *)
Save(r) ==
    /\ req[r].op = "save"
    /\ LET u == req[r].user
       IN Store(u, [req[r].data EXCEPT !.removed = account[u].removed,
                                       !.link = account[u].link,
                                       !.confirmed = account[u].confirmed])
    /\ Close(r)
    /\ UNCHANGED <<tenantOk, invitation, access, joined>>

(* setActive and remove read an agent of the tenant; a removed agent is    *)
(* not reactivated.                                                        *)
StaffRead(r, u, op) ==
    /\ ManagerMay(account[u].tenant, UserRoutes[op]) \/ AdminMay(UserRoutes[op])
    /\ account[u].exists /\ account[u].class = "AGENT"
    /\ op = "ACTIVE" => ~account[u].removed
    /\ Open(r, [op |-> op, user |-> u])
    /\ UNCHANGED <<account, tenantOk, invitation, access, joined>>

SetActive(r) ==
    /\ req[r].op \in {"ACTIVE", "INACTIVE"}
    /\ Store(req[r].user, [account[req[r].user] EXCEPT !.status = req[r].op])
    /\ Close(r)
    /\ UNCHANGED <<tenantOk, invitation, access, joined>>

(* remove: the role memberships end with the membership. *)
RemoveAgent(r) ==
    LET u == req[r].user IN
    /\ req[r].op = "remove"
    /\ Store(u, [account[u] EXCEPT !.status = "INACTIVE", !.removed = TRUE])
    /\ member' = {m \in member : m[1] # u \/ role[m[2]].tenant # account[u].tenant}
    /\ Close(r)
    /\ UNCHANGED <<tenantOk, invitation, role, joined>>

(* A platform admin suspends or activates a tenant. *)
TenantStatus(t) ==
    /\ AtOnce
    /\ tenantOk' = IF t \in tenantOk THEN tenantOk \ {t} ELSE tenantOk \cup {t}
    /\ UNCHANGED <<account, invitation, access, stale, raced, joined>>

(***************************************************************************)
(* Invitations                                                             *)
(***************************************************************************)

(* The address has no account, or one without a tenant. *)
MayJoin(a) == a.exists => a.tenant = None /\ a.class = "CUSTOMER"

(* The invitation exists and is neither accepted nor revoked. *)
IsOpen(i) == invitation[i].email # None /\ ~invitation[i].accepted /\ ~invitation[i].revoked

(* The lock of the invitation's row. *)
Locked(i) == \E r \in Requests : req[r].op = "commit" /\ req[r].inv = i

(* create: managers invite agents and customers, admins managers and       *)
(* agents.  The customer record of a customer's invitation is left out.    *)
CreateInvitation(i, t, u, c) ==
    /\ invitation[i].email = None
    /\ \/ c \in {"CUSTOMER", "AGENT"} /\ ManagerMay(t, InvitationRoutes.invite)
       \/ c \in Staff /\ AdminMay(InvitationRoutes.platform)
    /\ MayJoin(account[u])
    /\ AtOnce
    /\ invitation' = [invitation EXCEPT ![i] =
                        [accepted |-> FALSE, revoked |-> FALSE, expired |-> FALSE,
                         tenant |-> t, email |-> u, role |-> c]]
    /\ UNCHANGED <<account, tenantOk, access, stale, raced, joined>>

Expire(i) ==
    /\ IsOpen(i) /\ ~invitation[i].expired
    /\ invitation' = [invitation EXCEPT ![i].expired = TRUE]
    /\ UNCHANGED <<account, tenantOk, access, windows, joined>>

Usable(i) == IsOpen(i) /\ ~invitation[i].expired

(* accept reads the invitation and the account; a verified account must be *)
(* signed in or give its password, which only its owner can.               *)
ReadInvitation(r, i) ==
    LET u == invitation[i].email IN
    /\ Usable(i)
    /\ MayJoin(account[u])
    /\ Open(r, [op |-> "accept", inv |-> i, user |-> u, seen |-> account[u]])
    /\ UNCHANGED <<account, tenantOk, invitation, access, joined>>

(* MUTANT: one too many. *)
WithinLimitOff(i) == invitation[i].role \in Staff =>
                       Cardinality(StaffOf(invitation[i].tenant)) <= MaxAgents

WithinLimit(i) == invitation[i].role \in Staff =>
                    Cardinality(StaffOf(invitation[i].tenant)) < MaxAgents

(* MUTANT: the invitation is not claimed by a conditional update. *)
ClaimUnconditional(r) ==
    LET i == req[r].inv IN
    /\ req[r].op = "accept"
    /\ invitation[i].tenant \in tenantOk /\ WithinLimit(i)
    /\ req' = [req EXCEPT ![r].op = "commit"]
    /\ raced' = raced \ {r}
    /\ UNCHANGED <<account, tenantOk, invitation, access, served, stale, joined>>

(* The transaction claims the invitation, checks the tenant and counts the *)
(* staff.  Its claim is not visible before it commits.                     *)
Claim(r) ==
    LET i == req[r].inv IN
    /\ req[r].op = "accept"
    /\ Usable(i) /\ ~Locked(i)
    /\ invitation[i].tenant \in tenantOk /\ WithinLimit(i)
    /\ req' = [req EXCEPT ![r].op = "commit"]
    /\ raced' = raced \ {r}
    /\ UNCHANGED <<account, tenantOk, invitation, access, served, stale, joined>>

(* A check fails, or the account cannot be written: nothing happened. *)
AcceptFails(r) ==
    /\ req[r].op \in {"accept", "commit"}
    /\ Close(r)
    /\ UNCHANGED <<account, tenantOk, invitation, access, stale, raced, joined>>

(* MUTANT: an unverified account keeps the password it has. *)
JoinedKeepingPassword(seen, now, i) ==
    [now EXCEPT !.exists = TRUE, !.tenant = invitation[i].tenant,
                !.class = invitation[i].role, !.status = "ACTIVE", !.verified = TRUE,
                !.own = @ \/ ~seen.exists]

(* The row after the acceptance.  A new account has the password of its    *)
(* owner; an account that was read unverified gets a new password and      *)
(* loses its sessions and social logins; any other keeps its credentials.  *)
Joined(seen, now, i) ==
    [now EXCEPT !.exists = TRUE, !.tenant = invitation[i].tenant,
                !.class = invitation[i].role, !.status = "ACTIVE", !.verified = TRUE,
                !.own = @ \/ ~seen.exists \/ ~seen.verified]

(* MUTANT: user.update without tenantId: null. *)
WritableAnyTenant(seen, now) == seen.exists \/ ~now.exists

(* user.update where tenantId is null, or user.create with a unique email. *)
Writable(seen, now) == IF seen.exists THEN now.tenant = None ELSE ~now.exists

CommitAcceptance(r) ==
    LET i == req[r].inv
        u == req[r].user
    IN
    /\ req[r].op = "commit"
    /\ Writable(req[r].seen, account[u])
    /\ Store(u, Joined(req[r].seen, account[u], i))
    /\ invitation' = [invitation EXCEPT ![i].accepted = TRUE]
    /\ joined' = [joined EXCEPT ![i] = @ + 1]
    /\ Close(r)
    /\ UNCHANGED <<tenantOk, access>>

(* revoke: one conditional update, which waits for a lock. *)
RevokeInvitation(i) ==
    /\ IsOpen(i) /\ ~Locked(i)
    /\ ManagerMay(invitation[i].tenant, InvitationRoutes.revoke)
    /\ AtOnce
    /\ invitation' = [invitation EXCEPT ![i].revoked = TRUE]
    /\ UNCHANGED <<account, tenantOk, access, stale, raced, joined>>

(* resend reads an open invitation and gives it a new token afterwards. *)
ResendRead(r, i) ==
    /\ IsOpen(i) /\ ManagerMay(invitation[i].tenant, InvitationRoutes.resend)
    /\ Open(r, [op |-> "resend", inv |-> i])
    /\ UNCHANGED <<account, tenantOk, invitation, access, joined>>

ResendWrite(r) ==
    /\ req[r].op = "resend" /\ ~Locked(req[r].inv)
    /\ invitation' = [invitation EXCEPT ![req[r].inv].expired = FALSE]
    /\ Close(r)
    /\ UNCHANGED <<account, tenantOk, access, stale, raced, joined>>

(***************************************************************************)
(* Tenant roles                                                            *)
(***************************************************************************)

(* getEffectivePermissions *)
Effective(u) ==
    LET mine == {m[2] : m \in {x \in member : x[1] = u}}
        here == {g \in mine : role[g].tenant = account[u].tenant}
    IN computeEffectivePermissions(account[u].class, UNION {role[g].grants : g \in here})

(* A role of a tenant that a manager of the tenant may change. *)
findMutable(g) == role[g] # NoRole

findMember(u, t) == account[u].tenant = t /\ account[u].status = "ACTIVE"

(* The actor, a manager, holds what it grants ... *)
assertActorHolds(grants) == grants \subseteq computeEffectivePermissions("TENANT_MANAGER", {})

(* ... and a tenant role grants nothing of the platform. *)
resolveGrantable(grants) == grants \subseteq TENANT_PERMISSIONS /\ assertActorHolds(grants)

CreateRole(g, t, grants) ==
    /\ role[g] = NoRole /\ ManagerMay(t, RoleRoutes.create)
    /\ resolveGrantable(grants)
    /\ AtOnce
    /\ role' = [role EXCEPT ![g] = [tenant |-> t, grants |-> grants]]
    /\ UNCHANGED <<account, tenantOk, invitation, member, stale, raced, joined>>

Fits(u, grants) == grantsOutsideBoundary(account[u].class, grants) = {}

(* update checks the new grants against the classes of the members ... *)
UpdateRole(r, g, grants) ==
    /\ findMutable(g) /\ ManagerMay(role[g].tenant, RoleRoutes.update)
    /\ resolveGrantable(grants)
    /\ \A m \in member : m[2] = g => Fits(m[1], grants)
    /\ Open(r, [op |-> "grants", role |-> g, grants |-> grants])
    /\ UNCHANGED <<account, tenantOk, invitation, access, joined>>

(* ... and replaces the grants in a transaction; the role may be gone. *)
WriteGrants(r) ==
    LET g == req[r].role IN
    /\ req[r].op = "grants"
    /\ role' = IF role[g] = NoRole THEN role ELSE [role EXCEPT ![g].grants = req[r].grants]
    /\ Close(r)
    /\ UNCHANGED <<account, tenantOk, invitation, member, stale, raced, joined>>

(* The memberships are deleted with the role. *)
RemoveRole(g) ==
    /\ findMutable(g) /\ ManagerMay(role[g].tenant, RoleRoutes.remove)
    /\ AtOnce
    /\ role' = [role EXCEPT ![g] = NoRole]
    /\ member' = {m \in member : m[2] # g}
    /\ UNCHANGED <<account, tenantOk, invitation, stale, raced, joined>>

(* assign checks the member and the grants of the role ... *)
AssignRead(r, g, u) ==
    /\ findMutable(g) /\ ManagerMay(role[g].tenant, RoleRoutes.assign)
    /\ findMember(u, role[g].tenant)
    /\ Fits(u, role[g].grants) /\ assertActorHolds(role[g].grants)
    /\ Open(r, [op |-> "assign", role |-> g, user |-> u, tenant |-> role[g].tenant])
    /\ UNCHANGED <<account, tenantOk, invitation, access, joined>>

(* ... and inserts the membership; a foreign key refuses a deleted role. *)
AssignWrite(r) ==
    LET g == req[r].role IN
    /\ req[r].op = "assign"
    /\ member' = IF role[g] = NoRole THEN member ELSE member \cup {<<req[r].user, g>>}
    /\ Close(r)
    /\ UNCHANGED <<account, tenantOk, invitation, role, stale, raced, joined>>

Unassign(m) ==
    /\ m \in member /\ ManagerMay(role[m[2]].tenant, RoleRoutes.unassign)
    /\ AtOnce
    /\ member' = member \ {m}
    /\ UNCHANGED <<account, tenantOk, invitation, role, stale, raced, joined>>

(***************************************************************************)
(* Specification                                                           *)
(***************************************************************************)
AccountStep ==
    \/ \E u \in Users : VerifyEmail(u)
    \/ \E t \in Tenants : TenantStatus(t)
    \/ \E r \in Requests :
          \/ Save(r) \/ SetActive(r) \/ RemoveAgent(r)
          \/ \E u \in Users : \/ UpdateProfile(r, u)
                              \/ \E c \in Classes : ChangeRole(r, u, c)
                              \/ \E op \in {"ACTIVE", "INACTIVE", "remove"} : StaffRead(r, u, op)

InvitationStep ==
    \/ \E i \in Invitations :
          \/ Expire(i) \/ RevokeInvitation(i)
          \/ \E t \in Tenants, u \in Users, c \in Classes \ {"PLATFORM_ADMIN"} :
                CreateInvitation(i, t, u, c)
          \/ \E r \in Requests : ReadInvitation(r, i) \/ ResendRead(r, i)
    \/ \E r \in Requests : Claim(r) \/ CommitAcceptance(r) \/ AcceptFails(r) \/ ResendWrite(r)

RoleStep ==
    \/ \E g \in Roles : \/ RemoveRole(g)
                        \/ \E t \in Tenants, grants \in SUBSET Grants : CreateRole(g, t, grants)
                        \/ \E r \in Requests :
                              \/ \E grants \in SUBSET Grants : UpdateRole(r, g, grants)
                              \/ \E u \in Users : AssignRead(r, g, u)
    \/ \E r \in Requests : WriteGrants(r) \/ AssignWrite(r)
    \/ \E m \in member : Unassign(m)

Next == AccountStep \/ InvitationStep \/ RoleStep
Spec == Init /\ [][Next]_vars

(***************************************************************************)
(* Properties                                                              *)
(***************************************************************************)

(* accept: "An existing tenantless account is linked only when its owner   *)
(* also proves control of the account".  No account of a tenant keeps      *)
(* credentials that somebody else chose when registering the address,      *)
(* although verification, stale profile updates and acceptances interleave. *)
MembersAreProven == \A u \in Users : account[u].tenant # None => account[u].own \/ account[u].confirmed

(* An accepted invitation has given exactly one account, and an invitation *)
(* that was revoked, or not accepted, none: two acceptances, a revocation  *)
(* and a resending of the same invitation may overlap in any way.          *)
InvitationUsedOnce ==
    \A i \in Invitations :
        /\ joined[i] = (IF invitation[i].accepted THEN 1 ELSE 0)
        /\ ~(invitation[i].accepted /\ invitation[i].revoked)

LegalAccountChange(old, new) ==
    /\ old.tenant # None => new.tenant = old.tenant
    /\ old.class = "PLATFORM_ADMIN" => new.tenant = None
    /\ old.removed /\ old.status = "INACTIVE" /\ new.link = old.link /\ new.tenant = old.tenant =>
          new.status = "INACTIVE"
    /\ old.verified => new.verified

(* An acceptance never overwrites a tenant, however old what it has read. *)
StaleWrite(u) ==
    \E r \in stale \cap About(u) :
        req'[r] = Idle /\ (req[r].op = "commit" => account[u].tenant = None)

(* An account leaves its tenant, a platform admin joins one, a removed     *)
(* agent becomes active again, or a verified address becomes unverified,   *)
(* only by a request that had read the account before somebody else        *)
(* changed it (a removed agent also by an old verification link, which     *)
(* verifyEmail accepts, or, once such a lost update has taken the account  *)
(* out of its tenant, by joining a tenant again); and no acceptance of an  *)
(* invitation moves an account from one tenant to another.                 *)
OnlyLostUpdatesBreakAccounts ==
    [][\A u \in Users : LegalAccountChange(account[u], account'[u]) \/ StaleWrite(u)]_vars

(* An acceptance takes a tenant above maxAgents only if an account was     *)
(* written between its count of the staff and its commit.                  *)
LimitOnlyByRace ==
    [][\A r \in Requests, t \in Tenants :
         req[r].op = "commit" /\ joined' # joined /\ req'[r] = Idle /\ r \notin raced
           => Cardinality(StaffOf(t)') <= MaxAgents \/ StaffOf(t)' = StaffOf(t)]_vars

(* Only a manager ever holds a permission reserved for managers, although  *)
(* the grants of a role, its members and their classes change between the  *)
(* checks and the writes of overlapping requests.                          *)
ManagerOnlyIsForManagers ==
    \A u \in Users : account[u].tenant # None /\ account[u].class # "TENANT_MANAGER" =>
        Effective(u) \cap MANAGER_ONLY = {}
=============================================================================
