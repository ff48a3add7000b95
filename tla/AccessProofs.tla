---------------------------- MODULE AccessProofs ----------------------------
(***************************************************************************)
(* Theorems about Access for any number of addresses, tenants, invitations *)
(* and overlapping requests: an invitation gives one account, members have *)
(* proven their address, nobody else holds a manager's permissions, and    *)
(* only lost updates and races break accounts and the limit of the staff.  *)
(***************************************************************************)
EXTENDS Access, FiniteSetTheorems, TLAPS

(***************************************************************************)
(* The inductive invariant                                                 *)
(***************************************************************************)

(* A row that the code may write for an address; `proof`: its owner has    *)
(* followed a verification link.  Only an acceptance sets a tenant and a   *)
(* new password, and both together.                                        *)
Sound(a, proof) ==
    /\ a.tenant # None => a.exists /\ a.class # "PLATFORM_ADMIN"
    /\ ~a.exists => a.class = "CUSTOMER"
    /\ a.tenant # None \/ a.verified => a.own \/ proof
    /\ a.own => a.tenant # None

AccountInv == \A u \in Users : Sound(account[u], account[u].confirmed)

Accepting(r) == req[r].op \in {"accept", "commit"}

(* What a request has read was a row of that kind once. *)
WindowInv ==
    \A r \in Requests :
        /\ req[r].op = "save" => Sound(req[r].data, account[req[r].user].confirmed)
        /\ Accepting(r) => /\ MayJoin(req[r].seen)
                           /\ req[r].seen.exists /\ req[r].seen.verified
                                => account[req[r].user].confirmed

(* Nobody has changed the account since. *)
FreshInv ==
    \A r \in Requests \ stale :
        /\ req[r].op = "save" => /\ req[r].data.tenant = account[req[r].user].tenant
                                 /\ req[r].data.status = account[req[r].user].status
                                 /\ req[r].data.verified = account[req[r].user].verified
        /\ req[r].op = "ACTIVE" => ~account[req[r].user].removed
        /\ Accepting(r) => req[r].seen = account[req[r].user]

InvitationInv ==
    /\ InvitationUsedOnce
    /\ \A i \in Invitations :
          IF invitation[i].email = None
          THEN ~invitation[i].accepted /\ ~invitation[i].revoked
          ELSE invitation[i].tenant \in Tenants /\ invitation[i].role # "PLATFORM_ADMIN"

(* The lock of an invitation's row: its one holder finds it open. *)
LockInv ==
    /\ \A r \in Requests : req[r].op = "commit" => IsOpen(req[r].inv)
    /\ \A r, s \in Requests :
          req[r].op = "commit" /\ req[s].op = "commit" /\ req[r].inv = req[s].inv => r = s

(* The count of the staff is still right. *)
CountInv == \A r \in Requests \ raced : req[r].op = "commit" => WithinLimit(req[r].inv)

Inv == TypeOK /\ AccountInv /\ WindowInv /\ FreshInv /\ InvitationInv /\ LockInv /\ CountInv

(***************************************************************************)
(* Windows                                                                 *)
(***************************************************************************)

(* What a request remembers is told by its operation. *)
LEMMA WindowTypes ==
  ASSUME TypeOK, NEW r \in Requests
  PROVE  /\ Accepting(r) => req[r] \in [op : {"accept", "commit"}, inv : Invitations, user : Users,
                                        seen : Accounts]
         /\ req[r].op = "save" => req[r] \in [op : {"save"}, user : Users, data : Accounts]
         /\ req[r].op \in {"ACTIVE", "INACTIVE", "remove"} =>
              req[r] \in [op : {"ACTIVE", "INACTIVE", "remove"}, user : Users]
         /\ req[r].op = "grants" => req[r] \in [op : {"grants"}, role : Roles, grants : SUBSET Grants]
         /\ req[r].op = "assign" => req[r] \in [op : {"assign"}, role : Roles, user : Users, tenant : Tenants]
         /\ req[r].op = "resend" => req[r] \in [op : {"resend"}, inv : Invitations]
  BY DEF TypeOK, Windows, Idle, Accepting

(* A request that holds a row of the users table is about its address. *)
LEMMA WindowAbout ==
  ASSUME TypeOK, NEW r \in Requests, Accepting(r) \/ req[r].op \in {"save", "ACTIVE"}
  PROVE  req[r].user \in Users /\ r \in About(req[r].user)
  BY WindowTypes DEF About, Idle, Accepting

(* The step ends some requests and begins none. *)
Ending == \A r \in Requests : req'[r] \in {req[r], Idle}

LEMMA CloseEnds ==
  ASSUME TypeOK, NEW r \in Requests, Close(r)
  PROVE  Ending /\ req'[r] = Idle /\ req' \in [Requests -> Windows] /\ served' = served
  BY DEF Ending, Close, TypeOK, Windows

LEMMA SameEnds ==
  ASSUME TypeOK, UNCHANGED req
  PROVE  Ending /\ req' \in [Requests -> Windows]
  BY DEF Ending, TypeOK

LEMMA AtOnceEnds ==
  ASSUME TypeOK, AtOnce
  PROVE  Ending /\ req' \in [Requests -> Windows] /\ served' \in 0..MaxRequests
  BY AccessAssumption, SameEnds DEF AtOnce, TypeOK

(* The invitations keep whom they invite to what. *)
InvitationsStay ==
    \A i \in Invitations : invitation[i].email # None =>
        /\ invitation'[i].email = invitation[i].email
        /\ invitation'[i].tenant = invitation[i].tenant
        /\ invitation'[i].role = invitation[i].role

(***************************************************************************)
(* Families of steps                                                       *)
(***************************************************************************)

(* Requests end; the accounts do not change. *)
LEMMA AsideAccounts ==
  ASSUME Inv, Ending, UNCHANGED <<account, stale, raced>>, InvitationsStay
  PROVE  AccountInv' /\ WindowInv' /\ FreshInv' /\ CountInv'
<1>1. \A r \in Requests : req'[r].op # "idle" => req'[r] = req[r]
  BY DEF Ending, Idle
<1>2. AccountInv'
  BY DEF Inv, AccountInv
<1>3. WindowInv'
  BY <1>1 DEF Inv, WindowInv, Accepting
<1>4. FreshInv'
  BY <1>1 DEF Inv, FreshInv, Accepting
<1>5. CountInv'
  <2> SUFFICES ASSUME NEW r \in Requests \ raced, req'[r].op = "commit"
               PROVE  WithinLimit(req[r].inv)'
    BY DEF CountInv
  <2>1. req'[r] = req[r] /\ req[r].inv \in Invitations /\ invitation[req[r].inv].email # None
    BY <1>1, WindowTypes DEF Inv, LockInv, IsOpen, Accepting
  <2>2. WithinLimit(req[r].inv)
    BY <2>1 DEF Inv, CountInv
  <2>3. \A t : StaffOf(t)' = StaffOf(t)
    BY DEF StaffOf
  <2>4. /\ invitation'[req'[r].inv].role = invitation[req[r].inv].role
        /\ invitation'[req'[r].inv].tenant = invitation[req[r].inv].tenant
    BY <2>1 DEF InvitationsStay
  <2>5. StaffOf(invitation[req[r].inv].tenant)' = StaffOf(invitation[req[r].inv].tenant)
    BY <2>3, <2>4 DEF StaffOf
  <2> QED BY <2>2, <2>4, <2>5 DEF WithinLimit
<1> QED BY <1>2, <1>3, <1>4, <1>5

(* An account is written. *)
LEMMA StoreAccounts ==
  ASSUME Inv, NEW u \in Users, NEW a \in Accounts, Store(u, a), Ending,
         Sound(a, a.confirmed), account[u].confirmed => a.confirmed
  PROVE  AccountInv' /\ WindowInv' /\ FreshInv' /\ CountInv'
<1>1. \A r \in Requests : req'[r].op # "idle" => req'[r] = req[r]
  BY DEF Ending, Idle
<1>2. \A v \in Users : account'[v] = IF v = u THEN a ELSE account[v]
  BY DEF Inv, TypeOK, Store
<1>3. AccountInv'
  BY <1>2 DEF Inv, AccountInv
<1>4. \A v \in Users : account[v].confirmed => account'[v].confirmed
  BY <1>2
<1>5. WindowInv'
  <2> SUFFICES ASSUME NEW r \in Requests
               PROVE  /\ req'[r].op = "save" => Sound(req'[r].data, account'[req'[r].user].confirmed)
                      /\ Accepting(r)' => /\ MayJoin(req'[r].seen)
                                          /\ req'[r].seen.exists /\ req'[r].seen.verified
                                                => account'[req'[r].user].confirmed
    BY DEF WindowInv
  <2>1. CASE req'[r].op = "save"
    <3>1. req'[r] = req[r] /\ req[r].user \in Users
      BY <2>1, <1>1, WindowTypes DEF Inv
    <3> QED BY <2>1, <3>1, <1>4 DEF Inv, WindowInv, Sound, Accepting
  <2>2. CASE Accepting(r)'
    <3>1. req'[r] = req[r] /\ req[r].user \in Users /\ Accepting(r)
      BY <2>2, <1>1, WindowTypes DEF Inv, Accepting
    <3> QED BY <2>2, <3>1, <1>4 DEF Inv, WindowInv, Accepting
  <2> QED BY <2>1, <2>2
<1>6. FreshInv'
  <2> SUFFICES ASSUME NEW r \in Requests \ stale'
               PROVE  /\ req'[r].op = "save" =>
                           /\ req'[r].data.tenant = account'[req'[r].user].tenant
                           /\ req'[r].data.status = account'[req'[r].user].status
                           /\ req'[r].data.verified = account'[req'[r].user].verified
                      /\ req'[r].op = "ACTIVE" => ~account'[req'[r].user].removed
                      /\ Accepting(r)' => req'[r].seen = account'[req'[r].user]
    BY DEF FreshInv
  <2>1. CASE Accepting(r)' \/ req'[r].op \in {"save", "ACTIVE"}
    <3>1. req'[r] = req[r] /\ (Accepting(r) \/ req[r].op \in {"save", "ACTIVE"})
      BY <2>1, <1>1 DEF Accepting
    <3>2. req[r].user \in Users /\ r \in About(req[r].user)
      BY <3>1, WindowAbout DEF Inv
    <3>3. r \notin stale /\ account'[req[r].user] = account[req[r].user]
      BY <3>2, <1>2 DEF Store
    <3> QED BY <3>1, <3>3 DEF Inv, FreshInv, Accepting
  <2> QED BY <2>1
<1>7. CountInv'
  BY <1>1 DEF CountInv, Store
<1> QED BY <1>3, <1>5, <1>6, <1>7

(* A request begins. *)
LEMMA OpenAccounts ==
  ASSUME Inv, NEW r \in Requests, NEW w \in Windows, Open(r, w), UNCHANGED <<account, invitation>>,
         w.op # "commit",
         w.op = "save" => /\ w.data.tenant = account[w.user].tenant
                          /\ w.data.status = account[w.user].status
                          /\ w.data.verified = account[w.user].verified
                          /\ Sound(w.data, account[w.user].confirmed),
         w.op = "ACTIVE" => ~account[w.user].removed,
         w.op = "accept" => /\ w.user \in Users
                            /\ w.seen = account[w.user] /\ MayJoin(w.seen)
  PROVE  AccountInv' /\ WindowInv' /\ FreshInv' /\ CountInv' /\ LockInv'
<1>1. /\ req'[r] = w /\ stale' = stale \ {r} /\ raced' = raced \ {r}
      /\ \A s \in Requests \ {r} : req'[s] = req[s]
  BY DEF Open, Inv, TypeOK
<1>2. AccountInv'
  BY DEF Inv, AccountInv
<1>3. w.op = "accept" /\ w.seen.exists /\ w.seen.verified => account[w.user].confirmed
  BY DEF Inv, AccountInv, Sound, MayJoin
<1>4. WindowInv'
  <2>1. ASSUME NEW s \in Requests
        PROVE  /\ req'[s].op = "save" => Sound(req'[s].data, account[req'[s].user].confirmed)
               /\ req'[s].op \in {"accept", "commit"} =>
                      /\ MayJoin(req'[s].seen)
                      /\ req'[s].seen.exists /\ req'[s].seen.verified => account[req'[s].user].confirmed
    <3>1. CASE s = r
      BY <3>1, <1>1, <1>3
    <3>2. CASE s # r
      BY <3>2, <1>1 DEF Inv, WindowInv, Accepting
    <3> QED BY <3>1, <3>2
  <2> QED BY <2>1 DEF WindowInv, Accepting
<1>5. FreshInv'
  <2>1. ASSUME NEW s \in Requests, s \notin stale'
        PROVE  /\ req'[s].op = "save" => /\ req'[s].data.tenant = account[req'[s].user].tenant
                                         /\ req'[s].data.status = account[req'[s].user].status
                                         /\ req'[s].data.verified = account[req'[s].user].verified
               /\ req'[s].op = "ACTIVE" => ~account[req'[s].user].removed
               /\ req'[s].op \in {"accept", "commit"} => req'[s].seen = account[req'[s].user]
    <3>1. CASE s = r
      BY <3>1, <1>1
    <3>2. CASE s # r
      BY <2>1, <3>2, <1>1 DEF Inv, FreshInv, Accepting
    <3> QED BY <3>1, <3>2
  <2> QED BY <2>1 DEF FreshInv, Accepting
<1>6. CountInv'
  BY <1>1 DEF Inv, CountInv, WithinLimit, StaffOf
<1>7. LockInv'
  BY <1>1 DEF Inv, LockInv, IsOpen
<1> QED BY <1>2, <1>4, <1>5, <1>6, <1>7

(* Requests end; the invitations do not change. *)
LEMMA AsideInvitations ==
  ASSUME Inv, Ending, UNCHANGED <<invitation, joined>>
  PROVE  InvitationInv' /\ LockInv' /\ InvitationsStay
<1>1. InvitationInv' /\ InvitationsStay
  BY DEF Inv, InvitationInv, InvitationUsedOnce, InvitationsStay
<1>2. LockInv'
  BY DEF Inv, LockInv, Ending, Idle, IsOpen
<1> QED BY <1>1, <1>2

LEMMA SameInvitations ==
  ASSUME Inv, UNCHANGED <<invitation, joined>>
  PROVE  InvitationInv' /\ InvitationsStay
  BY DEF Inv, InvitationInv, InvitationUsedOnce, InvitationsStay

(***************************************************************************)
(* One lemma per action                                                    *)
(***************************************************************************)
LEMMA StoreTypes ==
  ASSUME TypeOK, NEW u \in Users, NEW a \in Accounts, Store(u, a)
  PROVE  account' \in [Users -> Accounts] /\ stale' \subseteq Requests /\ raced' \subseteq Requests
  BY DEF TypeOK, Store, About

LEMMA OpenTypes ==
  ASSUME TypeOK, NEW r \in Requests, NEW w \in Windows, Open(r, w)
  PROVE  /\ req' \in [Requests -> Windows] /\ served' \in 0..MaxRequests
         /\ stale' \subseteq Requests /\ raced' \subseteq Requests
  BY AccessAssumption DEF TypeOK, Open

LEMMA VerifyEmailInv ==
  ASSUME Inv, NEW u \in Users, VerifyEmail(u)
  PROVE  Inv'
<1> DEFINE a == [account[u] EXCEPT !.verified = TRUE, !.status = "ACTIVE", !.link = FALSE, !.confirmed = TRUE]
<1>1. a \in Accounts /\ Store(u, a) /\ Sound(a, a.confirmed) /\ a.confirmed
  BY DEF Inv, TypeOK, AccountInv, Sound, VerifyEmail, Accounts
<1> HIDE DEF a
<1>2. Ending /\ req' \in [Requests -> Windows] /\ served' \in 0..MaxRequests
  BY AtOnceEnds DEF Inv, VerifyEmail
<1>3. TypeOK'
  BY <1>1, <1>2, StoreTypes DEF Inv, TypeOK, VerifyEmail, access
<1>4. InvitationInv' /\ LockInv'
  BY <1>2, AsideInvitations DEF VerifyEmail
<1> QED BY <1>1, <1>2, <1>3, <1>4, StoreAccounts DEF Inv

LEMMA SaveInv ==
  ASSUME Inv, NEW r \in Requests, Save(r)
  PROVE  Inv'
<1> DEFINE u == req[r].user
           a == [req[r].data EXCEPT !.removed = account[u].removed, !.link = account[u].link,
                                    !.confirmed = account[u].confirmed]
<1>1. u \in Users /\ req[r].data \in Accounts /\ account[u] \in Accounts
  BY WindowTypes DEF Inv, TypeOK, Save
<1>2. a \in Accounts /\ Store(u, a) /\ (account[u].confirmed => a.confirmed)
  BY <1>1 DEF Save, Accounts
<1>3. Sound(a, a.confirmed)
  BY <1>1 DEF Inv, WindowInv, Save, Sound, Accounts
<1> HIDE DEF a, u
<1>4. Ending /\ req' \in [Requests -> Windows] /\ served' = served
  BY CloseEnds DEF Inv, Save
<1>5. TypeOK'
  BY <1>1, <1>2, <1>4, StoreTypes DEF Inv, TypeOK, Save, access
<1>6. InvitationInv' /\ LockInv'
  BY <1>4, AsideInvitations DEF Save
<1> QED BY <1>1, <1>2, <1>3, <1>4, <1>5, <1>6, StoreAccounts DEF Inv

LEMMA SetActiveInv ==
  ASSUME Inv, NEW r \in Requests, SetActive(r)
  PROVE  Inv'
<1> DEFINE u == req[r].user
           a == [account[u] EXCEPT !.status = req[r].op]
<1>1. u \in Users /\ req[r].op \in {"ACTIVE", "INACTIVE"} /\ account[u] \in Accounts
  BY WindowTypes DEF Inv, TypeOK, SetActive
<1>2. a \in Accounts /\ Store(u, a) /\ (account[u].confirmed => a.confirmed) /\ Sound(a, a.confirmed)
  BY <1>1 DEF Inv, AccountInv, SetActive, Sound, Accounts
<1> HIDE DEF a, u
<1>4. Ending /\ req' \in [Requests -> Windows] /\ served' = served
  BY CloseEnds DEF Inv, SetActive
<1>5. TypeOK'
  BY <1>1, <1>2, <1>4, StoreTypes DEF Inv, TypeOK, SetActive, access
<1>6. InvitationInv' /\ LockInv'
  BY <1>4, AsideInvitations DEF SetActive
<1> QED BY <1>1, <1>2, <1>4, <1>5, <1>6, StoreAccounts DEF Inv

LEMMA RemoveAgentInv ==
  ASSUME Inv, NEW r \in Requests, RemoveAgent(r)
  PROVE  Inv'
<1> DEFINE u == req[r].user
           a == [account[u] EXCEPT !.status = "INACTIVE", !.removed = TRUE]
<1>1. u \in Users /\ account[u] \in Accounts
  BY WindowTypes DEF Inv, TypeOK, RemoveAgent
<1>2. a \in Accounts /\ Store(u, a) /\ (account[u].confirmed => a.confirmed) /\ Sound(a, a.confirmed)
  BY <1>1 DEF Inv, AccountInv, RemoveAgent, Sound, Accounts
<1>3. member' \subseteq member
  BY DEF RemoveAgent
<1> HIDE DEF a, u
<1>4. Ending /\ req' \in [Requests -> Windows] /\ served' = served
  BY CloseEnds DEF Inv, RemoveAgent
<1>5. TypeOK'
  BY <1>1, <1>2, <1>3, <1>4, StoreTypes DEF Inv, TypeOK, RemoveAgent
<1>6. InvitationInv' /\ LockInv'
  BY <1>4, AsideInvitations DEF RemoveAgent
<1> QED BY <1>1, <1>2, <1>4, <1>5, <1>6, StoreAccounts DEF Inv

LEMMA TenantStatusInv ==
  ASSUME Inv, NEW t \in Tenants, TenantStatus(t)
  PROVE  Inv'
<1>1. Ending /\ req' \in [Requests -> Windows] /\ served' \in 0..MaxRequests
  BY AtOnceEnds DEF Inv, TenantStatus
<1>2. TypeOK'
  BY <1>1 DEF Inv, TypeOK, TenantStatus, access
<1>3. InvitationInv' /\ LockInv' /\ InvitationsStay
  BY <1>1, AsideInvitations DEF TenantStatus
<1> QED BY <1>1, <1>2, <1>3, AsideAccounts DEF Inv, TenantStatus

(* Requests that read an account and will write it. *)
LEMMA ReadsInv ==
  ASSUME Inv, NEW r \in Requests, NEW w \in Windows, Open(r, w),
         UNCHANGED <<account, tenantOk, invitation, access, joined>>,
         w.op # "commit",
         w.op = "save" => /\ w.data.tenant = account[w.user].tenant
                          /\ w.data.status = account[w.user].status
                          /\ w.data.verified = account[w.user].verified
                          /\ Sound(w.data, account[w.user].confirmed),
         w.op = "ACTIVE" => ~account[w.user].removed,
         w.op = "accept" => /\ w.user \in Users
                            /\ w.seen = account[w.user] /\ MayJoin(w.seen)
  PROVE  Inv'
<1>1. TypeOK'
  BY OpenTypes DEF Inv, TypeOK, access
<1>2. AccountInv' /\ WindowInv' /\ FreshInv' /\ CountInv' /\ LockInv'
  BY OpenAccounts
<1>3. InvitationInv'
  BY SameInvitations
<1> QED BY <1>1, <1>2, <1>3 DEF Inv

LEMMA UpdateProfileInv ==
  ASSUME Inv, NEW r \in Requests, NEW u \in Users, UpdateProfile(r, u)
  PROVE  Inv'
<1> DEFINE w == [op |-> "save", user |-> u, data |-> account[u]]
<1>1. w \in Windows /\ Open(r, w)
  BY DEF Inv, TypeOK, UpdateProfile, Windows
<1>2. Sound(w.data, account[w.user].confirmed)
  BY DEF Inv, AccountInv
<1> QED BY <1>1, <1>2, ReadsInv DEF UpdateProfile

(* The policy gives a member of a tenant no platform role. *)
LEMMA ChangeRoleInv ==
  ASSUME Inv, NEW r \in Requests, NEW u \in Users, NEW c \in Classes, ChangeRole(r, u, c)
  PROVE  Inv'
<1> DEFINE a == [account[u] EXCEPT !.class = c]
           w == [op |-> "save", user |-> u, data |-> a]
<1>1. account[u] \in Accounts /\ a \in Accounts
  BY DEF Inv, TypeOK, Accounts
<1>2. account[u].tenant # None => c # "PLATFORM_ADMIN"
  BY DEF ChangeRole, MayAssign
<1>3. Sound(a, account[u].confirmed)
  BY <1>1, <1>2 DEF Inv, AccountInv, Sound, ChangeRole, Accounts
<1>4. a.tenant = account[u].tenant /\ a.status = account[u].status /\ a.verified = account[u].verified
  BY <1>1 DEF Accounts
<1>5. Open(r, w)
  BY DEF ChangeRole
<1> HIDE DEF a
<1>6. w \in Windows
  BY <1>1 DEF Windows
<1> QED BY <1>3, <1>4, <1>5, <1>6, ReadsInv DEF ChangeRole

LEMMA StaffReadInv ==
  ASSUME Inv, NEW r \in Requests, NEW u \in Users, NEW op \in {"ACTIVE", "INACTIVE", "remove"},
         StaffRead(r, u, op)
  PROVE  Inv'
<1> DEFINE w == [op |-> op, user |-> u]
<1>1. w \in Windows /\ Open(r, w)
  BY DEF StaffRead, Windows
<1> QED BY <1>1, ReadsInv DEF StaffRead

LEMMA CreateInvitationInv ==
  ASSUME Inv, NEW i \in Invitations, NEW t \in Tenants, NEW u \in Users,
         NEW c \in Classes \ {"PLATFORM_ADMIN"}, CreateInvitation(i, t, u, c)
  PROVE  Inv'
<1> DEFINE x == [accepted |-> FALSE, revoked |-> FALSE, expired |-> FALSE,
                 tenant |-> t, email |-> u, role |-> c]
<1>1. /\ invitation[i].email = None
      /\ \A j \in Invitations : invitation'[j] = IF j = i THEN x ELSE invitation[j]
      /\ invitation' \in [Invitations -> InvitationRows]
  BY DEF CreateInvitation, Inv, TypeOK, InvitationRows
<1>2. Ending /\ req' = req /\ req' \in [Requests -> Windows] /\ served' \in 0..MaxRequests
  BY AtOnceEnds DEF Inv, CreateInvitation, AtOnce
<1>3. TypeOK'
  BY <1>1, <1>2 DEF Inv, TypeOK, CreateInvitation, access
<1>4. InvitationInv' /\ InvitationsStay
  BY <1>1, AccessAssumption DEF Inv, InvitationInv, InvitationUsedOnce, InvitationsStay, CreateInvitation
<1>5. LockInv'
  BY <1>1, <1>2, WindowTypes DEF Inv, LockInv, IsOpen, Accepting
<1> QED BY <1>2, <1>3, <1>4, <1>5, AsideAccounts DEF Inv, CreateInvitation

LEMMA ExpireInv ==
  ASSUME Inv, NEW i \in Invitations, Expire(i)
  PROVE  Inv'
<1>1. invitation' = [invitation EXCEPT ![i].expired = TRUE] /\ UNCHANGED <<account, req, stale, raced, joined>>
  BY DEF Expire, windows
<1>2. /\ invitation' \in [Invitations -> InvitationRows]
      /\ \A j \in Invitations : /\ invitation'[j].accepted = invitation[j].accepted
                                /\ invitation'[j].revoked = invitation[j].revoked
                                /\ invitation'[j].email = invitation[j].email
                                /\ invitation'[j].tenant = invitation[j].tenant
                                /\ invitation'[j].role = invitation[j].role
  BY <1>1 DEF Inv, TypeOK, InvitationRows
<1>3. TypeOK'
  BY <1>2 DEF Inv, TypeOK, Expire, access, windows
<1>4. InvitationInv' /\ InvitationsStay
  BY <1>1, <1>2 DEF Inv, InvitationInv, InvitationUsedOnce, InvitationsStay
<1>5. LockInv'
  BY <1>1, <1>2, WindowTypes DEF Inv, LockInv, IsOpen, Accepting
<1>6. Ending
  BY <1>1 DEF Ending
<1> QED BY <1>1, <1>3, <1>4, <1>5, <1>6, AsideAccounts DEF Inv

LEMMA ReadInvitationInv ==
  ASSUME Inv, NEW r \in Requests, NEW i \in Invitations, ReadInvitation(r, i)
  PROVE  Inv'
<1> DEFINE u == invitation[i].email
           w == [op |-> "accept", inv |-> i, user |-> u, seen |-> account[u]]
<1>1. u \in Users
  BY DEF Inv, TypeOK, InvitationRows, ReadInvitation, Usable, IsOpen
<1>2. w \in Windows /\ Open(r, w) /\ MayJoin(account[u])
  BY <1>1 DEF ReadInvitation, Inv, TypeOK, Windows
<1> HIDE DEF u
<1> QED BY <1>1, <1>2, ReadsInv DEF ReadInvitation

(* The claim takes the lock; it reads no account. *)
LEMMA ClaimInv ==
  ASSUME Inv, NEW r \in Requests, Claim(r)
  PROVE  Inv'
<1> DEFINE i == req[r].inv
<1>1. /\ req[r] \in [op : {"accept", "commit"}, inv : Invitations, user : Users, seen : Accounts]
      /\ i \in Invitations /\ Accepting(r)
  BY WindowTypes DEF Inv, Claim, Accepting
<1>2. /\ req'[r] = [req[r] EXCEPT !.op = "commit"] /\ req' \in [Requests -> Windows]
      /\ \A s \in Requests \ {r} : req'[s] = req[s]
      /\ UNCHANGED <<account, tenantOk, invitation, access, served, stale, joined>>
      /\ raced' = raced \ {r}
  BY <1>1 DEF Claim, Inv, TypeOK, Windows
<1>3. /\ req'[r].op = "commit" /\ req'[r].inv = i /\ req'[r].user = req[r].user
      /\ req'[r].seen = req[r].seen
  BY <1>1, <1>2
<1>4. TypeOK'
  BY <1>2 DEF Inv, TypeOK, access
<1>5. InvitationInv' /\ AccountInv'
  BY <1>2, SameInvitations DEF Inv, AccountInv
<1>6. LockInv'
  BY <1>1, <1>2, <1>3 DEF Inv, LockInv, Claim, Usable, IsOpen, Locked
<1>7. WindowInv'
  <2>1. ASSUME NEW s \in Requests
        PROVE  /\ req'[s].op = "save" => Sound(req'[s].data, account[req'[s].user].confirmed)
               /\ req'[s].op \in {"accept", "commit"} =>
                      /\ MayJoin(req'[s].seen)
                      /\ req'[s].seen.exists /\ req'[s].seen.verified => account[req'[s].user].confirmed
    <3>1. CASE s = r
      BY <3>1, <1>1, <1>3 DEF Inv, WindowInv
    <3>2. CASE s # r
      BY <3>2, <1>2 DEF Inv, WindowInv, Accepting
    <3> QED BY <3>1, <3>2
  <2> QED BY <2>1, <1>2 DEF WindowInv, Accepting
<1>8. FreshInv'
  <2>1. ASSUME NEW s \in Requests, s \notin stale
        PROVE  /\ req'[s].op = "save" => /\ req'[s].data.tenant = account[req'[s].user].tenant
                                         /\ req'[s].data.status = account[req'[s].user].status
                                         /\ req'[s].data.verified = account[req'[s].user].verified
               /\ req'[s].op = "ACTIVE" => ~account[req'[s].user].removed
               /\ req'[s].op \in {"accept", "commit"} => req'[s].seen = account[req'[s].user]
    <3>1. CASE s = r
      BY <2>1, <3>1, <1>1, <1>3 DEF Inv, FreshInv
    <3>2. CASE s # r
      BY <2>1, <3>2, <1>2 DEF Inv, FreshInv, Accepting
    <3> QED BY <3>1, <3>2
  <2> QED BY <2>1, <1>2 DEF FreshInv, Accepting
<1>9. CountInv'
  <2> SUFFICES ASSUME NEW s \in Requests \ raced', req'[s].op = "commit"
               PROVE  WithinLimit(req[s].inv)'
    BY DEF CountInv
  <2>1. WithinLimit(req[s].inv) /\ req'[s].inv = req[s].inv
    <3>1. CASE s = r
      BY <3>1, <1>3 DEF Claim
    <3>2. CASE s # r
      BY <3>2, <1>2 DEF Inv, CountInv
    <3> QED BY <3>1, <3>2
  <2>2. StaffOf(invitation[req[s].inv].tenant)' = StaffOf(invitation[req[s].inv].tenant)
    BY <2>1, <1>2 DEF StaffOf
  <2> QED BY <2>1, <2>2, <1>2 DEF WithinLimit
<1> QED BY <1>4, <1>5, <1>6, <1>7, <1>8, <1>9 DEF Inv

LEMMA AcceptFailsInv ==
  ASSUME Inv, NEW r \in Requests, AcceptFails(r)
  PROVE  Inv'
<1>1. Ending /\ req' \in [Requests -> Windows] /\ served' = served
  BY CloseEnds DEF Inv, AcceptFails
<1>2. TypeOK'
  BY <1>1 DEF Inv, TypeOK, AcceptFails, access
<1>3. InvitationInv' /\ LockInv' /\ InvitationsStay
  BY <1>1, AsideInvitations DEF AcceptFails
<1> QED BY <1>1, <1>2, <1>3, AsideAccounts DEF Inv, AcceptFails

(* The row that an acceptance writes, and the one it replaces. *)
LEMMA CommitWrites ==
  ASSUME Inv, NEW r \in Requests, CommitAcceptance(r)
  PROVE  LET i == req[r].inv
             u == req[r].user
             a == Joined(req[r].seen, account[u], i)
         IN /\ i \in Invitations /\ u \in Users /\ IsOpen(i) /\ invitation[i].tenant \in Tenants
            /\ a \in Accounts /\ Store(u, a) /\ Sound(a, a.confirmed)
            /\ account[u].confirmed => a.confirmed
            /\ account[u].tenant = None
            /\ a.tenant = invitation[i].tenant /\ a.class = invitation[i].role
<1> DEFINE i == req[r].inv
           u == req[r].user
           a == Joined(req[r].seen, account[u], i)
<1>1. /\ req[r] \in [op : {"accept", "commit"}, inv : Invitations, user : Users, seen : Accounts]
      /\ i \in Invitations /\ u \in Users /\ Accepting(r) /\ account[u] \in Accounts
  BY WindowTypes DEF Inv, TypeOK, CommitAcceptance, Accepting
<1>2. IsOpen(i) /\ invitation[i].tenant \in Tenants /\ invitation[i].role \in Classes \ {"PLATFORM_ADMIN"}
  BY <1>1 DEF Inv, LockInv, CommitAcceptance, InvitationInv, IsOpen, TypeOK, InvitationRows
<1>3. Store(u, a)
  BY DEF CommitAcceptance
<1>4. account[u].tenant = None
  BY <1>1 DEF CommitAcceptance, Writable, Inv, AccountInv, Sound
<1>5. a \in Accounts /\ (account[u].confirmed => a.confirmed)
      /\ a.tenant = invitation[i].tenant /\ a.class = invitation[i].role
  BY <1>1, <1>2 DEF Joined, Accounts
<1>6. Sound(a, a.confirmed)
  <2>1. a.tenant # None /\ a.exists /\ a.class # "PLATFORM_ADMIN"
    BY <1>1, <1>2, AccessAssumption DEF Joined, Accounts
  <2>2. a.own \/ a.confirmed
    BY <1>1 DEF Joined, Accounts, Inv, WindowInv
  <2> QED BY <2>1, <2>2 DEF Sound
<1> QED BY <1>1, <1>2, <1>3, <1>4, <1>5, <1>6

LEMMA CommitAcceptanceInv ==
  ASSUME Inv, NEW r \in Requests, CommitAcceptance(r)
  PROVE  Inv'
<1> DEFINE i == req[r].inv
           u == req[r].user
           a == Joined(req[r].seen, account[u], i)
<1>1. /\ i \in Invitations /\ u \in Users /\ IsOpen(i)
      /\ a \in Accounts /\ Store(u, a) /\ Sound(a, a.confirmed) /\ (account[u].confirmed => a.confirmed)
  BY CommitWrites
<1> HIDE DEF a
<1>2. Ending /\ req' \in [Requests -> Windows] /\ served' = served /\ req'[r] = Idle
  BY CloseEnds DEF Inv, CommitAcceptance
<1>3. /\ invitation' \in [Invitations -> InvitationRows]
      /\ invitation'[i].accepted /\ ~invitation'[i].revoked
      /\ \A j \in Invitations \ {i} : invitation'[j] = invitation[j]
      /\ \A j \in Invitations : /\ invitation'[j].email = invitation[j].email
                                /\ invitation'[j].tenant = invitation[j].tenant
                                /\ invitation'[j].role = invitation[j].role
      /\ joined' \in [Invitations -> Nat]
      /\ \A j \in Invitations : joined'[j] = IF j = i THEN joined[j] + 1 ELSE joined[j]
  <2>1. /\ invitation' = [invitation EXCEPT ![i].accepted = TRUE] /\ joined' = [joined EXCEPT ![i] = @ + 1]
        /\ invitation \in [Invitations -> InvitationRows] /\ joined \in [Invitations -> Nat]
    BY DEF CommitAcceptance, Inv, TypeOK
  <2>2. ~invitation[i].revoked
    BY <1>1 DEF IsOpen
  <2> HIDE DEF i
  <2>3. /\ invitation' \in [Invitations -> InvitationRows]
        /\ invitation'[i] = [invitation[i] EXCEPT !.accepted = TRUE] /\ invitation[i] \in InvitationRows
        /\ \A j \in Invitations \ {i} : invitation'[j] = invitation[j]
    BY <1>1, <2>1 DEF InvitationRows
  <2>4. /\ invitation'[i].accepted /\ ~invitation'[i].revoked
        /\ invitation'[i].email = invitation[i].email /\ invitation'[i].tenant = invitation[i].tenant
        /\ invitation'[i].role = invitation[i].role
    BY <2>2, <2>3 DEF InvitationRows
  <2>5. /\ joined' \in [Invitations -> Nat]
        /\ \A j \in Invitations : joined'[j] = IF j = i THEN joined[j] + 1 ELSE joined[j]
    BY <1>1, <2>1
  <2> QED BY <2>3, <2>4, <2>5
<1>4. TypeOK'
  BY <1>1, <1>2, <1>3, StoreTypes DEF Inv, TypeOK, CommitAcceptance, access
<1>5. InvitationInv'
  BY <1>1, <1>3 DEF Inv, InvitationInv, InvitationUsedOnce, IsOpen
<1>6. LockInv'
  <2>1. \A s \in Requests : req'[s].op = "commit" => s # r /\ req'[s] = req[s] /\ req[s].inv # i
                                                     /\ req[s].inv \in Invitations
    BY <1>2, WindowTypes DEF Ending, Idle, Inv, LockInv, CommitAcceptance, Accepting
  <2> QED BY <2>1, <1>3 DEF Inv, LockInv, IsOpen
<1> QED BY <1>1, <1>2, <1>4, <1>5, <1>6, StoreAccounts DEF Inv

LEMMA RevokeInvitationInv ==
  ASSUME Inv, NEW i \in Invitations, RevokeInvitation(i)
  PROVE  Inv'
<1>1. Ending /\ req' = req /\ req' \in [Requests -> Windows] /\ served' \in 0..MaxRequests
  BY AtOnceEnds DEF Inv, RevokeInvitation, AtOnce
<1>2. /\ invitation' \in [Invitations -> InvitationRows]
      /\ \A j \in Invitations : /\ invitation'[j].accepted = invitation[j].accepted
                                /\ invitation'[j].revoked = IF j = i THEN TRUE ELSE invitation[j].revoked
                                /\ invitation'[j].email = invitation[j].email
                                /\ invitation'[j].tenant = invitation[j].tenant
                                /\ invitation'[j].role = invitation[j].role
  BY DEF Inv, TypeOK, InvitationRows, RevokeInvitation
<1>3. TypeOK'
  BY <1>1, <1>2 DEF Inv, TypeOK, RevokeInvitation, access
<1>4. InvitationInv' /\ InvitationsStay
  BY <1>2 DEF Inv, InvitationInv, InvitationUsedOnce, InvitationsStay, RevokeInvitation, IsOpen
<1>5. LockInv'
  BY <1>1, <1>2, WindowTypes DEF Inv, LockInv, IsOpen, Accepting, RevokeInvitation, Locked
<1> QED BY <1>1, <1>3, <1>4, <1>5, AsideAccounts DEF Inv, RevokeInvitation

LEMMA ResendReadInv ==
  ASSUME Inv, NEW r \in Requests, NEW i \in Invitations, ResendRead(r, i)
  PROVE  Inv'
<1> DEFINE w == [op |-> "resend", inv |-> i]
<1>1. w \in Windows /\ Open(r, w)
  BY DEF ResendRead, Windows
<1> QED BY <1>1, ReadsInv DEF ResendRead

LEMMA ResendWriteInv ==
  ASSUME Inv, NEW r \in Requests, ResendWrite(r)
  PROVE  Inv'
<1>1. Ending /\ req' \in [Requests -> Windows] /\ served' = served
  BY CloseEnds DEF Inv, ResendWrite
<1> DEFINE i == req[r].inv
<1>2. /\ i \in Invitations /\ invitation' = [invitation EXCEPT ![i].expired = FALSE]
      /\ invitation \in [Invitations -> InvitationRows]
  BY WindowTypes DEF Inv, ResendWrite, TypeOK
<1> HIDE DEF i
<1>3. /\ invitation' \in [Invitations -> InvitationRows]
      /\ \A j \in Invitations : /\ invitation'[j].accepted = invitation[j].accepted
                                /\ invitation'[j].revoked = invitation[j].revoked
                                /\ invitation'[j].email = invitation[j].email
                                /\ invitation'[j].tenant = invitation[j].tenant
                                /\ invitation'[j].role = invitation[j].role
  BY <1>2 DEF InvitationRows
<1>4. TypeOK'
  BY <1>1, <1>3 DEF Inv, TypeOK, ResendWrite, access
<1>5. InvitationInv' /\ InvitationsStay
  BY <1>3 DEF Inv, InvitationInv, InvitationUsedOnce, InvitationsStay, ResendWrite
<1>6. LockInv'
  <2>1. \A s \in Requests : req'[s].op = "commit" => req'[s] = req[s] /\ req[s].inv \in Invitations
    BY <1>1, WindowTypes DEF Ending, Idle, Inv, Accepting
  <2> QED BY <2>1, <1>3 DEF Inv, LockInv, IsOpen
<1> QED BY <1>1, <1>4, <1>5, <1>6, AsideAccounts DEF Inv, ResendWrite

(* The tenant's roles change; requests end. *)
LEMMA RolesInv ==
  ASSUME Inv, Ending, req' \in [Requests -> Windows], served' \in 0..MaxRequests,
         UNCHANGED <<account, tenantOk, invitation, stale, raced, joined>>,
         role' \in [Roles -> RoleRows], member' \subseteq Users \X Roles
  PROVE  Inv'
<1>1. TypeOK'
  BY DEF Inv, TypeOK
<1>2. InvitationInv' /\ LockInv' /\ InvitationsStay
  BY AsideInvitations
<1> QED BY <1>1, <1>2, AsideAccounts DEF Inv

LEMMA RoleStepInv ==
  ASSUME Inv, RoleStep
  PROVE  Inv'
<1> USE DEF RoleRows, NoRole
<1>0. /\ role \in [Roles -> RoleRows] /\ member \subseteq Users \X Roles /\ served \in 0..MaxRequests
      /\ TypeOK
  BY DEF Inv, TypeOK
<1>1. ASSUME NEW g \in Roles, RemoveRole(g)
      PROVE  Inv'
  <2>1. role' \in [Roles -> RoleRows] /\ member' \subseteq Users \X Roles
    BY <1>0, <1>1 DEF RemoveRole
  <2> QED BY <1>0, <1>1, <2>1, AtOnceEnds, RolesInv DEF RemoveRole
<1>2. ASSUME NEW g \in Roles, NEW t \in Tenants, NEW grants \in SUBSET Grants, CreateRole(g, t, grants)
      PROVE  Inv'
  <2>1. role' \in [Roles -> RoleRows] /\ member' \subseteq Users \X Roles
    BY <1>0, <1>2 DEF CreateRole
  <2> QED BY <1>0, <1>2, <2>1, AtOnceEnds, RolesInv DEF CreateRole
<1>3. ASSUME NEW g \in Roles, NEW r \in Requests, NEW grants \in SUBSET Grants, UpdateRole(r, g, grants)
      PROVE  Inv'
  <2>1. [op |-> "grants", role |-> g, grants |-> grants] \in Windows
    BY DEF Windows
  <2> QED BY <1>3, <2>1, ReadsInv DEF UpdateRole
<1>4. ASSUME NEW g \in Roles, NEW r \in Requests, NEW u \in Users, AssignRead(r, g, u)
      PROVE  Inv'
  <2>1. role[g].tenant \in Tenants
    BY <1>4 DEF AssignRead, ManagerMay, TenantPasses, Inv, TypeOK
  <2>2. [op |-> "assign", role |-> g, user |-> u, tenant |-> role[g].tenant] \in Windows
    BY <2>1 DEF Windows
  <2> QED BY <1>4, <2>2, ReadsInv DEF AssignRead
<1>5. ASSUME NEW r \in Requests, WriteGrants(r)
      PROVE  Inv'
  <2>1. req[r].role \in Roles /\ req[r].grants \in SUBSET Grants
    BY <1>5, <1>0, WindowTypes DEF WriteGrants
  <2>2. role' \in [Roles -> RoleRows] /\ member' \subseteq Users \X Roles
    BY <1>0, <1>5, <2>1 DEF WriteGrants
  <2> QED BY <1>0, <1>5, <2>2, CloseEnds, RolesInv DEF WriteGrants
<1>6. ASSUME NEW r \in Requests, AssignWrite(r)
      PROVE  Inv'
  <2>1. req[r].role \in Roles /\ req[r].user \in Users
    BY <1>6, <1>0, WindowTypes DEF AssignWrite
  <2>2. role' \in [Roles -> RoleRows] /\ member' \subseteq Users \X Roles
    BY <1>0, <1>6, <2>1 DEF AssignWrite
  <2> QED BY <1>0, <1>6, <2>2, CloseEnds, RolesInv DEF AssignWrite
<1>7. ASSUME NEW m \in member, Unassign(m)
      PROVE  Inv'
  <2>1. role' \in [Roles -> RoleRows] /\ member' \subseteq Users \X Roles
    BY <1>0, <1>7 DEF Unassign
  <2> QED BY <1>0, <1>7, <2>1, AtOnceEnds, RolesInv DEF Unassign
<1> QED BY <1>1, <1>2, <1>3, <1>4, <1>5, <1>6, <1>7 DEF RoleStep

LEMMA AccountStepInv ==
  ASSUME Inv, AccountStep
  PROVE  Inv'
  BY VerifyEmailInv, TenantStatusInv, SaveInv, SetActiveInv, RemoveAgentInv, UpdateProfileInv,
     ChangeRoleInv, StaffReadInv DEF AccountStep

LEMMA InvitationStepInv ==
  ASSUME Inv, InvitationStep
  PROVE  Inv'
  BY ExpireInv, RevokeInvitationInv, CreateInvitationInv, ReadInvitationInv, ResendReadInv, ClaimInv,
     CommitAcceptanceInv, AcceptFailsInv, ResendWriteInv DEF InvitationStep

LEMMA InitInv ==
  ASSUME Init
  PROVE  Inv
<1>1. TypeOK
  <2>1. Nobody \in Accounts /\ Registered \in Accounts
    BY DEF Accounts, Nobody, Registered, Classes
  <2>2. account \in [Users -> Accounts]
    BY <2>1 DEF Init
  <2>3. invitation \in [Invitations -> InvitationRows] /\ joined \in [Invitations -> Nat]
    BY DEF Init, InvitationRows, Classes
  <2>4. role \in [Roles -> RoleRows] /\ req \in [Requests -> Windows] /\ served \in 0..MaxRequests
    BY AccessAssumption DEF Init, RoleRows, NoRole, Windows
  <2> QED BY <2>2, <2>3, <2>4 DEF Init, TypeOK
<1>2. \A u \in Users : account[u] \in {Nobody, Registered}
  BY DEF Init
<1>3. AccountInv
  <2>1. Sound(Nobody, Nobody.confirmed)
    BY DEF Sound, Nobody
  <2>2. /\ Registered.exists /\ Registered.tenant = None
        /\ Registered.verified = FALSE /\ Registered.own = FALSE
    BY DEF Nobody, Registered
  <2>3. Sound(Registered, Registered.confirmed)
    BY <2>2 DEF Sound
  <2> QED BY <1>2, <2>1, <2>3 DEF AccountInv
<1>4. \A r \in Requests : req[r].op = "idle"
  BY DEF Init, Idle
<1>5. WindowInv /\ FreshInv /\ LockInv /\ CountInv
  BY <1>4 DEF WindowInv, FreshInv, LockInv, CountInv, Accepting
<1>6. InvitationInv
  <2>1. \A i \in Invitations : /\ invitation[i].accepted = FALSE /\ invitation[i].revoked = FALSE
                               /\ invitation[i].email = None /\ joined[i] = 0
    BY DEF Init
  <2> QED BY <2>1 DEF InvitationInv, InvitationUsedOnce
<1> QED BY <1>1, <1>3, <1>5, <1>6 DEF Inv

LEMMA NextInv ==
  ASSUME Inv, [Next]_vars
  PROVE  Inv'
<1>1. CASE UNCHANGED vars
  <2>1. Ending /\ UNCHANGED <<account, tenantOk, invitation, role, member, req, served, stale, raced, joined>>
    BY <1>1 DEF vars, access, windows, Ending
  <2>2. TypeOK'
    BY <2>1 DEF Inv, TypeOK
  <2> QED BY <2>1, <2>2, AsideInvitations, AsideAccounts DEF Inv
<1>2. CASE Next
  BY <1>2, AccountStepInv, InvitationStepInv, RoleStepInv DEF Next
<1> QED BY <1>1, <1>2

(* Accounts, requests in progress, invitations and their locks stay in the *)
(* states Inv allows, through every check and every later write of the     *)
(* user, role and invitation services.                                     *)
THEOREM Invariance == Spec => []Inv
  BY InitInv, NextInv, PTL DEF Spec

(***************************************************************************)
(* What the invariant says                                                 *)
(***************************************************************************)

(* The tables, and what the requests remember of them, have their types.  *)
THEOREM TypeCorrect == Spec => []TypeOK
<1>1. Inv => TypeOK
  BY DEF Inv
<1> QED BY <1>1, Invariance, PTL

(* Two acceptances, a revocation and a resending of an invitation may      *)
(* overlap in any way: it gives one account, and none if it is revoked.    *)
THEOREM InvitationsGiveOneAccount == Spec => []InvitationUsedOnce
<1>1. Inv => InvitationUsedOnce
  BY DEF Inv, InvitationInv
<1> QED BY <1>1, Invariance, PTL

(* accept links an account to a tenant only with a password its owner has  *)
(* chosen or for an address its owner has confirmed, whatever             *)
(* UserRepository.update and verifyEmail write meanwhile.                  *)
THEOREM MembersProveTheirAddress == Spec => []MembersAreProven
<1>1. Inv => MembersAreProven
  BY DEF Inv, AccountInv, Sound, MembersAreProven
<1> QED BY <1>1, Invariance, PTL

(* What computeEffectivePermissions gives an agent or a customer, whatever *)
(* their roles grant.                                                      *)
LEMMA ClassesAreBounded ==
  ASSUME NEW class \in {"AGENT", "CUSTOMER"}, NEW grants
  PROVE  computeEffectivePermissions(class, grants) \cap MANAGER_ONLY = {}
<1>1. CASE class = "AGENT"
  <2>1. DEFAULT_GRANTS["AGENT"] \cap MANAGER_ONLY = {}
    BY DEF DEFAULT_GRANTS, MANAGER_ONLY
  <2>2. CLASS_BOUNDARY["AGENT"] \cap MANAGER_ONLY = {}
    BY DEF CLASS_BOUNDARY, DEFAULT_GRANTS, MANAGER_ONLY
  <2> QED BY <1>1, <2>1, <2>2 DEF computeEffectivePermissions
<1>2. CASE class = "CUSTOMER"
  <2>1. DEFAULT_GRANTS["CUSTOMER"] \cap MANAGER_ONLY = {}
    BY DEF DEFAULT_GRANTS, MANAGER_ONLY
  <2>2. CLASS_BOUNDARY["CUSTOMER"] \cap MANAGER_ONLY = {}
    BY DEF CLASS_BOUNDARY, DEFAULT_GRANTS, MANAGER_ONLY
  <2> QED BY <1>2, <2>1, <2>2 DEF computeEffectivePermissions
<1> QED BY <1>1, <1>2

(* No member of a tenant other than a manager holds a manager's permission: *)
(* the boundary of the class clips what stale checks of the roles let      *)
(* through, and no request makes a member a platform admin.                *)
THEOREM OnlyManagersManage == Spec => []ManagerOnlyIsForManagers
<1>1. ASSUME Inv
      PROVE  ManagerOnlyIsForManagers
  <2> SUFFICES ASSUME NEW u \in Users, account[u].tenant # None, account[u].class # "TENANT_MANAGER"
               PROVE  Effective(u) \cap MANAGER_ONLY = {}
    BY DEF ManagerOnlyIsForManagers
  <2>1. account[u].class \in {"AGENT", "CUSTOMER"}
    BY <1>1 DEF Inv, TypeOK, Accounts, Classes, AccountInv, Sound
  <2> QED BY <2>1, ClassesAreBounded DEF Effective
<1> QED BY <1>1, Invariance, PTL

(***************************************************************************)
(* What one step may do to an account                                      *)
(***************************************************************************)

(* A request that ends in a step that writes u's row. *)
LEMMA StaleWriter ==
  ASSUME TypeOK, NEW u \in Users, NEW r \in Requests \cap stale, r \in About(u), req'[r] = Idle,
         req[r].op # "commit" \/ account[u].tenant = None
  PROVE  StaleWrite(u)
  BY DEF StaleWrite

LEMMA AccountChange ==
  ASSUME Inv, [Next]_vars, NEW u \in Users
  PROVE  LegalAccountChange(account[u], account'[u]) \/ StaleWrite(u)
<1> DEFINE Legal == LegalAccountChange(account[u], account'[u])
<1>0. /\ account \in [Users -> Accounts] /\ account[u] \in Accounts
      /\ account[u].class = "PLATFORM_ADMIN" => account[u].tenant = None
      /\ TypeOK
  BY DEF Inv, TypeOK, AccountInv, Sound
<1>1. CASE account'[u] = account[u]
  BY <1>0, <1>1 DEF LegalAccountChange
<1>2. ASSUME VerifyEmail(u)
      PROVE  Legal
  <2>1. /\ account'[u].tenant = account[u].tenant /\ account'[u].verified
        /\ account[u].link /\ account'[u].link = FALSE
    BY <1>0, <1>2 DEF VerifyEmail, Store, Accounts
  <2> QED BY <1>0, <2>1 DEF LegalAccountChange
<1>3. ASSUME NEW r \in Requests, Save(r), req[r].user = u
      PROVE  Legal \/ StaleWrite(u)
  <2>1. r \in About(u) /\ req'[r] = Idle
    BY <1>0, <1>3, WindowAbout, CloseEnds DEF Save
  <2>2. CASE r \in stale
    BY <1>0, <1>3, <2>1, <2>2, StaleWriter DEF Save
  <2>3. CASE r \notin stale
    <3>1. req[r].data \in Accounts
      BY <1>0, <1>3, WindowTypes DEF Save
    <3>2. /\ account'[u].tenant = req[r].data.tenant /\ account'[u].status = req[r].data.status
          /\ account'[u].verified = req[r].data.verified
      BY <1>0, <1>3, <3>1 DEF Save, Store, Accounts
    <3>3. /\ req[r].data.tenant = account[u].tenant /\ req[r].data.status = account[u].status
          /\ req[r].data.verified = account[u].verified
      BY <1>3, <2>3 DEF Inv, FreshInv, Save
    <3> QED BY <1>0, <3>2, <3>3 DEF LegalAccountChange
  <2> QED BY <2>2, <2>3
<1>4. ASSUME NEW r \in Requests, SetActive(r), req[r].user = u
      PROVE  Legal \/ StaleWrite(u)
  <2>1. /\ account'[u].tenant = account[u].tenant /\ account'[u].verified = account[u].verified
        /\ account'[u].status = req[r].op
    BY <1>0, <1>4 DEF SetActive, Store, Accounts
  <2>2. CASE req[r].op = "INACTIVE"
    BY <1>0, <2>1, <2>2 DEF LegalAccountChange
  <2>3. CASE req[r].op = "ACTIVE"
    <3>1. r \in About(u) /\ req'[r] = Idle
      BY <1>0, <1>4, <2>3, WindowAbout, CloseEnds DEF SetActive
    <3>2. CASE r \in stale
      BY <1>0, <2>3, <3>1, <3>2, StaleWriter
    <3>3. CASE r \notin stale
      <4>1. ~account[u].removed
        BY <1>4, <2>3, <3>3 DEF Inv, FreshInv
      <4> QED BY <1>0, <2>1, <4>1 DEF LegalAccountChange
    <3> QED BY <3>2, <3>3
  <2> QED BY <1>4, <2>2, <2>3 DEF SetActive
<1>5. ASSUME NEW r \in Requests, RemoveAgent(r), req[r].user = u
      PROVE  Legal
  <2>1. /\ account'[u].tenant = account[u].tenant /\ account'[u].verified = account[u].verified
        /\ account'[u].status = "INACTIVE"
    BY <1>0, <1>5 DEF RemoveAgent, Store, Accounts
  <2> QED BY <1>0, <2>1 DEF LegalAccountChange
<1>6. ASSUME NEW r \in Requests, CommitAcceptance(r), req[r].user = u
      PROVE  Legal \/ StaleWrite(u)
  <2>1. /\ account[u].tenant = None /\ account'[u].tenant \in Tenants
    BY <1>0, <1>6, CommitWrites DEF Store
  <2>2. account'[u].verified
    BY <1>0, <1>6 DEF CommitAcceptance, Store, Joined, Accounts
  <2>3. CASE r \in stale
    <3>1. r \in About(u) /\ req'[r] = Idle
      BY <1>0, <1>6, WindowAbout, CloseEnds DEF CommitAcceptance, Accepting
    <3> QED BY <1>0, <2>1, <2>3, <3>1, StaleWriter
  <2>4. CASE r \notin stale
    <3>1. account[u].class # "PLATFORM_ADMIN"
      <4>1. req[r].seen = account[u] /\ MayJoin(req[r].seen)
        BY <1>6, <2>4 DEF Inv, FreshInv, WindowInv, CommitAcceptance, Accepting
      <4> QED BY <4>1 DEF MayJoin, Inv, AccountInv, Sound
    <3> QED BY <2>1, <2>2, <3>1, AccessAssumption DEF LegalAccountChange
  <2> QED BY <2>3, <2>4
<1>7. ASSUME NEW v \in Users, NEW a, Store(v, a), v # u
      PROVE  account'[u] = account[u]
  BY <1>0, <1>7 DEF Store
<1>8. \A r \in Requests : req[r].op = "save" \/ req[r].op \in {"ACTIVE", "INACTIVE", "remove"} \/ Accepting(r)
                            => req[r].user \in Users
  BY <1>0, WindowTypes
<1>9. CASE AccountStep
  <2>1. ASSUME NEW v \in Users, VerifyEmail(v)
        PROVE  Legal \/ StaleWrite(u)
    <3>1. CASE v = u
      BY <2>1, <3>1, <1>2
    <3>2. CASE v # u
      <4>1. \E a : Store(v, a)
        BY <2>1 DEF VerifyEmail
      <4> QED BY <3>2, <4>1, <1>1, <1>7
    <3> QED BY <3>1, <3>2
  <2>2. ASSUME NEW r \in Requests, Save(r) \/ SetActive(r) \/ RemoveAgent(r)
        PROVE  Legal \/ StaleWrite(u)
    <3>1. CASE req[r].user = u
      BY <2>2, <3>1, <1>3, <1>4, <1>5
    <3>2. CASE req[r].user # u
      <4>1. req[r].user \in Users
        BY <2>2, <1>8 DEF Save, SetActive, RemoveAgent
      <4>2. \E a : Store(req[r].user, a)
        BY <2>2 DEF Save, SetActive, RemoveAgent
      <4> QED BY <3>2, <4>1, <4>2, <1>1, <1>7
    <3> QED BY <3>1, <3>2
  <2>3. CASE UNCHANGED account
    BY <2>3, <1>1
  <2> QED BY <1>9, <2>1, <2>2, <2>3 DEF AccountStep, TenantStatus, UpdateProfile, ChangeRole, StaffRead
<1>10. CASE InvitationStep
  <2>1. ASSUME NEW r \in Requests, CommitAcceptance(r)
        PROVE  Legal \/ StaleWrite(u)
    <3>1. CASE req[r].user # u
      <4>1. req[r].user \in Users
        BY <2>1, <1>8 DEF CommitAcceptance, Accepting
      <4>2. \E a : Store(req[r].user, a)
        BY <2>1 DEF CommitAcceptance
      <4> QED BY <3>1, <4>1, <4>2, <1>1, <1>7
    <3> QED BY <2>1, <3>1, <1>6
  <2>2. CASE UNCHANGED account
    BY <2>2, <1>1
  <2> QED BY <1>10, <2>1, <2>2 DEF InvitationStep, Expire, RevokeInvitation, CreateInvitation,
                                   ReadInvitation, ResendRead, Claim, AcceptFails, ResendWrite
<1>11. CASE RoleStep
  BY <1>1, <1>11 DEF RoleStep, RemoveRole, CreateRole, UpdateRole, AssignRead, WriteGrants, AssignWrite,
                     Unassign
<1>12. CASE UNCHANGED vars
  BY <1>1, <1>12 DEF vars
<1> QED BY <1>9, <1>10, <1>11, <1>12 DEF Next

(* An account leaves its tenant, a platform admin joins one, a removed     *)
(* agent is active again or a verified address unverified only when        *)
(* UserRepository.update, setActive or accept writes over a change that    *)
(* was made after it had read the account.                                 *)
THEOREM OnlyLostUpdates == Spec => OnlyLostUpdatesBreakAccounts
<1>1. Inv /\ [Next]_vars =>
        [\A u \in Users : LegalAccountChange(account[u], account'[u]) \/ StaleWrite(u)]_vars
  BY AccountChange
<1> QED BY <1>1, Invariance, PTL DEF Spec, OnlyLostUpdatesBreakAccounts

(***************************************************************************)
(* The limit of the staff                                                  *)
(***************************************************************************)
LEMMA StaffIsFinite ==
  ASSUME NEW t
  PROVE  IsFiniteSet(StaffOf(t)) /\ Cardinality(StaffOf(t)) \in Nat
  BY AccessAssumption, FS_Subset, FS_CardinalityType DEF StaffOf

LEMMA LimitStep ==
  ASSUME Inv, [Next]_vars, NEW r \in Requests, NEW t \in Tenants,
         req[r].op = "commit", joined' # joined, req'[r] = Idle, r \notin raced
  PROVE  Cardinality(StaffOf(t)') <= MaxAgents \/ StaffOf(t)' = StaffOf(t)
<1>1. CommitAcceptance(r)
  <2>1. \E s \in Requests : CommitAcceptance(s)
    BY DEF Next, AccountStep, InvitationStep, RoleStep, vars, VerifyEmail, TenantStatus, Save, SetActive,
           RemoveAgent, UpdateProfile, ChangeRole, StaffRead, Expire, RevokeInvitation, CreateInvitation,
           ReadInvitation, ResendRead, Claim, AcceptFails, ResendWrite, RemoveRole, CreateRole, UpdateRole,
           AssignRead, WriteGrants, AssignWrite, Unassign
  <2>2. PICK s \in Requests : CommitAcceptance(s)
    BY <2>1
  <2>3. s # r => req'[r] = req[r]
    BY <2>2 DEF CommitAcceptance, Close, Inv, TypeOK
  <2> QED BY <2>2, <2>3 DEF Idle
<1> DEFINE i == req[r].inv
           u == req[r].user
<1>2. /\ i \in Invitations /\ u \in Users /\ account[u].tenant = None
      /\ account'[u].tenant = invitation[i].tenant /\ account'[u].class = invitation[i].role
      /\ \A v \in Users \ {u} : account'[v] = account[v]
  BY <1>1, CommitWrites DEF Store, Inv, TypeOK
<1>3. WithinLimit(i)
  BY DEF Inv, CountInv
<1> HIDE DEF i, u
<1>4. t # None
  BY AccessAssumption
<1>5. CASE t = invitation[i].tenant /\ invitation[i].role \in Staff
  <2>1. Cardinality(StaffOf(t)) < MaxAgents
    BY <1>3, <1>5 DEF WithinLimit
  <2>2. StaffOf(t)' = StaffOf(t) \/ StaffOf(t)' = StaffOf(t) \cup {u}
    BY <1>2, <1>4 DEF StaffOf
  <2> DEFINE S == StaffOf(t)
  <2>3. IsFiniteSet(S) /\ Cardinality(S) \in Nat
    BY StaffIsFinite
  <2>4. CASE S' = S \cup {u}
    <3> HIDE DEF S
    <3>1. Cardinality(S \cup {u}) = Cardinality(S) \/ Cardinality(S \cup {u}) = Cardinality(S) + 1
      <4>1. Cardinality(S \cup {u}) = IF u \in S THEN Cardinality(S) ELSE Cardinality(S) + 1
        BY <2>3, FS_AddElement
      <4> QED BY <4>1
    <3>2. Cardinality(S) < MaxAgents
      BY <2>1 DEF S
    <3>3. Cardinality(S') <= MaxAgents
      BY <2>3, <2>4, <3>1, <3>2, AccessAssumption
    <3> QED BY <3>3 DEF S
  <2> QED BY <2>2, <2>4
<1>6. CASE t # invitation[i].tenant \/ invitation[i].role \notin Staff
  BY <1>2, <1>4, <1>6 DEF StaffOf
<1> QED BY <1>5, <1>6

(* accept counts the staff inside its transaction; a tenant exceeds        *)
(* maxAgents only if another request writes an account before the commit.  *)
THEOREM LimitBrokenOnlyByRace == Spec => LimitOnlyByRace
<1>1. Inv /\ [Next]_vars =>
        [\A r \in Requests, t \in Tenants :
           req[r].op = "commit" /\ joined' # joined /\ req'[r] = Idle /\ r \notin raced
             => Cardinality(StaffOf(t)') <= MaxAgents \/ StaffOf(t)' = StaffOf(t)]_vars
  BY LimitStep
<1> QED BY <1>1, Invariance, PTL DEF Spec, LimitOnlyByRace
=============================================================================
