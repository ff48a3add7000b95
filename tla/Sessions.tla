------------------------------ MODULE Sessions ------------------------------
(***************************************************************************)
(* Refresh-token sessions of one account: AuthService, OAuthService and    *)
(* TokenService, with everything that changes the account under them       *)
(* (StaffLifecycleService, UserService, TenantService).                    *)
(*                                                                         *)
(* A login starts a family of refresh tokens, named here after its first   *)
(* token; every refresh replaces the live token of its family.  A call     *)
(* executes one operation and stops between any two of its statements; it  *)
(* keeps the user row that it has read.                                    *)
(***************************************************************************)
EXTENDS Integers, FiniteSets

CONSTANTS Tokens,     \* BOUND: token ids that can be issued
          Calls,      \* requests
          Threshold,  \* LOCKOUT_THRESHOLD
          None

ASSUME SessionsDistinct == Tokens \cap Calls = {} /\ None \notin Tokens \cup Calls
ASSUME ThresholdAssumption == Threshold \in Nat \ {0}

VARIABLES
    token,     \* token[t]: the state of a row of refresh_tokens
    family,    \* family[t]: familyId
    expired,   \* tokens whose expiresAt has passed
    user,      \* the users row
    tenant,    \* tenants.status
    call,      \* what every request is doing
    \* history
    parent,    \* parent[t]: the token that t has replaced
    failures,  \* failed logins recorded so far
    ended,     \* families revoked by logout, reset, reuse, ...
    final,     \* ... of which no refresh was under way at that time
    lost,      \* families whose refresh failed after the claim
    barred     \* refreshes begun in a suspended organization, suspended since

rows    == <<token, family, expired, parent>>
account == <<user, tenant>>
history == <<failures, ended, final, lost>>
vars    == <<rows, account, call, history, barred>>

(* "rotated" is isRevoked with reason ROTATED less than ROTATION_GRACE_MS  *)
(* ago; "revoked" is isRevoked otherwise.                                  *)
TokenStates == {"none", "live", "rotated", "revoked"}

Users == [status : {"ACTIVE", "INACTIVE"}, role : {"AGENT", "TENANT_MANAGER"},
          failed : Nat, locked : BOOLEAN]

Idle  == [pc |-> "idle"]
Ended == [pc |-> "ended"]
Steps == {"login", "failed", "reset", "oauth", "found", "reused", "claimed", "unusable",
          "issue", "write", "revokeAll"}
Busy  == [pc : Steps, tok : Tokens \cup {None}, user : Users]

TypeOK ==
    /\ token \in [Tokens -> TokenStates]
    /\ family \in [Tokens -> Tokens \cup {None}]
    /\ parent \in [Tokens -> Tokens \cup {None}]
    /\ user \in Users
    /\ tenant \in {"ACTIVE", "SUSPENDED"}
    /\ call \in [Calls -> Busy \cup {Idle, Ended}]
    /\ failures \in Nat
    /\ expired \subseteq Tokens /\ ended \subseteq Tokens
    /\ final \subseteq Tokens /\ lost \subseteq Tokens
    /\ barred \subseteq Calls

(* Some sessions are open. *)
Init ==
    /\ \E open \in SUBSET Tokens :
          /\ token = [t \in Tokens |-> IF t \in open THEN "live" ELSE "none"]
          /\ family = [t \in Tokens |-> IF t \in open THEN t ELSE None]
    /\ parent = [t \in Tokens |-> None]
    /\ user = [status |-> "ACTIVE", role |-> "AGENT", failed |-> 0, locked |-> FALSE]
    /\ tenant = "ACTIVE"
    /\ call = [c \in Calls |-> Idle]
    /\ failures = 0
    /\ expired = {} /\ ended = {} /\ final = {} /\ lost = {} /\ barred = {}

(***************************************************************************)
(* Calls                                                                   *)
(***************************************************************************)
At(c, p) == call[c].pc = p

Begin(c, p, t, u) ==
    /\ call[c] = Idle
    /\ call' = [call EXCEPT ![c] = [pc |-> p, tok |-> t, user |-> u]]

Go(c, p) == call' = [call EXCEPT ![c].pc = p]
End(c)   == call' = [call EXCEPT ![c] = Ended]

(***************************************************************************)
(* Families                                                                *)
(***************************************************************************)
Families     == {f \in Tokens : family[f] = f}
LiveIn(f)    == {t \in Tokens : token[t] = "live" /\ family[t] = f}

(* Refreshes of f between their claim and their end. *)
RotatingIn(ps, f) == {c \in Calls : /\ call[c].pc \in ps
                                    /\ call[c].tok # None
                                    /\ family[call[c].tok] = f}
Rotating(f)  == RotatingIn({"claimed", "unusable", "issue"}, f)
Creating(f)  == RotatingIn({"claimed", "issue"}, f)

(* updateMany ... isRevoked: true on the live tokens of some families;     *)
(* justified says whether there was a reason to end them.                  *)
RevokeFamilies(F, justified) ==
    /\ token' = [t \in Tokens |-> IF token[t] = "live" /\ family[t] \in F
                                  THEN "revoked" ELSE token[t]]
    /\ ended' = IF justified THEN ended \cup F ELSE ended
    /\ final' = final \cup {f \in F : Creating(f) = {}}
    /\ UNCHANGED <<family, expired, parent, account, failures, lost, barred>>

(***************************************************************************)
(* Login                                                                   *)
(***************************************************************************)

(* login up to its first branch.  A wrong password on an unlocked account  *)
(* is counted; an INACTIVE user is not turned away here.                   *)
LoginRead(c, good) ==
    /\ call[c] = Idle
    /\ \/ user.locked /\ End(c)
       \/ ~user.locked /\ good /\ Begin(c, "login", None, user)
       \/ ~user.locked /\ ~good /\ Begin(c, "failed", None, user)
    /\ UNCHANGED <<rows, account, history, barred>>

(* MUTANT: locks one failure early. *)
recordFailedLoginEarly(c) ==
    LET n == call[c].user.failed + 1 IN
    /\ At(c, "failed")
    /\ user' = [user EXCEPT !.failed = n, !.locked = @ \/ n + 1 >= Threshold]
    /\ failures' = failures + 1
    /\ End(c)
    /\ UNCHANGED <<rows, tenant, ended, final, lost, barred>>

(* failedLoginAttempts is what was read plus one. *)
recordFailedLogin(c) ==
    LET n == call[c].user.failed + 1 IN
    /\ At(c, "failed")
    /\ user' = [user EXCEPT !.failed = n, !.locked = @ \/ n >= Threshold]
    /\ failures' = failures + 1
    /\ End(c)
    /\ UNCHANGED <<rows, tenant, ended, final, lost, barred>>

LoginTenant(c) ==
    /\ At(c, "login")
    /\ IF tenant = "SUSPENDED" THEN End(c) ELSE Go(c, "reset")
    /\ UNCHANGED <<rows, account, history, barred>>

LoginReset(c) ==
    /\ At(c, "reset")
    /\ user' = [user EXCEPT !.failed = 0, !.locked = FALSE]
    /\ Go(c, "issue")
    /\ UNCHANGED <<rows, tenant, history, barred>>

(* handleGoogleCallback reads the user ... *)
OAuthRead(c) ==
    /\ Begin(c, "oauth", None, user)
    /\ UNCHANGED <<rows, account, history, barred>>

(* assertAccountUsable: the user as it was read, the tenant as it is now;  *)
(* a lock that was read may have run out.                                  *)
assertAccountUsable(c, lockIsOver) ==
    /\ call[c].user.status = "ACTIVE"
    /\ call[c].user.locked => lockIsOver
    /\ tenant # "SUSPENDED"

OAuthCheck(c, lockIsOver) ==
    /\ At(c, "oauth")
    /\ IF assertAccountUsable(c, lockIsOver) THEN Go(c, "issue") ELSE End(c)
    /\ UNCHANGED <<rows, account, history, barred>>

(* createTokenPair: a new family, or the next token of a family. *)
createTokenPair(c, t) ==
    LET old == call[c].tok IN
    /\ At(c, "issue")
    /\ token[t] = "none"
    /\ token' = [token EXCEPT ![t] = "live"]
    /\ family' = [family EXCEPT ![t] = IF old = None THEN t ELSE family[old]]
    /\ parent' = [parent EXCEPT ![t] = old]
    /\ End(c)
    /\ UNCHANGED <<expired, account, history, barred>>

(***************************************************************************)
(* rotateRefreshToken                                                      *)
(***************************************************************************)

(* MUTANT: "already used" is answered like reuse. *)
RotateFindStrict(c, t) ==
    /\ call[c] = Idle
    /\ token[t] # "none"
    /\ \/ token[t] = "live" /\ t \in expired /\ End(c)
       \/ token[t] = "live" /\ t \notin expired /\ Begin(c, "found", t, user)
       \/ token[t] \in {"rotated", "revoked"} /\ Begin(c, "reused", t, user)
    /\ barred' = IF tenant = "SUSPENDED" THEN barred \cup {c} ELSE barred
    /\ UNCHANGED <<rows, account, history>>

(* findTokenById, and what is decided on the row it returns. *)
RotateFind(c, t) ==
    /\ call[c] = Idle
    /\ token[t] # "none"
    /\ \/ token[t] = "rotated" /\ End(c)
       \/ token[t] = "live" /\ t \in expired /\ End(c)
       \/ token[t] = "live" /\ t \notin expired /\ Begin(c, "found", t, user)
       \/ token[t] = "revoked" /\ Begin(c, "reused", t, user)
    /\ barred' = IF tenant = "SUSPENDED" THEN barred \cup {c} ELSE barred
    /\ UNCHANGED <<rows, account, history>>

(* handleRevokedTokenUse: reuse is a reason after the grace period only. *)
RevokeReused(c) ==
    /\ At(c, "reused")
    /\ RevokeFamilies({family[call[c].tok]}, token[call[c].tok] = "revoked")
    /\ End(c)

(* The atomic claim: "only one concurrent request can rotate a given token". *)
RotateClaim(c) ==
    LET t == call[c].tok IN
    /\ At(c, "found")
    /\ IF token[t] = "live"
       THEN token' = [token EXCEPT ![t] = "rotated"] /\ Go(c, "claimed")
       ELSE UNCHANGED token /\ End(c)
    /\ UNCHANGED <<family, expired, parent, account, history, barred>>

(* MUTANT: the account is not looked at again. *)
RotateUnchecked(c, lockIsOver) ==
    /\ At(c, "claimed")
    /\ IF lockIsOver \/ ~call[c].user.locked THEN Go(c, "issue") ELSE Go(c, "unusable")
    /\ UNCHANGED <<rows, account, history, barred>>

RotateCheck(c, lockIsOver) ==
    /\ At(c, "claimed")
    /\ IF assertAccountUsable(c, lockIsOver) THEN Go(c, "issue") ELSE Go(c, "unusable")
    /\ UNCHANGED <<rows, account, history, barred>>

RevokeUnusable(c) ==
    /\ At(c, "unusable")
    /\ RevokeFamilies({family[call[c].tok]}, TRUE)
    /\ End(c)

(***************************************************************************)
(* Revocation                                                              *)
(***************************************************************************)

(* MUTANT: logout revokes the token it is given instead of its family. *)
revokeTokenAlone(c, t) ==
    /\ call[c] = Idle
    /\ token[t] # "none"
    /\ token' = [token EXCEPT ![t] = "revoked"]
    /\ ended' = ended \cup {family[t]}
    /\ final' = final \cup {f \in {family[t]} : Creating(f) = {}}
    /\ End(c)
    /\ UNCHANGED <<family, expired, parent, account, failures, lost, barred>>

(* logout with its token. *)
revokeToken(c, t) ==
    /\ call[c] = Idle
    /\ token[t] # "none"
    /\ RevokeFamilies({family[t]}, TRUE)
    /\ End(c)

(* revokeAllUserTokens and revokeAllTenantTokens. *)
revokeAllUserTokens(c) ==
    /\ At(c, "revokeAll")
    /\ RevokeFamilies(Families, TRUE)
    /\ End(c)

(* Logout without a token (AuthController.logout). *)
LogoutEverywhere(c) ==
    /\ Begin(c, "revokeAll", None, user)
    /\ UNCHANGED <<rows, account, history, barred>>

resetPassword(c) ==
    /\ user' = [user EXCEPT !.failed = 0, !.locked = FALSE]
    /\ Begin(c, "revokeAll", None, user)
    /\ UNCHANGED <<rows, tenant, history, barred>>

(***************************************************************************)
(* Changes of the account                                                  *)
(***************************************************************************)

(* StaffLifecycleService: setActive(false) and remove, then setActive(true). *)
Deactivate(c) ==
    /\ user' = [user EXCEPT !.status = "INACTIVE"]
    /\ Begin(c, "revokeAll", None, user)
    /\ UNCHANGED <<rows, tenant, history, barred>>

Activate(c) ==
    /\ call[c] = Idle
    /\ user' = [user EXCEPT !.status = "ACTIVE"]
    /\ End(c)
    /\ UNCHANGED <<rows, tenant, history, barred>>

(* UserService.changeRole and updateProfile read the user ... *)
ReadUser(c, role) ==
    /\ Begin(c, "write", None, [user EXCEPT !.role = role])
    /\ UNCHANGED <<rows, account, history, barred>>

(* ... and UserRepository.update writes every column of it.                *)
(* "Existing sessions carry the old role; force re-authentication."        *)
WriteUser(c) ==
    /\ At(c, "write")
    /\ user' = call[c].user
    /\ IF user'.role # user.role THEN Go(c, "revokeAll") ELSE End(c)
    /\ UNCHANGED <<rows, tenant, history, barred>>

suspendTenant(c) ==
    /\ tenant = "ACTIVE"
    /\ tenant' = "SUSPENDED"
    /\ Begin(c, "revokeAll", None, user)
    /\ UNCHANGED <<rows, user, history, barred>>

restoreTenant(c) ==
    /\ call[c] = Idle
    /\ tenant' = "ACTIVE"
    /\ barred' = {}
    /\ End(c)
    /\ UNCHANGED <<rows, user, history>>

(***************************************************************************)
(* Failures and time                                                       *)
(***************************************************************************)

(* A statement fails or the process dies; what was written stays. *)
CallFails(c) ==
    /\ call[c] \notin {Idle, Ended}
    /\ lost' = lost \cup {f \in Tokens : c \in Rotating(f)}
    /\ End(c)
    /\ UNCHANGED <<rows, account, failures, ended, final, barred>>

GraceEnds(t) ==
    /\ token[t] = "rotated"
    /\ token' = [token EXCEPT ![t] = "revoked"]
    /\ UNCHANGED <<family, expired, parent, account, call, history, barred>>

TokenExpires(t) ==
    /\ token[t] = "live"
    /\ expired' = expired \cup {t}
    /\ UNCHANGED <<token, family, parent, account, call, history, barred>>

LockExpires ==
    /\ user.locked
    /\ user' = [user EXCEPT !.locked = FALSE]
    /\ UNCHANGED <<rows, tenant, call, history, barred>>

(***************************************************************************)
(* Specification                                                           *)
(***************************************************************************)
LoginStep(c) ==
    \/ \E good \in BOOLEAN : LoginRead(c, good)
    \/ recordFailedLogin(c) \/ LoginTenant(c) \/ LoginReset(c)
    \/ OAuthRead(c) \/ \E over \in BOOLEAN : OAuthCheck(c, over)
    \/ \E t \in Tokens : createTokenPair(c, t)

RefreshStep(c) ==
    \/ \E t \in Tokens : RotateFind(c, t)
    \/ RevokeReused(c) \/ RotateClaim(c)
    \/ \E over \in BOOLEAN : RotateCheck(c, over)
    \/ RevokeUnusable(c)

RevokeStep(c) ==
    \/ \E t \in Tokens : revokeToken(c, t)
    \/ revokeAllUserTokens(c) \/ LogoutEverywhere(c) \/ resetPassword(c)

AccountStep(c) ==
    \/ Deactivate(c) \/ Activate(c) \/ WriteUser(c)
    \/ \E role \in {"AGENT", "TENANT_MANAGER"} : ReadUser(c, role)
    \/ suspendTenant(c) \/ restoreTenant(c)

Next ==
    \/ \E c \in Calls : \/ LoginStep(c) \/ RefreshStep(c) \/ RevokeStep(c)
                        \/ AccountStep(c) \/ CallFails(c)
    \/ \E t \in Tokens : GraceEnds(t) \/ TokenExpires(t)
    \/ LockExpires

Spec == Init /\ [][Next]_vars

(***************************************************************************)
(* Properties                                                              *)
(***************************************************************************)
Carriers(f) == LiveIn(f) \cup Rotating(f)

(* rotateRefreshToken: whatever refreshes race (two browser tabs, retries) *)
(* and whatever fails, a session has at most one live token or refresh     *)
(* under way; it has exactly one until it is ended, or until a refresh     *)
(* fails after its claim.  In particular a race inside the grace period    *)
(* never ends a session.                                                   *)
SessionHasOneToken ==
    \A f \in Families : /\ \A x, y \in Carriers(f) : x = y
                        /\ f \notin ended \cup lost => Carriers(f) # {}

(* A token is replaced at most once, so the tokens of a session are a      *)
(* chain.                                                                  *)
ReplacedOnce ==
    \A s, t \in Tokens : parent[s] = parent[t] /\ parent[s] # None => s = t

(* What revocation achieves: a session that is revoked while no refresh is *)
(* between its claim and its insert has no live token ever again.          *)
EndedIsFinal == \A f \in final : LiveIn(f) = {} /\ Creating(f) = {}

(* "Members of a suspended organization must not keep refreshing their     *)
(* sessions": a refresh that begins while the organization is suspended,   *)
(* and stays so, gets no new token, and neither does one that has found    *)
(* the user inactive.                                                      *)
BarredGetNothing ==
    \A c \in Calls : At(c, "issue") /\ call[c].tok # None =>
        c \notin barred /\ call[c].user.status = "ACTIVE"

(* recordFailedLogin: lost and stale counts never lock an account that has *)
(* not failed Threshold times.                                             *)
LockIsEarned == user.locked => failures >= Threshold
=============================================================================
