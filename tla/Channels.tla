------------------------------ MODULE Channels ------------------------------
(***************************************************************************)
(* The WhatsApp channels of the tenants (channel-integration.service.ts):  *)
(* one row per tenant with its configuration, the switch isEnabled and the *)
(* metadata with the versions and the last test, written as a whole.  A    *)
(* request reads the row and checks the number against the other tenants,  *)
(* and writes later.                                                       *)
(*                                                                         *)
(* The e-mail channel takes the same requests without the check of a       *)
(* number; `number` is then any part of its configuration.                 *)
(***************************************************************************)
EXTENDS Integers, FiniteSets

CONSTANTS Tenants,
          Numbers,      \* business numbers, in the normal form
          Managers,     \* concurrent requests of tenant managers
          MaxManaging,  \* BOUND: their requests in a behaviour
          None

ASSUME ChannelAssumption == None \notin Tenants \cup Numbers /\ MaxManaging \in Nat

VARIABLES
    channel,   \* the tenant_integrations table
    managing,  \* requests between their reads and their write
    managed,   \* requests so far
    \* history
    outdated,  \* the requests that have read a table that changed since
    proven,    \* tenants whose configuration has passed a test
    mixed      \* tenants whose row was written by an outdated request

channels == <<channel, managing, managed, outdated, proven, mixed>>

NoChannel == [id |-> 0, number |-> None, enabled |-> FALSE, version |-> 0, tested |-> 0,
              passed |-> FALSE]

Integrations == [id : Nat, number : Numbers \cup {None}, enabled : BOOLEAN, version : Nat,
                 tested : Nat, passed : BOOLEAN]

NoRequest == [op |-> "none"]

ChannelTypeOK ==
    /\ channel \in [Tenants -> Integrations]
    /\ \A q \in Managers :
          managing[q] = NoRequest
            \/ (managing[q].tenant \in Tenants /\ managing[q].read \in Integrations)
    /\ managed \in 0..MaxManaging
    /\ outdated \subseteq Managers
    /\ proven \subseteq Tenants
    /\ mixed \subseteq Tenants

ChannelInit ==
    /\ channel = [t \in Tenants |-> NoChannel]
    /\ managing = [q \in Managers |-> NoRequest]
    /\ managed = 0
    /\ outdated = {}
    /\ proven = {}
    /\ mixed = {}

(* No other tenant has the number, enabled or not. *)
assertPhoneAvailable(t, n) == \A u \in Tenants \ {t} : channel[u].number # n

(* A request begins with what it needs to know. *)
Read(q, r) ==
    /\ managing[q] = NoRequest
    /\ managed < MaxManaging
    /\ managed' = managed + 1
    /\ managing' = [managing EXCEPT ![q] = r]
    /\ outdated' = outdated \ {q}
    /\ UNCHANGED <<channel, proven, mixed>>

Busy == {q \in Managers : managing[q] # NoRequest}

(* setEnabled and remove keep the id of the row only. *)
Identity(t) == [NoChannel EXCEPT !.id = channel[t].id]

(* Its write makes other requests outdated that have read the row, or     *)
(* looked for its number.                                                  *)
Write(q, row) ==
    LET t == managing[q].tenant IN
    /\ channel' = [channel EXCEPT ![t] = row]
    /\ managing' = [managing EXCEPT ![q] = NoRequest]
    /\ outdated' = {p \in outdated \cup {x \in Busy : \/ managing[x].tenant = t
                                                     \/ row.number # channel[t].number} : p # q}
    /\ mixed' = IF q \in outdated THEN mixed \cup {t} ELSE mixed
    /\ UNCHANGED managed

(* An update of a row that is gone throws. *)
Update(q, row) ==
    LET now == channel[managing[q].tenant]
    IN Write(q, IF now.id = managing[q].read.id THEN row ELSE now)

ConfigureRead(q, t, n) ==
    /\ assertPhoneAvailable(t, n)
    /\ Read(q, [op |-> "configure", tenant |-> t, number |-> n, read |-> channel[t]])

(* The upsert: an existing row keeps its id. *)
Configured(q, version) ==
    LET now == channel[managing[q].tenant]
    IN [managing[q].read EXCEPT !.id = IF now = NoChannel THEN managed ELSE now.id,
                                !.number = managing[q].number, !.enabled = FALSE,
                                !.version = version]

(* MUTANT: a new configuration keeps the version. *)
ConfigureWriteSameVersion(q) ==
    /\ managing[q].op = "configure"
    /\ Write(q, Configured(q, IF managing[q].read = NoChannel THEN 1 ELSE managing[q].read.version))
    /\ proven' = proven \ {managing[q].tenant}

(* A changed identity must be tested again. *)
ConfigureWrite(q) ==
    /\ managing[q].op = "configure"
    /\ Write(q, Configured(q, managing[q].read.version + 1))
    /\ proven' = proven \ {managing[q].tenant}

Find(t) == channel[t] # NoChannel

(* rotateSecret: the secret and the metadata as read. *)
RotateRead(q, t) ==
    Find(t) /\ Read(q, [op |-> "rotate", tenant |-> t, read |-> channel[t]])

RotateWrite(q) ==
    /\ managing[q].op = "rotate"
    /\ LET now == channel[managing[q].tenant]
       IN Update(q, [managing[q].read EXCEPT !.number = now.number, !.enabled = now.enabled])
    /\ UNCHANGED proven

(* test: the row and the outcome of runTest. *)
TestRead(q, t) ==
    /\ Find(t)
    /\ \E ok \in BOOLEAN :
          /\ ok => assertPhoneAvailable(t, channel[t].number)
          /\ Read(q, [op |-> "test", tenant |-> t, read |-> channel[t], ok |-> ok])

TestWrite(q) ==
    /\ managing[q].op = "test"
    /\ LET now == channel[managing[q].tenant]
           old == managing[q].read
           ok  == managing[q].ok
       IN /\ Update(q, [old EXCEPT !.number = now.number, !.enabled = now.enabled, !.passed = ok,
                                   !.tested = IF ok THEN old.version ELSE @])
          /\ proven' = IF ok /\ q \notin outdated THEN proven \cup {managing[q].tenant} ELSE proven

(* setEnabled(true) wants a test of the current configuration ... *)
Enablable(row) == row.passed /\ row.tested = row.version

EnableRead(q, t) ==
    /\ Find(t) /\ Enablable(channel[t]) /\ assertPhoneAvailable(t, channel[t].number)
    /\ Read(q, [op |-> "enable", tenant |-> t, read |-> Identity(t)])

DisableRead(q, t) ==
    Find(t) /\ Read(q, [op |-> "disable", tenant |-> t, read |-> Identity(t)])

(* ... and writes the switch only. *)
SetEnabled(q) ==
    /\ managing[q].op \in {"enable", "disable"}
    /\ Update(q, [channel[managing[q].tenant] EXCEPT !.enabled = (managing[q].op = "enable")])
    /\ UNCHANGED proven

RemoveRead(q, t) ==
    Find(t) /\ Read(q, [op |-> "remove", tenant |-> t, read |-> Identity(t)])

RemoveWrite(q) ==
    /\ managing[q].op = "remove"
    /\ Update(q, NoChannel)
    /\ proven' = proven \ {managing[q].tenant}

ChannelStep ==
    \E q \in Managers :
        \/ ConfigureWrite(q) \/ RotateWrite(q) \/ TestWrite(q) \/ SetEnabled(q) \/ RemoveWrite(q)
        \/ \E t \in Tenants :
              \/ \E n \in Numbers : ConfigureRead(q, t, n)
              \/ RotateRead(q, t) \/ TestRead(q, t) \/ EnableRead(q, t) \/ DisableRead(q, t)
              \/ RemoveRead(q, t)

(***************************************************************************)
(* Properties                                                              *)
(***************************************************************************)

(* "A channel can only be enabled after a successful connection test of    *)
(* its current configuration", and "a number may belong to one tenant      *)
(* only": so it is unless a request wrote the row that had read it, or the *)
(* other tenants' numbers, before another request changed them.            *)
EnabledIsProven ==
    \A t \in Tenants \ mixed :
        channel[t].enabled =>
            /\ t \in proven
            /\ \A u \in Tenants \ (mixed \cup {t}) :
                  channel[u].enabled => channel[u].number # channel[t].number
=============================================================================
