---------------------------- MODULE WebhookProofs ----------------------------
(***************************************************************************)
(* Theorems about Webhooks and Channels for any number of messages, calls  *)
(* of process(), tenants and managers: an enabled channel is proven and    *)
(* has its number alone, a row tells what became of its message, terminal  *)
(* states stay, and a conversation has one open ticket.                    *)
(***************************************************************************)
EXTENDS Webhooks, FiniteSetTheorems, TLAPS

(***************************************************************************)
(* Channels: the inductive invariant                                       *)
(***************************************************************************)
ManageRequests ==
    [op : {"configure"}, tenant : Tenants, number : Numbers, read : Integrations]
      \cup [op : {"rotate", "enable", "disable", "remove"}, tenant : Tenants, read : Integrations]
      \cup [op : {"test"}, tenant : Tenants, read : Integrations, ok : BOOLEAN]
      \cup {NoRequest}

ChannelTypes == /\ channel \in [Tenants -> Integrations]
                /\ managing \in [Managers -> ManageRequests]
                /\ managed \in 0..MaxManaging
                /\ outdated \subseteq Managers /\ proven \subseteq Tenants /\ mixed \subseteq Tenants

(* The last test is not newer than the configuration, in the table and in  *)
(* what a request has read.                                                *)
VersionInv ==
    /\ \A t \in Tenants : channel[t].tested <= channel[t].version
    /\ \A q \in Busy : managing[q].read.tested <= managing[q].read.version

(* What a request knows of the table, as long as it is not outdated. *)
KnownInv ==
    \A q \in Busy \ outdated :
        LET m == managing[q]
            t == m.tenant
        IN /\ m.read.id = channel[t].id
           /\ m.op \in {"configure", "rotate", "test"} => m.read = channel[t]
           /\ m.op = "enable" => /\ Enablable(channel[t])
                                 /\ assertPhoneAvailable(t, channel[t].number)

(* What the table says of a tenant whose row was never written late. *)
TableInv ==
    \A t \in Tenants \ mixed :
        /\ Enablable(channel[t]) => t \in proven
        /\ channel[t].enabled => t \in proven
        /\ \A u \in Tenants \ (mixed \cup {t}) :
              channel[t].enabled /\ channel[u].enabled => channel[u].number # channel[t].number

ChannelInv == ChannelTypes /\ VersionInv /\ KnownInv /\ TableInv

LEMMA RequestTypes ==
  ASSUME ChannelTypes, NEW q \in Busy
  PROVE  /\ q \in Managers /\ managing[q].tenant \in Tenants /\ managing[q].read \in Integrations
         /\ managing[q].op \in {"configure", "rotate", "enable", "disable", "remove", "test"}
         /\ managing[q].op = "configure" => managing[q].number \in Numbers
         /\ managing[q].op = "test" => managing[q].ok \in BOOLEAN
  BY DEF ChannelTypes, ManageRequests, Busy, NoRequest

(* A request reads. *)
LEMMA ReadChannels ==
  ASSUME ChannelInv, NEW q \in Managers, NEW m \in ManageRequests, Read(q, m), UNCHANGED proven,
         m # NoRequest, m.read.tested <= m.read.version,
         m.read.id = channel[m.tenant].id,
         m.op \in {"configure", "rotate", "test"} => m.read = channel[m.tenant],
         m.op = "enable" => /\ Enablable(channel[m.tenant])
                            /\ assertPhoneAvailable(m.tenant, channel[m.tenant].number)
  PROVE  ChannelInv'
<1>1. /\ managing'[q] = m /\ \A p \in Managers \ {q} : managing'[p] = managing[p]
      /\ outdated' = outdated \ {q} /\ UNCHANGED <<channel, proven, mixed>>
  BY DEF Read, ChannelInv, ChannelTypes
<1>2. ChannelTypes'
  BY ChannelAssumption DEF Read, ChannelInv, ChannelTypes
<1>3. TableInv'
  BY <1>1 DEF ChannelInv, TableInv, Enablable
<1>4. Busy' = Busy \cup {q}
  BY <1>1 DEF Busy
<1>5. VersionInv'
  BY <1>1, <1>4 DEF ChannelInv, VersionInv, Busy
<1>6. KnownInv'
  BY <1>1, <1>4 DEF ChannelInv, KnownInv, Busy, Enablable, assertPhoneAvailable
<1> QED BY <1>2, <1>3, <1>5, <1>6 DEF ChannelInv

(* A request writes its row; what it may write unless it is outdated. *)
LEMMA WriteChannels ==
  ASSUME ChannelInv, NEW q \in Busy, NEW c \in Integrations, Write(q, c), proven' \subseteq Tenants,
         c.tested <= c.version,
         \A t \in Tenants \ {managing[q].tenant} : t \in proven => t \in proven',
         q \notin outdated /\ managing[q].tenant \notin mixed =>
            LET t == managing[q].tenant
            IN /\ Enablable(c) => t \in proven'
               /\ c.enabled => /\ t \in proven'
                               /\ \/ channel[t].enabled /\ c.number = channel[t].number
                                  \/ assertPhoneAvailable(t, c.number)
  PROVE  ChannelInv'
<1> DEFINE s == managing[q].tenant
<1>1. /\ s \in Tenants /\ q \in Managers
      /\ channel'[s] = c /\ \A t \in Tenants \ {s} : channel'[t] = channel[t]
      /\ managing'[q] = NoRequest /\ \A p \in Managers \ {q} : managing'[p] = managing[p]
      /\ mixed' = IF q \in outdated THEN mixed \cup {s} ELSE mixed
  BY RequestTypes DEF Write, ChannelInv, ChannelTypes
<1>2. ChannelTypes'
  BY <1>1 DEF Write, ChannelInv, ChannelTypes, Busy, ManageRequests
<1>3. Busy' = Busy \ {q}
  BY <1>1 DEF Busy
<1>4. \A p \in Busy' \ outdated' : /\ p \in Busy \ outdated /\ p # q /\ managing'[p] = managing[p]
                                   /\ managing[p].tenant # s /\ managing[p].tenant \in Tenants
                                   /\ c.number = channel[s].number
  BY <1>1, <1>3, RequestTypes DEF Write, Busy, ChannelInv
<1>5. VersionInv'
  BY <1>1, <1>3 DEF ChannelInv, VersionInv, Busy
<1>6. KnownInv'
  <2> SUFFICES ASSUME NEW p \in Busy' \ outdated'
               PROVE  LET m == managing'[p]
                          t == m.tenant
                      IN /\ m.read.id = channel'[t].id
                         /\ m.op \in {"configure", "rotate", "test"} => m.read = channel'[t]
                         /\ m.op = "enable" => /\ Enablable(channel'[t])
                                               /\ \A u \in Tenants \ {t} : channel'[u].number # channel'[t].number
    BY DEF KnownInv, assertPhoneAvailable
  <2>1. /\ managing'[p] = managing[p] /\ channel'[managing[p].tenant] = channel[managing[p].tenant]
        /\ \A u \in Tenants : channel'[u].number = channel[u].number
    BY <1>1, <1>4
  <2> QED BY <1>4, <2>1 DEF ChannelInv, KnownInv, assertPhoneAvailable
<1> HIDE DEF s
<1>7. TableInv'
  <2>1. ASSUME NEW t \in Tenants \ mixed'
        PROVE  /\ Enablable(channel'[t]) => t \in proven'
               /\ channel'[t].enabled => t \in proven'
    <3>1. CASE t = s
      BY <2>1, <3>1, <1>1 DEF s
    <3>2. CASE t # s
      BY <2>1, <3>2, <1>1 DEF ChannelInv, TableInv, s
    <3> QED BY <3>1, <3>2
  <2>2. ASSUME NEW t \in Tenants \ (mixed' \cup {s}), s \notin mixed', channel'[t].enabled, channel'[s].enabled
        PROVE  channel'[t].number # channel'[s].number
    <3>1. q \notin outdated /\ s \notin mixed /\ t \notin mixed /\ channel[t].enabled
      BY <2>2, <1>1
    <3>2. CASE channel[s].enabled /\ c.number = channel[s].number
      BY <2>2, <3>1, <3>2, <1>1 DEF ChannelInv, TableInv
    <3>3. CASE assertPhoneAvailable(s, c.number)
      BY <2>2, <3>3, <1>1 DEF assertPhoneAvailable
    <3> QED BY <2>2, <3>1, <3>2, <3>3, <1>1 DEF s
  <2>3. ASSUME NEW t \in Tenants \ mixed', NEW u \in Tenants \ (mixed' \cup {t}),
               channel'[t].enabled, channel'[u].enabled
        PROVE  channel'[u].number # channel'[t].number
    <3>1. CASE t = s \/ u = s
      BY <2>3, <3>1, <2>2
    <3>2. CASE t # s /\ u # s
      BY <2>3, <3>2, <1>1 DEF ChannelInv, TableInv
    <3> QED BY <3>1, <3>2
  <2> QED BY <2>1, <2>3 DEF TableInv
<1> QED BY <1>2, <1>5, <1>6, <1>7 DEF ChannelInv

(* A request whose read is the row is allowed to read. *)
LEMMA ReadingChannels ==
  ASSUME ChannelInv, NEW q \in Managers, NEW t \in Tenants, UNCHANGED proven,
         \/ \E n \in Numbers : ConfigureRead(q, t, n)
         \/ RotateRead(q, t) \/ TestRead(q, t) \/ EnableRead(q, t) \/ DisableRead(q, t)
         \/ RemoveRead(q, t)
  PROVE  ChannelInv'
<1> DEFINE x == [NoChannel EXCEPT !.id = channel[t].id]
<1>1. channel[t] \in Integrations /\ channel[t].id \in Nat /\ channel[t].tested <= channel[t].version
  BY DEF ChannelInv, ChannelTypes, VersionInv, Integrations
<1>2. x \in Integrations /\ x.id = channel[t].id /\ x.tested <= x.version /\ Identity(t) = x
  <2>1. NoChannel \in Integrations /\ NoChannel.tested <= NoChannel.version
    BY DEF NoChannel, Integrations
  <2>2. x \in Integrations /\ x.id = channel[t].id /\ x.tested <= x.version
    BY <1>1, <2>1 DEF Integrations
  <2> QED BY <2>2 DEF Identity
<1>3. ASSUME NEW n \in Numbers, ConfigureRead(q, t, n)
      PROVE  ChannelInv'
  <2>1. [op |-> "configure", tenant |-> t, number |-> n, read |-> channel[t]] \in ManageRequests
    BY <1>1 DEF ManageRequests
  <2> QED BY <1>1, <1>3, <2>1, ReadChannels DEF ConfigureRead, NoRequest
<1>4. ASSUME RotateRead(q, t)
      PROVE  ChannelInv'
  <2>1. [op |-> "rotate", tenant |-> t, read |-> channel[t]] \in ManageRequests
    BY <1>1 DEF ManageRequests
  <2> QED BY <1>1, <1>4, <2>1, ReadChannels DEF RotateRead, NoRequest
<1>5. ASSUME TestRead(q, t)
      PROVE  ChannelInv'
  <2>1. PICK ok \in BOOLEAN : Read(q, [op |-> "test", tenant |-> t, read |-> channel[t], ok |-> ok])
    BY <1>5 DEF TestRead
  <2>2. [op |-> "test", tenant |-> t, read |-> channel[t], ok |-> ok] \in ManageRequests
    BY <1>1 DEF ManageRequests
  <2> QED BY <1>1, <2>1, <2>2, ReadChannels DEF NoRequest
<1> HIDE DEF x
<1>6. ASSUME EnableRead(q, t)
      PROVE  ChannelInv'
  <2>1. [op |-> "enable", tenant |-> t, read |-> x] \in ManageRequests
    BY <1>2 DEF ManageRequests
  <2> QED BY <1>2, <1>6, <2>1, ReadChannels DEF EnableRead, NoRequest
<1>7. ASSUME DisableRead(q, t)
      PROVE  ChannelInv'
  <2>1. [op |-> "disable", tenant |-> t, read |-> x] \in ManageRequests
    BY <1>2 DEF ManageRequests
  <2> QED BY <1>2, <1>7, <2>1, ReadChannels DEF DisableRead, NoRequest
<1>8. ASSUME RemoveRead(q, t)
      PROVE  ChannelInv'
  <2>1. [op |-> "remove", tenant |-> t, read |-> x] \in ManageRequests
    BY <1>2 DEF ManageRequests
  <2> QED BY <1>2, <1>8, <2>1, ReadChannels DEF RemoveRead, NoRequest
<1> QED BY <1>3, <1>4, <1>5, <1>6, <1>7, <1>8

(* The writes, with what a request knows unless it is outdated. *)
LEMMA WritingChannels ==
  ASSUME ChannelInv, NEW q \in Managers,
         ConfigureWrite(q) \/ RotateWrite(q) \/ TestWrite(q) \/ SetEnabled(q) \/ RemoveWrite(q)
  PROVE  ChannelInv'
<1> DEFINE t    == managing[q].tenant
           now  == channel[t]
           read == managing[q].read
<1>1. q \in Busy
  BY DEF ConfigureWrite, RotateWrite, TestWrite, SetEnabled, RemoveWrite, Busy, NoRequest
<1>2. /\ t \in Tenants /\ read \in Integrations /\ now \in Integrations /\ proven \subseteq Tenants
      /\ read.tested <= read.version /\ now.tested <= now.version /\ managed \in Nat
  BY <1>1, RequestTypes, ChannelAssumption DEF ChannelInv, ChannelTypes, VersionInv
<1>3. /\ Enablable(now) /\ t \notin mixed => t \in proven
      /\ now.enabled /\ t \notin mixed => t \in proven
  BY <1>2 DEF ChannelInv, TableInv
<1>4. q \notin outdated => /\ read.id = now.id
                           /\ managing[q].op \in {"configure", "rotate", "test"} => read = now
                           /\ managing[q].op = "enable" => Enablable(now) /\ assertPhoneAvailable(t, now.number)
  BY <1>1 DEF ChannelInv, KnownInv
<1>5. ASSUME ConfigureWrite(q)
      PROVE  ChannelInv'
  <2> DEFINE c == Configured(q, read.version + 1)
  <2>1. /\ c \in Integrations /\ c.tested = read.tested /\ c.version = read.version + 1 /\ ~c.enabled
        /\ managing[q].op = "configure" /\ Write(q, c) /\ proven' = proven \ {t}
    <3>1. managing[q].op = "configure" /\ managing[q].number \in Numbers
      BY <1>1, <1>5, RequestTypes DEF ConfigureWrite, ChannelInv
    <3>2. \E n \in Nat : c = [read EXCEPT !.id = n, !.number = managing[q].number, !.enabled = FALSE,
                                         !.version = read.version + 1]
      <4>1. now.id \in Nat
        BY <1>2 DEF Integrations
      <4> QED BY <1>2, <4>1 DEF Configured
    <3>3. /\ c \in Integrations /\ c.tested = read.tested /\ c.version = read.version + 1
          /\ c.enabled = FALSE
      <4> HIDE DEF c
      <4>1. read \in Integrations /\ read.version + 1 \in Nat
        BY <1>2 DEF Integrations
      <4> HIDE DEF read
      <4>2. PICK n \in Nat : c = [read EXCEPT !.id = n, !.number = managing[q].number, !.enabled = FALSE,
                                              !.version = read.version + 1]
        BY <3>2
      <4> QED BY <3>1, <4>1, <4>2 DEF Integrations
    <3>4. Write(q, c) /\ proven' = proven \ {t}
      BY <1>5 DEF ConfigureWrite
    <3> QED BY <3>1, <3>3, <3>4
  <2> HIDE DEF c
  <2>2. c.tested < c.version /\ ~Enablable(c)
    <3>1. read.tested \in Nat /\ read.version \in Nat
      BY <1>2 DEF Integrations
    <3> QED BY <1>2, <2>1, <3>1 DEF Enablable
  <2>3. c.tested <= c.version
    BY <2>1, <2>2 DEF Integrations
  <2> QED BY <1>1, <2>1, <2>2, <2>3, <1>2, WriteChannels
<1>6. ASSUME NEW c \in Integrations, Update(q, c), c.tested <= c.version, proven' \subseteq Tenants,
             \A u \in Tenants \ {t} : u \in proven => u \in proven',
             q \notin outdated /\ t \notin mixed =>
                /\ Enablable(c) => t \in proven'
                /\ c.enabled => /\ t \in proven'
                                /\ \/ now.enabled /\ c.number = now.number
                                   \/ assertPhoneAvailable(t, c.number)
      PROVE  ChannelInv'
  <2> DEFINE d == IF now.id = read.id THEN c ELSE now
  <2>1. d \in Integrations /\ d.tested <= d.version /\ Write(q, d)
    BY <1>2, <1>6 DEF Update
  <2>2. q \notin outdated => d = c
    BY <1>4
  <2> HIDE DEF d
  <2> QED BY <1>1, <1>2, <1>6, <2>1, <2>2, WriteChannels
<1>7. ASSUME RotateWrite(q)
      PROVE  ChannelInv'
  <2> DEFINE c == [read EXCEPT !.number = now.number, !.enabled = now.enabled]
  <2>1. /\ c \in Integrations /\ c.tested = read.tested /\ c.version = read.version /\ Update(q, c)
        /\ UNCHANGED proven
    BY <1>2, <1>7 DEF RotateWrite, Integrations
  <2>2. q \notin outdated => c = now
    <3>1. q \notin outdated => read = now
      BY <1>4, <1>7 DEF RotateWrite
    <3> QED BY <1>2, <3>1 DEF Integrations
  <2> HIDE DEF c
  <2> QED BY <1>2, <1>3, <1>6, <2>1, <2>2
<1>8. ASSUME TestWrite(q)
      PROVE  ChannelInv'
  <2> DEFINE ok == managing[q].ok
             c  == [read EXCEPT !.number = now.number, !.enabled = now.enabled, !.passed = ok,
                                !.tested = IF ok THEN read.version ELSE @]
  <2>1. ok \in BOOLEAN
    BY <1>1, <1>8, RequestTypes DEF TestWrite, ChannelInv
  <2>2. /\ c \in Integrations /\ c.version = read.version /\ c.passed = ok /\ c.enabled = now.enabled
        /\ c.number = now.number /\ c.tested = IF ok THEN read.version ELSE read.tested
    BY <1>2, <2>1 DEF Integrations
  <2>3. /\ Update(q, c)
        /\ proven' = IF ok /\ q \notin outdated THEN proven \cup {t} ELSE proven
    BY <1>8 DEF TestWrite
  <2>4. c.tested <= c.version
    <3>1. read.version \in Nat
      BY <1>2 DEF Integrations
    <3> QED BY <1>2, <2>2, <3>1
  <2> HIDE DEF c, ok
  <2>5. q \notin outdated /\ Enablable(c) => t \in proven'
    BY <2>2, <2>3 DEF Enablable
  <2>6. now.enabled /\ t \notin mixed => t \in proven'
    BY <1>3, <2>3
  <2> QED BY <1>2, <1>6, <2>2, <2>3, <2>4, <2>5, <2>6
<1>9. ASSUME SetEnabled(q)
      PROVE  ChannelInv'
  <2> DEFINE c == [now EXCEPT !.enabled = (managing[q].op = "enable")]
  <2>1. /\ c \in Integrations /\ c.tested = now.tested /\ c.version = now.version /\ c.passed = now.passed
        /\ c.number = now.number
    BY <1>2 DEF Integrations
  <2>2. c.enabled => managing[q].op = "enable"
    BY <1>2 DEF Integrations
  <2>3. Update(q, c) /\ UNCHANGED proven
    BY <1>9 DEF SetEnabled
  <2> HIDE DEF c
  <2>4. Enablable(c) <=> Enablable(now)
    BY <2>1 DEF Enablable
  <2>5. q \notin outdated /\ c.enabled => Enablable(now) /\ assertPhoneAvailable(t, now.number)
    BY <1>4, <2>2
  <2> QED BY <1>2, <1>3, <1>6, <2>1, <2>3, <2>4, <2>5
<1>10. ASSUME RemoveWrite(q)
       PROVE  ChannelInv'
  <2>1. NoChannel \in Integrations /\ NoChannel.tested <= NoChannel.version /\ ~NoChannel.enabled
        /\ ~Enablable(NoChannel)
    BY DEF NoChannel, Integrations, Enablable
  <2>2. Update(q, NoChannel) /\ proven' = proven \ {t}
    BY <1>10 DEF RemoveWrite
  <2> QED BY <1>2, <1>6, <2>1, <2>2
<1> QED BY <1>5, <1>7, <1>8, <1>9, <1>10

LEMMA ChannelStepInv ==
  ASSUME ChannelInv, ChannelStep
  PROVE  ChannelInv'
<1>1. ASSUME NEW q \in Managers, NEW t \in Tenants,
             \/ \E n \in Numbers : ConfigureRead(q, t, n)
             \/ RotateRead(q, t) \/ TestRead(q, t) \/ EnableRead(q, t) \/ DisableRead(q, t)
             \/ RemoveRead(q, t)
      PROVE  ChannelInv'
  BY <1>1, ReadingChannels DEF ConfigureRead, RotateRead, TestRead, EnableRead, DisableRead, RemoveRead, Read
<1> QED BY <1>1, WritingChannels DEF ChannelStep

LEMMA ChannelInitInv ==
  ASSUME ChannelInit
  PROVE  ChannelInv
<1>1. NoChannel \in Integrations /\ NoChannel.tested <= NoChannel.version /\ ~NoChannel.enabled
      /\ ~Enablable(NoChannel)
  BY DEF NoChannel, Integrations, Enablable
<1>2. ChannelTypes
  BY <1>1, ChannelAssumption DEF ChannelInit, ChannelTypes, ManageRequests
<1>3. Busy = {}
  BY DEF ChannelInit, Busy
<1>4. \A t \in Tenants : channel[t] = NoChannel
  BY DEF ChannelInit
<1> QED BY <1>1, <1>2, <1>3, <1>4 DEF ChannelInv, VersionInv, KnownInv, TableInv

LEMMA SameChannels ==
  ASSUME ChannelInv, UNCHANGED channels
  PROVE  ChannelInv'
<1>1. UNCHANGED <<channel, managing, managed, outdated, proven, mixed>>
  BY DEF channels
<1>2. ChannelTypes' /\ VersionInv' /\ TableInv'
  BY <1>1 DEF ChannelInv, ChannelTypes, VersionInv, TableInv, Busy, Enablable
<1>3. KnownInv'
  BY <1>1 DEF ChannelInv, KnownInv, Busy, Enablable, assertPhoneAvailable
<1> QED BY <1>2, <1>3 DEF ChannelInv

(***************************************************************************)
(* Webhooks: the inductive invariant                                       *)
(***************************************************************************)
RowRows   == [status : Statuses, to : Numbers \cup {None}, replayOf : Rows \cup {None},
              by : Runs \cup {None}, stale : BOOLEAN]
RowTypes  == row \in [Rows -> RowRows]
Tickets   == [state : {"none", "open", "resolved"}, tenant : Tenants \cup {None}, ref : BOOLEAN]
CallRows  == [pc : {"idle", "route", "lookup", "comment", "create", "link", "settle"},
              row : Rows \cup {None}, tenant : Tenants \cup {None}, ticket : TicketIds \cup {None},
              outcome : {"none", "PROCESSED", "SKIPPED", "FAILED"}]
CallTypes == ticket \in [TicketIds -> Tickets] /\ call \in [Runs -> CallRows]
RestTypes == /\ linked \in BOOLEAN /\ claims \in 0..MaxClaims /\ faults \in 0..MaxFaults
             /\ applied \in [Rows -> Nat] /\ lapsed \subseteq Rows /\ forked \subseteq Tenants
Types     == RowTypes /\ CallTypes /\ RestTypes

(* What a call has at each of its steps. *)
CallInv ==
    /\ \A w \in Runs : /\ call[w].pc = "idle" => call[w] = NoCall
                       /\ call[w].pc # "idle" => call[w].row \in Rows
                       /\ call[w].pc = "settle" <=> call[w].outcome # "none"
                       /\ call[w].pc \in {"lookup", "comment", "create", "link"} => call[w].tenant \in Tenants
                       /\ call[w].pc = "link" => /\ call[w].ticket \in TicketIds
                                                 /\ ticket[call[w].ticket].state # "none"
    /\ \A k \in TicketIds : IF ticket[k].state = "none" THEN ticket[k] = NoTicket
                            ELSE ticket[k].tenant \in Tenants

(* The call has commented or created a ticket. *)
Effect(w) == call[w].pc = "link" \/ call[w].outcome = "PROCESSED"

(* A row that is locked is being processed. *)
HolderInv == \A i \in Rows : row[i].by # None => row[i].status = "PROCESSING"

(* The one call of a row, and what it has done; without a call, the row    *)
(* says it.                                                                *)
TruthInv ==
    \A i \in Rows \ lapsed :
        /\ \A w \in Runs : call[w].row = i =>
              /\ row[i].status = "PROCESSING" /\ row[i].by = w
              /\ applied[i] = IF Effect(w) THEN 1 ELSE 0
        /\ (\A w \in Runs : call[w].row # i) /\ row[i].status # "purged" =>
              applied[i] = IF row[i].status = "PROCESSED" THEN 1 ELSE 0

(* A conversation has one open ticket, or one call that creates it; every  *)
(* ticket has its reference or a call that will write it.                  *)
ThreadInv ==
    \A t \in Tenants \ forked :
        /\ \A k, l \in Open(t) : k = l
        /\ \A v, w \in Creating(t) : v = w
        /\ \A w \in Creating(t), k \in Open(t) : call[w].pc = "link" /\ call[w].ticket = k
        /\ \A k \in TicketIds : ticket[k].tenant = t /\ ~ticket[k].ref =>
              \E w \in Creating(t) : call[w].pc = "link" /\ call[w].ticket = k

Inv == ChannelInv /\ Types /\ CallInv /\ HolderInv /\ TruthInv /\ ThreadInv

(***************************************************************************)
(* Families of steps                                                       *)
(***************************************************************************)

(* One call moves on with its row. *)
LEMMA CallMoves ==
  ASSUME CallTypes, NEW w \in Runs, NEW c \in CallRows, call' = [call EXCEPT ![w] = c]
  PROVE  call'[w] = c /\ (\A v \in Runs \ {w} : call'[v] = call[v]) /\ call' \in [Runs -> CallRows]
  BY DEF CallTypes

(* Calls move on, or end after an effect that makes their row lapse. *)
LEMMA AsideRows ==
  ASSUME TruthInv, HolderInv, UNCHANGED row, lapsed \subseteq lapsed',
         \A i \in Rows \ lapsed' : applied'[i] = applied[i],
         \A w \in Runs : \/ call'[w].row = call[w].row /\ (Effect(w)' <=> Effect(w))
                         \/ call[w].row \in lapsed' /\ call'[w].row \in {call[w].row, None}
                         \/ ~Effect(w) /\ call'[w].row = None,
         None \notin Rows
  PROVE  TruthInv' /\ HolderInv'
<1>1. HolderInv'
  BY DEF HolderInv
<1>2. ASSUME NEW i \in Rows \ lapsed'
      PROVE  /\ applied'[i] = applied[i]
             /\ \A w \in Runs : call'[w].row = i =>
                    /\ row[i].status = "PROCESSING" /\ row[i].by = w
                    /\ applied[i] = IF Effect(w)' THEN 1 ELSE 0
             /\ (\A w \in Runs : call'[w].row # i) /\ row[i].status # "purged" =>
                    applied[i] = IF row[i].status = "PROCESSED" THEN 1 ELSE 0
  <2>1. ASSUME NEW w \in Runs, call'[w].row = i
        PROVE  row[i].status = "PROCESSING" /\ row[i].by = w /\ applied[i] = IF Effect(w)' THEN 1 ELSE 0
    <3>1. call[w].row = i /\ (Effect(w)' <=> Effect(w)) /\ i \notin lapsed
      BY <1>2, <2>1
    <3>2. row[i].status = "PROCESSING" /\ row[i].by = w /\ applied[i] = IF Effect(w) THEN 1 ELSE 0
      BY <1>2, <3>1 DEF TruthInv
    <3> HIDE DEF Effect
    <3> QED BY <3>1, <3>2
  <2>2. ASSUME \A w \in Runs : call'[w].row # i, row[i].status # "purged"
        PROVE  applied[i] = IF row[i].status = "PROCESSED" THEN 1 ELSE 0
    <3>1. CASE \A w \in Runs : call[w].row # i
      BY <1>2, <2>2, <3>1 DEF TruthInv
    <3>2. CASE \E w \in Runs : call[w].row = i
      <4>1. PICK w \in Runs : call[w].row = i
        BY <3>2
      <4>2. ~Effect(w)
        BY <1>2, <2>2, <4>1
      <4>3. row[i].status = "PROCESSING" /\ applied[i] = IF Effect(w) THEN 1 ELSE 0
        BY <1>2, <4>1 DEF TruthInv
      <4> QED BY <4>2, <4>3
    <3> QED BY <3>1, <3>2
  <2> QED BY <2>1, <2>2
<1> QED BY <1>1, <1>2 DEF TruthInv

(* The tickets do not change, and no call begins to create one. *)
LEMMA AsideThreads ==
  ASSUME ThreadInv, UNCHANGED ticket, forked \subseteq forked',
         \A w \in Runs : call'[w].pc \in {"create", "link"} => call'[w] = call[w],
         \A w \in Runs : call[w].pc = "link" => call'[w] = call[w] \/ call[w].tenant \in forked'
  PROVE  ThreadInv'
<1> SUFFICES ASSUME NEW t \in Tenants \ forked'
             PROVE  /\ \A k, l \in Open(t)' : k = l
                    /\ \A v, w \in Creating(t)' : v = w
                    /\ \A w \in Creating(t)', k \in Open(t)' : call'[w].pc = "link" /\ call'[w].ticket = k
                    /\ \A k \in TicketIds : ticket'[k].tenant = t /\ ~ticket'[k].ref =>
                          \E w \in Creating(t)' : call'[w].pc = "link" /\ call'[w].ticket = k
  BY DEF ThreadInv
<1>1. Open(t)' = Open(t) /\ t \notin forked
  BY DEF Open
<1>2. \A w \in Creating(t)' : w \in Creating(t) /\ call'[w] = call[w]
  BY DEF Creating
<1>3. \A w \in Creating(t) : call[w].pc = "link" => w \in Creating(t)' /\ call'[w] = call[w]
  BY DEF Creating
<1> QED BY <1>1, <1>2, <1>3 DEF ThreadInv

(* A call comments, or creates a ticket. *)
LEMMA EffectRows ==
  ASSUME Types, CallInv, TruthInv, HolderInv, NEW w \in Runs, UNCHANGED <<row, lapsed>>, Applied(w),
         call[w].row \in Rows, ~Effect(w), Effect(w)', call'[w].row = call[w].row,
         \A v \in Runs \ {w} : call'[v] = call[v]
  PROVE  TruthInv' /\ HolderInv'
<1>1. HolderInv'
  BY DEF HolderInv
<1>2. \A i \in Rows : applied'[i] = IF i = call[w].row THEN applied[i] + 1 ELSE applied[i]
  BY DEF Applied, Types, RestTypes
<1>3. \A v \in Runs : call'[v].row = call[v].row /\ (v # w => (Effect(v)' <=> Effect(v)))
  BY DEF Effect
<1> SUFFICES ASSUME NEW i \in Rows \ lapsed
             PROVE  /\ \A v \in Runs : call'[v].row = i =>
                          /\ row[i].status = "PROCESSING" /\ row[i].by = v
                          /\ applied'[i] = IF Effect(v)' THEN 1 ELSE 0
                    /\ (\A v \in Runs : call'[v].row # i) /\ row[i].status # "purged" =>
                          applied'[i] = IF row[i].status = "PROCESSED" THEN 1 ELSE 0
  BY <1>1 DEF TruthInv
<1> HIDE DEF Effect
<1>4. CASE i = call[w].row
  <2>1. \A v \in Runs : call[v].row = i => v = w
    BY <1>4 DEF TruthInv
  <2>2. applied[i] = 0 /\ row[i].status = "PROCESSING" /\ row[i].by = w
    BY <1>4 DEF TruthInv
  <2> QED BY <1>2, <1>3, <1>4, <2>1, <2>2
<1>5. CASE i # call[w].row
  <2>1. applied'[i] = applied[i]
    BY <1>2, <1>5
  <2>2. ASSUME NEW v \in Runs, call'[v].row = i
        PROVE  row[i].status = "PROCESSING" /\ row[i].by = v /\ applied'[i] = IF Effect(v)' THEN 1 ELSE 0
    <3>1. v # w /\ call[v].row = i
      BY <2>2, <1>3, <1>5
    <3>2. row[i].status = "PROCESSING" /\ row[i].by = v /\ applied[i] = IF Effect(v) THEN 1 ELSE 0
      BY <3>1 DEF TruthInv
    <3> QED BY <1>3, <2>1, <3>1, <3>2
  <2>3. (\A v \in Runs : call'[v].row # i) /\ row[i].status # "purged" =>
            applied'[i] = IF row[i].status = "PROCESSED" THEN 1 ELSE 0
    BY <1>3, <2>1 DEF TruthInv
  <2> QED BY <2>2, <2>3
<1> QED BY <1>4, <1>5

(* Rows change without a call: they arrive, lose their lease, are          *)
(* cancelled or purged.                                                    *)
LEMMA RestingRows ==
  ASSUME TruthInv, HolderInv, UNCHANGED <<call, applied, lapsed>>,
         \A i \in Rows : \/ row'[i] = row[i]
                         \/ row'[i].status = row[i].status /\ row'[i].by = row[i].by
                         \/ /\ row[i].status # "PROCESSING" /\ row'[i].by = row[i].by
                            /\ \/ row'[i].status = "purged"
                               \/ /\ row[i].status \notin {"PROCESSED", "purged"}
                                  /\ row'[i].status # "PROCESSED"
  PROVE  TruthInv' /\ HolderInv'
<1>1. HolderInv'
  BY DEF HolderInv
<1>2. \A w \in Runs : Effect(w)' <=> Effect(w)
  BY DEF Effect
<1> HIDE DEF Effect
<1> SUFFICES ASSUME NEW i \in Rows \ lapsed
             PROVE  /\ \A v \in Runs : call[v].row = i =>
                          /\ row'[i].status = "PROCESSING" /\ row'[i].by = v
                          /\ applied[i] = IF Effect(v)' THEN 1 ELSE 0
                    /\ (\A v \in Runs : call[v].row # i) /\ row'[i].status # "purged" =>
                          applied[i] = IF row'[i].status = "PROCESSED" THEN 1 ELSE 0
  BY <1>1 DEF TruthInv
<1>3. ASSUME NEW v \in Runs, call[v].row = i
      PROVE  row'[i].status = "PROCESSING" /\ row'[i].by = v /\ applied[i] = IF Effect(v)' THEN 1 ELSE 0
  <2>1. row[i].status = "PROCESSING" /\ row[i].by = v /\ applied[i] = IF Effect(v) THEN 1 ELSE 0
    BY <1>3 DEF TruthInv
  <2> QED BY <1>2, <2>1
<1>4. (\A v \in Runs : call[v].row # i) /\ row'[i].status # "purged" =>
         applied[i] = IF row'[i].status = "PROCESSED" THEN 1 ELSE 0
  BY DEF TruthInv
<1> QED BY <1>3, <1>4

LEMMA ClaimRows ==
  ASSUME Types, CallInv, TruthInv, HolderInv, NEW w \in Runs, NEW i \in Rows, Claim(w, i)
  PROVE  TruthInv' /\ HolderInv'
<1>1. /\ call[w] = NoCall /\ call[w].row = None /\ UNCHANGED applied
      /\ \A v \in Runs \ {w} : call'[v] = call[v]
      /\ call'[w].pc = "route" /\ call'[w].row = i /\ call'[w].outcome = "none"
  BY DEF Claim, Types, CallTypes, NoCall
<1>2. /\ row'[i].status = "PROCESSING" /\ row'[i].by = w
      /\ \A j \in Rows \ {i} : row'[j] = row[j]
  BY DEF Claim, Types, RowTypes, RowRows
<1>3. HolderInv'
  BY <1>2 DEF HolderInv
<1>4. i \notin lapsed' => /\ \A v \in Runs : call[v].row # i
                          /\ row[i].status \in RETRYABLE_WEBHOOK_STATUSES \cup {"PROCESSING"}
                          /\ i \notin lapsed
  BY DEF Claim, Claimable, TruthInv, RETRYABLE_WEBHOOK_STATUSES
<1>5. i \notin lapsed' => applied[i] = 0
  BY <1>4 DEF TruthInv, RETRYABLE_WEBHOOK_STATUSES
<1>6. lapsed \subseteq lapsed' /\ i # None
  BY WebhookAssumption DEF Claim
<1>7. ~Effect(w)' /\ \A v \in Runs \ {w} : Effect(v)' <=> Effect(v)
  BY <1>1 DEF Effect
<1> HIDE DEF Effect
<1> SUFFICES ASSUME NEW j \in Rows \ lapsed'
             PROVE  /\ \A v \in Runs : call'[v].row = j =>
                          /\ row'[j].status = "PROCESSING" /\ row'[j].by = v
                          /\ applied[j] = IF Effect(v)' THEN 1 ELSE 0
                    /\ (\A v \in Runs : call'[v].row # j) /\ row'[j].status # "purged" =>
                          applied[j] = IF row'[j].status = "PROCESSED" THEN 1 ELSE 0
  BY <1>1, <1>3 DEF TruthInv
<1>8. CASE j = i
  BY <1>1, <1>2, <1>4, <1>5, <1>7, <1>8
<1>9. CASE j # i
  <2>1. ASSUME NEW v \in Runs, call'[v].row = j
        PROVE  row'[j].status = "PROCESSING" /\ row'[j].by = v /\ applied[j] = IF Effect(v)' THEN 1 ELSE 0
    <3>1. v # w /\ call[v].row = j
      BY <1>1, <1>9, <2>1
    <3>2. row[j].status = "PROCESSING" /\ row[j].by = v /\ applied[j] = IF Effect(v) THEN 1 ELSE 0
      BY <1>6, <3>1 DEF TruthInv
    <3> QED BY <1>2, <1>7, <1>9, <3>1, <3>2
  <2>2. (\A v \in Runs : call'[v].row # j) => \A v \in Runs : call[v].row # j
    BY <1>1, WebhookAssumption
  <2> QED BY <1>2, <1>6, <1>9, <2>1, <2>2 DEF TruthInv
<1> QED BY <1>8, <1>9

LEMMA SettleRows ==
  ASSUME Types, CallInv, TruthInv, HolderInv, NEW w \in Runs, Settle(w)
  PROVE  TruthInv' /\ HolderInv'
<1> DEFINE i == call[w].row
<1>1. /\ i \in Rows /\ call[w].pc = "settle" /\ call[w].outcome # "none"
      /\ call'[w] = NoCall /\ call'[w].row = None /\ \A v \in Runs \ {w} : call'[v] = call[v]
      /\ UNCHANGED <<applied, lapsed>> /\ row[i].by \in Runs \cup {None} /\ i # None
  BY WebhookAssumption DEF Settle, CallInv, Types, RowTypes, RowRows, CallTypes, NoCall
<1>2. CASE row[i].by # w
  <2>1. UNCHANGED row /\ i \in lapsed
    BY <1>1, <1>2 DEF Settle, TruthInv
  <2>2. \A v \in Runs \ {w} : Effect(v)' <=> Effect(v)
    BY <1>1 DEF Effect
  <2>3. \A v \in Runs : \/ call'[v].row = call[v].row /\ (Effect(v)' <=> Effect(v))
                        \/ call[v].row \in lapsed' /\ call'[v].row \in {call[v].row, None}
    BY <1>1, <2>1, <2>2
  <2> HIDE DEF Effect
  <2> QED BY <1>1, <2>1, <2>3, WebhookAssumption, AsideRows
<1>3. CASE row[i].by = w
  <2>1. /\ row'[i].status = call[w].outcome /\ row'[i].by = None
        /\ \A j \in Rows \ {i} : row'[j] = row[j]
    BY <1>1, <1>3 DEF Settle, Settled, Types, RowTypes, RowRows
  <2>2. HolderInv'
    BY <2>1 DEF HolderInv
  <2>3. \A v \in Runs \ {w} : Effect(v)' <=> Effect(v)
    BY <1>1 DEF Effect
  <2>4. Effect(w) <=> call[w].outcome = "PROCESSED"
    BY <1>1 DEF Effect
  <2> HIDE DEF Effect, i
  <2> SUFFICES ASSUME NEW j \in Rows \ lapsed
               PROVE  /\ \A v \in Runs : call'[v].row = j =>
                            /\ row'[j].status = "PROCESSING" /\ row'[j].by = v
                            /\ applied[j] = IF Effect(v)' THEN 1 ELSE 0
                      /\ (\A v \in Runs : call'[v].row # j) /\ row'[j].status # "purged" =>
                            applied[j] = IF row'[j].status = "PROCESSED" THEN 1 ELSE 0
    BY <1>1, <2>2 DEF TruthInv
  <2>5. CASE j = i
    <3>1. call[w].row = i
      BY DEF i
    <3>2. \A v \in Runs : call'[v].row # i
      BY <1>1, <2>5, <3>1 DEF TruthInv
    <3>3. applied[i] = IF Effect(w) THEN 1 ELSE 0
      BY <2>5, <3>1 DEF TruthInv
    <3> QED BY <2>1, <2>4, <2>5, <3>2, <3>3
  <2>6. CASE j # i
    <3>1. ASSUME NEW v \in Runs, call'[v].row = j
          PROVE  row'[j].status = "PROCESSING" /\ row'[j].by = v /\ applied[j] = IF Effect(v)' THEN 1 ELSE 0
      <4>1. v # w /\ call[v].row = j
        BY <1>1, <3>1, WebhookAssumption
      <4>2. row[j].status = "PROCESSING" /\ row[j].by = v /\ applied[j] = IF Effect(v) THEN 1 ELSE 0
        BY <4>1 DEF TruthInv
      <4> QED BY <2>1, <2>3, <2>6, <4>1, <4>2
    <3>2. (\A v \in Runs : call'[v].row # j) => \A v \in Runs : call[v].row # j
      BY <1>1, <2>6 DEF i
    <3> QED BY <2>1, <2>6, <3>1, <3>2 DEF TruthInv
  <2> QED BY <2>5, <2>6
<1> QED BY <1>2, <1>3

(***************************************************************************)
(* Threads                                                                 *)
(***************************************************************************)

(* The parts of ThreadInv for one conversation. *)
Thread(t) ==
    /\ \A k, l \in Open(t) : k = l
    /\ \A v, w \in Creating(t) : v = w
    /\ \A w \in Creating(t), k \in Open(t) : call[w].pc = "link" /\ call[w].ticket = k
    /\ \A k \in TicketIds : ticket[k].tenant = t /\ ~ticket[k].ref =>
          \E w \in Creating(t) : call[w].pc = "link" /\ call[w].ticket = k

LEMMA ThreadByThread == ThreadInv <=> \A t \in Tenants \ forked : Thread(t)
  BY DEF ThreadInv, Thread

(* A call finds no ticket.  Nobody else is creating one, so there is none  *)
(* without a reference either, or the conversation is forked from now on.  *)
LEMMA LookupThreads ==
  ASSUME Types, ThreadInv, NEW w \in Runs, call[w].pc = "lookup", UNCHANGED ticket,
         OpenTickets(call[w].tenant) = {},
         call' = [call EXCEPT ![w].pc = "create"],
         forked' = IF Creating(call[w].tenant) # {} THEN forked \cup {call[w].tenant} ELSE forked
  PROVE  ThreadInv'
<1>1. /\ call'[w].pc = "create" /\ call'[w].tenant = call[w].tenant
      /\ \A v \in Runs \ {w} : call'[v] = call[v]
  BY DEF Types, CallTypes, CallRows
<1> SUFFICES ASSUME NEW t \in Tenants \ forked'
             PROVE  Thread(t)'
  BY DEF ThreadInv, Thread
<1>2. t \notin forked /\ Open(t)' = Open(t) /\ Thread(t)
  BY ThreadByThread DEF Open
<1>3. CASE t # call[w].tenant
  <2>1. Creating(t)' = Creating(t) /\ \A v \in Creating(t) : call'[v] = call[v]
    BY <1>1, <1>3 DEF Creating
  <2> QED BY <1>2, <2>1 DEF Thread
<1>4. CASE t = call[w].tenant
  <2>1. Creating(t) = {}
    BY <1>4
  <2>2. Creating(t)' = {w}
    BY <1>1, <1>4, <2>1 DEF Creating
  <2>3. \A k \in TicketIds : ticket[k].tenant = t => ticket[k].ref
    BY <1>2, <2>1 DEF Thread
  <2>4. Open(t) = {}
    BY <1>4, <2>3 DEF OpenTickets, Open
  <2> QED BY <1>1, <1>2, <2>2, <2>3, <2>4 DEF Thread
<1> QED BY <1>3, <1>4

(* The ticket that Create chooses. *)
CreateTicket(w, k) ==
    /\ ticket[k] = NoTicket
    /\ ticket' = [ticket EXCEPT ![k] = [state |-> "open", tenant |-> call[w].tenant, ref |-> FALSE]]
    /\ call' = [call EXCEPT ![w].pc = "link", ![w].ticket = k]

LEMMA CreateThreads ==
  ASSUME Types, CallInv, ThreadInv, NEW w \in Runs, NEW k \in TicketIds, call[w].pc = "create",
         CreateTicket(w, k), UNCHANGED forked
  PROVE  ThreadInv'
<1>1. /\ call'[w].pc = "link" /\ call'[w].tenant = call[w].tenant /\ call'[w].ticket = k
      /\ \A v \in Runs \ {w} : call'[v] = call[v]
  BY DEF Types, CallTypes, CallRows, CreateTicket
<1>2. /\ ticket'[k].state = "open" /\ ticket'[k].tenant = call[w].tenant /\ ticket'[k].ref = FALSE
      /\ \A l \in TicketIds \ {k} : ticket'[l] = ticket[l]
  BY DEF Types, CallTypes, CreateTicket
<1>3. ticket[k].tenant = None /\ ticket[k].state = "none" /\ None \notin Tenants
  BY ChannelAssumption DEF NoTicket, CreateTicket
<1> SUFFICES ASSUME NEW t \in Tenants \ forked
             PROVE  Thread(t)'
  BY DEF ThreadInv, Thread
<1>4. Thread(t)
  BY ThreadByThread
<1>5. Creating(t)' = Creating(t)
  BY <1>1 DEF Creating
<1>6. CASE t # call[w].tenant
  <2>1. Open(t)' = Open(t)
    BY <1>2, <1>3, <1>6 DEF Open
  <2>2. \A v \in Creating(t) : call'[v] = call[v]
    BY <1>1, <1>6 DEF Creating
  <2>3. \A l \in TicketIds : ticket'[l].tenant = t => ticket'[l] = ticket[l]
    BY <1>2, <1>6
  <2>4. \A l \in TicketIds : ticket'[l].tenant = t /\ ~ticket'[l].ref =>
            \E v \in Creating(t) : call'[v].pc = "link" /\ call'[v].ticket = l
    BY <1>4, <2>2, <2>3 DEF Thread
  <2>5. \A v \in Creating(t), l \in Open(t) : call'[v].pc = "link" /\ call'[v].ticket = l
    BY <1>4, <2>2 DEF Thread
  <2>6. (\A l, m \in Open(t) : l = m) /\ (\A u, v \in Creating(t) : u = v)
    BY <1>4 DEF Thread
  <2> QED BY <1>5, <2>1, <2>4, <2>5, <2>6 DEF Thread
<1>7. CASE t = call[w].tenant
  <2>1. Creating(t) = {w} /\ Open(t) = {}
    <3>1. w \in Creating(t)
      BY <1>7 DEF Creating
    <3> QED BY <1>4, <3>1 DEF Thread
  <2>2. Open(t)' = {k}
    BY <1>2, <1>7, <2>1 DEF Open
  <2>3. \A l \in TicketIds \ {k} : ticket'[l].tenant = t => ticket'[l].ref
    BY <1>2, <1>4, <2>1 DEF Thread
  <2>4. \A l \in TicketIds : ticket'[l].tenant = t /\ ~ticket'[l].ref => l = k
    BY <2>3
  <2>5. Creating(t)' = {w} /\ call'[w].pc = "link" /\ call'[w].ticket = k
    BY <1>1, <1>5, <2>1
  <2> QED BY <2>2, <2>4, <2>5 DEF Thread
<1> QED BY <1>6, <1>7

LEMMA LinkThreads ==
  ASSUME Types, CallInv, ThreadInv, NEW w \in Runs, call[w].pc = "link", UNCHANGED forked,
         ticket' = [ticket EXCEPT ![call[w].ticket].ref = TRUE], Done(w, "PROCESSED")
  PROVE  ThreadInv'
<1> DEFINE k == call[w].ticket
<1>1. call'[w].pc = "settle" /\ \A v \in Runs \ {w} : call'[v] = call[v]
  BY DEF Types, CallTypes, Done, NoCall
<1>2. k \in TicketIds
  BY DEF CallInv
<1>3. /\ ticket'[k].ref /\ ticket'[k].state = ticket[k].state /\ ticket'[k].tenant = ticket[k].tenant
      /\ \A l \in TicketIds \ {k} : ticket'[l] = ticket[l]
  BY <1>2 DEF Types, CallTypes, Tickets
<1> SUFFICES ASSUME NEW t \in Tenants \ forked
             PROVE  Thread(t)'
  BY DEF ThreadInv, Thread
<1>4. Thread(t) /\ Open(t)' = Open(t)
  BY <1>3, ThreadByThread DEF Open
<1>5. Creating(t)' = Creating(t) \ {w}
  BY <1>1 DEF Creating
<1>6. \A l \in TicketIds : ticket'[l].tenant = t /\ ~ticket'[l].ref => l # k /\ ticket'[l] = ticket[l]
  BY <1>3
<1>7. \A v \in Creating(t) \ {w} : v \in Runs /\ call'[v] = call[v]
  BY <1>1 DEF Creating
<1>8. \A l \in TicketIds : ticket'[l].tenant = t /\ ~ticket'[l].ref =>
          \E v \in Creating(t) \ {w} : call'[v].pc = "link" /\ call'[v].ticket = l
  BY <1>4, <1>6, <1>7 DEF Thread
<1>9. \A v \in Creating(t) \ {w}, l \in Open(t) : call'[v].pc = "link" /\ call'[v].ticket = l
  BY <1>4, <1>7 DEF Thread
<1>10. (\A l, m \in Open(t) : l = m) /\ (\A u, v \in Creating(t) : u = v)
  BY <1>4 DEF Thread
<1> QED BY <1>4, <1>5, <1>8, <1>9, <1>10 DEF Thread

LEMMA ResolveThreads ==
  ASSUME Types, ThreadInv, NEW k \in TicketIds, Resolve(k)
  PROVE  ThreadInv'
<1>1. /\ ticket'[k].state = "resolved" /\ ticket'[k].tenant = ticket[k].tenant /\ ticket'[k].ref = ticket[k].ref
      /\ \A l \in TicketIds \ {k} : ticket'[l] = ticket[l]
  BY DEF Resolve, Types, CallTypes, Tickets
<1> SUFFICES ASSUME NEW t \in Tenants \ forked
             PROVE  Thread(t)'
  BY DEF ThreadInv, Thread, Resolve
<1>2. Thread(t) /\ Open(t)' \subseteq Open(t) /\ Creating(t)' = Creating(t) /\ UNCHANGED call
  BY <1>1, ThreadByThread DEF Open, Creating, Resolve
<1>3. \A l \in TicketIds : ticket'[l].tenant = ticket[l].tenant /\ ticket'[l].ref = ticket[l].ref
  BY <1>1
<1> QED BY <1>2, <1>3 DEF Thread

LEMMA ReopenThreads ==
  ASSUME Types, ThreadInv, NEW k \in TicketIds, Reopen(k)
  PROVE  ThreadInv'
<1>1. /\ ticket'[k].state = "open" /\ ticket'[k].tenant = ticket[k].tenant /\ ticket'[k].ref = ticket[k].ref
      /\ \A l \in TicketIds \ {k} : ticket'[l] = ticket[l]
      /\ UNCHANGED call /\ forked \subseteq forked'
  BY DEF Reopen, Types, CallTypes, Tickets
<1> SUFFICES ASSUME NEW t \in Tenants \ forked'
             PROVE  Thread(t)'
  BY DEF ThreadInv, Thread
<1>2. Thread(t) /\ Creating(t)' = Creating(t)
  BY <1>1, ThreadByThread DEF Creating
<1>3. \A l \in TicketIds : ticket'[l].tenant = ticket[l].tenant /\ ticket'[l].ref = ticket[l].ref
  BY <1>1
<1>4. CASE t # ticket[k].tenant
  <2>1. Open(t)' = Open(t)
    BY <1>1, <1>4 DEF Open
  <2> QED BY <1>1, <1>2, <1>3, <2>1 DEF Thread
<1>5. CASE t = ticket[k].tenant
  <2>1. Open(t) = {} /\ Creating(t) = {}
    BY <1>5 DEF Reopen
  <2>2. Open(t)' = {k}
    BY <1>1, <1>5, <2>1 DEF Open
  <2> QED BY <1>1, <1>2, <1>3, <2>1, <2>2 DEF Thread
<1> QED BY <1>4, <1>5

(***************************************************************************)
(* One lemma per action                                                    *)
(***************************************************************************)
LEMMA CallFacts ==
  ASSUME Types, CallInv, NEW w \in Runs
  PROVE  /\ call[w] \in CallRows /\ NoCall \in CallRows
         /\ call[w].pc # "idle" => call[w].row \in Rows
         /\ call[w].pc # "settle" => call[w].outcome = "none"
         /\ \A o \in {"PROCESSED", "FAILED"} :
              [NoCall EXCEPT !.pc = "settle", !.row = call[w].row, !.outcome = o] \in CallRows
  BY DEF Types, CallTypes, CallInv, CallRows, NoCall

(* A call ends with an outcome. *)
LEMMA DoneCall ==
  ASSUME Types, CallInv, NEW w \in Runs, NEW o \in {"PROCESSED", "FAILED"}, Done(w, o),
         call[w].pc # "idle", UNCHANGED ticket
  PROVE  /\ call'[w].pc = "settle" /\ call'[w].row = call[w].row /\ call'[w].outcome = o
         /\ \A v \in Runs \ {w} : call'[v] = call[v]
         /\ CallTypes' /\ CallInv'
<1> DEFINE c == [NoCall EXCEPT !.pc = "settle", !.row = call[w].row, !.outcome = o]
<1>1. /\ c \in CallRows /\ c.pc = "settle" /\ c.row = call[w].row /\ c.outcome = o
      /\ c.row \in Rows
  BY CallFacts DEF NoCall
<1>2. call' = [call EXCEPT ![w] = c]
  BY DEF Done
<1> HIDE DEF c
<1>3. call'[w] = c /\ (\A v \in Runs \ {w} : call'[v] = call[v]) /\ call' \in [Runs -> CallRows]
  BY <1>1, <1>2, CallMoves DEF Types
<1>4. CallTypes'
  BY <1>3 DEF Types, CallTypes
<1>5. CallInv'
  BY <1>1, <1>3 DEF CallInv
<1> QED BY <1>1, <1>3, <1>4, <1>5

LEMMA NoRowType == NoRow \in RowRows /\ NoRow.status = "none"
  BY DEF NoRow, RowRows, Statuses

(* A row is updated in place. *)
LEMMA RowMoves ==
  ASSUME RowTypes, NEW i \in Rows, NEW x \in RowRows, row' = [row EXCEPT ![i] = x]
  PROVE  row'[i] = x /\ (\A j \in Rows \ {i} : row'[j] = row[j]) /\ RowTypes'
  BY DEF RowTypes

LEMMA ReceiveInv ==
  ASSUME Inv, NEW i \in Rows, NEW n \in Numbers, Receive(i, n)
  PROVE  Inv'
<1> DEFINE x == [NoRow EXCEPT !.status = "RECEIVED", !.to = n]
<1>1. x \in RowRows /\ x.status = "RECEIVED" /\ x.by = NoRow.by
  BY NoRowType DEF RowRows, Statuses, RETRYABLE_WEBHOOK_STATUSES
<1> HIDE DEF x
<1>2. /\ row'[i] = x /\ (\A j \in Rows \ {i} : row'[j] = row[j])
      /\ row[i].status = "none" /\ row[i].by = x.by /\ RowTypes'
  BY <1>1, NoRowType DEF Receive, Inv, Types, RowTypes, x
<1>3. TruthInv' /\ HolderInv'
  BY <1>1, <1>2, RestingRows DEF Inv, Receive
<1>4. ThreadInv'
  BY AsideThreads DEF Inv, Receive
<1>5. CallTypes' /\ RestTypes' /\ CallInv'
  BY DEF Receive, Inv, Types, CallTypes, RestTypes, CallInv
<1> QED BY <1>2, <1>3, <1>4, <1>5, SameChannels DEF Inv, Types, Receive

LEMMA ReplayInv ==
  ASSUME Inv, NEW i \in Rows, NEW j \in Rows, replayWebhook(i, j)
  PROVE  Inv'
<1> DEFINE x == [NoRow EXCEPT !.status = "RECEIVED", !.to = row[i].to, !.replayOf = i]
<1>0. row[i] \in RowRows
  BY DEF Inv, Types, RowTypes
<1>1. x \in RowRows /\ x.status = "RECEIVED" /\ x.by = NoRow.by
  BY <1>0, NoRowType DEF RowRows, Statuses, RETRYABLE_WEBHOOK_STATUSES
<1> HIDE DEF x
<1>2. /\ row'[j] = x /\ (\A k \in Rows \ {j} : row'[k] = row[k])
      /\ row[j].status = "none" /\ row[j].by = x.by /\ RowTypes'
  BY <1>1, NoRowType DEF replayWebhook, Inv, Types, RowTypes, x
<1>3. TruthInv' /\ HolderInv'
  BY <1>1, <1>2, RestingRows DEF Inv, replayWebhook
<1>4. ThreadInv'
  BY AsideThreads DEF Inv, replayWebhook
<1>5. CallTypes' /\ RestTypes' /\ CallInv'
  BY DEF replayWebhook, Inv, Types, CallTypes, RestTypes, CallInv
<1> QED BY <1>2, <1>3, <1>4, <1>5, SameChannels DEF Inv, Types, replayWebhook

LEMMA RowOnlyInv ==
  ASSUME Inv, NEW i \in Rows, LeaseExpires(i) \/ cancelWebhook(i) \/ purge(i)
  PROVE  Inv'
<1>1. /\ RowTypes'
      /\ \A j \in Rows \ {i} : row'[j] = row[j]
      /\ row'[i].by = row[i].by
      /\ \/ row'[i].status = row[i].status
         \/ /\ row[i].status \in RETRYABLE_WEBHOOK_STATUSES \cup WEBHOOK_REPLAYABLE
            /\ row'[i].status = "purged"
         \/ /\ row[i].status \in RETRYABLE_WEBHOOK_STATUSES
            /\ row'[i].status = "CANCELLED"
  <2>0. row \in [Rows -> RowRows] /\ row[i] \in RowRows
    BY DEF Inv, Types, RowTypes
  <2>1. CASE LeaseExpires(i)
    BY <2>0, <2>1 DEF LeaseExpires, RowTypes, RowRows
  <2>2. ASSUME NEW s \in {"purged", "CANCELLED"}, row' = [row EXCEPT ![i].status = s]
        PROVE  /\ RowTypes' /\ (\A j \in Rows \ {i} : row'[j] = row[j])
               /\ row'[i].by = row[i].by /\ row'[i].status = s
    BY <2>0, <2>2 DEF RowTypes, RowRows, Statuses, WEBHOOK_REPLAYABLE
  <2>3. CASE cancelWebhook(i)
    BY <2>2, <2>3 DEF cancelWebhook
  <2>4. CASE purge(i)
    BY <2>2, <2>4 DEF purge
  <2> QED BY <2>1, <2>3, <2>4
<1>2. UNCHANGED <<channels, ticket, linked, call, claims, faults, applied, lapsed, forked>>
  BY DEF LeaseExpires, cancelWebhook, purge
<1>3. TruthInv' /\ HolderInv'
  BY <1>1, <1>2, RestingRows DEF Inv, RETRYABLE_WEBHOOK_STATUSES, WEBHOOK_REPLAYABLE
<1>4. ThreadInv'
  BY <1>2, AsideThreads DEF Inv
<1>5. CallTypes' /\ RestTypes' /\ CallInv'
  BY <1>2 DEF Inv, Types, CallTypes, RestTypes, CallInv
<1> QED BY <1>1, <1>2, <1>3, <1>4, <1>5, SameChannels DEF Inv, Types

LEMMA ClaimInv ==
  ASSUME Inv, NEW w \in Runs, NEW i \in Rows, Claim(w, i)
  PROVE  Inv'
<1> DEFINE c == [NoCall EXCEPT !.pc = "route", !.row = i]
<1>1. NoCall \in CallRows /\ NoCall.outcome = "none"
  BY DEF NoCall, CallRows
<1>2. call' = [call EXCEPT ![w] = c] /\ call[w] = NoCall
  BY DEF Claim
<1>3. c \in CallRows /\ c.pc = "route" /\ c.row = i /\ c.outcome = "none"
  BY <1>1 DEF CallRows
<1> HIDE DEF c
<1>4. call'[w] = c /\ (\A v \in Runs \ {w} : call'[v] = call[v]) /\ call' \in [Runs -> CallRows]
  BY <1>2, <1>3, CallMoves DEF Inv, Types
<1>5. CallTypes' /\ CallInv'
  BY <1>3, <1>4 DEF Inv, Types, CallTypes, CallInv, Claim
<1>6. RowTypes' /\ RestTypes'
  <2>1. row \in [Rows -> RowRows] /\ row[i] \in RowRows
    BY DEF Inv, Types, RowTypes
  <2>2. RowTypes'
    BY <2>1 DEF Claim, RowTypes, RowRows, Statuses
  <2> QED BY <2>2, WebhookAssumption DEF Claim, Inv, Types, RestTypes
<1>7. ThreadInv'
  BY <1>2, <1>3, <1>4, AsideThreads DEF Inv, Claim, NoCall
<1>8. TruthInv' /\ HolderInv'
  BY ClaimRows DEF Inv
<1> QED BY <1>5, <1>6, <1>7, <1>8, SameChannels DEF Inv, Types, Claim

(* A call goes on without an effect: its new record keeps the row. *)
LEMMA CallGoesOn ==
  ASSUME Inv, NEW w \in Runs, NEW c \in CallRows, call' = [call EXCEPT ![w] = c],
         UNCHANGED <<channels, row, ticket, linked, claims, faults, applied, lapsed>>,
         call[w].pc \in {"route", "lookup"}, c.row = call[w].row,
         c.pc \in {"lookup", "comment", "create", "settle"},
         c.outcome = IF c.pc = "settle" THEN "SKIPPED" ELSE "none",
         c.pc # "settle" => c.tenant \in Tenants
  PROVE  /\ \A v \in Runs \ {w} : call'[v] = call[v]
         /\ call'[w] = c
         /\ ChannelInv' /\ RowTypes' /\ CallTypes' /\ CallInv' /\ TruthInv' /\ HolderInv'
<1>1. call'[w] = c /\ (\A v \in Runs \ {w} : call'[v] = call[v]) /\ call' \in [Runs -> CallRows]
  BY CallMoves DEF Inv, Types
<1>2. call[w].outcome = "none" /\ call[w].row \in Rows
  BY DEF Inv, CallInv
<1>3. CallTypes' /\ RowTypes' /\ ChannelInv'
  BY <1>1, SameChannels DEF Inv, Types, CallTypes, RowTypes
<1>4. CallInv'
  BY <1>1, <1>2 DEF Inv, CallInv
<1>5. \A v \in Runs : call'[v].row = call[v].row /\ (Effect(v)' <=> Effect(v))
  BY <1>1, <1>2 DEF Effect
<1> HIDE DEF Effect
<1>6. TruthInv' /\ HolderInv'
  BY <1>5, AsideRows, WebhookAssumption DEF Inv
<1> QED BY <1>1, <1>3, <1>4, <1>6

LEMMA RouteInv ==
  ASSUME Inv, NEW w \in Runs, Route(w)
  PROVE  Inv'
<1> DEFINE t == resolveTenantId(row[call[w].row].to)
           c == IF t = None \/ ~linked THEN [call[w] EXCEPT !.pc = "settle", !.outcome = "SKIPPED"]
                ELSE [call[w] EXCEPT !.pc = "lookup", !.tenant = t]
<1>1. t # None => t \in Tenants
  <2> DEFINE M == Matches(row[call[w].row].to)
  <2>1. M \subseteq Tenants /\ IsFiniteSet({}) /\ Cardinality({}) = 0
    BY FS_EmptySet DEF Matches
  <2>2. Cardinality(M) = 1 => \E u \in Tenants : u \in M
    BY <2>1
  <2> HIDE DEF M
  <2>3. t = IF Cardinality(M) = 1 THEN CHOOSE u \in Tenants : u \in M ELSE None
    BY DEF resolveTenantId, M
  <2> QED BY <2>2, <2>3
<1>2. call[w] \in CallRows /\ call[w].pc = "route" /\ call[w].outcome = "none"
  BY CallFacts DEF Inv, Route
<1>3. call' = [call EXCEPT ![w] = c]
  BY DEF Route, Inv, Types, CallTypes
<1> HIDE DEF t
<1>4. /\ c \in CallRows /\ c.row = call[w].row /\ c.pc \in {"lookup", "settle"}
      /\ c.outcome = IF c.pc = "settle" THEN "SKIPPED" ELSE "none"
      /\ c.pc # "settle" => c.tenant \in Tenants
  BY <1>1, <1>2 DEF CallRows
<1> HIDE DEF c
<1>5. UNCHANGED <<channels, row, ticket, linked, claims, faults, applied, lapsed, forked>>
  BY DEF Route
<1>6. /\ \A v \in Runs \ {w} : call'[v] = call[v]
      /\ call'[w] = c
      /\ ChannelInv' /\ RowTypes' /\ CallTypes' /\ CallInv' /\ TruthInv' /\ HolderInv'
  BY <1>2, <1>3, <1>4, <1>5, CallGoesOn
<1>7. ThreadInv'
  BY <1>2, <1>4, <1>5, <1>6, AsideThreads DEF Inv
<1> QED BY <1>5, <1>6, <1>7 DEF Inv, Types, RestTypes

LEMMA LookupInv ==
  ASSUME Inv, NEW w \in Runs, Lookup(w)
  PROVE  Inv'
<1>1. /\ call[w] \in CallRows /\ call[w].pc = "lookup" /\ call[w].outcome = "none"
      /\ call[w].tenant \in Tenants
  BY CallFacts DEF Inv, Lookup, CallInv
<1>2. UNCHANGED <<channels, row, ticket, linked, claims, faults, applied, lapsed>>
  BY DEF Lookup
<1>3. ASSUME NEW k \in OpenTickets(call[w].tenant), UNCHANGED forked,
             call' = [call EXCEPT ![w].pc = "comment", ![w].ticket = k]
      PROVE  Inv'
  <2> DEFINE c == [call[w] EXCEPT !.pc = "comment", !.ticket = k]
  <2>1. k \in TicketIds
    BY <1>3 DEF OpenTickets, Open
  <2>2. c \in CallRows /\ c.row = call[w].row /\ c.pc = "comment" /\ c.outcome = "none" /\ c.tenant \in Tenants
    BY <1>1, <2>1 DEF CallRows
  <2>3. call' = [call EXCEPT ![w] = c]
    BY <1>3 DEF Inv, Types, CallTypes
  <2> HIDE DEF c
  <2>4. /\ \A v \in Runs \ {w} : call'[v] = call[v]
        /\ call'[w] = c
        /\ ChannelInv' /\ RowTypes' /\ CallTypes' /\ CallInv' /\ TruthInv' /\ HolderInv'
    BY <1>1, <1>2, <2>2, <2>3, CallGoesOn
  <2>5. ThreadInv'
    BY <1>1, <1>2, <1>3, <2>2, <2>4, AsideThreads DEF Inv
  <2> QED BY <1>2, <1>3, <2>4, <2>5 DEF Inv, Types, RestTypes
<1>4. ASSUME OpenTickets(call[w].tenant) = {}, call' = [call EXCEPT ![w].pc = "create"],
             forked' = IF Creating(call[w].tenant) # {} THEN forked \cup {call[w].tenant} ELSE forked
      PROVE  Inv'
  <2> DEFINE c == [call[w] EXCEPT !.pc = "create"]
  <2>1. c \in CallRows /\ c.row = call[w].row /\ c.pc = "create" /\ c.outcome = "none" /\ c.tenant \in Tenants
    BY <1>1 DEF CallRows
  <2>2. call' = [call EXCEPT ![w] = c]
    BY <1>4 DEF Inv, Types, CallTypes
  <2> HIDE DEF c
  <2>3. ChannelInv' /\ RowTypes' /\ CallTypes' /\ CallInv' /\ TruthInv' /\ HolderInv'
    BY <1>1, <1>2, <2>1, <2>2, CallGoesOn
  <2>4. ThreadInv'
    BY <1>1, <1>2, <1>4, LookupThreads DEF Inv
  <2>5. RestTypes'
    BY <1>1, <1>2, <1>4 DEF Inv, Types, RestTypes
  <2> QED BY <2>3, <2>4, <2>5 DEF Inv, Types
<1> QED BY <1>3, <1>4 DEF Lookup

LEMMA AppliedType ==
  ASSUME RestTypes, NEW w \in Runs, call[w].row \in Rows, Applied(w)
  PROVE  applied' \in [Rows -> Nat]
  BY DEF RestTypes, Applied

LEMMA CommentInv ==
  ASSUME Inv, NEW w \in Runs, Comment(w)
  PROVE  Inv'
<1>1. call[w].pc = "comment" /\ call[w].row \in Rows /\ call[w].outcome = "none"
  BY DEF Comment, Inv, CallInv
<1>2. /\ call'[w].pc = "settle" /\ call'[w].row = call[w].row /\ call'[w].outcome = "PROCESSED"
      /\ \A v \in Runs \ {w} : call'[v] = call[v]
      /\ CallTypes' /\ CallInv'
  BY <1>1, DoneCall DEF Comment, Inv
<1>3. Effect(w)' /\ ~Effect(w)
  BY <1>1, <1>2 DEF Effect
<1>4. TruthInv' /\ HolderInv'
  BY <1>1, <1>2, <1>3, EffectRows DEF Inv, Comment
<1>5. ThreadInv'
  BY <1>1, <1>2, AsideThreads DEF Inv, Comment
<1>6. RowTypes' /\ RestTypes'
  BY <1>1, AppliedType DEF Comment, Inv, Types, RowTypes, RestTypes
<1> QED BY <1>2, <1>4, <1>5, <1>6, SameChannels DEF Inv, Types, Comment

LEMMA CreateInv ==
  ASSUME Inv, NEW w \in Runs, Create(w)
  PROVE  Inv'
<1>1. /\ call[w] \in CallRows /\ call[w].pc = "create" /\ call[w].row \in Rows /\ call[w].outcome = "none"
      /\ call[w].tenant \in Tenants
  BY CallFacts DEF Create, Inv, CallInv
<1>2. PICK k \in TicketIds : CreateTicket(w, k)
  BY DEF Create, CreateTicket
<1>3. /\ call'[w].pc = "link" /\ call'[w].row = call[w].row /\ call'[w].outcome = "none"
      /\ call'[w].tenant = call[w].tenant /\ call'[w].ticket = k
      /\ \A v \in Runs \ {w} : call'[v] = call[v]
      /\ call' \in [Runs -> CallRows]
  BY <1>1, <1>2 DEF CreateTicket, Inv, Types, CallTypes, CallRows
<1>4. /\ ticket' \in [TicketIds -> Tickets] /\ ticket'[k].state = "open" /\ ticket'[k].tenant = call[w].tenant
      /\ \A l \in TicketIds \ {k} : ticket'[l] = ticket[l]
      /\ ticket[k].state = "none"
  BY <1>1, <1>2 DEF CreateTicket, Inv, Types, CallTypes, Tickets, NoTicket
<1>5. CallTypes' /\ CallInv'
  <2>1. CallTypes'
    BY <1>3, <1>4 DEF CallTypes
  <2> QED BY <2>1, <1>1, <1>3, <1>4 DEF Inv, CallInv
<1>6. Effect(w)' /\ ~Effect(w)
  BY <1>1, <1>3 DEF Effect
<1>7. TruthInv' /\ HolderInv'
  BY <1>1, <1>3, <1>6, EffectRows DEF Inv, Create
<1>8. ThreadInv'
  BY <1>1, <1>2, CreateThreads DEF Inv, Create
<1>9. RowTypes' /\ RestTypes'
  BY <1>1, AppliedType DEF Create, Inv, Types, RowTypes, RestTypes
<1> QED BY <1>5, <1>7, <1>8, <1>9, SameChannels DEF Inv, Types, Create

LEMMA LinkInv ==
  ASSUME Inv, NEW w \in Runs, Link(w)
  PROVE  Inv'
<1>1. call[w].pc = "link" /\ call[w].row \in Rows /\ call[w].ticket \in TicketIds
  BY DEF Link, Inv, CallInv
<1> DEFINE c == [NoCall EXCEPT !.pc = "settle", !.row = call[w].row, !.outcome = "PROCESSED"]
<1>2. /\ c \in CallRows /\ c.pc = "settle" /\ c.row = call[w].row /\ c.outcome = "PROCESSED"
      /\ call' = [call EXCEPT ![w] = c]
  BY CallFacts DEF NoCall, Link, Done, Inv
<1> HIDE DEF c
<1>3. call'[w] = c /\ (\A v \in Runs \ {w} : call'[v] = call[v]) /\ call' \in [Runs -> CallRows]
  BY <1>2, CallMoves DEF Inv, Types
<1>4. /\ ticket' \in [TicketIds -> Tickets]
      /\ \A k \in TicketIds : ticket'[k].state = ticket[k].state /\ ticket'[k].tenant = ticket[k].tenant
      /\ \A k \in TicketIds \ {call[w].ticket} : ticket'[k] = ticket[k]
  BY <1>1 DEF Link, Inv, Types, CallTypes, Tickets
<1>5. CallTypes' /\ CallInv'
  <2>1. CallTypes'
    BY <1>3, <1>4 DEF CallTypes
  <2>2. ticket[call[w].ticket].state # "none"
    BY <1>1 DEF Inv, CallInv
  <2> QED BY <2>1, <2>2, <1>1, <1>2, <1>3, <1>4 DEF Inv, CallInv
<1>6. \A v \in Runs : call'[v].row = call[v].row /\ (Effect(v)' <=> Effect(v))
  BY <1>1, <1>2, <1>3 DEF Effect
<1> HIDE DEF Effect
<1>7. TruthInv' /\ HolderInv'
  BY <1>6, AsideRows, WebhookAssumption DEF Inv, Link
<1>8. ThreadInv'
  BY <1>1, LinkThreads DEF Inv, Link
<1>9. RowTypes' /\ RestTypes'
  BY DEF Link, Inv, Types, RowTypes, RestTypes
<1> QED BY <1>5, <1>7, <1>8, <1>9, SameChannels DEF Inv, Types, Link

LEMMA QueueFailsInv ==
  ASSUME Inv, NEW w \in Runs, QueueFails(w)
  PROVE  Inv'
<1>1. call[w].pc = "comment" /\ call[w].row \in Rows /\ call[w].outcome = "none"
  BY DEF QueueFails, Inv, CallInv
<1>2. /\ call'[w].pc = "settle" /\ call'[w].row = call[w].row /\ call'[w].outcome = "FAILED"
      /\ \A v \in Runs \ {w} : call'[v] = call[v]
      /\ CallTypes' /\ CallInv'
  BY <1>1, DoneCall DEF QueueFails, Inv
<1>3. \A v \in Runs : call'[v].row = call[v].row /\ (Effect(v)' <=> Effect(v))
  BY <1>1, <1>2 DEF Effect
<1>4. \A i \in Rows \ lapsed' : applied'[i] = applied[i]
  BY DEF QueueFails, Applied, Inv, Types, RestTypes
<1> HIDE DEF Effect
<1>5. TruthInv' /\ HolderInv'
  BY <1>3, <1>4, AsideRows, WebhookAssumption DEF Inv, QueueFails
<1>6. ThreadInv'
  BY <1>1, <1>2, AsideThreads DEF Inv, QueueFails
<1>7. RowTypes' /\ RestTypes'
  <2>1. applied' \in [Rows -> Nat]
    BY <1>1, AppliedType DEF QueueFails, Inv, Types
  <2> QED BY <2>1, <1>1, WebhookAssumption DEF QueueFails, Inv, Types, RowTypes, RestTypes
<1> QED BY <1>2, <1>5, <1>6, <1>7, SameChannels DEF Inv, Types, QueueFails

(* A call ends before its time. *)
LEMMA LeftBehindInv ==
  ASSUME Inv, NEW w \in Runs, LeftBehind(w), call[w].pc # "idle", CallTypes', CallInv',
         \A v \in Runs \ {w} : call'[v] = call[v],
         call'[w].pc \in {"idle", "settle"}, ~Effect(w)', call'[w].row \in {call[w].row, None}
  PROVE  Inv'
<1>1. /\ call[w].row \in Rows /\ UNCHANGED <<channels, row, ticket, linked, claims, applied>>
      /\ call[w].pc = "link" => call[w].tenant \in Tenants
  BY DEF Inv, CallInv, LeftBehind
<1>2. /\ Effect(w) => call[w].row \in lapsed'
      /\ lapsed \subseteq lapsed' /\ forked \subseteq forked'
      /\ call[w].pc = "link" => call[w].tenant \in forked'
  BY DEF LeftBehind, Effect
<1>3. \A v \in Runs \ {w} : Effect(v)' <=> Effect(v)
  BY DEF Effect
<1> HIDE DEF Effect
<1>4. TruthInv' /\ HolderInv'
  BY <1>1, <1>2, <1>3, AsideRows, WebhookAssumption DEF Inv
<1>5. ThreadInv'
  BY <1>1, <1>2, AsideThreads DEF Inv
<1>6. RowTypes' /\ RestTypes'
  BY <1>1, WebhookAssumption DEF LeftBehind, Inv, Types, RowTypes, RestTypes
<1> QED BY <1>1, <1>4, <1>5, <1>6, SameChannels DEF Inv, Types

LEMMA HandlerFailsInv ==
  ASSUME Inv, NEW w \in Runs, HandlerFails(w)
  PROVE  Inv'
<1>1. call[w].pc # "idle" /\ LeftBehind(w)
  BY DEF HandlerFails
<1>2. /\ call'[w].pc = "settle" /\ call'[w].row = call[w].row /\ call'[w].outcome = "FAILED"
      /\ \A v \in Runs \ {w} : call'[v] = call[v]
      /\ CallTypes' /\ CallInv'
  BY <1>1, DoneCall DEF HandlerFails, LeftBehind, Inv
<1>3. ~Effect(w)'
  BY <1>2 DEF Effect
<1> QED BY <1>1, <1>2, <1>3, LeftBehindInv

LEMMA DieInv ==
  ASSUME Inv, NEW w \in Runs, Die(w)
  PROVE  Inv'
<1>1. call[w].pc # "idle" /\ LeftBehind(w) /\ UNCHANGED ticket /\ call' = [call EXCEPT ![w] = NoCall]
  BY DEF Die, LeftBehind, Inv, CallInv
<1>2. NoCall \in CallRows /\ NoCall.pc = "idle" /\ NoCall.row = None /\ NoCall.outcome = "none"
  BY DEF NoCall, CallRows
<1>3. call'[w] = NoCall /\ (\A v \in Runs \ {w} : call'[v] = call[v]) /\ call' \in [Runs -> CallRows]
  BY <1>1, <1>2, CallMoves DEF Inv, Types
<1>4. CallTypes' /\ CallInv' /\ ~Effect(w)'
  BY <1>1, <1>2, <1>3 DEF Inv, Types, CallTypes, CallInv, Effect
<1> QED BY <1>1, <1>2, <1>3, <1>4, LeftBehindInv

LEMMA SettleInv ==
  ASSUME Inv, NEW w \in Runs, Settle(w)
  PROVE  Inv'
<1>1. NoCall \in CallRows /\ NoCall.pc = "idle" /\ NoCall.row = None /\ NoCall.outcome = "none"
  BY DEF NoCall, CallRows
<1>2. call'[w] = NoCall /\ (\A v \in Runs \ {w} : call'[v] = call[v]) /\ call' \in [Runs -> CallRows]
  BY <1>1, CallMoves DEF Inv, Types, Settle
<1>3. CallTypes' /\ CallInv'
  BY <1>1, <1>2 DEF Inv, Types, CallTypes, CallInv, Settle
<1>4. RowTypes'
  <2> DEFINE i == call[w].row
             x == [row[i] EXCEPT !.status = call[w].outcome, !.by = None, !.stale = FALSE]
  <2>1. i \in Rows /\ call[w].outcome \in Statuses /\ row[i] \in RowRows /\ RowTypes
    BY DEF Inv, CallInv, Types, CallTypes, CallRows, RowTypes, Settle, Statuses,
           RETRYABLE_WEBHOOK_STATUSES, WEBHOOK_REPLAYABLE
  <2>2. x \in RowRows
    BY <2>1 DEF RowRows
  <2>3. row' = [row EXCEPT ![i] = x] \/ row' = row
    BY <2>1 DEF Settle, Settled, RowTypes
  <2> HIDE DEF x, i
  <2> QED BY <2>1, <2>2, <2>3, RowMoves DEF RowTypes
<1>5. TruthInv' /\ HolderInv'
  BY SettleRows DEF Inv
<1>6. ThreadInv'
  BY <1>1, <1>2, AsideThreads DEF Inv, Settle
<1>7. RestTypes'
  BY DEF Settle, Inv, Types, RestTypes
<1> QED BY <1>3, <1>4, <1>5, <1>6, <1>7, SameChannels DEF Inv, Types, Settle

LEMMA StaffInv ==
  ASSUME Inv, NEW k \in TicketIds, Resolve(k) \/ Reopen(k)
  PROVE  Inv'
<1>1. /\ ticket' \in [TicketIds -> Tickets] /\ ticket[k].state # "none" /\ ticket'[k].state # "none"
      /\ ticket'[k].tenant = ticket[k].tenant /\ \A l \in TicketIds \ {k} : ticket'[l] = ticket[l]
      /\ UNCHANGED <<channels, row, linked, call, claims, faults, applied, lapsed>>
  BY DEF Resolve, Reopen, Inv, Types, CallTypes, Tickets
<1>2. CallTypes' /\ CallInv' /\ RowTypes'
  BY <1>1 DEF Inv, Types, CallTypes, CallInv, RowTypes
<1>3. \A v \in Runs : call'[v].row = call[v].row /\ (Effect(v)' <=> Effect(v))
  BY <1>1 DEF Effect
<1>4. RestTypes'
  <2>1. CASE Resolve(k)
    BY <2>1 DEF Resolve, Inv, Types, RestTypes
  <2>2. CASE Reopen(k)
    <3>1. ticket[k].tenant \in Tenants
      BY <1>1 DEF Inv, CallInv
    <3> QED BY <2>2, <3>1 DEF Reopen, Inv, Types, RestTypes
  <2> QED BY <2>1, <2>2
<1> HIDE DEF Effect
<1>5. TruthInv' /\ HolderInv'
  BY <1>1, <1>3, AsideRows, WebhookAssumption DEF Inv
<1>6. ThreadInv'
  BY ResolveThreads, ReopenThreads DEF Inv
<1> QED BY <1>1, <1>2, <1>4, <1>5, <1>6, SameChannels DEF Inv, Types

LEMMA LinkChangesInv ==
  ASSUME Inv, LinkChanges
  PROVE  Inv'
<1>1. UNCHANGED <<channels, row, ticket, call, claims, faults, applied, lapsed, forked>> /\ linked' \in BOOLEAN
  BY DEF LinkChanges
<1>2. Types' /\ CallInv'
  BY <1>1 DEF Inv, Types, RowTypes, CallTypes, RestTypes, CallInv
<1>3. \A v \in Runs : call'[v].row = call[v].row /\ (Effect(v)' <=> Effect(v))
  BY <1>1 DEF Effect
<1> HIDE DEF Effect
<1>4. TruthInv' /\ HolderInv'
  BY <1>1, <1>3, AsideRows, WebhookAssumption DEF Inv
<1> QED BY <1>1, <1>2, <1>4, AsideThreads, SameChannels DEF Inv

(* The managers, and steps that change nothing. *)
LEMMA SameWebhooks ==
  ASSUME Inv, UNCHANGED webhooks, ChannelInv'
  PROVE  Inv'
<1>1. UNCHANGED <<row, ticket, linked, call, claims, faults, applied, lapsed, forked>>
  BY DEF webhooks
<1>2. Types' /\ CallInv'
  BY <1>1 DEF Inv, Types, RowTypes, CallTypes, RestTypes, CallInv
<1>3. \A v \in Runs : call'[v].row = call[v].row /\ (Effect(v)' <=> Effect(v))
  BY <1>1 DEF Effect
<1> HIDE DEF Effect
<1>4. TruthInv' /\ HolderInv'
  BY <1>1, <1>3, AsideRows, WebhookAssumption DEF Inv
<1> QED BY <1>1, <1>2, <1>4, AsideThreads DEF Inv

LEMMA InitInv ==
  ASSUME Init
  PROVE  Inv
<1>1. NoCall \in CallRows /\ NoCall.pc = "idle" /\ NoCall.row = None /\ NoCall.outcome = "none"
  BY DEF NoCall, CallRows
<1>2. NoTicket \in Tickets /\ NoTicket.state = "none" /\ NoTicket.tenant = None
  BY DEF NoTicket, Tickets
<1>3. /\ \A i \in Rows : row[i] = NoRow /\ applied[i] = 0
      /\ \A k \in TicketIds : ticket[k] = NoTicket
      /\ \A w \in Runs : call[w] = NoCall
      /\ forked = {} /\ lapsed = {}
  BY DEF Init
<1>4. Types
  <2>1. RowTypes
    BY NoRowType DEF Init, RowTypes
  <2>2. CallTypes
    BY <1>1, <1>2 DEF Init, CallTypes
  <2>3. RestTypes
    BY WebhookAssumption DEF Init, RestTypes
  <2> QED BY <2>1, <2>2, <2>3 DEF Types
<1>5. CallInv
  BY <1>1, <1>2, <1>3 DEF CallInv
<1>6. HolderInv
  <2>1. NoRow.by = None
    BY DEF NoRow
  <2> QED BY <1>3, <2>1 DEF HolderInv
<1>7. TruthInv
  BY <1>1, <1>3, NoRowType, WebhookAssumption DEF TruthInv
<1>8. ThreadInv
  <2>1. \A t \in Tenants : Open(t) = {} /\ Creating(t) = {}
    BY <1>1, <1>2, <1>3 DEF Open, Creating
  <2> QED BY <1>2, <1>3, <2>1, ChannelAssumption DEF ThreadInv
<1> QED BY <1>4, <1>5, <1>6, <1>7, <1>8, ChannelInitInv DEF Inv, Init

LEMMA NextInv ==
  ASSUME Inv, [Next]_vars
  PROVE  Inv'
<1>1. CASE WebhookStep
  BY <1>1, ReceiveInv, RowOnlyInv, ReplayInv, ClaimInv, RouteInv, LookupInv, CommentInv, CreateInv,
     LinkInv, SettleInv, QueueFailsInv, HandlerFailsInv, DieInv, StaffInv, LinkChangesInv DEF WebhookStep
<1>2. CASE ManagementStep
  BY <1>2, ChannelStepInv, SameWebhooks DEF ManagementStep, Inv
<1>3. CASE UNCHANGED vars
  <2>1. UNCHANGED channels /\ UNCHANGED webhooks
    BY <1>3 DEF vars
  <2> QED BY <2>1, SameChannels, SameWebhooks DEF Inv
<1> QED BY <1>1, <1>2, <1>3 DEF Next

(* Channels, webhook rows, calls and tickets stay in the states Inv allows *)
(* whatever managers, providers, operators, deaths and leases do.          *)
THEOREM Invariance == Spec => []Inv
  BY InitInv, NextInv, PTL DEF Spec

(***************************************************************************)
(* What the invariant says                                                 *)
(***************************************************************************)

(* The tables and what requests and calls remember of them have their      *)
(* types.                                                                  *)
THEOREM TypeCorrect == Spec => []WebhookTypeOK
<1>1. ASSUME Inv
      PROVE  WebhookTypeOK
  <2>1. ChannelTypeOK
    <3>1. \A q \in Managers : managing[q] = NoRequest
                                \/ (managing[q].tenant \in Tenants /\ managing[q].read \in Integrations)
      BY <1>1, RequestTypes DEF Inv, ChannelInv, Busy
    <3> QED BY <1>1, <3>1 DEF Inv, ChannelInv, ChannelTypes, ChannelTypeOK
  <2> QED BY <1>1, <2>1 DEF Inv, Types, RowTypes, RowRows, CallTypes, CallRows, Tickets, RestTypes,
                            WebhookTypeOK
<1> QED BY <1>1, Invariance, PTL

(* setEnabled: a channel is on only if its configuration has passed a test *)
(* and no other enabled channel has its number, unless a request wrote a   *)
(* row that changed after it was read.                                     *)
THEOREM EnabledChannelsAreProven == Spec => []EnabledIsProven
<1>1. Inv => EnabledIsProven
  BY DEF Inv, ChannelInv, TableInv, EnabledIsProven
<1> QED BY <1>1, Invariance, PTL

(* process(): PROCESSED rows became one comment or ticket, rows that may   *)
(* be retried or are cancelled none, unless a lease lapsed or a call ended *)
(* after its effect.                                                       *)
THEOREM RowsTellTheTruth == Spec => []RowTellsTheTruth
<1>1. ASSUME Inv
      PROVE  RowTellsTheTruth
  <2> SUFFICES ASSUME NEW i \in Rows \ lapsed
               PROVE  /\ row[i].status = "PROCESSED" => applied[i] = 1
                      /\ row[i].status \in RETRYABLE_WEBHOOK_STATUSES \cup {"CANCELLED"} => applied[i] = 0
    BY DEF RowTellsTheTruth
  <2>1. row[i].status # "PROCESSING" /\ row[i].status # "purged" =>
            applied[i] = IF row[i].status = "PROCESSED" THEN 1 ELSE 0
    BY <1>1 DEF Inv, TruthInv
  <2> QED BY <2>1 DEF RETRYABLE_WEBHOOK_STATUSES
<1> QED BY <1>1, Invariance, PTL

(* handleMessage: a conversation has at most one open ticket, unless two   *)
(* calls overlapped, one ended before it wrote the reference, or staff     *)
(* reopened an old ticket.                                                 *)
THEOREM OneThread == Spec => []ThreadsAreOne
<1>1. ASSUME Inv
      PROVE  ThreadsAreOne
  <2> SUFFICES ASSUME NEW t \in Tenants \ forked
               PROVE  Cardinality(Open(t)) <= 1
    BY DEF ThreadsAreOne
  <2> DEFINE S == Open(t)
  <2>1. \A k, l \in S : k = l
    BY <1>1 DEF Inv, ThreadInv
  <2> HIDE DEF S
  <2>2. CASE S = {}
    <3>1. Cardinality(S) = 0
      BY <2>2, FS_EmptySet
    <3> QED BY <3>1 DEF S
  <2>3. CASE S # {}
    <3>1. PICK k \in S : TRUE
      BY <2>3
    <3>2. S = {k}
      BY <2>1, <3>1
    <3>3. Cardinality(S) = 1
      BY <3>2, FS_Singleton
    <3> QED BY <3>3 DEF S
  <2> QED BY <2>2, <2>3
<1> QED BY <1>1, Invariance, PTL

(* PROCESSED and CANCELLED rows are left alone by calls that return late:  *)
(* only the lock of the row, which such a row does not have, lets a call   *)
(* settle it.                                                              *)
THEOREM TerminalStatesStay == Spec => TerminalStays
<1>1. ASSUME Inv, [Next]_vars, NEW i \in Rows, row[i].status \in {"PROCESSED", "CANCELLED"}
      PROVE  row'[i].status \in {row[i].status, "purged"}
  <2> DEFINE Same == row'[i] = row[i]
  <2>0. row \in [Rows -> RowRows] /\ row[i] \in RowRows /\ row[i].by = None /\ row[i] # NoRow
    BY <1>1, NoRowType DEF Inv, Types, RowTypes, HolderInv
  <2>1. ASSUME NEW j \in Rows, NEW n \in Numbers, Receive(j, n)
        PROVE  Same
    BY <2>0, <2>1 DEF Receive
  <2>2. ASSUME NEW j \in Rows, NEW k \in Rows, replayWebhook(j, k)
        PROVE  Same
    BY <2>0, <2>2 DEF replayWebhook
  <2>3. ASSUME NEW j \in Rows, LeaseExpires(j) \/ cancelWebhook(j)
        PROVE  Same
    BY <1>1, <2>0, <2>3 DEF LeaseExpires, cancelWebhook, RETRYABLE_WEBHOOK_STATUSES
  <2>4. ASSUME NEW j \in Rows, purge(j)
        PROVE  Same \/ row'[i].status = "purged"
    BY <2>0, <2>4 DEF purge, RowRows
  <2>5. ASSUME NEW w \in Runs, NEW j \in Rows, Claim(w, j)
        PROVE  Same
    BY <1>1, <2>0, <2>5 DEF Claim, Claimable, RETRYABLE_WEBHOOK_STATUSES
  <2>6. ASSUME NEW w \in Runs, Settle(w)
        PROVE  Same
    <3>1. w # None
      BY WebhookAssumption
    <3> QED BY <2>0, <2>6, <3>1 DEF Settle, Settled
  <2>7. CASE UNCHANGED row
    BY <2>7
  <2>8. CASE WebhookStep
    BY <2>8, <2>1, <2>2, <2>3, <2>4, <2>5, <2>6, <2>7 DEF WebhookStep, Route, Lookup, Comment, Create, Link,
       QueueFails, HandlerFails, Die, LeftBehind, Resolve, Reopen, LinkChanges
  <2>9. CASE ManagementStep
    BY <2>9, <2>7 DEF ManagementStep, webhooks
  <2>10. CASE UNCHANGED vars
    BY <2>10, <2>7 DEF vars, webhooks
  <2> QED BY <1>1, <2>8, <2>9, <2>10 DEF Next
<1>2. Inv /\ [Next]_vars =>
        [\A i \in Rows : row[i].status \in {"PROCESSED", "CANCELLED"} =>
                            row'[i].status \in {row[i].status, "purged"}]_vars
  BY <1>1
<1> QED BY <1>2, Invariance, PTL DEF Spec, TerminalStays
=============================================================================
