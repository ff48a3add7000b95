---------------------------- MODULE SessionProofs ----------------------------
(***************************************************************************)
(* Theorems about Sessions for any number of tokens and concurrent calls:  *)
(* a session has one live token or refresh, revocation is final, and       *)
(* blocked accounts do not refresh.                                        *)
(***************************************************************************)
EXTENDS Sessions, TLAPS

RowsOK    == /\ token \in [Tokens -> TokenStates]
             /\ family \in [Tokens -> Tokens \cup {None}]
             /\ parent \in [Tokens -> Tokens \cup {None}]
             /\ expired \subseteq Tokens
AccountOK == user \in Users /\ tenant \in {"ACTIVE", "SUSPENDED"}
CallsOK   == call \in [Calls -> Busy \cup {Idle, Ended}]
HistoryOK == /\ failures \in Nat
             /\ ended \subseteq Tokens /\ final \subseteq Tokens /\ lost \subseteq Tokens
             /\ barred \subseteq Calls
Types     == RowsOK /\ AccountOK /\ CallsOK /\ HistoryOK

(***************************************************************************)
(* The inductive invariant                                                 *)
(***************************************************************************)

(* The token that a call has claimed, and the one it may still replace. *)
held   == [c \in Calls |-> IF call[c].pc \in {"claimed", "unusable", "issue"}
                           THEN call[c].tok ELSE None]
making == [c \in Calls |-> IF call[c].pc \in {"claimed", "issue"}
                           THEN call[c].tok ELSE None]

(* Families are named after a token that exists. *)
TreeInv ==
    /\ \A t \in Tokens : token[t] = "none" => family[t] = None /\ parent[t] = None
    /\ \A t \in Tokens : token[t] # "none" => family[t] \in Tokens /\ family[family[t]] = family[t]
    /\ \A t \in Tokens : parent[t] # None => token[parent[t]] \notin {"none", "live"}
    /\ \A f \in final : token[f] # "none"

(* A claimed token is neither live nor replaced yet. *)
HeldInv ==
    /\ \A c \in Calls : held[c] # None => /\ held[c] \in Tokens
                                          /\ token[held[c]] \notin {"none", "live"}
                                          /\ \A t \in Tokens : parent[t] # held[c]
    /\ \A c \in Calls : making[c] \in {None, held[c]}

(* SessionHasOneToken and EndedIsFinal, token by token and call by call. *)
OneInv ==
    /\ \A s, t \in Tokens : token[s] = "live" /\ token[t] = "live" /\ family[s] = family[t] => s = t
    /\ \A c, d \in Calls : held[c] # None /\ held[d] # None /\ family[held[c]] = family[held[d]] => c = d
    /\ \A t \in Tokens, c \in Calls : token[t] = "live" /\ held[c] # None => family[t] # family[held[c]]

SomeInv ==
    \A f \in Tokens : family[f] = f /\ f \notin ended \cup lost =>
        \/ \E t \in Tokens : token[t] = "live" /\ family[t] = f
        \/ \E c \in Calls : held[c] # None /\ family[held[c]] = f

FinalInv ==
    \A f \in final : /\ \A t \in Tokens : token[t] = "live" => family[t] # f
                     /\ \A c \in Calls : making[c] # None => family[making[c]] # f

SessionInv == TreeInv /\ HeldInv /\ OneInv /\ SomeInv /\ FinalInv /\ ReplacedOnce

(* What the calls have found. *)
FoundInv ==
    /\ \A c \in Calls : call[c].pc = "found" => call[c].tok \in Tokens /\ token[call[c].tok] # "none"
    /\ \A c \in Calls : call[c].pc = "reused" => call[c].tok \in Tokens /\ token[call[c].tok] = "revoked"
    /\ \A c \in Calls : call[c].pc \in {"login", "reset", "oauth"} => call[c].tok = None
    /\ \A c \in Calls : call[c].pc \in {"claimed", "unusable"} => call[c].tok # None

BarInv == /\ barred # {} => tenant = "SUSPENDED"
          /\ BarredGetNothing

Counted(u) == u.failed <= failures /\ (u.locked => failures >= Threshold)
CountInv   == /\ Counted(user)
              /\ \A c \in Calls : call[c] \in Busy => Counted(call[c].user)

Inv == Types /\ SessionInv /\ FoundInv /\ BarInv /\ CountInv

(***************************************************************************)
(* Calls                                                                   *)
(***************************************************************************)
LEMMA BusyCall ==
  ASSUME CallsOK, NEW c \in Calls, call[c].pc \notin {"idle", "ended"}
  PROVE  call[c] \in Busy
  BY DEF CallsOK, Idle, Ended

LEMMA EndStep ==
  ASSUME CallsOK, NEW c \in Calls, End(c)
  PROVE  held' = [held EXCEPT ![c] = None] /\ making' = [making EXCEPT ![c] = None]
  BY DEF CallsOK, End, Ended, held, making

LEMMA GoStep ==
  ASSUME CallsOK, NEW c \in Calls, NEW p \in Steps, call[c] \in Busy, Go(c, p)
  PROVE  /\ held' = [held EXCEPT ![c] = IF p \in {"claimed", "unusable", "issue"}
                                        THEN call[c].tok ELSE None]
         /\ making' = [making EXCEPT ![c] = IF p \in {"claimed", "issue"}
                                            THEN call[c].tok ELSE None]
<1>1. call'[c].pc = p /\ call'[c].tok = call[c].tok
  BY DEF CallsOK, Go, Busy
<1>2. \A d \in Calls : d # c => call'[d] = call[d]
  BY DEF CallsOK, Go
<1> QED BY <1>1, <1>2 DEF held, making

(* Steps that do not touch the sessions. *)
Aside == /\ UNCHANGED <<token, family, parent, ended, final, lost>>
         /\ held' = held
         /\ \A c \in Calls : making'[c] \in {None, making[c]}

LEMMA AsideSessions ==
  ASSUME SessionInv, Aside
  PROVE  SessionInv'
<1>1. TreeInv' /\ ReplacedOnce'
  BY DEF SessionInv, Aside, TreeInv, ReplacedOnce
<1>2. HeldInv' /\ OneInv' /\ SomeInv' /\ FinalInv'
  BY DEF SessionInv, Aside, HeldInv, OneInv, SomeInv, FinalInv
<1> QED BY <1>1, <1>2 DEF SessionInv

(* Revocation of families, by a call that is not rotating another one. *)
LEMMA RevokeSessions ==
  ASSUME Types, SessionInv, NEW F \in SUBSET Families, RevokeFamilies(F, TRUE),
         \A c \in Calls : \/ held'[c] = held[c] /\ making'[c] \in {None, making[c]}
                          \/ held'[c] = None /\ making'[c] = None /\ family[held[c]] \in F
  PROVE  SessionInv'
<1>1. UNCHANGED <<family, parent, lost>>
  BY DEF RevokeFamilies
<1>2. \A t \in Tokens : token'[t] = IF token[t] = "live" /\ family[t] \in F THEN "revoked" ELSE token[t]
  BY DEF RevokeFamilies
<1>3. ended' = ended \cup F /\ F \subseteq Tokens
  BY DEF RevokeFamilies, Families
<1>4. \A f \in final' : f \in final \/ (f \in F /\ \A c \in Calls : making[c] # None => family[making[c]] # f)
  BY DEF RevokeFamilies, Creating, RotatingIn, making
<1>5. TreeInv'
  <2>1. \A f \in final' : token'[f] # "none"
    BY <1>2, <1>3, <1>4, SessionsDistinct DEF SessionInv, TreeInv, Families, Types, RowsOK, HistoryOK
  <2> QED BY <1>1, <1>2, <2>1 DEF SessionInv, TreeInv, Types, RowsOK
<1>6. HeldInv'
  BY <1>1, <1>2 DEF SessionInv, HeldInv
<1>7. OneInv'
  BY <1>1, <1>2 DEF SessionInv, OneInv
<1>8. SomeInv'
  BY <1>1, <1>2, <1>3 DEF SessionInv, SomeInv
<1>9. FinalInv'
  BY <1>1, <1>2, <1>3, <1>4 DEF SessionInv, FinalInv
<1>10. ReplacedOnce'
  BY <1>1 DEF SessionInv, ReplacedOnce
<1> QED BY <1>5, <1>6, <1>7, <1>8, <1>9, <1>10 DEF SessionInv

LEMMA ClaimSessions ==
  ASSUME Types, SessionInv, FoundInv, NEW c \in Calls, RotateClaim(c)
  PROVE  SessionInv'
<1> DEFINE t == call[c].tok
<1>1. call[c] \in Busy /\ t \in Tokens /\ held[c] = None /\ making[c] = None
  BY BusyCall DEF Types, RotateClaim, At, FoundInv, held, making
<1>2. CASE token[t] # "live"
  <2>1. held' = held /\ making' = making
    BY <1>1, <1>2, EndStep DEF Types, RotateClaim, held, making
  <2> QED BY <1>2, <2>1, AsideSessions DEF Aside, RotateClaim, history, making, held
<1>3. CASE token[t] = "live"
  <2>1. Go(c, "claimed") /\ "claimed" \in Steps
    BY <1>3 DEF RotateClaim, Steps
  <2>2. held' = [held EXCEPT ![c] = t] /\ making' = [making EXCEPT ![c] = t]
    BY <2>1, <1>1, GoStep DEF Types
  <2>3. token' = [token EXCEPT ![t] = "rotated"] /\ UNCHANGED <<family, parent, ended, final, lost>>
    BY <1>3 DEF RotateClaim, history
  <2> HIDE DEF t
  <2>4. held \in [Calls -> Tokens \cup {None}] /\ making \in [Calls -> Tokens \cup {None}]
    BY <1>1 DEF SessionInv, HeldInv, held, making
  <2>5. TreeInv' /\ ReplacedOnce'
    BY <2>3, <1>1, <1>3 DEF SessionInv, TreeInv, ReplacedOnce, Types, RowsOK, HistoryOK
  <2>6. HeldInv'
    BY <2>2, <2>3, <2>4, <1>1, <1>3 DEF SessionInv, HeldInv, TreeInv, Types, RowsOK
  <2>7. OneInv'
    BY <2>2, <2>3, <2>4, <1>1, <1>3 DEF SessionInv, OneInv, Types, RowsOK
  <2>8. SomeInv'
    <3> SUFFICES ASSUME NEW f \in Tokens, family[f] = f, f \notin ended \cup lost
                 PROVE  \/ \E s \in Tokens : token'[s] = "live" /\ family[s] = f
                        \/ \E d \in Calls : held'[d] # None /\ family[held'[d]] = f
      BY <2>3 DEF SomeInv
    <3>1. CASE family[t] = f
      BY <3>1, <2>2, <2>4, <1>1, SessionsDistinct
    <3>2. CASE family[t] # f
      BY <3>2, <2>2, <2>3, <2>4, <1>1 DEF SessionInv, SomeInv, Types, RowsOK
    <3> QED BY <3>1, <3>2
  <2>9. FinalInv'
    BY <2>2, <2>3, <2>4, <1>1, <1>3 DEF SessionInv, FinalInv, Types, RowsOK
  <2> QED BY <2>5, <2>6, <2>7, <2>8, <2>9 DEF SessionInv
<1> QED BY <1>2, <1>3

LEMMA CreateSessions ==
  ASSUME Types, SessionInv, NEW c \in Calls, NEW t \in Tokens, createTokenPair(c, t)
  PROVE  SessionInv'
<1> DEFINE old == call[c].tok
           fam == IF old = None THEN t ELSE family[old]
<1>1. call[c] \in Busy /\ held[c] = old /\ making[c] = old /\ old \in Tokens \cup {None}
  BY BusyCall DEF Types, createTokenPair, At, held, making, Busy
<1>2. held' = [held EXCEPT ![c] = None] /\ making' = [making EXCEPT ![c] = None]
  BY EndStep DEF Types, createTokenPair
<1>3. /\ token[t] = "none" /\ token' = [token EXCEPT ![t] = "live"]
      /\ family' = [family EXCEPT ![t] = fam]
      /\ parent' = [parent EXCEPT ![t] = old]
      /\ UNCHANGED <<ended, final, lost>>
  BY DEF createTokenPair, history
<1>4. held \in [Calls -> Tokens \cup {None}] /\ making \in [Calls -> Tokens \cup {None}]
  BY DEF SessionInv, HeldInv, held, making
<1>5. /\ old # None => /\ token[old] \notin {"none", "live"} /\ old # t /\ \A s \in Tokens : parent[s] # old
                       /\ fam \in Tokens /\ family[fam] = fam /\ fam = family[old]
      /\ old = None => fam = t
  BY <1>1, <1>3 DEF SessionInv, HeldInv, TreeInv
<1>6. None \notin Tokens /\ family[t] = None /\ parent[t] = None /\ fam \in Tokens
  BY <1>3, <1>5, SessionsDistinct DEF SessionInv, TreeInv
<1>7. /\ \A s \in Tokens : token[s] # "none" => s # t /\ family[s] # t
      /\ \A d \in Calls : held[d] # None => held[d] # t /\ family[held[d]] # t
      /\ \A d \in Calls : making[d] # None => held[d] = making[d]
      /\ t \notin final
  BY <1>3, <1>6 DEF SessionInv, TreeInv, HeldInv
<1> HIDE DEF old, fam
<1>8. TreeInv'
  BY <1>1, <1>3, <1>5, <1>6, <1>7 DEF SessionInv, TreeInv, Types, RowsOK, HistoryOK
<1>9. ReplacedOnce'
  BY <1>1, <1>3, <1>5, <1>6 DEF SessionInv, ReplacedOnce, Types, RowsOK
<1>10. HeldInv'
  <2>1. ASSUME NEW d \in Calls, held'[d] # None
        PROVE  held'[d] \in Tokens /\ token'[held'[d]] \notin {"none", "live"} /\ \A s \in Tokens : parent'[s] # held'[d]
    <3>1. d # c /\ held'[d] = held[d]
      BY <2>1, <1>2, <1>4
    <3>2. old # None => held[d] # old
      BY <3>1, <2>1, <1>1 DEF SessionInv, OneInv
    <3> QED BY <2>1, <3>1, <3>2, <1>1, <1>3, <1>7 DEF SessionInv, HeldInv, Types, RowsOK
  <2> QED BY <2>1, <1>2, <1>4 DEF SessionInv, HeldInv
<1>11. OneInv'
  <2>1. \A d \in Calls : held'[d] # None => held'[d] = held[d] /\ d # c /\ family'[held[d]] = family[held[d]]
    BY <1>2, <1>3, <1>4, <1>7 DEF Types, RowsOK
  <2>2. \A s \in Tokens : s # t => token'[s] = token[s] /\ family'[s] = family[s]
    BY <1>3 DEF Types, RowsOK
  <2>3. token'[t] = "live" /\ family'[t] = fam
    BY <1>3 DEF Types, RowsOK
  <2>4. \A s \in Tokens : token[s] = "live" => family[s] # fam
    BY <1>1, <1>5, <1>7 DEF SessionInv, OneInv
  <2>5. \A d \in Calls : held'[d] # None => family[held[d]] # fam
    BY <2>1, <1>1, <1>5, <1>7 DEF SessionInv, OneInv
  <2>6. \A s, u \in Tokens : token'[s] = "live" /\ token'[u] = "live" /\ family'[s] = family'[u] => s = u
    BY <2>2, <2>3, <2>4 DEF SessionInv, OneInv
  <2>7. \A d, e \in Calls : held'[d] # None /\ held'[e] # None /\ family'[held'[d]] = family'[held'[e]] => d = e
    BY <2>1 DEF SessionInv, OneInv
  <2>8. \A s \in Tokens, d \in Calls : token'[s] = "live" /\ held'[d] # None => family'[s] # family'[held'[d]]
    BY <2>1, <2>2, <2>3, <2>5 DEF SessionInv, OneInv
  <2> QED BY <2>6, <2>7, <2>8 DEF OneInv
<1>12. SomeInv'
  <2> SUFFICES ASSUME NEW f \in Tokens, family'[f] = f, f \notin ended \cup lost
               PROVE  \/ \E s \in Tokens : token'[s] = "live" /\ family'[s] = f
                      \/ \E d \in Calls : held'[d] # None /\ family'[held'[d]] = f
    BY <1>3 DEF SomeInv
  <2>1. CASE f = fam
    BY <2>1, <1>3 DEF Types, RowsOK
  <2>2. CASE f # fam
    <3>1. family[f] = f
      BY <2>2, <1>3 DEF Types, RowsOK
    <3>2. CASE \E s \in Tokens : token[s] = "live" /\ family[s] = f
      BY <3>2, <1>3 DEF Types, RowsOK
    <3>3. CASE \E d \in Calls : held[d] # None /\ family[held[d]] = f
      <4>1. PICK d \in Calls : held[d] # None /\ family[held[d]] = f
        BY <3>3
      <4>2. d # c
        BY <4>1, <2>2, <1>1, <1>5
      <4> QED BY <4>1, <4>2, <1>2, <1>3, <1>4, <1>7 DEF Types, RowsOK
    <3> QED BY <3>1, <3>2, <3>3 DEF SessionInv, SomeInv
  <2> QED BY <2>1, <2>2
<1>13. FinalInv'
  <2>1. fam \notin final
    BY <1>1, <1>5, <1>7 DEF SessionInv, FinalInv
  <2>2. \A d \in Calls : making'[d] # None => making'[d] = making[d] /\ making[d] # t
    BY <1>2, <1>4, <1>7
  <2> QED BY <2>1, <2>2, <1>3, <1>4 DEF SessionInv, FinalInv, Types, RowsOK
<1> QED BY <1>8, <1>9, <1>10, <1>11, <1>12, <1>13 DEF SessionInv

LEMMA FailSessions ==
  ASSUME Types, SessionInv, NEW c \in Calls, CallFails(c)
  PROVE  SessionInv'
<1>1. held' = [held EXCEPT ![c] = None] /\ making' = [making EXCEPT ![c] = None]
  BY EndStep DEF Types, CallFails
<1>2. UNCHANGED <<token, family, parent, ended, final>>
  BY DEF CallFails, rows
<1>3. lost \subseteq lost' /\ (held[c] # None => family[held[c]] \in lost')
  BY DEF CallFails, Rotating, RotatingIn, held, SessionInv, HeldInv, TreeInv
<1>4. \A d \in Calls : /\ d # c => held'[d] = held[d] /\ making'[d] = making[d]
                       /\ held'[c] = None /\ making'[c] = None
  BY <1>1 DEF held, making
<1>5. TreeInv' /\ ReplacedOnce' /\ HeldInv' /\ OneInv' /\ FinalInv'
  BY <1>2, <1>4 DEF SessionInv, TreeInv, ReplacedOnce, HeldInv, OneInv, FinalInv
<1>6. SomeInv'
  BY <1>2, <1>3, <1>4 DEF SessionInv, SomeInv
<1> QED BY <1>5, <1>6 DEF SessionInv

LEMMA GraceSessions ==
  ASSUME Types, SessionInv, NEW t \in Tokens, GraceEnds(t)
  PROVE  SessionInv'
<1>1. UNCHANGED <<family, parent, ended, final, lost>> /\ held' = held /\ making' = making
  BY DEF GraceEnds, history, held, making
<1>2. /\ token[t] = "rotated" /\ token'[t] = "revoked"
      /\ \A s \in Tokens : s # t => token'[s] = token[s]
  BY DEF GraceEnds, Types, RowsOK
<1>3. TreeInv' /\ ReplacedOnce' /\ HeldInv'
  BY <1>1, <1>2 DEF SessionInv, TreeInv, ReplacedOnce, HeldInv, Types, RowsOK, HistoryOK
<1>4. OneInv' /\ SomeInv' /\ FinalInv'
  BY <1>1, <1>2 DEF SessionInv, OneInv, SomeInv, FinalInv
<1> QED BY <1>3, <1>4 DEF SessionInv

(***************************************************************************)
(* What a step does to its call                                            *)
(***************************************************************************)
LEMMA BeginCall ==
  ASSUME CallsOK, NEW c \in Calls, NEW p \in Steps \ {"claimed", "unusable", "issue"},
         NEW t \in Tokens \cup {None}, NEW u \in Users, Begin(c, p, t, u)
  PROVE  /\ CallsOK' /\ call'[c] = [pc |-> p, tok |-> t, user |-> u] /\ call'[c] \in Busy
         /\ \A d \in Calls : d # c => call'[d] = call[d]
         /\ held' = held /\ making' = making
<1>1. call'[c] = [pc |-> p, tok |-> t, user |-> u] /\ call'[c] \in Busy /\ call[c].pc = "idle"
  BY DEF CallsOK, Begin, Busy, Idle
<1>2. \A d \in Calls : d # c => call'[d] = call[d]
  BY DEF CallsOK, Begin
<1>3. CallsOK'
  BY <1>1 DEF CallsOK, Begin
<1>4. held' = held /\ making' = making
  BY <1>1, <1>2 DEF held, making
<1> QED BY <1>1, <1>2, <1>3, <1>4

LEMMA GoCall ==
  ASSUME CallsOK, NEW c \in Calls, NEW p \in Steps, call[c] \in Busy, Go(c, p)
  PROVE  /\ CallsOK' /\ call'[c] = [call[c] EXCEPT !.pc = p] /\ call'[c] \in Busy
         /\ call'[c].pc = p /\ call'[c].tok = call[c].tok /\ call'[c].user = call[c].user
         /\ \A d \in Calls : d # c => call'[d] = call[d]
  BY DEF CallsOK, Go, Busy

LEMMA EndCall ==
  ASSUME CallsOK, NEW c \in Calls, End(c)
  PROVE  /\ CallsOK' /\ call'[c] = Ended /\ call'[c].pc = "ended" /\ call'[c] \notin Busy
         /\ \A d \in Calls : d # c => call'[d] = call[d]
  BY DEF CallsOK, End, Ended, Busy

(* What a step of c must respect for the calls' invariants. *)
Calm(c) ==
    /\ \A d \in Calls : d # c => call'[d] = call[d]
    /\ \A t \in Tokens : /\ token[t] # "none" => token'[t] # "none"
                         /\ token[t] = "revoked" => token'[t] = "revoked"
    /\ call'[c].pc = "found" => call'[c].tok \in Tokens /\ token'[call'[c].tok] # "none"
    /\ call'[c].pc = "reused" => call'[c].tok \in Tokens /\ token'[call'[c].tok] = "revoked"
    /\ call'[c].pc \in {"login", "reset", "oauth"} => call'[c].tok = None
    /\ call'[c].pc \in {"claimed", "unusable"} => call'[c].tok # None
    /\ call'[c].pc = "issue" /\ call'[c].tok # None =>
          c \notin barred' /\ call'[c].user.status = "ACTIVE"

Bars(c) == barred' \subseteq barred \cup {c} /\ (barred' # {} => tenant' = "SUSPENDED")

Counts(c) == /\ failures' \in Nat /\ failures <= failures'
             /\ Counted(user)'
             /\ call'[c] \in Busy => Counted(call[c].user)'

LEMMA CalmStep ==
  ASSUME Inv, NEW c \in Calls, Calm(c), Bars(c)
  PROVE  FoundInv' /\ BarInv'
<1>1. FoundInv'
  BY DEF Inv, FoundInv, Calm
<1>2. BarInv'
  BY DEF Inv, BarInv, BarredGetNothing, At, Calm, Bars
<1> QED BY <1>1, <1>2

LEMMA CountStep ==
  ASSUME Inv, CallsOK', NEW c \in Calls, \A d \in Calls : d # c => call'[d] = call[d], Counts(c)
  PROVE  CountInv'
<1> SUFFICES ASSUME NEW d \in Calls, call'[d] \in Busy, d # c
             PROVE  Counted(call[d].user)'
  BY DEF Counts, CountInv
<1>1. call'[d] = call[d] /\ Counted(call[d].user) /\ call[d].user \in Users
  BY DEF Inv, CountInv, Busy
<1> QED BY <1>1, ThresholdAssumption DEF Counts, Counted, Users, Inv, Types, HistoryOK

(***************************************************************************)
(* Steps                                                                   *)
(***************************************************************************)
LEMMA UserTypes ==
  ASSUME user \in Users
  PROVE  /\ [user EXCEPT !.failed = 0, !.locked = FALSE] \in Users
         /\ [user EXCEPT !.status = "INACTIVE"] \in Users
         /\ [user EXCEPT !.status = "ACTIVE"] \in Users
         /\ [user EXCEPT !.locked = FALSE] \in Users
         /\ \A role \in {"AGENT", "TENANT_MANAGER"} : [user EXCEPT !.role = role] \in Users
  BY DEF Users

(* Reads that begin a call. *)
LEMMA BeginReads ==
  ASSUME Inv, NEW c \in Calls,
         NEW p \in {"login", "failed", "oauth", "revokeAll", "write"},
         NEW u \in Users, Begin(c, p, None, u),
         u.failed = user.failed, u.locked = user.locked,
         UNCHANGED <<rows, account, history, barred>>
  PROVE  Inv'
<1>1. p \in Steps \ {"claimed", "unusable", "issue"} /\ CallsOK /\ user \in Users
  BY DEF Steps, Inv, Types, AccountOK
<1>2. /\ CallsOK' /\ call'[c] = [pc |-> p, tok |-> None, user |-> u] /\ call'[c] \in Busy
      /\ \A d \in Calls : d # c => call'[d] = call[d]
      /\ held' = held /\ making' = making
  BY <1>1, BeginCall
<1>3. Types'
  BY <1>2 DEF Inv, Types, RowsOK, AccountOK, HistoryOK, rows, account, history
<1>4. SessionInv'
  BY <1>2, AsideSessions DEF Inv, Aside, rows, history, making
<1>5. Calm(c) /\ Bars(c)
  BY <1>2 DEF Calm, Bars, rows, account, Inv, BarInv
<1>6. Counts(c)
  BY <1>2 DEF Counts, Counted, account, history, Inv, Types, HistoryOK, CountInv
<1>7. FoundInv' /\ BarInv' /\ CountInv'
  BY <1>2, <1>5, <1>6, CalmStep, CountStep
<1> QED BY <1>3, <1>4, <1>7 DEF Inv

(* Calls that end and change nothing else. *)
LEMMA JustEnds ==
  ASSUME Inv, NEW c \in Calls, End(c), held[c] = None,
         UNCHANGED <<rows, account, history>>, Bars(c)
  PROVE  Inv'
<1>1. /\ CallsOK' /\ call'[c] = Ended /\ call'[c].pc = "ended" /\ call'[c] \notin Busy
      /\ \A d \in Calls : d # c => call'[d] = call[d]
  BY EndCall DEF Inv, Types
<1>2. held' = held /\ \A d \in Calls : making'[d] \in {None, making[d]}
  BY EndStep DEF Inv, Types, held, making
<1>3. Types'
  BY <1>1 DEF Inv, Types, RowsOK, AccountOK, HistoryOK, rows, account, history, Bars
<1>4. SessionInv'
  BY <1>2, AsideSessions DEF Inv, Aside, rows, history
<1>5. Calm(c)
  BY <1>1 DEF Calm, rows, account, Inv, BarInv
<1>6. Counts(c)
  BY <1>1 DEF Counts, Counted, account, history, Inv, Types, HistoryOK, CountInv
<1>7. FoundInv' /\ BarInv' /\ CountInv'
  BY <1>1, <1>5, <1>6, CalmStep, CountStep
<1> QED BY <1>3, <1>4, <1>7 DEF Inv

LEMMA LoginReads ==
  ASSUME Inv, NEW c \in Calls,
         \/ \E good \in BOOLEAN : LoginRead(c, good)
         \/ OAuthRead(c) \/ LogoutEverywhere(c)
         \/ \E role \in {"AGENT", "TENANT_MANAGER"} : ReadUser(c, role)
  PROVE  Inv'
<1>1. user \in Users /\ (call[c] = Idle => held[c] = None)
  BY DEF Inv, Types, AccountOK, Idle, held
<1>2. ASSUME NEW good \in BOOLEAN, LoginRead(c, good) PROVE Inv'
  <2>1. UNCHANGED <<rows, account, history, barred>> /\ call[c] = Idle
    BY <1>2 DEF LoginRead
  <2>2. CASE End(c)
    BY <2>1, <2>2, <1>1, JustEnds DEF Bars, account, Inv, BarInv
  <2>3. CASE Begin(c, "login", None, user)
    BY <2>1, <2>3, <1>1, BeginReads
  <2>4. CASE Begin(c, "failed", None, user)
    BY <2>1, <2>4, <1>1, BeginReads
  <2> QED BY <1>2, <2>2, <2>3, <2>4 DEF LoginRead
<1>3. CASE OAuthRead(c)
  BY <1>3, <1>1, BeginReads DEF OAuthRead
<1>4. CASE LogoutEverywhere(c)
  BY <1>4, <1>1, BeginReads DEF LogoutEverywhere
<1>5. ASSUME NEW role \in {"AGENT", "TENANT_MANAGER"}, ReadUser(c, role) PROVE Inv'
  <2> DEFINE u == [user EXCEPT !.role = role]
  <2>1. u \in Users /\ u.failed = user.failed /\ u.locked = user.locked
    BY <1>1, UserTypes DEF Users
  <2>2. Begin(c, "write", None, u) /\ UNCHANGED <<rows, account, history, barred>>
    BY <1>5 DEF ReadUser
  <2> HIDE DEF u
  <2> QED BY <2>1, <2>2, BeginReads
<1> QED BY <1>2, <1>3, <1>4, <1>5

(* Steps that go on inside a login or a refresh. *)
LEMMA GoesOn ==
  ASSUME Inv, NEW c \in Calls, NEW p \in {"reset", "issue", "unusable"}, call[c] \in Busy, Go(c, p),
         \/ call[c].tok = None /\ p # "unusable" /\ call[c].pc \notin {"claimed", "unusable", "issue"}
         \/ call[c].pc = "claimed" /\ p # "reset",
         p = "issue" /\ call[c].tok # None => tenant # "SUSPENDED" /\ call[c].user.status = "ACTIVE",
         UNCHANGED <<rows, account, history, barred>>
  PROVE  Inv'
<1>1. p \in Steps /\ CallsOK /\ call[c].pc \in Steps
  BY DEF Steps, Inv, Types, Busy
<1>2. /\ CallsOK' /\ call'[c] \in Busy
      /\ call'[c].pc = p /\ call'[c].tok = call[c].tok /\ call'[c].user = call[c].user
      /\ \A d \in Calls : d # c => call'[d] = call[d]
  BY <1>1, GoCall
<1>3. held' = held /\ \A d \in Calls : making'[d] \in {None, making[d]}
  <2>1. CASE call[c].pc = "claimed"
    BY <2>1, <1>2 DEF held, making
  <2>2. CASE call[c].pc # "claimed"
    BY <2>2, <1>2 DEF held, making
  <2> QED BY <2>1, <2>2
<1>4. Types'
  BY <1>2 DEF Inv, Types, RowsOK, AccountOK, HistoryOK, rows, account, history
<1>5. SessionInv'
  BY <1>3, AsideSessions DEF Inv, Aside, rows, history
<1>6. Calm(c) /\ Bars(c)
  BY <1>2 DEF Calm, Bars, rows, account, Inv, BarInv, FoundInv
<1>7. Counts(c)
  BY <1>2 DEF Counts, Counted, account, history, Inv, Types, HistoryOK, CountInv
<1>8. FoundInv' /\ BarInv' /\ CountInv'
  BY <1>2, <1>6, <1>7, CalmStep, CountStep
<1> QED BY <1>4, <1>5, <1>8 DEF Inv

LEMMA Checks ==
  ASSUME Inv, NEW c \in Calls,
         \/ LoginTenant(c)
         \/ \E over \in BOOLEAN : OAuthCheck(c, over) \/ RotateCheck(c, over)
  PROVE  Inv'
<1>1. CallsOK /\ Bars(c) /\ UNCHANGED <<rows, account, history, barred>>
  BY DEF Inv, Types, Bars, BarInv, LoginTenant, OAuthCheck, RotateCheck, account
<1>2. call[c] \in Busy /\ call[c].pc \in {"login", "oauth", "claimed"}
  BY <1>1, BusyCall DEF LoginTenant, OAuthCheck, RotateCheck, At
<1>3. CASE LoginTenant(c)
  <2>1. call[c].pc = "login" /\ call[c].tok = None /\ held[c] = None
    BY <1>3 DEF LoginTenant, At, Inv, FoundInv, held
  <2> QED BY <1>1, <1>2, <1>3, <2>1, GoesOn, JustEnds DEF LoginTenant
<1>4. ASSUME NEW over \in BOOLEAN, OAuthCheck(c, over) PROVE Inv'
  <2>1. call[c].pc = "oauth" /\ call[c].tok = None /\ held[c] = None
    BY <1>4 DEF OAuthCheck, At, Inv, FoundInv, held
  <2> QED BY <1>1, <1>2, <1>4, <2>1, GoesOn, JustEnds DEF OAuthCheck
<1>5. ASSUME NEW over \in BOOLEAN, RotateCheck(c, over) PROVE Inv'
  <2>1. call[c].pc = "claimed" /\ call[c].tok # None
    BY <1>5 DEF RotateCheck, At, Inv, FoundInv
  <2> QED BY <1>1, <1>2, <1>5, <2>1, GoesOn DEF RotateCheck, assertAccountUsable
<1> QED BY <1>3, <1>4, <1>5

(* A refresh looks its token up. *)
LEMMA Finds ==
  ASSUME Inv, NEW c \in Calls, NEW t \in Tokens, RotateFind(c, t)
  PROVE  Inv'
<1>1. /\ call[c] = Idle /\ token[t] # "none" /\ CallsOK /\ user \in Users
      /\ UNCHANGED <<rows, account, history>> /\ Bars(c) /\ held[c] = None
  BY DEF RotateFind, Inv, Types, AccountOK, BarInv, Bars, account, Idle, held
<1>2. CASE End(c)
  BY <1>1, <1>2, JustEnds
<1>3. ASSUME NEW p \in {"found", "reused"}, Begin(c, p, t, user), p = "reused" => token[t] = "revoked"
      PROVE  Inv'
  <2>1. p \in Steps \ {"claimed", "unusable", "issue"}
    BY DEF Steps
  <2>2. /\ CallsOK' /\ call'[c] = [pc |-> p, tok |-> t, user |-> user] /\ call'[c] \in Busy
        /\ \A d \in Calls : d # c => call'[d] = call[d]
        /\ held' = held /\ making' = making
    BY <1>1, <1>3, <2>1, BeginCall
  <2>3. Types'
    BY <1>1, <2>2 DEF Inv, Types, RowsOK, AccountOK, HistoryOK, rows, account, history, Bars
  <2>4. SessionInv'
    BY <1>1, <2>2, AsideSessions DEF Inv, Aside, rows, history, making
  <2>5. Calm(c)
    BY <1>1, <1>3, <2>2 DEF Calm, rows
  <2>6. Counts(c)
    BY <1>1, <2>2 DEF Counts, Counted, account, history, Inv, Types, HistoryOK, CountInv
  <2>7. FoundInv' /\ BarInv' /\ CountInv'
    BY <1>1, <2>2, <2>5, <2>6, CalmStep, CountStep
  <2> QED BY <2>3, <2>4, <2>7 DEF Inv
<1> QED BY <1>2, <1>3 DEF RotateFind

(* Steps that write the account and leave the sessions alone. *)
LEMMA AccountWrites ==
  ASSUME Inv, NEW c \in Calls, UNCHANGED <<rows, ended, final, lost>>,
         CallsOK', user' \in Users, tenant' \in {"ACTIVE", "SUSPENDED"},
         held' = held, making' = making,
         call'[c].pc \in {"ended", "revokeAll"} \/ (call'[c].pc = "issue" /\ call'[c].tok = None),
         \A d \in Calls : d # c => call'[d] = call[d],
         barred' \subseteq barred, Bars(c), Counts(c)
  PROVE  Inv'
<1>1. Types'
  BY DEF Inv, Types, RowsOK, AccountOK, HistoryOK, rows, Counts
<1>2. SessionInv'
  BY AsideSessions DEF Inv, Aside, rows, making
<1>3. Calm(c)
  BY DEF Calm, rows
<1>4. FoundInv' /\ BarInv' /\ CountInv'
  BY <1>3, CalmStep, CountStep
<1> QED BY <1>1, <1>2, <1>4 DEF Inv

LEMMA Fails ==
  ASSUME Inv, NEW c \in Calls, recordFailedLogin(c)
  PROVE  Inv'
<1> DEFINE n == call[c].user.failed + 1
           b == user.locked \/ n >= Threshold
<1>1. /\ call[c] \in Busy /\ call[c].pc = "failed" /\ call[c].user \in Users /\ Counted(call[c].user)
      /\ user \in Users /\ Counted(user) /\ failures \in Nat /\ CallsOK
  BY BusyCall DEF recordFailedLogin, At, Inv, Types, AccountOK, HistoryOK, CountInv, Busy
<1>2. n \in Nat /\ n <= failures + 1 /\ failures' = failures + 1
  BY <1>1 DEF Users, Counted, recordFailedLogin
<1>3. b \in BOOLEAN
  OBVIOUS
<1>4. b => failures + 1 >= Threshold
  BY <1>1, <1>2, ThresholdAssumption DEF Counted
<1>5. user' = [user EXCEPT !.failed = n, !.locked = b]
  BY Zenon DEF recordFailedLogin
<1> HIDE DEF n, b
<1>6. user' \in Users /\ user'.failed = n /\ user'.locked = b
  BY <1>1, <1>2, <1>3, <1>5 DEF Users
<1>7. /\ CallsOK' /\ call'[c].pc = "ended" /\ call'[c] \notin Busy
      /\ \A d \in Calls : d # c => call'[d] = call[d]
  BY <1>1, EndCall DEF recordFailedLogin
<1>8. held' = held /\ making' = making
  BY <1>1, <1>7 DEF held, making
<1>9. Counts(c)
  BY <1>1, <1>2, <1>4, <1>6, <1>7 DEF Counts, Counted
<1>10. UNCHANGED <<rows, ended, final, lost, barred>> /\ tenant' \in {"ACTIVE", "SUSPENDED"} /\ Bars(c)
  BY DEF recordFailedLogin, Inv, Types, AccountOK, Bars, BarInv
<1> QED BY <1>6, <1>7, <1>8, <1>9, <1>10, AccountWrites

LEMMA Resets ==
  ASSUME Inv, NEW c \in Calls, LoginReset(c)
  PROVE  Inv'
<1>1. /\ call[c] \in Busy /\ call[c].pc = "reset" /\ call[c].tok = None /\ CallsOK
      /\ user \in Users /\ failures \in Nat /\ "issue" \in Steps /\ call[c].user \in Users
  BY BusyCall DEF LoginReset, At, Inv, Types, AccountOK, HistoryOK, FoundInv, Steps, Busy
<1>2. user' \in Users /\ user'.failed = 0 /\ user'.locked = FALSE
  BY <1>1, UserTypes DEF LoginReset, Users
<1>3. /\ CallsOK' /\ call'[c].pc = "issue" /\ call'[c].tok = None /\ call'[c].user = call[c].user
      /\ \A d \in Calls : d # c => call'[d] = call[d]
  BY <1>1, GoCall DEF LoginReset
<1>4. held' = held /\ making' = making
  BY <1>1, <1>3 DEF held, making
<1>5. UNCHANGED <<rows, failures, ended, final, lost, barred>> /\ tenant' \in {"ACTIVE", "SUSPENDED"} /\ Bars(c)
  BY DEF LoginReset, history, Inv, Types, AccountOK, Bars, BarInv
<1>6. Counts(c)
  BY <1>1, <1>2, <1>3, <1>5 DEF Counts, Counted, Inv, CountInv
<1> QED BY <1>2, <1>3, <1>4, <1>5, <1>6, AccountWrites

(* Operations that write the account and revoke every session afterwards. *)
LEMMA WriteThenRevoke ==
  ASSUME Inv, NEW c \in Calls,
         resetPassword(c) \/ Deactivate(c) \/ suspendTenant(c)
  PROVE  Inv'
<1>1. /\ CallsOK /\ user \in Users /\ failures \in Nat /\ Counted(user)
      /\ "revokeAll" \in Steps \ {"claimed", "unusable", "issue"}
  BY DEF Inv, Types, AccountOK, HistoryOK, CountInv, Steps
<1>2. Begin(c, "revokeAll", None, user) /\ UNCHANGED <<rows, failures, ended, final, lost, barred>>
  BY DEF resetPassword, Deactivate, suspendTenant, history
<1>3. /\ CallsOK' /\ call'[c] = [pc |-> "revokeAll", tok |-> None, user |-> user] /\ call'[c] \in Busy
      /\ \A d \in Calls : d # c => call'[d] = call[d]
      /\ held' = held /\ making' = making
  BY <1>1, <1>2, BeginCall
<1>4. /\ user' \in Users /\ user'.failed <= user.failed /\ (user'.locked => user.locked)
      /\ tenant' \in {"ACTIVE", "SUSPENDED"} /\ (tenant = "SUSPENDED" => tenant' = "SUSPENDED")
  <2>0. user.failed \in Nat /\ tenant \in {"ACTIVE", "SUSPENDED"}
    BY <1>1 DEF Users, Inv, Types, AccountOK
  <2>1. CASE resetPassword(c)
    BY <1>1, <2>0, <2>1, UserTypes DEF resetPassword, Users
  <2>2. CASE Deactivate(c)
    BY <1>1, <2>0, <2>2, UserTypes DEF Deactivate, Users
  <2>3. CASE suspendTenant(c)
    BY <1>1, <2>0, <2>3 DEF suspendTenant
  <2> QED BY <2>1, <2>2, <2>3
<1>5. Counts(c)
  <2>1. user.failed \in Nat /\ user'.failed \in Nat /\ user'.failed <= failures /\ user.failed <= failures
    BY <1>1, <1>4 DEF Users, Counted
  <2>2. (user'.locked => failures >= Threshold) /\ (user.locked => failures >= Threshold)
    BY <1>1, <1>4 DEF Counted
  <2> QED BY <1>1, <1>2, <1>3, <2>1, <2>2 DEF Counts, Counted
<1>6. Bars(c)
  BY <1>2, <1>4 DEF Bars, Inv, BarInv
<1> QED BY <1>2, <1>3, <1>4, <1>5, <1>6, AccountWrites

LEMMA Restores ==
  ASSUME Inv, NEW c \in Calls, Activate(c) \/ restoreTenant(c)
  PROVE  Inv'
<1>1. CallsOK /\ user \in Users /\ failures \in Nat /\ Counted(user) /\ End(c) /\ held[c] = None /\ making[c] = None
  BY DEF Inv, Types, AccountOK, HistoryOK, CountInv, Activate, restoreTenant, Idle, held, making
<1>2. /\ CallsOK' /\ call'[c].pc = "ended" /\ call'[c] \notin Busy
      /\ \A d \in Calls : d # c => call'[d] = call[d]
  BY <1>1, EndCall
<1>3. held' = held /\ making' = making
  BY <1>1, EndStep DEF held, making
<1>4. /\ UNCHANGED <<rows, failures, ended, final, lost>> /\ barred' \subseteq barred
      /\ user' \in Users /\ user'.failed = user.failed /\ user'.locked = user.locked
      /\ tenant' \in {"ACTIVE", "SUSPENDED"} /\ (barred' # {} => tenant' = "SUSPENDED")
  BY <1>1, UserTypes DEF Activate, restoreTenant, history, Users, Inv, Types, AccountOK, BarInv
<1>5. Counts(c)
  BY <1>1, <1>2, <1>4 DEF Counts, Counted
<1>6. Bars(c)
  BY <1>4 DEF Bars
<1> QED BY <1>2, <1>3, <1>4, <1>5, <1>6, AccountWrites

LEMMA Writes ==
  ASSUME Inv, NEW c \in Calls, WriteUser(c)
  PROVE  Inv'
<1>1. /\ call[c] \in Busy /\ call[c].pc = "write" /\ CallsOK /\ held[c] = None /\ making[c] = None
      /\ call[c].user \in Users /\ Counted(call[c].user) /\ failures \in Nat /\ "revokeAll" \in Steps
  BY BusyCall DEF WriteUser, At, Inv, Types, HistoryOK, CountInv, Steps, Busy, held, making
<1>2. user' = call[c].user /\ UNCHANGED <<rows, tenant, failures, ended, final, lost, barred>>
  BY DEF WriteUser, history
<1>3. /\ CallsOK' /\ call'[c].pc \in {"ended", "revokeAll"}
      /\ \A d \in Calls : d # c => call'[d] = call[d]
      /\ call'[c] \in Busy => call'[c].user = call[c].user
  <2>1. CASE End(c) BY <1>1, <2>1, EndCall
  <2>2. CASE Go(c, "revokeAll") BY <1>1, <2>2, GoCall
  <2> QED BY <2>1, <2>2 DEF WriteUser
<1>4. held' = held /\ making' = making
  BY <1>1, <1>3 DEF held, making
<1>5. Counts(c) /\ Bars(c) /\ tenant' \in {"ACTIVE", "SUSPENDED"}
  BY <1>1, <1>2, <1>3 DEF Counts, Counted, Bars, Inv, BarInv, Types, AccountOK
<1> QED BY <1>1, <1>2, <1>3, <1>4, <1>5, AccountWrites

(* Steps that revoke families and end. *)
LEMMA RevokeEnds ==
  ASSUME Inv, NEW c \in Calls, NEW F \in SUBSET Families, RevokeFamilies(F, TRUE), End(c),
         held[c] = None \/ family[held[c]] \in F
  PROVE  Inv'
<1>1. /\ CallsOK' /\ call'[c].pc = "ended" /\ call'[c] \notin Busy
      /\ \A d \in Calls : d # c => call'[d] = call[d]
  BY EndCall DEF Inv, Types
<1>2. \A d \in Calls : \/ held'[d] = held[d] /\ making'[d] \in {None, making[d]}
                       \/ held'[d] = None /\ making'[d] = None /\ family[held[d]] \in F
  <2>1. held'[c] = None /\ making'[c] = None
    BY <1>1 DEF held, making
  <2>2. \A d \in Calls : d # c => held'[d] = held[d] /\ making'[d] = making[d]
    BY <1>1 DEF held, making
  <2> QED BY <2>1, <2>2
<1>3. SessionInv'
  BY <1>2, RevokeSessions DEF Inv
<1>4. /\ UNCHANGED <<family, expired, parent, user, tenant, failures, lost, barred>> /\ F \subseteq Tokens
      /\ token' \in [Tokens -> TokenStates] /\ ended' \subseteq Tokens /\ final' \subseteq Tokens
  BY DEF RevokeFamilies, account, Families, Inv, Types, RowsOK, HistoryOK, TokenStates
<1>5. Types'
  BY <1>1, <1>4 DEF Inv, Types, RowsOK, AccountOK, HistoryOK
<1>6. \A t \in Tokens : /\ token[t] # "none" => token'[t] # "none"
                        /\ token[t] = "revoked" => token'[t] = "revoked"
  BY DEF RevokeFamilies
<1>7. Calm(c) /\ Bars(c)
  BY <1>1, <1>4, <1>6 DEF Calm, Bars, Inv, BarInv
<1>8. Counts(c)
  BY <1>1, <1>4 DEF Counts, Counted, Inv, Types, HistoryOK, CountInv
<1>9. FoundInv' /\ BarInv' /\ CountInv'
  BY <1>1, <1>7, <1>8, CalmStep, CountStep
<1> QED BY <1>3, <1>5, <1>9 DEF Inv

LEMMA Revokes ==
  ASSUME Inv, NEW c \in Calls,
         \/ RevokeReused(c) \/ RevokeUnusable(c) \/ revokeAllUserTokens(c)
         \/ \E t \in Tokens : revokeToken(c, t)
  PROVE  Inv'
<1>1. \A t \in Tokens : token[t] # "none" => {family[t]} \in SUBSET Families
  BY DEF Inv, SessionInv, TreeInv, Families
<1>2. CASE RevokeReused(c)
  <2>1. call[c].tok \in Tokens /\ token[call[c].tok] = "revoked" /\ held[c] = None
    BY <1>2 DEF RevokeReused, At, Inv, FoundInv, held
  <2>2. RevokeFamilies({family[call[c].tok]}, TRUE) /\ End(c)
    BY <1>2, <2>1 DEF RevokeReused, RevokeFamilies
  <2> QED BY <1>1, <2>1, <2>2, RevokeEnds
<1>3. CASE RevokeUnusable(c)
  <2>1. call[c].tok # None /\ held[c] = call[c].tok
    BY <1>3 DEF RevokeUnusable, At, Inv, FoundInv, held
  <2>2. call[c].tok \in Tokens /\ token[call[c].tok] # "none"
    BY <2>1 DEF Inv, SessionInv, HeldInv
  <2>3. RevokeFamilies({family[call[c].tok]}, TRUE) /\ End(c)
    BY <1>3 DEF RevokeUnusable
  <2> QED BY <1>1, <2>1, <2>2, <2>3, RevokeEnds
<1>4. CASE revokeAllUserTokens(c)
  <2>1. held[c] = None /\ RevokeFamilies(Families, TRUE) /\ End(c)
    BY <1>4 DEF revokeAllUserTokens, At, held
  <2> QED BY <2>1, RevokeEnds
<1>5. ASSUME NEW t \in Tokens, revokeToken(c, t) PROVE Inv'
  <2>1. RevokeFamilies({family[t]}, TRUE) /\ End(c) /\ token[t] # "none" /\ call[c] = Idle
    BY <1>5, Zenon DEF revokeToken
  <2>2. held[c] = None
    BY <2>1 DEF Idle, held
  <2> QED BY <1>1, <2>1, <2>2, RevokeEnds
<1> QED BY <1>2, <1>3, <1>4, <1>5

LEMMA Creates ==
  ASSUME Inv, NEW c \in Calls, NEW t \in Tokens, createTokenPair(c, t)
  PROVE  Inv'
<1>1. SessionInv'
  BY CreateSessions DEF Inv
<1>2. /\ CallsOK' /\ call'[c].pc = "ended" /\ call'[c] \notin Busy
      /\ \A d \in Calls : d # c => call'[d] = call[d]
  BY EndCall DEF Inv, Types, createTokenPair
<1>3. call[c] \in Busy /\ call[c].tok \in Tokens \cup {None}
  BY BusyCall DEF createTokenPair, At, Inv, Types, Busy
<1>4. /\ UNCHANGED <<expired, user, tenant, failures, ended, final, lost, barred>>
      /\ token[t] = "none" /\ token' = [token EXCEPT ![t] = "live"]
  BY DEF createTokenPair, account, history
<1>5. Types'
  BY <1>2, <1>3, <1>4 DEF Inv, Types, RowsOK, AccountOK, HistoryOK, createTokenPair, TokenStates
<1>6. Calm(c) /\ Bars(c)
  BY <1>2, <1>4 DEF Calm, Bars, Inv, BarInv, Types, RowsOK
<1>7. Counts(c)
  BY <1>2, <1>4 DEF Counts, Counted, Inv, Types, HistoryOK, CountInv
<1>8. FoundInv' /\ BarInv' /\ CountInv'
  BY <1>2, <1>6, <1>7, CalmStep, CountStep
<1> QED BY <1>1, <1>5, <1>8 DEF Inv

LEMMA Claims ==
  ASSUME Inv, NEW c \in Calls, RotateClaim(c)
  PROVE  Inv'
<1>1. SessionInv'
  BY ClaimSessions DEF Inv
<1>2. call[c] \in Busy /\ call[c].tok \in Tokens /\ CallsOK /\ "claimed" \in Steps
  BY BusyCall DEF RotateClaim, At, Inv, Types, FoundInv, Steps
<1>3. /\ CallsOK' /\ call'[c].pc \in {"claimed", "ended"}
      /\ call'[c].pc = "claimed" => call'[c].tok = call[c].tok
      /\ call'[c] \in Busy => call'[c].user = call[c].user
      /\ \A d \in Calls : d # c => call'[d] = call[d]
  <2>1. CASE End(c) BY <1>2, <2>1, EndCall
  <2>2. CASE Go(c, "claimed") BY <1>2, <2>2, GoCall
  <2> QED BY <2>1, <2>2 DEF RotateClaim
<1>4. /\ UNCHANGED <<family, expired, parent, user, tenant, failures, ended, final, lost, barred>>
      /\ token' \in [Tokens -> TokenStates]
      /\ \A t \in Tokens : /\ token[t] # "none" => token'[t] # "none"
                           /\ token[t] = "revoked" => token'[t] = "revoked"
  BY <1>2 DEF RotateClaim, account, history, Inv, Types, RowsOK, TokenStates
<1>5. Types'
  BY <1>3, <1>4 DEF Inv, Types, RowsOK, AccountOK, HistoryOK
<1>6. Calm(c) /\ Bars(c)
  BY <1>2, <1>3, <1>4, SessionsDistinct DEF Calm, Bars, Inv, BarInv
<1>7. Counts(c)
  BY <1>2, <1>3, <1>4 DEF Counts, Counted, Inv, Types, HistoryOK, CountInv
<1>8. FoundInv' /\ BarInv' /\ CountInv'
  BY <1>3, <1>6, <1>7, CalmStep, CountStep
<1> QED BY <1>1, <1>5, <1>8 DEF Inv

LEMMA CallFailures ==
  ASSUME Inv, NEW c \in Calls, CallFails(c)
  PROVE  Inv'
<1>1. SessionInv'
  BY FailSessions DEF Inv
<1>2. /\ CallsOK' /\ call'[c].pc = "ended" /\ call'[c] \notin Busy
      /\ \A d \in Calls : d # c => call'[d] = call[d]
  BY EndCall DEF Inv, Types, CallFails
<1>3. /\ UNCHANGED <<token, family, parent, expired, user, tenant, failures, ended, final, barred>>
      /\ lost' \subseteq lost \cup Tokens
  BY DEF CallFails, rows, account
<1>4. Types'
  BY <1>2, <1>3 DEF Inv, Types, RowsOK, AccountOK, HistoryOK
<1>5. Calm(c) /\ Bars(c)
  BY <1>2, <1>3 DEF Calm, Bars, Inv, BarInv
<1>6. Counts(c)
  BY <1>2, <1>3 DEF Counts, Counted, Inv, Types, HistoryOK, CountInv
<1>7. FoundInv' /\ BarInv' /\ CountInv'
  BY <1>2, <1>5, <1>6, CalmStep, CountStep
<1> QED BY <1>1, <1>4, <1>7 DEF Inv

(* Time. *)
LEMMA Clock ==
  ASSUME Inv, (\E t \in Tokens : GraceEnds(t) \/ TokenExpires(t)) \/ LockExpires \/ UNCHANGED vars
  PROVE  Inv'
<1>1. ASSUME NEW t \in Tokens, GraceEnds(t) PROVE Inv'
  <2>1. SessionInv'
    BY <1>1, GraceSessions DEF Inv
  <2>2. /\ UNCHANGED <<family, expired, parent, user, tenant, call, failures, ended, final, lost, barred>>
        /\ token[t] = "rotated" /\ token' = [token EXCEPT ![t] = "revoked"]
    BY <1>1 DEF GraceEnds, account, history
  <2>3. Types' /\ FoundInv'
    BY <2>2 DEF Inv, Types, RowsOK, AccountOK, CallsOK, HistoryOK, TokenStates, FoundInv
  <2>4. BarInv' /\ CountInv'
    BY <2>2 DEF Inv, BarInv, BarredGetNothing, At, CountInv, Counted
  <2> QED BY <2>1, <2>3, <2>4 DEF Inv
<1>2. ASSUME UNCHANGED <<token, family, parent, tenant, call, failures, ended, final, lost, barred>>,
             expired' \subseteq Tokens, user' \in Users, Counted(user)'
      PROVE  Inv'
  <2>1. SessionInv'
    BY <1>2, AsideSessions DEF Inv, Aside, held, making
  <2>2. Types' /\ FoundInv' /\ BarInv'
    BY <1>2 DEF Inv, Types, RowsOK, AccountOK, CallsOK, HistoryOK, FoundInv, BarInv, BarredGetNothing, At
  <2>3. CountInv'
    BY <1>2 DEF Inv, CountInv, Counted
  <2> QED BY <2>1, <2>2, <2>3 DEF Inv
<1>3. user \in Users /\ expired \subseteq Tokens /\ Counted(user)
  BY DEF Inv, Types, AccountOK, RowsOK, CountInv
<1>4. ASSUME NEW t \in Tokens, TokenExpires(t) PROVE Inv'
  BY <1>2, <1>3, <1>4 DEF TokenExpires, account, history, Counted
<1>5. CASE LockExpires
  <2>1. user' \in Users /\ user'.failed = user.failed /\ user'.locked = FALSE
    BY <1>3, <1>5, UserTypes DEF LockExpires, Users
  <2>2. failures' = failures /\ Counted(user)'
    BY <1>3, <1>5, <2>1 DEF LockExpires, history, Counted
  <2> QED BY <1>2, <1>3, <1>5, <2>1, <2>2 DEF LockExpires, rows, history
<1>6. CASE UNCHANGED vars
  BY <1>2, <1>3, <1>6 DEF vars, rows, account, history, Counted
<1> QED BY <1>1, <1>4, <1>5, <1>6

LEMMA InitInv == ASSUME Init PROVE Inv
<1>1. Types
  BY DEF Init, Types, RowsOK, AccountOK, CallsOK, HistoryOK, TokenStates, Users
<1>2. held = [c \in Calls |-> None] /\ making = [c \in Calls |-> None]
  BY DEF Init, held, making, Idle
<1>3. SessionInv
  BY <1>2, SessionsDistinct DEF Init, SessionInv, TreeInv, HeldInv, OneInv, SomeInv, FinalInv, ReplacedOnce
<1>4. FoundInv /\ BarInv
  BY DEF Init, FoundInv, BarInv, BarredGetNothing, At, Idle
<1>5. CountInv
  BY DEF Init, CountInv, Counted, Busy, Idle
<1> QED BY <1>1, <1>3, <1>4, <1>5 DEF Inv

(***************************************************************************)
(* Theorems                                                                *)
(***************************************************************************)

(* The reason for the theorems below: Inv is an inductive invariant. *)
THEOREM SessionInvariant == Spec => []Inv
<1>1. Init => Inv
  BY InitInv
<1>2. ASSUME Inv, [Next]_vars PROVE Inv'
  <2>1. ASSUME NEW c \in Calls, LoginStep(c) PROVE Inv'
    BY <1>2, <2>1, LoginReads, Fails, Checks, Resets, Creates DEF LoginStep
  <2>2. ASSUME NEW c \in Calls, RefreshStep(c) PROVE Inv'
    BY <1>2, <2>2, Finds, Revokes, Claims, Checks DEF RefreshStep
  <2>3. ASSUME NEW c \in Calls, RevokeStep(c) PROVE Inv'
    BY <1>2, <2>3, Revokes, LoginReads, WriteThenRevoke DEF RevokeStep
  <2>4. ASSUME NEW c \in Calls, AccountStep(c) PROVE Inv'
    BY <1>2, <2>4, WriteThenRevoke, Restores, Writes, LoginReads DEF AccountStep
  <2> QED BY <1>2, <2>1, <2>2, <2>3, <2>4, CallFailures, Clock DEF Next
<1> QED BY <1>1, <1>2, PTL DEF Spec

(* Every variable of Sessions keeps its type, whatever calls interleave. *)
THEOREM SessionTypeCorrect == Spec => []TypeOK
<1>1. Inv => TypeOK
  BY DEF Inv, Types, RowsOK, AccountOK, CallsOK, HistoryOK, TypeOK
<1> QED BY <1>1, SessionInvariant, PTL

(* rotateRefreshToken leaves a session with one live token or refresh, and *)
(* loses it only by revocation or by a failure after the claim.            *)
THEOREM SessionsHaveOneToken == Spec => []SessionHasOneToken
<1>1. Inv => SessionHasOneToken
  <2> SUFFICES ASSUME Inv, NEW f \in Families
               PROVE  /\ \A x, y \in Carriers(f) : x = y
                      /\ f \notin ended \cup lost => Carriers(f) # {}
    BY DEF SessionHasOneToken
  <2>1. \A c \in Rotating(f) : c \in Calls /\ held[c] # None /\ family[held[c]] = f
    BY DEF Rotating, RotatingIn, held
  <2>2. \A c \in Calls : held[c] # None /\ family[held[c]] = f => c \in Rotating(f)
    BY DEF Rotating, RotatingIn, held
  <2>3. \A t : t \in LiveIn(f) <=> t \in Tokens /\ token[t] = "live" /\ family[t] = f
    BY DEF LiveIn
  <2>4. \A x, y \in Carriers(f) : x = y
    BY <2>1, <2>3 DEF Carriers, Inv, SessionInv, OneInv
  <2>5. f \notin ended \cup lost => Carriers(f) # {}
    BY <2>2, <2>3 DEF Carriers, Inv, SessionInv, SomeInv, Families
  <2> QED BY <2>4, <2>5
<1> QED BY <1>1, SessionInvariant, PTL

(* The claim of rotateRefreshToken lets a token be replaced once. *)
THEOREM TokensAreReplacedOnce == Spec => []ReplacedOnce
<1>1. Inv => ReplacedOnce
  BY DEF Inv, SessionInv
<1> QED BY <1>1, SessionInvariant, PTL

(* logout, resetPassword and the other revocations are final for every     *)
(* session that is not being refreshed at that moment.                     *)
THEOREM RevocationIsFinal == Spec => []EndedIsFinal
<1>1. Inv => EndedIsFinal
  BY DEF Inv, SessionInv, FinalInv, EndedIsFinal, LiveIn, Creating, RotatingIn, making, Types, HistoryOK
<1> QED BY <1>1, SessionInvariant, PTL

(* assertAccountUsable keeps members of a suspended organization out. *)
THEOREM BlockedAccountsDoNotRefresh == Spec => []BarredGetNothing
<1>1. Inv => BarredGetNothing
  BY DEF Inv, BarInv
<1> QED BY <1>1, SessionInvariant, PTL

(* recordFailedLogin locks nobody early: a locked account has had          *)
(* Threshold wrong passwords, whatever logins read the counter meanwhile.  *)
THEOREM LocksAreEarned == Spec => []LockIsEarned
<1>1. Inv => LockIsEarned
  BY DEF Inv, CountInv, Counted, LockIsEarned
<1> QED BY <1>1, SessionInvariant, PTL
==============================================================================
