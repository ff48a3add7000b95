--------------------------- MODULE DeliveryProofs ---------------------------
(***************************************************************************)
(* Theorems about the way of an event, from its row to a socket.           *)
(*                                                                         *)
(* About Outbox, for every set of rows, workers, operators and handlers    *)
(* and every budget: type correctness, at-least-once delivery, lease       *)
(* fencing, and the implementation of EventDelivery.  About Notifications  *)
(* and Realtime, for every set of events and connections: whom a processed *)
(* event has reached, and the rooms of the gateway.                        *)
(***************************************************************************)
EXTENDS Outbox, Realtime, SequenceTheorems, WellFoundedInduction, TLAPS

(* A null record is not a record: its row is null. *)
LEMMA NoRecNotRecord == NoRec \notin Records
  BY NoneAssumption DEF NoRec, Records

(* Initially the table and the ledger are empty and every worker is idle. *)
LEMMA InitTypeOK == Init => TypeOK /\ HandInv
<1> SUFFICES ASSUME Init PROVE TypeOK /\ HandInv
  OBVIOUS
<1>1. paused \in [Workers -> BOOLEAN]
  BY DEF Init
<1>2. /\ status \in [Rows -> Statuses]
      /\ available \in [Rows -> BOOLEAN]
      /\ expired \in [Rows -> BOOLEAN]
      /\ pc \in [Workers -> PCs]
      /\ stage \in [Workers -> [Handlers -> Stages]]
  BY DEF Init, Statuses, PCs, Stages, Fresh
<1>3. /\ attempts \in [Rows -> Nat]
      /\ maxAttempts \in [Rows -> Nat]
      /\ lockedBy \in [Rows -> Workers \cup {None}]
      /\ replayOf \in [Rows -> Rows \cup {None}]
      /\ occurredAt \in [Rows -> Rows]
  BY DEF Init
<1>4. /\ batch \in [Workers -> SUBSET Records]
      /\ current \in [Workers -> Records \cup {NoRec}]
      /\ op \in [Operators -> OpStates \cup {NoOp}]
      /\ ledger \subseteq Rows \X Handlers
      /\ ran \subseteq Rows \X Handlers
  BY DEF Init
<1>5. HandInv
  BY DEF Init, HandInv, InHand
<1> QED BY <1>1, <1>2, <1>3, <1>4, <1>5, Zenon DEF TypeOK

(* The types of the columns that worker steps write. *)
ColumnsOK == /\ status \in [Rows -> Statuses]
             /\ lockedBy \in [Rows -> Workers \cup {None}]
             /\ available \in [Rows -> BOOLEAN]
             /\ expired \in [Rows -> BOOLEAN]

(* The conditional update of markProcessed / markFailed writes well-typed  *)
(* columns and never makes a row disappear.                                *)
LEMMA SettleColumns ==
  ASSUME ColumnsOK, NEW w, NEW r, NEW st \in Statuses \ {"ABSENT"}, NEW n \in BOOLEAN,
         Settle(w, r, st, n)
  PROVE  /\ ColumnsOK'
         /\ \A q \in Rows : status[q] # "ABSENT" => status'[q] # "ABSENT"
<1>1. CASE HoldsLease(w, r)
  <2>1. /\ status' = [status EXCEPT ![r] = st]
        /\ lockedBy' = [lockedBy EXCEPT ![r] = None]
    BY <1>1 DEF Settle
  <2>2. /\ available' = [available EXCEPT ![r] = n]
        /\ expired' = [expired EXCEPT ![r] = FALSE]
    BY <1>1 DEF Settle
  <2>3. available' \in [Rows -> BOOLEAN] /\ expired' \in [Rows -> BOOLEAN]
    BY <2>2 DEF ColumnsOK
  <2> QED BY <2>1, <2>3 DEF ColumnsOK
<1>2. CASE ~HoldsLease(w, r)
  BY <1>2 DEF Settle, ColumnsOK
<1> QED BY <1>1, <1>2

(* A worker's steps keep the types, and keep its program counter in step   *)
(* with the records it holds.                                              *)
LEMMA WorkerTypeOK ==
  ASSUME TypeOK, HandInv, NEW w \in Workers, WorkerStep(w) \/ WorkerFault(w)
  PROVE  TypeOK' /\ HandInv'
<1> USE NoRecNotRecord DEF TypeOK, HandInv, InHand, row, work, hist
<1>1. CASE Tick(w)
  BY <1>1 DEF Tick, PCs
<1>2. CASE DeadLetterExpired(w)
  <2>1. /\ status' \in [Rows -> Statuses]
        /\ lockedBy' \in [Rows -> Workers \cup {None}]
        /\ expired' \in [Rows -> BOOLEAN]
    BY <1>2 DEF DeadLetterExpired, Statuses
  <2>2. \A q \in Rows : status[q] # "ABSENT" => status'[q] # "ABSENT"
    BY <1>2 DEF DeadLetterExpired
  <2>3. /\ pc' = [pc EXCEPT ![w] = "claim"] /\ pc[w] = "expire"
        /\ batch' = batch /\ current' = current
    BY <1>2 DEF DeadLetterExpired
  <2>4. HandInv'
    BY <2>2, <2>3 DEF Records
  <2> QED BY <1>2, <2>1, <2>3, <2>4 DEF DeadLetterExpired, PCs
<1>3. ASSUME NEW S \in SUBSET Rows, NEW a \in BOOLEAN, Claim(w, S, a)
      PROVE  TypeOK' /\ HandInv'
  <2> DEFINE claimed == {ClaimedRecord(r) : r \in S}
  <2>1. claimed \in SUBSET Records
    BY DEF Records, ClaimedRecord
  <2>2. \A rec \in claimed : rec.row \in S
    BY DEF ClaimedRecord
  <2>3. batch' = [batch EXCEPT ![w] = IF a THEN claimed ELSE {}]
    BY <1>3 DEF Claim
  <2> HIDE DEF claimed
  <2>4. TypeOK'
    <3>1. status' \in [Rows -> Statuses] /\ expired' \in [Rows -> BOOLEAN]
      BY <1>3 DEF Claim, Statuses
    <3>2. attempts' \in [Rows -> Nat] /\ lockedBy' \in [Rows -> Workers \cup {None}]
      BY <1>3 DEF Claim
    <3>3. pc' \in [Workers -> PCs]
      BY <1>3 DEF Claim, PCs
    <3>4. batch' \in [Workers -> SUBSET Records]
      BY <2>1, <2>3
    <3> QED BY <1>3, <3>1, <3>2, <3>3, <3>4 DEF Claim
  <2>5. HandInv'
    <3>1. \A r \in Rows : status'[r] = IF r \in S THEN "PROCESSING" ELSE status[r]
      BY <1>3 DEF Claim
    <3>2. pc' = [pc EXCEPT ![w] = IF a THEN "next" ELSE "idle"] /\ current' = current /\ pc[w] = "claim"
      BY <1>3 DEF Claim
    <3> QED BY <2>1, <2>2, <2>3, <3>1, <3>2 DEF Records
  <2> QED BY <2>4, <2>5
<1>4. ASSUME NEW rec \in batch[w], StartDispatch(w, rec) PROVE TypeOK' /\ HandInv'
  BY <1>4 DEF StartDispatch, PCs, Fresh, Stages
<1>5. CASE EndBatch(w)
  BY <1>5 DEF EndBatch, PCs
<1>6. ASSUME NEW h \in Handlers, CheckLedger(w, h) PROVE TypeOK' /\ HandInv'
  BY <1>6 DEF CheckLedger, GoTo, AtStage, Stages
<1>7. ASSUME NEW h \in Handlers, RunOnceRejects(w, h) PROVE TypeOK' /\ HandInv'
  BY <1>7 DEF RunOnceRejects, GoTo, Stages
<1>8. ASSUME NEW h \in Handlers, RunHandler(w, h) PROVE TypeOK' /\ HandInv'
  <2>1. Key(w, h) \in Rows \X Handlers
    BY <1>8 DEF RunHandler, AtStage, Key, Records
  <2> QED BY <1>8, <2>1 DEF RunHandler, GoTo, Stages
<1>9. ASSUME NEW h \in Handlers, MarkDone(w, h) PROVE TypeOK' /\ HandInv'
  <2>1. Key(w, h) \in Rows \X Handlers
    BY <1>9 DEF MarkDone, AtStage, Key, Records
  <2> QED BY <1>9, <2>1 DEF MarkDone, GoTo, Stages
<1>10. ASSUME pc[w] \in {"dispatch", "failing"},
              NEW st \in Statuses \ {"ABSENT"}, NEW n \in BOOLEAN,
              Settle(w, current[w].row, st, n), NextRecord(w),
              UNCHANGED <<ledger, paused, op, hist>>
       PROVE  TypeOK' /\ HandInv'
  <2> HIDE DEF TypeOK, HandInv
  <2>a. ColumnsOK
    BY DEF ColumnsOK, TypeOK
  <2>1. /\ ColumnsOK'
        /\ \A q \in Rows : status[q] # "ABSENT" => status'[q] # "ABSENT"
    BY <1>10, <2>a, SettleColumns
  <2> USE DEF TypeOK, HandInv
  <2>2. /\ pc' \in [Workers -> PCs]
        /\ stage' \in [Workers -> [Handlers -> Stages]]
        /\ current' \in [Workers -> Records \cup {NoRec}]
    BY <1>10 DEF NextRecord, PCs, Fresh, Stages
  <2>3. UNCHANGED <<attempts, maxAttempts, replayOf, occurredAt, batch>>
    BY <1>10 DEF Settle, NextRecord
  <2>4. TypeOK'
    BY <1>10, <2>1, <2>2, <2>3 DEF ColumnsOK
  <2>5. HandInv'
    BY <1>10, <2>1 DEF NextRecord, Records
  <2> QED BY <2>4, <2>5
<1>11. CASE MarkProcessed(w)
  <2>1. available[current[w].row] \in BOOLEAN
    BY <1>11 DEF MarkProcessed, Settled, Records
  <2> QED BY <1>10, <1>11, <2>1 DEF MarkProcessed, Settled, Statuses
<1>12. CASE MarkFailed(w)
  <2>1. FailureStatus(current[w]) \in Statuses \ {"ABSENT"}
    BY DEF FailureStatus, Statuses
  <2> QED BY <1>10, <1>12, <2>1 DEF MarkFailed, Failing, Settled
<1>13. ASSUME NEW applied \in BOOLEAN, MarkProcessedThrows(w, applied)
       PROVE  TypeOK' /\ HandInv'
  <2>1. available[current[w].row] \in BOOLEAN
    BY <1>13 DEF MarkProcessedThrows, Settled, Records
  <2>2. /\ ColumnsOK'
        /\ \A q \in Rows : status[q] # "ABSENT" => status'[q] # "ABSENT"
    <3>1. CASE applied
      <4>1. Settle(w, current[w].row, "PROCESSED", available[current[w].row])
        BY <1>13, <3>1 DEF MarkProcessedThrows
      <4>2. "PROCESSED" \in Statuses \ {"ABSENT"} /\ ColumnsOK
        BY DEF ColumnsOK, Statuses
      <4> QED BY <4>1, <4>2, <2>1, SettleColumns
    <3>2. CASE ~applied
      BY <1>13, <3>2 DEF MarkProcessedThrows, ColumnsOK
    <3> QED BY <3>1, <3>2
  <2>3. UNCHANGED <<attempts, maxAttempts, replayOf, occurredAt>>
    BY <1>13 DEF MarkProcessedThrows, Settle
  <2>4. TypeOK'
    BY <1>13, <2>2, <2>3 DEF MarkProcessedThrows, ColumnsOK, PCs
  <2>5. HandInv'
    BY <1>13, <2>2 DEF MarkProcessedThrows, Settled, Records
  <2> QED BY <2>4, <2>5
<1>14. CASE AbandonBatch(w)
  BY <1>14 DEF AbandonBatch, PCs, Fresh, Stages
<1>15. CASE Crash(w)
  BY <1>15 DEF Crash, PCs, Fresh, Stages
<1> QED
  BY <1>1, <1>2, <1>3, <1>4, <1>5, <1>6, <1>7, <1>8, <1>9, <1>11, <1>12, <1>13, <1>14, <1>15
  DEF WorkerStep, WorkerFault, RunHandlers

(* Publishing, operators, time and Redis keep the types, and touch nothing *)
(* a worker holds.                                                         *)
LEMMA OtherTypeOK ==
  ASSUME TypeOK, HandInv,
         \/ \E S \in SUBSET Rows : Enqueue(S) \/ Purge(S)
         \/ OperatorStep \/ TimePasses
         \/ \E k \in ledger : LedgerForgets(k)
  PROVE  TypeOK' /\ HandInv'
<1> USE NoRecNotRecord DEF TypeOK, HandInv, InHand, row, work, hist
<1>1. ASSUME NEW S \in SUBSET Rows, Enqueue(S) PROVE TypeOK' /\ HandInv'
  <2>1. /\ status' \in [Rows -> Statuses]
        /\ available' \in [Rows -> BOOLEAN]
    BY <1>1 DEF Enqueue, Statuses
  <2>2. maxAttempts' \in [Rows -> Nat]
    BY <1>1, BoundsAssumption DEF Enqueue
  <2>3. TypeOK'
    BY <1>1, <2>1, <2>2 DEF Enqueue
  <2>4. HandInv'
    BY <1>1 DEF Enqueue, Records
  <2> QED BY <2>3, <2>4
<1>2. ASSUME NEW S \in SUBSET Rows, Purge(S) PROVE TypeOK' /\ HandInv'
  BY <1>2 DEF Purge, Statuses, Records
<1>3. ASSUME NEW o \in Operators, NEW r \in Rows, RetryRead(o, r) PROVE TypeOK' /\ HandInv'
  BY <1>3 DEF RetryRead, OpStates
<1>4. ASSUME NEW o \in Operators, RetryWrite(o) PROVE TypeOK' /\ HandInv'
  <2>1. op[o].row \in Rows /\ op[o].attempts + RetryGrant \in Nat
    BY <1>4, BoundsAssumption DEF RetryWrite, OpStates, NoOp
  <2> QED BY <1>4, <2>1 DEF RetryWrite, Statuses, OpStates, Records
<1>5. ASSUME NEW o \in Operators, RetryConflict(o) \/ ReplayConflict(o)
      PROVE  TypeOK' /\ HandInv'
  BY <1>5 DEF RetryConflict, ReplayConflict
<1>6. ASSUME NEW o \in Operators, NEW r \in Rows, ReplayRead(o, r) PROVE TypeOK' /\ HandInv'
  BY <1>6 DEF ReplayRead, OpStates
<1>7. ASSUME NEW o \in Operators, NEW r \in Rows, ReplayCreate(o, r) PROVE TypeOK' /\ HandInv'
  <2>1. op[o].row \in Rows
    BY <1>7 DEF ReplayCreate, OpStates, NoOp
  <2> QED BY <1>7, <2>1, BoundsAssumption DEF ReplayCreate, Statuses, OpStates, Records
<1>8. ASSUME NEW r \in Rows, CancelRow(r) PROVE TypeOK' /\ HandInv'
  BY <1>8 DEF CancelRow, Statuses, Records
<1>9. ASSUME NEW w \in Workers, SetPaused(w) PROVE TypeOK' /\ HandInv'
  <2>1. paused' \in [Workers -> BOOLEAN]
    BY <1>9 DEF SetPaused
  <2> QED BY <1>9, <2>1 DEF SetPaused
<1>10. ASSUME NEW r \in Rows, LeaseExpires(r) \/ BackoffElapses(r) PROVE TypeOK' /\ HandInv'
  BY <1>10 DEF LeaseExpires, BackoffElapses
<1>11. ASSUME NEW k \in ledger, LedgerForgets(k) PROVE TypeOK' /\ HandInv'
  BY <1>11 DEF LedgerForgets
<1> QED
  BY <1>1, <1>2, <1>3, <1>4, <1>5, <1>6, <1>7, <1>8, <1>9, <1>10, <1>11
  DEF OperatorStep, TimePasses

(* Every column, worker variable and service variable keeps its type, and  *)
(* a worker holds records exactly in the states in which it processes them.*)
THEOREM TypeCorrect == Spec => [](TypeOK /\ HandInv)
<1>1. TypeOK /\ HandInv /\ [Next]_vars => TypeOK' /\ HandInv'
  <2> SUFFICES ASSUME TypeOK, HandInv, [Next]_vars PROVE TypeOK' /\ HandInv'
    OBVIOUS
  <2>1. CASE UNCHANGED vars
    BY <2>1 DEF TypeOK, HandInv, InHand, vars, row, work, hist
  <2>2. CASE \E w \in Workers : WorkerStep(w) \/ WorkerFault(w)
    BY <2>2, WorkerTypeOK
  <2>3. CASE \/ \E S \in SUBSET Rows : Enqueue(S) \/ Purge(S)
             \/ OperatorStep \/ TimePasses
             \/ \E k \in ledger : LedgerForgets(k)
    BY <2>3, OtherTypeOK
  <2> QED BY <2>1, <2>2, <2>3 DEF Next
<1> QED BY <1>1, InitTypeOK, PTL DEF Spec

(***************************************************************************)
(* At-least-once delivery                                                  *)
(***************************************************************************)

(* The ledger, and a worker's own progress, never claim a completion that  *)
(* did not happen; so what is marked processed was delivered.              *)
LEMMA ProgressStep ==
  ASSUME TypeOK, HandInv, ProgressInv, AtLeastOnce, [Next]_vars
  PROVE  ProgressInv' /\ AtLeastOnce'
<1> USE DEF TypeOK, ProgressInv, AtLeastOnce, Key, row, work, hist
<1>1. CASE UNCHANGED vars
  BY <1>1 DEF vars
<1>2. ASSUME NEW S \in SUBSET Rows, Enqueue(S) PROVE ProgressInv' /\ AtLeastOnce'
  BY <1>2 DEF Enqueue
<1>3. ASSUME NEW S \in SUBSET Rows, Purge(S) PROVE ProgressInv' /\ AtLeastOnce'
  BY <1>3 DEF Purge
<1>4. ASSUME NEW w \in Workers, Tick(w) \/ EndBatch(w) \/ AbandonBatch(w) \/ Crash(w)
      PROVE  ProgressInv' /\ AtLeastOnce'
  <2>1. CASE Tick(w) BY <2>1 DEF Tick
  <2>2. CASE EndBatch(w) BY <2>2 DEF EndBatch
  <2>3. CASE AbandonBatch(w) BY <2>3 DEF AbandonBatch, Fresh
  <2>4. CASE Crash(w) BY <2>4 DEF Crash, Fresh
  <2> QED BY <1>4, <2>1, <2>2, <2>3, <2>4
<1>5. ASSUME NEW w \in Workers, DeadLetterExpired(w) PROVE ProgressInv' /\ AtLeastOnce'
  BY <1>5 DEF DeadLetterExpired
<1>6. ASSUME NEW w \in Workers, NEW S \in SUBSET Rows, NEW a \in BOOLEAN, Claim(w, S, a)
      PROVE  ProgressInv' /\ AtLeastOnce'
  <2>1. /\ \A r \in Rows : status'[r] = IF r \in S THEN "PROCESSING" ELSE status[r]
        /\ pc' = [pc EXCEPT ![w] = IF a THEN "next" ELSE "idle"]
        /\ UNCHANGED <<current, stage, ledger, ran>>
    BY <1>6 DEF Claim
  <2> QED BY <2>1
<1>7. ASSUME NEW w \in Workers, NEW rec \in batch[w], StartDispatch(w, rec)
      PROVE  ProgressInv' /\ AtLeastOnce'
  BY <1>7 DEF StartDispatch, Fresh
<1>8. ASSUME NEW w \in Workers, NEW h \in Handlers,
             CheckLedger(w, h) \/ MarkDone(w, h) \/ RunOnceRejects(w, h)
      PROVE  ProgressInv' /\ AtLeastOnce'
  <2>1. CASE CheckLedger(w, h) BY <2>1 DEF CheckLedger, GoTo, AtStage
  <2>2. CASE MarkDone(w, h) BY <2>2 DEF MarkDone, GoTo, AtStage
  <2>3. CASE RunOnceRejects(w, h) BY <2>3 DEF RunOnceRejects, GoTo
  <2> QED BY <1>8, <2>1, <2>2, <2>3
<1>9. ASSUME NEW w \in Workers, NEW h \in Handlers, RunHandler(w, h)
      PROVE  ProgressInv' /\ AtLeastOnce'
  BY <1>9 DEF RunHandler, GoTo, AtStage
<1>10. ASSUME NEW w \in Workers, MarkProcessed(w) PROVE ProgressInv' /\ AtLeastOnce'
  <2>1. \A h \in Handlers : Key(w, h) \in ran
    BY <1>10 DEF MarkProcessed, Settled, Rejected
  <2>2. AtLeastOnce'
    BY <1>10, <2>1 DEF MarkProcessed, Settle
  <2>3. ProgressInv'
    BY <1>10 DEF MarkProcessed, NextRecord
  <2> QED BY <2>2, <2>3
<1>11. ASSUME NEW w \in Workers, MarkFailed(w) PROVE ProgressInv' /\ AtLeastOnce'
  <2>1. AtLeastOnce'
    BY <1>11 DEF MarkFailed, Settle, FailureStatus
  <2>2. ProgressInv'
    BY <1>11 DEF MarkFailed, NextRecord
  <2> QED BY <2>1, <2>2
<1>12. ASSUME NEW w \in Workers, NEW applied \in BOOLEAN, MarkProcessedThrows(w, applied)
       PROVE  ProgressInv' /\ AtLeastOnce'
  <2>1. \A h \in Handlers : Key(w, h) \in ran
    BY <1>12 DEF MarkProcessedThrows, Settled, Rejected
  <2>2. AtLeastOnce'
    BY <1>12, <2>1 DEF MarkProcessedThrows, Settle
  <2>3. ProgressInv'
    BY <1>12 DEF MarkProcessedThrows, Settled
  <2> QED BY <2>2, <2>3
<1>13. CASE OperatorStep
  BY <1>13 DEF OperatorStep, RetryRead, RetryWrite, RetryConflict, CancelRow, ReplayRead,
               ReplayCreate, ReplayConflict, SetPaused
<1>14. CASE TimePasses
  BY <1>14 DEF TimePasses, LeaseExpires, BackoffElapses
<1>15. ASSUME NEW k \in ledger, LedgerForgets(k) PROVE ProgressInv' /\ AtLeastOnce'
  BY <1>15 DEF LedgerForgets
<1> QED
  BY <1>1, <1>2, <1>3, <1>4, <1>5, <1>6, <1>7, <1>8, <1>9, <1>10, <1>11, <1>12, <1>13, <1>14, <1>15
  DEF Next, WorkerStep, WorkerFault, RunHandlers

(* Whatever crashes, lease expiries, duplicate claims, lost ledger entries *)
(* and operator interventions happen, a PROCESSED event was delivered to   *)
(* every handler.                                                          *)
THEOREM DeliveredAtLeastOnce == Spec => []AtLeastOnce
<1>1. Init => ProgressInv /\ AtLeastOnce
  BY DEF Init, ProgressInv, AtLeastOnce
<1>2. TypeOK /\ HandInv /\ ProgressInv /\ AtLeastOnce /\ [Next]_vars => ProgressInv' /\ AtLeastOnce'
  BY ProgressStep
<1> QED BY <1>1, <1>2, TypeCorrect, PTL DEF Spec

(***************************************************************************)
(* Lease fencing                                                           *)
(***************************************************************************)

(* The record in a worker's hand agrees with the row as long as the row is *)
(* still locked by that worker.  Only a claim changes attempts, and a      *)
(* worker that claims holds nothing else; only rows that are not           *)
(* PROCESSING get a new budget.                                            *)
LEMMA FencingStep ==
  ASSUME TypeOK, HandInv, LeaseFencing, FailedHasBudget, [Next]_vars
  PROVE  LeaseFencing' /\ FailedHasBudget'
<1> DEFINE Goal == LeaseFencing' /\ FailedHasBudget'
<1> USE NoRecNotRecord DEF TypeOK, LeaseFencing, FailedHasBudget, HoldsLease, InHand, row, work, hist
<1>1. CASE UNCHANGED vars
  BY <1>1 DEF vars
<1>2. ASSUME NEW S \in SUBSET Rows, Enqueue(S) PROVE Goal
  BY <1>2 DEF Enqueue, Records
<1>3. ASSUME NEW S \in SUBSET Rows, Purge(S) PROVE Goal
  BY <1>3 DEF Purge, Records
<1>4. ASSUME NEW w \in Workers, Tick(w) PROVE Goal
  BY <1>4 DEF Tick
<1>5. ASSUME NEW w \in Workers, DeadLetterExpired(w) PROVE Goal
  BY <1>5, NoneAssumption DEF DeadLetterExpired, Records
<1>6. ASSUME NEW w \in Workers, NEW S \in SUBSET Rows, NEW a \in BOOLEAN, Claim(w, S, a)
      PROVE  Goal
  <2> DEFINE claimed == {ClaimedRecord(r) : r \in S}
  <2>1. \A rec \in claimed : /\ rec.row \in S
                             /\ rec.attempts = attempts[rec.row] + 1
                             /\ rec.max = maxAttempts[rec.row]
    BY DEF ClaimedRecord
  <2>2. batch' = [batch EXCEPT ![w] = IF a THEN claimed ELSE {}]
    BY <1>6 DEF Claim
  <2> HIDE DEF claimed
  <2>3. /\ \A r \in Rows : status'[r] = IF r \in S THEN "PROCESSING" ELSE status[r]
        /\ \A r \in Rows : attempts'[r] = IF r \in S THEN attempts[r] + 1 ELSE attempts[r]
        /\ \A r \in Rows : lockedBy'[r] = IF r \in S THEN w ELSE lockedBy[r]
        /\ maxAttempts' = maxAttempts /\ current' = current
    BY <1>6 DEF Claim
  <2>4. batch[w] = {} /\ current[w] = NoRec
    BY <1>6 DEF Claim, HandInv
  <2>5. LeaseFencing'
    <3> SUFFICES ASSUME NEW v \in Workers, NEW rec \in InHand(v)', HoldsLease(v, rec.row)'
                 PROVE  rec.attempts = attempts'[rec.row] /\ rec.max = maxAttempts'[rec.row]
      OBVIOUS
    <3>1. CASE v = w
      BY <2>1, <2>2, <2>3, <2>4, <3>1
    <3>2. CASE v # w
      <4>1. rec \in InHand(v) /\ rec \in Records
        BY <2>2, <2>3, <3>2
      <4>2. rec.row \in Rows
        BY <4>1 DEF Records
      <4> QED BY <2>3, <3>2, <4>1, <4>2
    <3> QED BY <3>1, <3>2
  <2>6. FailedHasBudget'
    BY <2>3
  <2> QED BY <2>5, <2>6
<1>7. ASSUME NEW w \in Workers, NEW rec \in batch[w], StartDispatch(w, rec) PROVE Goal
  <2>1. /\ UNCHANGED <<status, attempts, maxAttempts, lockedBy>>
        /\ batch' = [batch EXCEPT ![w] = @ \ {rec}]
        /\ current' = [current EXCEPT ![w] = rec]
    BY <1>7 DEF StartDispatch
  <2>2. \A v \in Workers : InHand(v)' \subseteq InHand(v)
    BY <2>1
  <2> QED BY <2>1, <2>2
<1>8. ASSUME NEW w \in Workers, EndBatch(w) PROVE Goal
  BY <1>8 DEF EndBatch
<1>9. ASSUME NEW w \in Workers, NEW h \in Handlers,
             CheckLedger(w, h) \/ RunHandler(w, h) \/ MarkDone(w, h) \/ RunOnceRejects(w, h)
      PROVE  Goal
  <2>1. UNCHANGED <<status, attempts, maxAttempts, lockedBy, batch, current>>
    BY <1>9 DEF CheckLedger, RunHandler, MarkDone, RunOnceRejects, GoTo
  <2> QED BY <2>1
<1>10. ASSUME NEW w \in Workers, pc[w] \in {"dispatch", "failing"},
              NEW st \in {"PROCESSED", "DEAD_LETTER", "FAILED"}, NEW n,
              st = "FAILED" => current[w].attempts < current[w].max,
              Settle(w, current[w].row, st, n),
              batch' = batch,
              current' = current \/ current' = [current EXCEPT ![w] = NoRec]
       PROVE  Goal
  <2>1. current[w] \in Records /\ current[w].row \in Rows
    BY <1>10 DEF HandInv, Records
  <2>2. \A r \in Rows : \/ (status'[r] = status[r] /\ lockedBy'[r] = lockedBy[r])
                        \/ (r = current[w].row /\ HoldsLease(w, r) /\ status'[r] = st)
    <3>1. CASE HoldsLease(w, current[w].row)
      BY <1>10, <2>1, <3>1 DEF Settle
    <3>2. CASE ~HoldsLease(w, current[w].row)
      <4>1. status' = status /\ lockedBy' = lockedBy
        BY <1>10, <3>2 DEF Settle
      <4> QED BY <4>1
    <3> QED BY <3>1, <3>2
  <2>3. attempts' = attempts /\ maxAttempts' = maxAttempts
    BY <1>10 DEF Settle
  <2>4. \A v \in Workers : InHand(v)' \subseteq InHand(v)
    BY <1>10
  <2>5. \A v \in Workers : \A rec \in InHand(v) : rec.row \in Rows
    BY DEF Records
  <2>6. LeaseFencing'
    <3> SUFFICES ASSUME NEW v \in Workers, NEW rec \in InHand(v)', HoldsLease(v, rec.row)'
                 PROVE  rec.attempts = attempts'[rec.row] /\ rec.max = maxAttempts'[rec.row]
      OBVIOUS
    <3>1. rec \in InHand(v) /\ rec.row \in Rows
      BY <2>4, <2>5
    <3>2. HoldsLease(v, rec.row)
      BY <2>2, <3>1
    <3> QED BY <2>3, <3>1, <3>2
  <2>7. FailedHasBudget'
    BY <1>10, <2>1, <2>2, <2>3
  <2> QED BY <2>6, <2>7
<1>11. ASSUME NEW w \in Workers, MarkProcessed(w) PROVE Goal
  <2>1. /\ pc[w] = "dispatch"
        /\ Settle(w, current[w].row, "PROCESSED", available[current[w].row])
        /\ batch' = batch /\ current' = [current EXCEPT ![w] = NoRec]
    BY <1>11 DEF MarkProcessed, Settled, NextRecord
  <2> QED BY <1>10, <2>1
<1>12. ASSUME NEW w \in Workers, MarkFailed(w) PROVE Goal
  <2>1. current[w] \in Records /\ pc[w] \in {"dispatch", "failing"}
    BY <1>12 DEF MarkFailed, Failing, Settled, HandInv
  <2>2. /\ FailureStatus(current[w]) \in {"DEAD_LETTER", "FAILED"}
        /\ FailureStatus(current[w]) = "FAILED" => current[w].attempts < current[w].max
    BY <2>1 DEF FailureStatus, Records
  <2>3. /\ Settle(w, current[w].row, FailureStatus(current[w]), FALSE)
        /\ batch' = batch /\ current' = [current EXCEPT ![w] = NoRec]
    BY <1>12 DEF MarkFailed, NextRecord
  <2> QED BY <1>10, <2>1, <2>2, <2>3
<1>13. ASSUME NEW w \in Workers, NEW applied \in BOOLEAN, MarkProcessedThrows(w, applied)
       PROVE  Goal
  <2>1. CASE applied
    <3>1. /\ pc[w] = "dispatch"
          /\ Settle(w, current[w].row, "PROCESSED", available[current[w].row])
          /\ batch' = batch /\ current' = current
      BY <1>13, <2>1 DEF MarkProcessedThrows, Settled
    <3> QED BY <1>10, <3>1
  <2>2. CASE ~applied
    BY <1>13, <2>2 DEF MarkProcessedThrows
  <2> QED BY <2>1, <2>2
<1>14. ASSUME NEW w \in Workers, AbandonBatch(w) \/ Crash(w) PROVE Goal
  <2>1. /\ UNCHANGED <<status, attempts, maxAttempts, lockedBy>>
        /\ batch' = [batch EXCEPT ![w] = {}]
        /\ current' = [current EXCEPT ![w] = NoRec]
    BY <1>14 DEF AbandonBatch, Crash
  <2>2. \A v \in Workers : InHand(v)' \subseteq InHand(v)
    BY <2>1
  <2> QED BY <2>1, <2>2
<1>15. ASSUME NEW o \in Operators, RetryWrite(o) PROVE Goal
  BY <1>15 DEF RetryWrite, RetryAccepted, RETRYABLE, Records
<1>16. ASSUME NEW o \in Operators, NEW r \in Rows, ReplayCreate(o, r) PROVE Goal
  BY <1>16 DEF ReplayCreate, Records
<1>17. ASSUME NEW r \in Rows, CancelRow(r) PROVE Goal
  BY <1>17 DEF CancelRow, CANCELLABLE, Records
<1>18. ASSUME \/ \E o \in Operators : \/ RetryConflict(o) \/ ReplayConflict(o)
                                       \/ \E r \in Rows : RetryRead(o, r) \/ ReplayRead(o, r)
              \/ \E w \in Workers : SetPaused(w)
              \/ TimePasses
              \/ \E k \in ledger : LedgerForgets(k)
       PROVE  Goal
  BY <1>18 DEF RetryConflict, ReplayConflict, RetryRead, ReplayRead, SetPaused, TimePasses,
               LeaseExpires, BackoffElapses, LedgerForgets
<1> QED
  BY <1>1, <1>2, <1>3, <1>4, <1>5, <1>6, <1>7, <1>8, <1>9, <1>11, <1>12, <1>13, <1>14,
     <1>15, <1>16, <1>17, <1>18
  DEF Next, WorkerStep, WorkerFault, RunHandlers, OperatorStep

(* As long as the lease test of markFailed succeeds, the decision it takes *)
(* on the claimed record is the right one for the row: no row is left      *)
(* FAILED, to be retried, without an attempt to spend.                     *)
THEOREM LeaseFenced == Spec => [](LeaseFencing /\ FailedHasBudget)
<1>1. Init => LeaseFencing /\ FailedHasBudget
  BY DEF Init, LeaseFencing, FailedHasBudget, InHand
<1>2. TypeOK /\ HandInv /\ LeaseFencing /\ FailedHasBudget /\ [Next]_vars
         => LeaseFencing' /\ FailedHasBudget'
  BY FencingStep
<1> QED BY <1>1, <1>2, TypeCorrect, PTL DEF Spec

(***************************************************************************)
(* The lease protects a PROCESSING row                                     *)
(***************************************************************************)

(* No step takes a PROCESSING row with an unexpired lease away from its    *)
(* owner, except the owner settling that very row.                         *)
THEOREM LeaseProtects == Spec => LeaseRespected
<1> DEFINE Respected(r) ==
      /\ status[r] = "PROCESSING"
      /\ ~(status'[r] = "PROCESSING" /\ lockedBy'[r] = lockedBy[r])
      => \/ expired[r]
         \/ \E w \in Workers : lockedBy[r] = w /\ current[w].row = r
<1>1. TypeOK /\ [Next]_vars => [\A r \in Rows : Respected(r)]_vars
  <2> SUFFICES ASSUME TypeOK, Next, NEW r \in Rows, status[r] = "PROCESSING", ~expired[r],
                      ~(status'[r] = "PROCESSING" /\ lockedBy'[r] = lockedBy[r])
               PROVE  \E w \in Workers : lockedBy[r] = w /\ current[w].row = r
    OBVIOUS
  <2> USE DEF TypeOK, row
  <2>1. ASSUME NEW w \in Workers, NEW q, NEW st, NEW n, q = current[w].row, Settle(w, q, st, n)
        PROVE  lockedBy[r] = w /\ current[w].row = r
    BY <2>1 DEF Settle, HoldsLease
  <2>2. ASSUME NEW w \in Workers, WorkerStep(w) \/ WorkerFault(w)
        PROVE  lockedBy[r] = w /\ current[w].row = r
    <3>1. ASSUME NEW S \in SUBSET Rows, NEW a \in BOOLEAN, Claim(w, S, a) PROVE FALSE
      BY <3>1 DEF Claim, IsOldestBatch, Claimable
    <3>2. CASE DeadLetterExpired(w)
      BY <3>2 DEF DeadLetterExpired, Exhausted
    <3>3. CASE MarkProcessed(w) \/ MarkFailed(w) \/ \E a \in BOOLEAN : MarkProcessedThrows(w, a)
      BY <2>1, <3>3 DEF MarkProcessed, MarkFailed, MarkProcessedThrows
    <3>4. CASE UNCHANGED <<status, lockedBy>>
      BY <3>4
    <3>5. \/ \E S \in SUBSET Rows, a \in BOOLEAN : Claim(w, S, a)
          \/ DeadLetterExpired(w)
          \/ MarkProcessed(w) \/ MarkFailed(w) \/ \E a \in BOOLEAN : MarkProcessedThrows(w, a)
          \/ UNCHANGED <<status, lockedBy>>
      BY <2>2 DEF WorkerStep, WorkerFault, RunHandlers, Tick, StartDispatch, EndBatch, CheckLedger,
                  RunHandler, MarkDone, RunOnceRejects, GoTo, AbandonBatch, Crash
    <3> QED BY <3>1, <3>2, <3>3, <3>4, <3>5
  <2>3. ASSUME NEW S \in SUBSET Rows, Enqueue(S) \/ Purge(S) PROVE FALSE
    BY <2>3 DEF Enqueue, Purge, PURGEABLE
  <2>4. CASE OperatorStep
    <3>1. ASSUME NEW o \in Operators, RetryWrite(o) PROVE FALSE
      BY <3>1 DEF RetryWrite, RetryAccepted, RETRYABLE
    <3>2. ASSUME NEW o \in Operators, NEW q \in Rows, ReplayCreate(o, q) PROVE FALSE
      BY <3>2 DEF ReplayCreate
    <3>3. ASSUME NEW q \in Rows, CancelRow(q) PROVE FALSE
      BY <3>3 DEF CancelRow, CANCELLABLE
    <3> QED BY <2>4, <3>1, <3>2, <3>3 DEF OperatorStep, RetryRead, RetryConflict, ReplayRead,
                                         ReplayConflict, SetPaused
  <2>5. CASE TimePasses \/ \E k \in ledger : LedgerForgets(k)
    BY <2>5 DEF TimePasses, LeaseExpires, BackoffElapses, LedgerForgets
  <2> QED BY <2>2, <2>3, <2>4, <2>5 DEF Next
<1> QED BY <1>1, TypeCorrect, PTL DEF Spec, LeaseRespected

(***************************************************************************)
(* Outbox implements EventDelivery                                         *)
(***************************************************************************)

(* The fate of each status. *)
LEMMA FateOf ==
  /\ Fate("ABSENT") = "unborn" /\ Fate("PENDING") = "queued"
  /\ Fate("PROCESSING") = "queued" /\ Fate("FAILED") = "queued"
  /\ Fate("PROCESSED") = "delivered" /\ Fate("DEAD_LETTER") = "dead"
  /\ Fate("CANCELLED") = "cancelled" /\ Fate("DELETED") = "gone"
  BY DEF Fate, ACTIVE

(* Every outbox step moves fates, or records a reception, the way          *)
(* EventDelivery allows, or is invisible to it.                            *)
LEMMA DeliveryStep ==
  ASSUME TypeOK, HandInv, ProgressInv, [Next]_vars
  PROVE  [Delivery!Next]_(Delivery!vars)
<1>1. ASSUME NEW S \in SUBSET Rows, NEW From, NEW To,
             \A r \in S : Fate(status[r]) \in From,
             \A r \in Rows : Fate(status'[r]) = IF r \in S THEN To ELSE Fate(status[r]),
             ran' = ran
      PROVE  Delivery!Move(S, From, To)
  BY <1>1 DEF Delivery!Move
<1>2. ASSUME \A r \in Rows : Fate(status'[r]) = Fate(status[r]), ran' = ran
      PROVE  UNCHANGED Delivery!vars
  BY <1>2 DEF Delivery!vars
<1>3. ASSUME NEW S \in SUBSET Rows,
             \/ Delivery!Move(S, {"unborn"}, "queued")
             \/ Delivery!Complete(S) /\ Delivery!Move(S, {"queued"}, "delivered")
             \/ Delivery!Move(S, {"queued"}, "dead")
             \/ Delivery!Move(S, {"dead"}, "queued")
             \/ Delivery!Move(S, {"queued", "dead"}, "cancelled")
             \/ Delivery!Move(S, {"delivered", "cancelled"}, "gone")
      PROVE  Delivery!Next
  BY <1>3 DEF Delivery!Next, Delivery!Publish, Delivery!Deliver, Delivery!GiveUp,
              Delivery!Revive, Delivery!Cancel, Delivery!Purge
<1>4. CASE UNCHANGED vars
  BY <1>2, <1>4 DEF vars, row, hist
<1>5. ASSUME NEW S \in SUBSET Rows, Enqueue(S) PROVE Delivery!Next
  <2>1. Delivery!Move(S, {"unborn"}, "queued")
    BY <1>1, <1>5, FateOf DEF Enqueue, hist, TypeOK
  <2> QED BY <1>3, <2>1
<1>6. ASSUME NEW S \in SUBSET Rows, Purge(S) PROVE Delivery!Next
  <2>1. Delivery!Move(S, {"delivered", "cancelled"}, "gone")
    BY <1>1, <1>6, FateOf DEF Purge, PURGEABLE, hist, TypeOK
  <2> QED BY <1>3, <2>1
<1>7. ASSUME NEW w \in Workers, DeadLetterExpired(w) PROVE Delivery!Next
  <2> DEFINE S == {r \in Rows : Exhausted(r)}
  <2>1. /\ \A r \in S : status[r] = "PROCESSING"
        /\ \A r \in Rows : status'[r] = IF r \in S THEN "DEAD_LETTER" ELSE status[r]
        /\ ran' = ran
    BY <1>7 DEF DeadLetterExpired, Exhausted, hist
  <2>2. Delivery!Move(S, {"queued"}, "dead")
    BY <1>1, <2>1, FateOf
  <2> QED BY <1>3, <2>2
<1>8. ASSUME NEW w \in Workers, NEW S \in SUBSET Rows, NEW a \in BOOLEAN, Claim(w, S, a)
      PROVE  UNCHANGED Delivery!vars
  <2>1. /\ \A r \in S : status[r] \in {"PENDING", "FAILED", "PROCESSING"}
        /\ \A r \in Rows : status'[r] = IF r \in S THEN "PROCESSING" ELSE status[r]
        /\ ran' = ran
    BY <1>8 DEF Claim, IsOldestBatch, Claimable, hist
  <2> QED BY <1>2, <2>1, FateOf
<1>9. ASSUME NEW w \in Workers, NEW h \in Handlers, RunHandler(w, h) PROVE Delivery!Next
  <2>1. current[w] \in Records /\ current[w].row \in Rows /\ status[current[w].row] # "ABSENT"
    BY <1>9, NoRecNotRecord DEF RunHandler, AtStage, HandInv, InHand, Records
  <2>2. Fate(status[current[w].row]) # "unborn"
    BY <2>1, FateOf DEF TypeOK, Statuses
  <2>3. /\ ran' = ran \cup {<<current[w].row, h>>} /\ status' = status
    BY <1>9 DEF RunHandler, GoTo, Key, row
  <2>4. Delivery!Receive(current[w].row, h)
    BY <2>1, <2>2, <2>3 DEF Delivery!Receive
  <2> QED BY <2>1, <2>4 DEF Delivery!Next
<1>10. ASSUME NEW w \in Workers, pc[w] \in {"dispatch", "failing"}, ran' = ran,
              NEW st \in {"PROCESSED", "DEAD_LETTER", "FAILED"}, NEW n,
              st = "PROCESSED" => \A h \in Handlers : <<current[w].row, h>> \in ran,
              Settle(w, current[w].row, st, n)
       PROVE  Delivery!Next \/ UNCHANGED Delivery!vars
  <2> DEFINE r == current[w].row
  <2>1. r \in Rows
    BY <1>10 DEF HandInv, Records
  <2>2. CASE ~HoldsLease(w, r)
    <3>1. status' = status
      BY <1>10, <2>2 DEF Settle
    <3> QED BY <1>2, <1>10, <3>1
  <2>3. CASE HoldsLease(w, r)
    <3>1. /\ status[r] = "PROCESSING"
          /\ \A q \in Rows : status'[q] = IF q \in {r} THEN st ELSE status[q]
      BY <1>10, <2>1, <2>3 DEF Settle, HoldsLease, TypeOK
    <3>2. CASE st = "FAILED"
      BY <1>2, <1>10, <3>1, <3>2, FateOf
    <3>3. CASE st = "DEAD_LETTER"
      <4>1. Delivery!Move({r}, {"queued"}, "dead")
        BY <1>1, <1>10, <2>1, <3>1, <3>3, FateOf
      <4> QED BY <1>3, <2>1, <4>1
    <3>4. CASE st = "PROCESSED"
      <4>1. Delivery!Move({r}, {"queued"}, "delivered")
        BY <1>1, <1>10, <2>1, <3>1, <3>4, FateOf
      <4>2. Delivery!Complete({r})
        BY <1>10, <3>4 DEF Delivery!Complete
      <4> QED BY <1>3, <2>1, <4>1, <4>2
    <3> QED BY <1>10, <3>2, <3>3, <3>4
  <2> QED BY <2>2, <2>3
<1>11. ASSUME NEW w \in Workers,
              MarkProcessed(w) \/ MarkFailed(w) \/ \E a \in BOOLEAN : MarkProcessedThrows(w, a)
       PROVE  Delivery!Next \/ UNCHANGED Delivery!vars
  <2>1. ran' = ran /\ pc[w] \in {"dispatch", "failing"}
    BY <1>11 DEF MarkProcessed, MarkFailed, MarkProcessedThrows, Settled, Failing, hist
  <2>2. Settled(w) /\ ~Rejected(w) => \A h \in Handlers : <<current[w].row, h>> \in ran
    BY DEF Settled, Rejected, ProgressInv, Key
  <2>3. FailureStatus(current[w]) \in {"DEAD_LETTER", "FAILED"}
    BY DEF FailureStatus
  <2>4. CASE MarkProcessed(w)
    BY <1>10, <2>1, <2>2, <2>4 DEF MarkProcessed
  <2>5. CASE MarkFailed(w)
    BY <1>10, <2>1, <2>3, <2>5 DEF MarkFailed
  <2>6. ASSUME NEW a \in BOOLEAN, MarkProcessedThrows(w, a)
        PROVE  Delivery!Next \/ UNCHANGED Delivery!vars
    <3>1. CASE a
      BY <1>10, <2>1, <2>2, <2>6, <3>1 DEF MarkProcessedThrows
    <3>2. CASE ~a
      BY <1>2, <2>1, <2>6, <3>2 DEF MarkProcessedThrows, row
    <3> QED BY <3>1, <3>2
  <2> QED BY <1>11, <2>4, <2>5, <2>6
<1>12. ASSUME NEW o \in Operators, RetryWrite(o)
       PROVE  Delivery!Next \/ UNCHANGED Delivery!vars
  <2> DEFINE r == op[o].row
  <2>1. r \in Rows
    BY <1>12 DEF RetryWrite, TypeOK, OpStates, NoOp
  <2>2. /\ status[r] \in {"FAILED", "DEAD_LETTER"} /\ ran' = ran
        /\ \A q \in Rows : status'[q] = IF q \in {r} THEN "PENDING" ELSE status[q]
    BY <1>12, <2>1 DEF RetryWrite, RetryAccepted, RETRYABLE, TypeOK, hist
  <2>3. CASE status[r] = "FAILED"
    BY <1>2, <2>2, <2>3, FateOf
  <2>4. CASE status[r] = "DEAD_LETTER"
    <3>1. Delivery!Move({r}, {"dead"}, "queued")
      BY <1>1, <2>1, <2>2, <2>4, FateOf
    <3> QED BY <1>3, <2>1, <3>1
  <2> QED BY <2>2, <2>3, <2>4
<1>13. ASSUME NEW o \in Operators, NEW r \in Rows, ReplayCreate(o, r) PROVE Delivery!Next
  <2>1. /\ status[r] = "ABSENT" /\ ran' = ran
        /\ \A q \in Rows : status'[q] = IF q \in {r} THEN "PENDING" ELSE status[q]
    BY <1>13 DEF ReplayCreate, TypeOK, hist
  <2>2. Delivery!Move({r}, {"unborn"}, "queued")
    BY <1>1, <2>1, FateOf
  <2> QED BY <1>3, <2>2
<1>14. ASSUME NEW r \in Rows, CancelRow(r) PROVE Delivery!Next
  <2>1. /\ status[r] \in {"PENDING", "FAILED", "DEAD_LETTER"} /\ ran' = ran
        /\ \A q \in Rows : status'[q] = IF q \in {r} THEN "CANCELLED" ELSE status[q]
    BY <1>14 DEF CancelRow, CANCELLABLE, TypeOK, hist
  <2>2. Delivery!Move({r}, {"queued", "dead"}, "cancelled")
    BY <1>1, <2>1, FateOf
  <2> QED BY <1>3, <2>2
<1>15. ASSUME status' = status, ran' = ran PROVE UNCHANGED Delivery!vars
  BY <1>2, <1>15
<1>16. ASSUME NEW w \in Workers, WorkerStep(w) \/ WorkerFault(w)
       PROVE  Delivery!Next \/ UNCHANGED Delivery!vars
  <2>1. \/ \E S \in SUBSET Rows, a \in BOOLEAN : Claim(w, S, a)
        \/ DeadLetterExpired(w)
        \/ \E h \in Handlers : RunHandler(w, h)
        \/ MarkProcessed(w) \/ MarkFailed(w) \/ \E a \in BOOLEAN : MarkProcessedThrows(w, a)
        \/ UNCHANGED <<status, ran>>
    BY <1>16 DEF WorkerStep, WorkerFault, RunHandlers, Tick, StartDispatch, EndBatch, CheckLedger,
                 MarkDone, RunOnceRejects, GoTo, AbandonBatch, Crash, row, hist
  <2> QED BY <2>1, <1>7, <1>8, <1>9, <1>11, <1>15
<1>17. CASE OperatorStep
  <2>1. \/ \E o \in Operators : RetryWrite(o) \/ \E r \in Rows : ReplayCreate(o, r)
        \/ \E r \in Rows : CancelRow(r)
        \/ UNCHANGED <<status, ran>>
    BY <1>17 DEF OperatorStep, RetryRead, RetryConflict, ReplayRead, ReplayConflict, SetPaused, row, hist
  <2> QED BY <2>1, <1>12, <1>13, <1>14, <1>15
<1>18. CASE TimePasses \/ \E k \in ledger : LedgerForgets(k)
  <2>1. UNCHANGED <<status, ran>>
    BY <1>18 DEF TimePasses, LeaseExpires, BackoffElapses, LedgerForgets, row, hist
  <2> QED BY <2>1, <1>15
<1> QED BY <1>4, <1>5, <1>6, <1>16, <1>17, <1>18 DEF Next

(* Leases, retries, crashes, duplicate claims and interventions implement  *)
(* the promise of EventDelivery: no event is lost, none is delivered       *)
(* without its handlers, and a settled event changes no more except that   *)
(* an operator revives or purges it.                                       *)
THEOREM OutboxImplementsDelivery == Spec => ImplementsDelivery
<1>1. Init => Delivery!Init
  BY FateOf DEF Init, Delivery!Init
<1>2. Init => ProgressInv /\ AtLeastOnce
  BY DEF Init, ProgressInv, AtLeastOnce
<1>3. TypeOK /\ HandInv /\ ProgressInv /\ AtLeastOnce /\ [Next]_vars => ProgressInv' /\ AtLeastOnce'
  BY ProgressStep
<1>4. TypeOK /\ HandInv /\ ProgressInv /\ [Next]_vars => [Delivery!Next]_(Delivery!vars)
  BY DeliveryStep
<1> QED BY <1>1, <1>2, <1>3, <1>4, TypeCorrect, PTL DEF Spec, ImplementsDelivery, Delivery!Spec

(***************************************************************************)
(* The calls of a handler                                                  *)
(***************************************************************************)

(* x is one of the calls in s. *)
Has(s, x) == \E i \in DOMAIN s : s[i] = x

(* The calls of a concatenation are those of its parts. *)
LEMMA HasConcat ==
  ASSUME NEW S, NEW s \in Seq(S), NEW t \in Seq(S), NEW x
  PROVE  Has(s \o t, x) <=> Has(s, x) \/ Has(t, x)
<1>1. PICK m \in Nat : m = Len(s)
  OBVIOUS
<1>2. PICK n \in Nat : n = Len(t)
  OBVIOUS
<1>3. /\ DOMAIN s = 1..m /\ DOMAIN t = 1..n /\ DOMAIN (s \o t) = 1..(m + n)
      /\ \A i \in 1..m : (s \o t)[i] = s[i]
      /\ \A i \in (m + 1)..(m + n) : (s \o t)[i] = t[i - m]
  BY <1>1, <1>2
<1>4. ASSUME Has(s \o t, x) PROVE Has(s, x) \/ Has(t, x)
  <2>1. PICK i \in 1..(m + n) : (s \o t)[i] = x
    BY <1>3, <1>4 DEF Has
  <2>2. CASE i \in 1..m
    BY <1>3, <2>1, <2>2 DEF Has
  <2>3. CASE i \in (m + 1)..(m + n)
    <3>1. i - m \in 1..n
      BY <2>3
    <3> QED BY <1>3, <2>1, <2>3, <3>1 DEF Has
  <2> QED BY <2>2, <2>3
<1>5. ASSUME Has(s, x) PROVE Has(s \o t, x)
  BY <1>3, <1>5 DEF Has
<1>6. ASSUME Has(t, x) PROVE Has(s \o t, x)
  <2>1. PICK i \in 1..n : t[i] = x
    BY <1>3, <1>6 DEF Has
  <2>2. i + m \in (m + 1)..(m + n) /\ (i + m) - m = i /\ i + m \in 1..(m + n)
    OBVIOUS
  <2> QED BY <1>3, <2>1, <2>2 DEF Has
<1> QED BY <1>4, <1>5, <1>6

(* The same for three and four parts *)
LEMMA HasConcat3 ==
  ASSUME NEW S, NEW s \in Seq(S), NEW t \in Seq(S), NEW u \in Seq(S), NEW x
  PROVE  Has((s \o t) \o u, x) <=> Has(s, x) \/ Has(t, x) \/ Has(u, x)
<1> DEFINE st == s \o t
<1>1. st \in Seq(S) /\ (Has(st, x) <=> Has(s, x) \/ Has(t, x))
  BY HasConcat, ConcatProperties
<1> HIDE DEF st
<1>2. Has(st \o u, x) <=> Has(st, x) \/ Has(u, x)
  BY <1>1, HasConcat
<1> QED BY <1>1, <1>2 DEF st

LEMMA HasConcat4 ==
  ASSUME NEW S, NEW s \in Seq(S), NEW t \in Seq(S), NEW u \in Seq(S), NEW v \in Seq(S), NEW x
  PROVE  Has(((s \o t) \o u) \o v, x) <=> Has(s, x) \/ Has(t, x) \/ Has(u, x) \/ Has(v, x)
<1> DEFINE st == s \o t
<1>1. st \in Seq(S) /\ (Has(st, x) <=> Has(s, x) \/ Has(t, x))
  BY HasConcat, ConcatProperties
<1> HIDE DEF st
<1>2. Has((st \o u) \o v, x) <=> Has(st, x) \/ Has(u, x) \/ Has(v, x)
  BY <1>1, HasConcat3
<1> QED BY <1>1, <1>2 DEF st

(* The last call of a handler's try block is outside of the nested one. *)
EndsOutside(s) == s # <<>> => s[Len(s)].part = "handler"

(* What follows a concatenation with one call ends with that call. *)
LEMMA LastOfAppend ==
  ASSUME NEW S, NEW s \in Seq(S), NEW x \in S, x.part = "handler"
  PROVE  EndsOutside(s \o <<x>>)
<1>1. PICK m \in Nat : m = Len(s)
  OBVIOUS
<1>2. Len(s \o <<x>>) = m + 1 /\ (s \o <<x>>)[m + 1] = x
  BY <1>1
<1> QED BY <1>2 DEF EndsOutside

(* Making the first call leaves the others. *)
LEMMA HasTail ==
  ASSUME NEW S, NEW s \in Seq(S), s # <<>>
  PROVE  /\ Head(s) \in S /\ Tail(s) \in Seq(S)
         /\ Has(s, Head(s))
         /\ \A x : Has(s, x) <=> x = Head(s) \/ Has(Tail(s), x)
         /\ EndsOutside(s) => EndsOutside(Tail(s))
<1>1. PICK n \in Nat : n = Len(s)
  OBVIOUS
<1>2. n # 0
  BY <1>1
<1>3. /\ Head(s) = s[1] /\ DOMAIN s = 1..n /\ Tail(s) \in Seq(S)
      /\ Len(Tail(s)) = n - 1 /\ DOMAIN Tail(s) = 1..(n - 1)
      /\ \A i \in 1..(n - 1) : Tail(s)[i] = s[i + 1]
  BY <1>1, <1>2, HeadTailProperties
<1>4. Head(s) \in S /\ Has(s, Head(s))
  BY <1>1, <1>2, <1>3 DEF Has
<1>5. ASSUME NEW x, Has(s, x) PROVE x = Head(s) \/ Has(Tail(s), x)
  <2>1. PICK i \in 1..n : s[i] = x
    BY <1>3, <1>5 DEF Has
  <2>2. CASE i = 1
    BY <1>3, <2>1, <2>2
  <2>3. CASE i # 1
    <3>1. i - 1 \in 1..(n - 1) /\ (i - 1) + 1 = i
      BY <2>3
    <3> QED BY <1>3, <2>1, <3>1 DEF Has
  <2> QED BY <2>2, <2>3
<1>6. ASSUME NEW x, Has(Tail(s), x) PROVE Has(s, x)
  <2>1. PICK i \in 1..(n - 1) : Tail(s)[i] = x
    BY <1>3, <1>6 DEF Has
  <2>2. i + 1 \in 1..n
    OBVIOUS
  <2> QED BY <1>3, <2>1, <2>2 DEF Has
<1>7. ASSUME EndsOutside(s), Tail(s) # <<>> PROVE Tail(s)[Len(Tail(s))].part = "handler"
  <2>1. n - 1 # 0
    BY <1>3, <1>7
  <2>2. n - 1 \in 1..(n - 1) /\ (n - 1) + 1 = n
    BY <1>2, <2>1
  <2>3. Tail(s)[Len(Tail(s))] = s[n]
    BY <1>3, <2>2
  <2> QED BY <1>1, <1>7, <2>3 DEF EndsOutside
<1> QED BY <1>3, <1>4, <1>5, <1>6, <1>7 DEF EndsOutside

(* Leaving the nested try block skips calls of that block only. *)
LEMMA LeaveTry ==
  ASSUME NEW s \in Seq(Calls), s # <<>>, EndsOutside(s)
  PROVE  /\ AfterTry(s) \in Seq(Calls)
         /\ EndsOutside(AfterTry(s))
         /\ \A x : Has(AfterTry(s), x) => Has(s, x)
         /\ \A x : Has(s, x) /\ x.part = "handler" => Has(AfterTry(s), x)
<1>1. PICK n \in Nat : n = Len(s)
  OBVIOUS
<1>2. n \in 1..n /\ DOMAIN s = 1..n /\ s[n].part = "handler"
  BY <1>1 DEF EndsOutside
<1> DEFINE Outside(i) == s[i].part = "handler"
           Out == {i \in 1..n : Outside(i)}
           first == CHOOSE i \in DOMAIN s : Outside(i) /\ \A j \in 1..(i - 1) : ~Outside(j)
<1>3. PICK i \in Out : \A j \in Out : ~(j < i)
  <2>1. Out \subseteq Nat /\ Out # {}
    BY <1>2
  <2>2. \E i \in Out : \A j \in Out : ~(<<j, i>> \in OpToRel(<, Nat))
    BY <2>1, WFMin, NatLessThanWellFounded
  <2> QED BY <2>1, <2>2 DEF OpToRel
<1>4. Outside(i) /\ \A j \in 1..(i - 1) : ~Outside(j)
  <2>1. ASSUME NEW j \in 1..(i - 1) PROVE ~Outside(j)
    <3>1. j \in 1..n /\ j < i
      BY <1>3
    <3> QED BY <1>3, <3>1
  <2> QED BY <1>3, <2>1
<1>5. first \in 1..n /\ Outside(first) /\ \A j \in 1..(first - 1) : ~Outside(j)
  BY <1>2, <1>3, <1>4
<1>6. AfterTry(s) = SubSeq(s, first, n)
  BY <1>1 DEF AfterTry
<1> HIDE DEF first
<1>7. PICK k \in Nat : k = first
  BY <1>5
<1>8. /\ AfterTry(s) \in Seq(Calls)
      /\ Len(AfterTry(s)) = n - k + 1 /\ DOMAIN AfterTry(s) = 1..(n - k + 1)
      /\ \A j \in 1..(n - k + 1) : AfterTry(s)[j] = s[k + j - 1]
  BY <1>1, <1>5, <1>6, <1>7, SubSeqProperties
<1>9. EndsOutside(AfterTry(s))
  <2>1. n - k + 1 \in 1..(n - k + 1) /\ k + (n - k + 1) - 1 = n
    BY <1>5, <1>7
  <2> QED BY <1>2, <1>8, <2>1 DEF EndsOutside
<1>10. ASSUME NEW x, Has(AfterTry(s), x) PROVE Has(s, x)
  <2>1. PICK j \in 1..(n - k + 1) : AfterTry(s)[j] = x
    BY <1>8, <1>10 DEF Has
  <2>2. k + j - 1 \in 1..n
    BY <1>5, <1>7
  <2> QED BY <1>2, <1>8, <2>1, <2>2 DEF Has
<1>11. ASSUME NEW x, Has(s, x), x.part = "handler" PROVE Has(AfterTry(s), x)
  <2>1. PICK j \in 1..n : s[j] = x
    BY <1>2, <1>11 DEF Has
  <2>2. ~(j \in 1..(k - 1))
    BY <1>5, <1>7, <1>11, <2>1
  <2>3. j - k + 1 \in 1..(n - k + 1) /\ k + (j - k + 1) - 1 = j
    BY <1>5, <1>7, <2>2
  <2> QED BY <1>8, <2>1, <2>3 DEF Has
<1> QED BY <1>8, <1>9, <1>10, <1>11

(* What the todo list of an event of this kind may hold: only the agent's  *)
(* calls of a new ticket are nested, and its other calls are not his.      *)
Shape(kind, s) ==
    /\ EndsOutside(s)
    /\ \A x \in Calls : Has(s, x) =>
          IF x.part = "nested" THEN kind = "TICKET_CREATED" /\ x.to = "agent"
                               ELSE kind = "TICKET_CREATED" => x.to # "agent"

(* A call to tell someone is still in the list. *)
Pending(s, do, to) == \E x \in Calls : Has(s, x) /\ x.do = do /\ x.to = to

(* Everybody the event concerns has been told, is about to be, or, for an  *)
(* e-mail, a call for that person has failed.                              *)
Covered(v) ==
    /\ [do |-> "ws", to |-> RoomOf(v)] \in v.told \/ Pending(v.todo, "ws", RoomOf(v))
    /\ \A u \in MailTo(v) : \/ [do |-> "mail", to |-> u] \in v.told
                            \/ Pending(v.todo, "mail", u)
                            \/ \E f \in v.failed : f.to = u

(* The calls of the handlers are calls. *)
LEMMA CallType ==
  ASSUME NEW part \in {"handler", "nested"}
  PROVE  /\ \A u \in Persons : Call("mail", u, part) \in Calls /\ Call("row", u, part) \in Calls
         /\ \A r \in Rooms : Call("read", r, part) \in Calls /\ Call("ws", r, part) \in Calls
         /\ \A do, to : /\ Call(do, to, part).do = do
                        /\ Call(do, to, part).to = to
                        /\ Call(do, to, part).part = part
  BY DEF Call, Calls, Rooms

(* Every handler's list is well formed and holds a call for everybody      *)
(* the event concerns.                                                     *)
HandlerOK(kind, agent, manager, s) ==
    /\ s \in Seq(Calls)
    /\ Shape(kind, s)
    /\ \A v : v.kind = kind /\ v.agent = agent /\ v.manager = manager =>
          Pending(s, "ws", RoomOf(v)) /\ \A u \in MailTo(v) : Pending(s, "mail", u)

(* notifyTicketAssigned on its own *)
LEMMA AssignedCalls ==
  ASSUME NEW part \in {"handler", "nested"}
  PROVE  /\ notifyTicketAssigned(part) \in Seq(Calls)
         /\ \A x : Has(notifyTicketAssigned(part), x) <=>
                      x \in {Call("read", "agent", part), Call("mail", "agent", part),
                             Call("ws", "agent", part), Call("row", "agent", part)}
         /\ EndsOutside(notifyTicketAssigned("handler"))
<1> DEFINE s == notifyTicketAssigned(part)
<1>1. s \in Seq(Calls)
  BY CallType DEF notifyTicketAssigned, Persons, Rooms
<1>2. DOMAIN s = 1..4 /\ s[1] = Call("read", "agent", part) /\ s[2] = Call("mail", "agent", part)
        /\ s[3] = Call("ws", "agent", part) /\ s[4] = Call("row", "agent", part)
  BY DEF notifyTicketAssigned
<1>3. \A i : i \in 1..4 <=> i \in {1, 2, 3, 4}
  OBVIOUS
<1>4. EndsOutside(notifyTicketAssigned("handler"))
  BY CallType DEF EndsOutside, notifyTicketAssigned
<1> HIDE DEF s
<1>5. \A x : Has(s, x) <=> x \in {s[1], s[2], s[3], s[4]}
  BY <1>2, <1>3 DEF Has
<1> QED BY <1>1, <1>2, <1>4, <1>5 DEF s

(* The calls of short lists *)
LEMMA HasShort ==
  /\ \A x : ~Has(<<>>, x)
  /\ \A a, x : Has(<<a>>, x) <=> x = a
  /\ \A a, b, x : Has(<<a, b>>, x) <=> x \in {a, b}
  /\ \A a, b, c, x : Has(<<a, b, c>>, x) <=> x \in {a, b, c}
<1>1. \A x : ~Has(<<>>, x)
  BY DEF Has
<1>2. \A a, x : Has(<<a>>, x) <=> x = a
  BY DEF Has
<1>3. \A a, b, x : Has(<<a, b>>, x) <=> x \in {a, b}
  <2> TAKE a, b, x
  <2> DEFINE s == <<a, b>>
  <2>1. DOMAIN s = 1..2 /\ s[1] = a /\ s[2] = b /\ \A i : i \in 1..2 <=> i \in {1, 2}
    OBVIOUS
  <2> HIDE DEF s
  <2>2. Has(s, x) <=> x \in {s[1], s[2]}
    BY <2>1 DEF Has
  <2> QED BY <2>1, <2>2 DEF s
<1>4. \A a, b, c, x : Has(<<a, b, c>>, x) <=> x \in {a, b, c}
  <2> TAKE a, b, c, x
  <2> DEFINE s == <<a, b, c>>
  <2>1. DOMAIN s = 1..3 /\ s[1] = a /\ s[2] = b /\ s[3] = c /\ \A i : i \in 1..3 <=> i \in {1, 2, 3}
    OBVIOUS
  <2> HIDE DEF s
  <2>2. Has(s, x) <=> x \in {s[1], s[2], s[3]}
    BY <2>1 DEF Has
  <2> QED BY <2>1, <2>2 DEF s
<1> QED BY <1>1, <1>2, <1>3, <1>4

(* A new ticket: the customer, the agent in a try block of its own, and    *)
(* the managers' room.                                                     *)
LEMMA CreatedCalls ==
  ASSUME NEW agent \in BOOLEAN, NEW manager
  PROVE  HandlerOK("TICKET_CREATED", agent, manager, notifyTicketCreated(agent))
<1> DEFINE read  == Call("read", "customer", "handler")
           mail  == Call("mail", "customer", "handler")
           line  == Call("row", "customer", "handler")
           ws    == Call("ws", "tenant", "handler")
           first == <<read, mail, line>>
           inner == IF agent THEN notifyTicketAssigned("nested") ELSE <<>>
           s     == notifyTicketCreated(agent)
<1>1. /\ read \in Calls /\ mail \in Calls /\ line \in Calls /\ ws \in Calls
      /\ read.to = "customer" /\ mail.to = "customer" /\ line.to = "customer" /\ ws.to = "tenant"
      /\ mail.do = "mail" /\ ws.do = "ws"
      /\ read.part = "handler" /\ mail.part = "handler" /\ line.part = "handler"
      /\ ws.part = "handler"
  BY CallType DEF Persons, Rooms
<1>2. s = (first \o inner) \o <<ws>>
  BY DEF notifyTicketCreated
<1> HIDE DEF read, mail, line, ws
<1>3. first \in Seq(Calls) /\ <<ws>> \in Seq(Calls)
  BY <1>1
<1>4. inner \in Seq(Calls)
  BY AssignedCalls
<1>5. first \o inner \in Seq(Calls)
  BY <1>3, <1>4, ConcatProperties
<1>6. s \in Seq(Calls)
  BY <1>2, <1>3, <1>5, ConcatProperties
<1>7. \A x : Has(s, x) <=> x \in {read, mail, line, ws} \/ Has(inner, x)
  <2>1. \A x : Has((first \o inner) \o <<ws>>, x) <=> Has(first, x) \/ Has(inner, x) \/ Has(<<ws>>, x)
    <3> HIDE DEF first, inner
    <3> QED BY <1>3, <1>4, HasConcat3
  <2>2. \A x : (Has(first, x) <=> x \in {read, mail, line}) /\ (Has(<<ws>>, x) <=> x = ws)
    BY HasShort
  <2> QED BY <1>2, <2>1, <2>2
<1>8. EndsOutside(s)
  BY <1>1, <1>2, <1>5, LastOfAppend
<1>9. \A x : Has(inner, x) => x.part = "nested" /\ x.to = "agent"
  BY AssignedCalls, HasShort, CallType
<1> HIDE DEF first, inner, s
<1>10. Shape("TICKET_CREATED", s)
  BY <1>1, <1>7, <1>8, <1>9 DEF Shape
<1>11. Pending(s, "ws", "tenant") /\ Pending(s, "mail", "customer")
  BY <1>1, <1>7 DEF Pending
<1>12. ASSUME agent PROVE Pending(s, "mail", "agent")
  <2>1. /\ Has(s, Call("mail", "agent", "nested")) /\ Call("mail", "agent", "nested") \in Calls
        /\ Call("mail", "agent", "nested").do = "mail" /\ Call("mail", "agent", "nested").to = "agent"
    BY <1>7, <1>12, AssignedCalls, CallType DEF inner, Persons
  <2> QED BY <2>1 DEF Pending
<1>13. ASSUME NEW v, v.kind = "TICKET_CREATED", v.agent = agent
       PROVE  RoomOf(v) = "tenant" /\ MailTo(v) = {"customer"} \cup (IF agent THEN {"agent"} ELSE {})
  BY <1>13 DEF RoomOf, MailTo
<1> QED BY <1>6, <1>10, <1>11, <1>12, <1>13 DEF HandlerOK, s

(* An escalation: the managers, the agent and the managers' room. *)
LEMMA EscalatedCalls ==
  ASSUME NEW agent \in BOOLEAN, NEW manager \in BOOLEAN
  PROVE  HandlerOK("TICKET_ESCALATED", agent, manager, notifyTicketEscalated(agent, manager))
<1> DEFINE read  == Call("read", "tenant", "handler")
           mailM == Call("mail", "manager", "handler")
           wsM   == Call("ws", "manager", "handler")
           readA == Call("read", "agent", "handler")
           mailA == Call("mail", "agent", "handler")
           ws    == Call("ws", "tenant", "handler")
           toM   == IF manager THEN <<mailM, wsM>> ELSE <<>>
           toA   == IF agent THEN <<readA, mailA>> ELSE <<>>
           s     == notifyTicketEscalated(agent, manager)
           All   == {read, mailM, wsM, readA, mailA, ws}
<1>1. /\ \A x \in All : x \in Calls /\ x.part = "handler"
      /\ ws.do = "ws" /\ ws.to = "tenant" /\ mailM.do = "mail" /\ mailM.to = "manager"
      /\ mailA.do = "mail" /\ mailA.to = "agent"
  BY CallType DEF Persons, Rooms
<1>2. s = ((<<read>> \o toM) \o toA) \o <<ws>>
  BY DEF notifyTicketEscalated
<1> HIDE DEF read, mailM, wsM, readA, mailA, ws
<1>3. /\ <<read>> \in Seq(Calls) /\ <<ws>> \in Seq(Calls)
      /\ toM \in Seq(Calls) /\ toA \in Seq(Calls)
  BY <1>1
<1>4. <<read>> \o toM \in Seq(Calls) /\ (<<read>> \o toM) \o toA \in Seq(Calls) /\ s \in Seq(Calls)
  BY <1>2, <1>3, ConcatProperties
<1>5. /\ \A x : (Has(<<read>>, x) <=> x = read) /\ (Has(<<ws>>, x) <=> x = ws)
      /\ \A x : Has(toM, x) <=> manager /\ x \in {mailM, wsM}
      /\ \A x : Has(toA, x) <=> agent /\ x \in {readA, mailA}
  BY HasShort
<1>6. \A x : Has(s, x) <=> x \in {read, ws} \/ Has(toM, x) \/ Has(toA, x)
  <2>1. \A x : Has(((<<read>> \o toM) \o toA) \o <<ws>>, x) <=>
                   Has(<<read>>, x) \/ Has(toM, x) \/ Has(toA, x) \/ Has(<<ws>>, x)
    <3> DEFINE open  == <<read>>
               close == <<ws>>
    <3>1. open \in Seq(Calls) /\ close \in Seq(Calls)
      BY <1>3
    <3> HIDE DEF toM, toA, open, close
    <3>2. \A x : Has(((open \o toM) \o toA) \o close, x) <=>
                   Has(open, x) \/ Has(toM, x) \/ Has(toA, x) \/ Has(close, x)
      BY <1>3, <3>1, HasConcat4
    <3> QED BY <3>2 DEF open, close
  <2> QED BY <1>2, <1>5, <2>1
<1>7. EndsOutside(s)
  BY <1>1, <1>2, <1>4, LastOfAppend
<1> HIDE DEF toM, toA, s
<1>8. Shape("TICKET_ESCALATED", s)
  BY <1>1, <1>5, <1>6, <1>7 DEF Shape
<1>9. /\ Pending(s, "ws", "tenant")
      /\ manager => Pending(s, "mail", "manager")
      /\ agent => Pending(s, "mail", "agent")
  BY <1>1, <1>5, <1>6 DEF Pending
<1>10. ASSUME NEW v, v.kind = "TICKET_ESCALATED", v.agent = agent, v.manager = manager
       PROVE  /\ RoomOf(v) = "tenant"
              /\ MailTo(v) = (IF manager THEN {"manager"} ELSE {}) \cup (IF agent THEN {"agent"} ELSE {})
  BY <1>10 DEF RoomOf, MailTo
<1> QED BY <1>4, <1>8, <1>9, <1>10 DEF HandlerOK, s

(* A comment: the customer's answer, the agent's question, the ticket's    *)
(* room.                                                                   *)
LEMMA CommentCalls ==
  ASSUME NEW kind \in {"INTERNAL", "REPLY", "QUESTION"}, NEW agent \in BOOLEAN, NEW manager
  PROVE  HandlerOK(kind, agent, manager, notifyCommentAdded(kind, agent))
<1> DEFINE read == Call("read", "ticket", "handler")
           mail == Call("mail", "customer", "handler")
           ask  == Call("ws", "agent", "handler")
           ws   == Call("ws", "ticket", "handler")
           one  == IF kind = "INTERNAL" THEN <<>> ELSE <<read>>
           two  == IF kind = "REPLY" THEN <<mail>> ELSE <<>>
           more == IF kind = "QUESTION" /\ agent THEN <<ask>> ELSE <<>>
           s    == notifyCommentAdded(kind, agent)
<1>1. /\ \A x \in {read, mail, ask, ws} : x \in Calls /\ x.part = "handler"
      /\ ws.do = "ws" /\ ws.to = "ticket" /\ mail.do = "mail" /\ mail.to = "customer"
  BY CallType DEF Persons, Rooms
<1>2. s = ((one \o two) \o more) \o <<ws>>
  BY DEF notifyCommentAdded
<1> HIDE DEF read, mail, ask, ws
<1>3. one \in Seq(Calls) /\ two \in Seq(Calls) /\ more \in Seq(Calls) /\ <<ws>> \in Seq(Calls)
  BY <1>1
<1>4. one \o two \in Seq(Calls) /\ (one \o two) \o more \in Seq(Calls) /\ s \in Seq(Calls)
  BY <1>2, <1>3, ConcatProperties
<1>5. \A x : /\ Has(one, x) => x = read
             /\ Has(two, x) <=> kind = "REPLY" /\ x = mail
             /\ Has(more, x) => x = ask
             /\ Has(<<ws>>, x) <=> x = ws
  BY HasShort
<1>6. \A x : Has(s, x) <=> Has(one, x) \/ Has(two, x) \/ Has(more, x) \/ x = ws
  <2>1. \A x : Has(((one \o two) \o more) \o <<ws>>, x) <=>
                   Has(one, x) \/ Has(two, x) \/ Has(more, x) \/ Has(<<ws>>, x)
    <3> DEFINE close == <<ws>>
    <3>1. close \in Seq(Calls)
      BY <1>3
    <3> HIDE DEF one, two, more, close
    <3>2. \A x : Has(((one \o two) \o more) \o close, x) <=>
                   Has(one, x) \/ Has(two, x) \/ Has(more, x) \/ Has(close, x)
      BY <1>3, <3>1, HasConcat4
    <3> QED BY <3>2 DEF close
  <2> QED BY <1>2, <1>5, <2>1
<1>7. EndsOutside(s)
  BY <1>1, <1>2, <1>4, LastOfAppend
<1> HIDE DEF one, two, more, s
<1>8. Shape(kind, s)
  BY <1>1, <1>5, <1>6, <1>7 DEF Shape
<1>9. Pending(s, "ws", "ticket") /\ (kind = "REPLY" => Pending(s, "mail", "customer"))
  BY <1>1, <1>5, <1>6 DEF Pending
<1>10. ASSUME NEW v, v.kind = kind
       PROVE  RoomOf(v) = "ticket" /\ MailTo(v) = IF kind = "REPLY" THEN {"customer"} ELSE {}
  BY <1>10 DEF RoomOf, MailTo
<1> QED BY <1>4, <1>8, <1>9, <1>10 DEF HandlerOK, s

(* Each handler's list is well formed and complete. *)
LEMMA HandlerCalls ==
  ASSUME NEW kind \in AllKinds, NEW agent \in BOOLEAN, NEW manager \in BOOLEAN
  PROVE  HandlerOK(kind, agent, manager, Handler(kind, agent, manager))
<1>1. CASE kind = "TICKET_CREATED"
  BY <1>1, CreatedCalls DEF Handler
<1>2. CASE kind = "TICKET_ESCALATED"
  BY <1>2, EscalatedCalls DEF Handler
<1>3. CASE kind \in {"INTERNAL", "REPLY", "QUESTION"}
  BY <1>3, CommentCalls DEF Handler
<1>4. CASE kind = "TICKET_ASSIGNED"
  <2> DEFINE s == notifyTicketAssigned("handler")
  <2>1. Handler(kind, agent, manager) = s
    BY <1>4 DEF Handler
  <2>2. /\ s \in Seq(Calls) /\ EndsOutside(s)
        /\ \A x : Has(s, x) <=> x \in {Call("read", "agent", "handler"), Call("mail", "agent", "handler"),
                                       Call("ws", "agent", "handler"), Call("row", "agent", "handler")}
    BY AssignedCalls
  <2> HIDE DEF s
  <2>3. Shape(kind, s)
    BY <1>4, <2>2, CallType DEF Shape
  <2>4. Pending(s, "ws", "agent") /\ Pending(s, "mail", "agent")
    BY <2>2, CallType DEF Pending, Persons, Rooms
  <2>5. \A v : v.kind = kind => RoomOf(v) = "agent" /\ MailTo(v) = {"agent"}
    BY <1>4 DEF RoomOf, MailTo
  <2> QED BY <2>1, <2>2, <2>3, <2>4, <2>5 DEF HandlerOK
<1>5. CASE kind = "TICKET_RESOLVED"
  <2> DEFINE read == Call("read", "ticket", "handler")
             mail == Call("mail", "customer", "handler")
             ws   == Call("ws", "ticket", "handler")
             s    == <<read, mail, ws>>
  <2>1. Handler(kind, agent, manager) = s
    BY <1>5 DEF Handler, notifyTicketResolved
  <2>2. /\ \A x \in {read, mail, ws} : x \in Calls /\ x.part = "handler"
        /\ ws.do = "ws" /\ ws.to = "ticket" /\ mail.do = "mail" /\ mail.to = "customer"
    BY CallType DEF Persons, Rooms
  <2> HIDE DEF read, mail, ws
  <2>3. s \in Seq(Calls) /\ EndsOutside(s)
    BY <2>2 DEF EndsOutside
  <2>4. \A x : Has(s, x) <=> x \in {read, mail, ws}
    BY HasShort
  <2> HIDE DEF s
  <2>5. Shape(kind, s)
    BY <1>5, <2>2, <2>3, <2>4 DEF Shape
  <2>6. Pending(s, "ws", "ticket") /\ Pending(s, "mail", "customer")
    BY <2>2, <2>4 DEF Pending
  <2>7. \A v : v.kind = kind => RoomOf(v) = "ticket" /\ MailTo(v) = {"customer"}
    BY <1>5 DEF RoomOf, MailTo
  <2> QED BY <2>1, <2>3, <2>5, <2>6, <2>7 DEF HandlerOK
<1> QED BY <1>1, <1>2, <1>3, <1>4, <1>5 DEF AllKinds

(***************************************************************************)
(* The handling of one event                                               *)
(***************************************************************************)
HandlingInv(v) ==
    /\ Shape(v.kind, v.todo)
    /\ v.state # "running" => v.todo = <<>>
    /\ v.state \in {"running", "done"} /\ Excuses(v) = {} => Covered(v)

(* An empty list has every shape. *)
LEMMA EmptyShape == ASSUME NEW kind PROVE Shape(kind, <<>>)
  BY HasShort DEF Shape, EndsOutside

(* Publishing, processing and restarting leave nothing to do. *)
LEMMA QuietHandling ==
  ASSUME NEW v \in Handlings, v.todo = <<>>, v.state \in {"none", "new"}
  PROVE  HandlingInv(v)
<1>1. v.state \notin {"running", "done"} /\ v.state # "running"
  OBVIOUS
<1> QED BY <1>1, EmptyShape DEF HandlingInv

(* The handler starts with the whole list. *)
LEMMA StartHandling ==
  ASSUME NEW v \in Handlings, NEW agent \in BOOLEAN, NEW manager \in BOOLEAN, NEW w,
         w = [v EXCEPT !.state = "running", !.agent = agent, !.manager = manager,
                       !.todo = Handler(v.kind, agent, manager), !.told = {}, !.failed = {}]
  PROVE  w \in Handlings /\ HandlingInv(w)
<1> DEFINE s == Handler(v.kind, agent, manager)
<1>1. v.kind \in AllKinds
  BY DEF Handlings
<1>2. HandlerOK(v.kind, agent, manager, s)
  BY <1>1, HandlerCalls
<1> HIDE DEF s
<1>3. w = [v EXCEPT !.state = "running", !.agent = agent, !.manager = manager,
                    !.todo = s, !.told = {}, !.failed = {}]
  BY DEF s
<1>4. s \in Seq(Calls)
  BY <1>2 DEF HandlerOK
<1>5. w \in Handlings
  BY <1>3, <1>4 DEF Handlings
<1>6. /\ w.state = "running" /\ w.kind = v.kind /\ w.agent = agent /\ w.manager = manager
      /\ w.todo = s /\ w.told = {} /\ w.failed = {}
  BY <1>3 DEF Handlings
<1>7. Shape(w.kind, w.todo) /\ Covered(w)
  BY <1>2, <1>6 DEF HandlerOK, Covered
<1> QED BY <1>5, <1>6, <1>7 DEF HandlingInv

(* A call made is told, and the rest stays to be done. *)
LEMMA CallMade ==
  ASSUME NEW v \in Handlings, HandlingInv(v), v.state = "running", v.todo # <<>>,
         NEW w \in Handlings, w.state = "running", w.kind = v.kind, w.agent = v.agent,
         w.manager = v.manager, w.failed = v.failed, w.todo = Tail(v.todo),
         w.told = v.told \cup {[do |-> Head(v.todo).do, to |-> Head(v.todo).to]}
  PROVE  HandlingInv(w)
<1>1. v.todo \in Seq(Calls)
  BY DEF Handlings
<1>2. /\ Head(v.todo) \in Calls
      /\ \A x : Has(v.todo, x) <=> x = Head(v.todo) \/ Has(w.todo, x)
      /\ EndsOutside(v.todo) => EndsOutside(w.todo)
  BY <1>1, HasTail
<1>3. Shape(w.kind, w.todo)
  BY <1>2 DEF HandlingInv, Shape
<1>4. MailTo(w) = MailTo(v) /\ RoomOf(w) = RoomOf(v) /\ Excuses(w) = Excuses(v)
  BY DEF MailTo, RoomOf, Excuses
<1>5. ASSUME NEW do, NEW to, [do |-> do, to |-> to] \in v.told \/ Pending(v.todo, do, to)
      PROVE  [do |-> do, to |-> to] \in w.told \/ Pending(w.todo, do, to)
  <2>1. CASE [do |-> do, to |-> to] \in v.told
    BY <2>1
  <2>2. CASE Pending(v.todo, do, to)
    <3>1. PICK x \in Calls : Has(v.todo, x) /\ x.do = do /\ x.to = to
      BY <2>2 DEF Pending
    <3>2. CASE x = Head(v.todo)
      BY <3>1, <3>2
    <3>3. CASE Has(w.todo, x)
      BY <3>1, <3>3 DEF Pending
    <3> QED BY <1>2, <3>1, <3>2, <3>3
  <2> QED BY <1>5, <2>1, <2>2
<1>6. ASSUME Excuses(w) = {} PROVE Covered(w)
  <2>1. Covered(v)
    BY <1>4, <1>6 DEF HandlingInv
  <2> QED BY <1>4, <1>5, <2>1 DEF Covered
<1> QED BY <1>3, <1>6 DEF HandlingInv

(* A call that fails outside of the nested block is an excuse; inside, it  *)
(* is the agent's and skips only calls for the agent.                      *)
LEMMA CallFailed ==
  ASSUME NEW v \in Handlings, HandlingInv(v), v.state = "running", v.todo # <<>>,
         NEW w, w.state = "running", w.kind = v.kind, w.agent = v.agent,
         w.manager = v.manager, w.told = v.told,
         w.todo = IF Head(v.todo).part = "nested" THEN AfterTry(v.todo) ELSE <<>>,
         w.failed = v.failed \cup {[do |-> Head(v.todo).do, to |-> Head(v.todo).to]}
  PROVE  w.todo \in Seq(Calls) /\ HandlingInv(w)
<1> DEFINE c == Head(v.todo)
           f == [do |-> c.do, to |-> c.to]
<1>1. v.todo \in Seq(Calls)
  BY DEF Handlings
<1>2. c \in Calls /\ Has(v.todo, c)
  BY <1>1, HasTail
<1>3. f.to = c.to /\ w.failed = v.failed \cup {f}
  OBVIOUS
<1>4. c.part \in {"handler", "nested"}
  BY <1>2 DEF Calls
<1>5. Shape(v.kind, v.todo) /\ EndsOutside(v.todo)
  BY DEF HandlingInv, Shape
<1> HIDE DEF c, f
<1>6. CASE c.part = "handler"
  <2>1. w.todo = <<>>
    BY <1>6 DEF c
  <2>2. v.kind = "TICKET_CREATED" => c.to # "agent"
    BY <1>2, <1>5, <1>6 DEF Shape
  <2>3. f \in Excuses(w)
    BY <1>3, <2>2 DEF Excuses
  <2>4. w.todo \in Seq(Calls)
    <3>1. <<>> \in Seq(Calls)
      OBVIOUS
    <3> QED BY <2>1, <3>1, Zenon
  <2>5. Shape(w.kind, w.todo) /\ Excuses(w) # {}
    BY <2>1, <2>3, EmptyShape, Zenon
  <2> QED BY <2>4, <2>5 DEF HandlingInv
<1>7. CASE c.part = "nested"
  <2>1. v.kind = "TICKET_CREATED" /\ c.to = "agent"
    BY <1>2, <1>5, <1>7 DEF Shape
  <2>2. w.todo = AfterTry(v.todo)
    BY <1>7 DEF c
  <2>3. /\ w.todo \in Seq(Calls) /\ EndsOutside(w.todo)
        /\ \A x : Has(w.todo, x) => Has(v.todo, x)
        /\ \A x : Has(v.todo, x) /\ x.part = "handler" => Has(w.todo, x)
    BY <1>1, <1>5, <2>2, LeaveTry
  <2>4. Shape(w.kind, w.todo)
    BY <1>5, <2>3 DEF Shape
  <2>5. Excuses(w) = Excuses(v)
    BY <1>3, <2>1 DEF Excuses
  <2>6. MailTo(w) = MailTo(v) /\ RoomOf(w) = RoomOf(v)
    BY DEF MailTo, RoomOf
  <2>7. ASSUME NEW do, NEW to, to # "agent", Pending(v.todo, do, to)
        PROVE  Pending(w.todo, do, to)
    <3>1. PICK x \in Calls : Has(v.todo, x) /\ x.do = do /\ x.to = to
      BY <2>7 DEF Pending
    <3>2. x.part # "nested" /\ x.part \in {"handler", "nested"}
      BY <1>5, <2>7, <3>1 DEF Shape, Calls
    <3> QED BY <2>3, <3>1, <3>2 DEF Pending
  <2>8. ASSUME Excuses(w) = {} PROVE Covered(w)
    <3>1. Covered(v)
      BY <2>5, <2>8 DEF HandlingInv
    <3>2. RoomOf(v) = "tenant"
      BY <2>1 DEF RoomOf
    <3>3. f \in w.failed /\ f.to = "agent" /\ v.failed \subseteq w.failed
      BY <1>3, <2>1
    <3> QED BY <2>6, <2>7, <3>1, <3>2, <3>3 DEF Covered
  <2> QED BY <2>3, <2>4, <2>8 DEF HandlingInv
<1> QED BY <1>4, <1>6, <1>7

(* A handler that has nothing left to do has covered everybody. *)
LEMMA HandlingEnds ==
  ASSUME NEW v \in Handlings, HandlingInv(v), v.state = "running", v.todo = <<>>,
         NEW w, w.state = "done", w.kind = v.kind, w.agent = v.agent, w.manager = v.manager,
         w.told = v.told, w.todo = v.todo, w.failed = v.failed
  PROVE  HandlingInv(w)
<1>1. MailTo(w) = MailTo(v) /\ RoomOf(w) = RoomOf(v) /\ Excuses(w) = Excuses(v)
  BY DEF MailTo, RoomOf, Excuses
<1>2. Excuses(w) = {} => Covered(w)
  BY <1>1 DEF HandlingInv, Covered
<1> QED BY <1>2, EmptyShape DEF HandlingInv

(* The property, from the invariant: nothing is pending any more. *)
LEMMA DoneIsTold ==
  ASSUME NEW v, HandlingInv(v), v.state = "done", Excuses(v) = {}
  PROVE  /\ [do |-> "ws", to |-> RoomOf(v)] \in v.told
         /\ \A u \in MailTo(v) : [do |-> "mail", to |-> u] \in v.told
                                     \/ \E f \in v.failed : f.to = u
<1>1. \A do, to : ~Pending(v.todo, do, to)
  BY HasShort DEF HandlingInv, Pending
<1> QED BY <1>1 DEF HandlingInv, Covered

(***************************************************************************)
(* Notifications                                                           *)
(***************************************************************************)
NotificationInv == NotificationTypeOK /\ \A e \in Events : HandlingInv(event[e])

(* Initially there is no event. *)
LEMMA NotificationInit0 == NotificationInit => NotificationInv
<1> SUFFICES ASSUME NotificationInit PROVE NotificationInv
  OBVIOUS
<1>1. NoEvent \in Handlings /\ NoEvent.todo = <<>> /\ NoEvent.state = "none"
  BY DEF NoEvent, Handlings, AllKinds
<1>2. \A e \in Events : HandlingInv(event[e])
  BY <1>1, QuietHandling DEF NotificationInit
<1>3. faults \in 0..MaxFaults /\ changes \in 0..MaxChanges
  BY NotificationAssumption DEF NotificationInit
<1>4. waiting \in [Persons -> Nat] /\ inbox \in [Persons -> [unread : Nat, read : Nat]]
  BY DEF NotificationInit
<1>5. {assigned, linked, granted} \subseteq BOOLEAN
  BY DEF NotificationInit
<1>6. active \subseteq Persons /\ event \in [Events -> Handlings]
        /\ bus \subseteq [room : Rooms, kind : AllKinds]
  BY <1>1 DEF NotificationInit
<1> QED BY <1>2, <1>3, <1>4, <1>5, <1>6 DEF NotificationInv, NotificationTypeOK

(* A step that replaces the handling of one event. *)
LEMMA OneHandling ==
  ASSUME NotificationInv, NEW e \in Events, NEW w \in Handlings, HandlingInv(w),
         event' = [event EXCEPT ![e] = w]
  PROVE  event' \in [Events -> Handlings] /\ \A f \in Events : HandlingInv(event'[f])
  BY DEF NotificationInv, NotificationTypeOK

(* The steps of the handlers and of the people, one by one. *)
LEMMA NotificationKeeps ==
  ASSUME NotificationInv, NotificationStep
  PROVE  NotificationInv'
<1> USE NotificationAssumption
<1>1. /\ active \subseteq Persons /\ {assigned, linked, granted} \subseteq BOOLEAN
      /\ event \in [Events -> Handlings] /\ \A e \in Events : HandlingInv(event[e])
      /\ waiting \in [Persons -> Nat]
      /\ inbox \in [Persons -> [unread : Nat, read : Nat]]
      /\ bus \subseteq [room : Rooms, kind : AllKinds]
      /\ faults \in 0..MaxFaults /\ changes \in 0..MaxChanges
  BY DEF NotificationInv, NotificationTypeOK
<1>2. UNCHANGED people
  BY DEF NotificationStep, Publish, Start, MakeCall, CallFails, Processed, HandlerDies,
         EmailJobEnds, MarkAsRead, MarkAllAsRead
<1>3. active' = active /\ assigned' = assigned /\ linked' = linked /\ granted' = granted
        /\ changes' = changes
  BY <1>2 DEF people
<1>4. ASSUME event' \in [Events -> Handlings], \A e \in Events : HandlingInv(event'[e]),
             waiting' \in [Persons -> Nat],
             inbox' \in [Persons -> [unread : Nat, read : Nat]],
             bus' \subseteq [room : Rooms, kind : AllKinds],
             faults' \in 0..MaxFaults
      PROVE  NotificationInv'
  BY <1>1, <1>3, <1>4, Zenon DEF NotificationInv, NotificationTypeOK
<1>5. Fault => faults' \in 0..MaxFaults
  BY <1>1 DEF Fault
<1>6. ASSUME NEW e \in Events, NEW kind \in Kinds, Publish(e, kind) PROVE NotificationInv'
  <2> DEFINE w == [event[e] EXCEPT !.state = "new", !.kind = kind, !.agent = assigned]
  <2>1. /\ event[e] \in Handlings /\ event[e].state = "none" /\ HandlingInv(event[e])
        /\ kind \in AllKinds /\ assigned \in BOOLEAN
    BY <1>1, <1>6 DEF Publish
  <2>2. event[e].todo = <<>>
    BY <2>1 DEF HandlingInv
  <2>3. w \in Handlings /\ w.todo = <<>> /\ w.state = "new"
    BY <2>1, <2>2 DEF Handlings
  <2>4. event' = [event EXCEPT ![e] = w]
    BY <1>1, <1>6 DEF Publish
  <2> HIDE DEF w
  <2>5. HandlingInv(w)
    BY <2>3, QuietHandling
  <2>6. event' \in [Events -> Handlings] /\ \A f \in Events : HandlingInv(event'[f])
    BY <2>3, <2>4, <2>5, OneHandling
  <2> QED BY <1>1, <1>4, <1>6, <2>6 DEF Publish
<1>7. ASSUME NEW e \in Events, Start(e) PROVE NotificationInv'
  <2> DEFINE manager == "manager" \in active
             agent   == IF event[e].kind = "TICKET_ESCALATED" THEN event[e].agent ELSE assigned
             w == [event[e] EXCEPT !.state = "running", !.agent = agent, !.manager = manager,
                                   !.todo = Handler(event[e].kind, agent, manager),
                                   !.told = {}, !.failed = {}]
  <2>1. event[e] \in Handlings /\ manager \in BOOLEAN
    BY <1>1
  <2>2. agent \in BOOLEAN
    BY <1>1, <2>1 DEF Handlings
  <2>3. event' = [event EXCEPT ![e] = w]
    BY <1>7 DEF Start
  <2>4. w \in Handlings /\ HandlingInv(w)
    <3> HIDE DEF manager, agent
    <3> QED BY <2>1, <2>2, StartHandling
  <2> HIDE DEF w
  <2>5. event' \in [Events -> Handlings] /\ \A f \in Events : HandlingInv(event'[f])
    BY <2>3, <2>4, OneHandling
  <2> QED BY <1>1, <1>4, <1>7, <2>5 DEF Start
<1>8. ASSUME NEW e \in Events, MakeCall(e) PROVE NotificationInv'
  <2> DEFINE v == event[e]
             c == Head(v.todo)
             d == [do |-> c.do, to |-> c.to]
             w == [v EXCEPT !.todo = Tail(v.todo), !.told = v.told \cup {d}]
  <2>1. v \in Handlings /\ HandlingInv(v) /\ v.state = "running" /\ v.todo # <<>>
    BY <1>1, <1>8 DEF MakeCall
  <2>2. v.todo \in Seq(Calls)
    BY <2>1 DEF Handlings
  <2>3. c \in Calls /\ Tail(v.todo) \in Seq(Calls)
    BY <2>1, <2>2, HasTail
  <2>4. d \in Deeds
    BY <2>3 DEF Calls, Deeds
  <2>5. event' = [event EXCEPT ![e] = w]
    BY <1>1, <1>8 DEF MakeCall
  <2> HIDE DEF c
  <2>6. w \in Handlings
    BY <2>1, <2>3, <2>4 DEF Handlings
  <2>7. /\ w.state = "running" /\ w.kind = v.kind /\ w.agent = v.agent /\ w.manager = v.manager
        /\ w.failed = v.failed /\ w.todo = Tail(v.todo) /\ w.told = v.told \cup {d}
    BY <2>1 DEF Handlings
  <2>8. HandlingInv(w)
    <3> HIDE DEF v, w
    <3> QED BY <2>1, <2>6, <2>7, CallMade DEF c
  <2>9. event' \in [Events -> Handlings] /\ \A f \in Events : HandlingInv(event'[f])
    <3> HIDE DEF w
    <3> QED BY <2>5, <2>6, <2>8, OneHandling
  <2>10. /\ c.do \in {"mail", "row"} => c.to \in Persons
         /\ c.to \in Rooms /\ v.kind \in AllKinds
    BY <2>1, <2>3 DEF Calls, Rooms, Handlings
  <2>11. waiting' \in [Persons -> Nat]
    <3>1. waiting' = IF c.do = "mail" THEN [waiting EXCEPT ![c.to] = @ + 1] ELSE waiting
      BY <1>8 DEF MakeCall, c
    <3> QED BY <1>1, <2>10, <3>1
  <2>12. inbox' \in [Persons -> [unread : Nat, read : Nat]]
    <3>1. inbox' = IF c.do = "row" THEN [inbox EXCEPT ![c.to].unread = @ + 1] ELSE inbox
      BY <1>8 DEF MakeCall, c
    <3> QED BY <1>1, <2>10, <3>1
  <2>13. bus' \subseteq [room : Rooms, kind : AllKinds]
    <3>1. bus' = IF c.do = "ws" THEN bus \cup {[room |-> c.to, kind |-> v.kind]} ELSE bus
      BY <1>8 DEF MakeCall, c
    <3> QED BY <1>1, <2>10, <3>1
  <2>14. faults' = faults
    BY <1>8 DEF MakeCall
  <2> QED BY <1>1, <1>4, <2>9, <2>11, <2>12, <2>13, <2>14
<1>9. ASSUME NEW e \in Events, CallFails(e) PROVE NotificationInv'
  <2> DEFINE v == event[e]
             c == Head(v.todo)
             d == [do |-> c.do, to |-> c.to]
             rest == IF c.part = "nested" THEN AfterTry(v.todo) ELSE <<>>
             w == [v EXCEPT !.todo = rest, !.failed = v.failed \cup {d}]
  <2>1. v \in Handlings /\ HandlingInv(v) /\ v.state = "running" /\ v.todo # <<>>
    BY <1>1, <1>9 DEF CallFails
  <2>2. v.todo \in Seq(Calls)
    BY <2>1 DEF Handlings
  <2>3. c \in Calls
    BY <2>1, <2>2, HasTail
  <2>4. d \in Deeds
    BY <2>3 DEF Calls, Deeds
  <2>5. event' = [event EXCEPT ![e] = w]
    BY <1>1, <1>9 DEF CallFails
  <2> HIDE DEF c, rest
  <2>6. /\ w.state = "running" /\ w.kind = v.kind /\ w.agent = v.agent /\ w.manager = v.manager
        /\ w.failed = v.failed \cup {d} /\ w.todo = rest /\ w.told = v.told
    BY <2>1 DEF Handlings
  <2>7. rest \in Seq(Calls) /\ HandlingInv(w)
    <3> HIDE DEF v, w
    <3> QED BY <2>1, <2>6, CallFailed DEF c, rest
  <2>8. w \in Handlings
    BY <2>1, <2>4, <2>7 DEF Handlings
  <2>9. event' \in [Events -> Handlings] /\ \A f \in Events : HandlingInv(event'[f])
    <3> HIDE DEF w
    <3> QED BY <2>5, <2>7, <2>8, OneHandling
  <2> QED BY <1>1, <1>4, <1>5, <1>9, <2>9 DEF CallFails
<1>10. ASSUME NEW e \in Events, Processed(e) PROVE NotificationInv'
  <2> DEFINE v == event[e]
             w == [v EXCEPT !.state = "done"]
  <2>1. v \in Handlings /\ HandlingInv(v) /\ v.state = "running" /\ v.todo = <<>>
    BY <1>1, <1>10 DEF Processed
  <2>2. event' = [event EXCEPT ![e] = w]
    BY <1>1, <1>10 DEF Processed
  <2>3. /\ w \in Handlings /\ w.state = "done" /\ w.kind = v.kind /\ w.agent = v.agent
        /\ w.manager = v.manager /\ w.told = v.told /\ w.todo = v.todo /\ w.failed = v.failed
    BY <2>1 DEF Handlings
  <2> HIDE DEF v, w
  <2>4. HandlingInv(w)
    BY <2>1, <2>3, HandlingEnds
  <2>5. event' \in [Events -> Handlings] /\ \A f \in Events : HandlingInv(event'[f])
    BY <2>2, <2>3, <2>4, OneHandling
  <2> QED BY <1>1, <1>4, <1>10, <2>5 DEF Processed
<1>11. ASSUME NEW e \in Events, HandlerDies(e) PROVE NotificationInv'
  <2> DEFINE w == [event[e] EXCEPT !.state = "new", !.todo = <<>>]
  <2>1. event[e] \in Handlings
    BY <1>1
  <2>2. event' = [event EXCEPT ![e] = w]
    BY <1>1, <1>11 DEF HandlerDies
  <2>3. w \in Handlings /\ w.state = "new" /\ w.todo = <<>>
    <3>1. <<>> \in Seq(Calls)
      OBVIOUS
    <3>2. w.state = "new" /\ w.todo = <<>>
      BY <2>1 DEF Handlings
    <3>3. w \in Handlings
      BY <2>1, <3>1 DEF Handlings
    <3> QED BY <3>2, <3>3
  <2> HIDE DEF w
  <2>4. HandlingInv(w)
    BY <2>3, QuietHandling
  <2>5. event' \in [Events -> Handlings] /\ \A f \in Events : HandlingInv(event'[f])
    BY <2>2, <2>3, <2>4, OneHandling
  <2> QED BY <1>1, <1>4, <1>5, <1>11, <2>5 DEF HandlerDies
<1>12. ASSUME NEW u \in Persons, EmailJobEnds(u) \/ MarkAsRead(u) \/ MarkAllAsRead(u)
       PROVE  NotificationInv'
  <2>1. event' = event /\ bus' = bus /\ faults' = faults
    BY <1>12 DEF EmailJobEnds, MarkAsRead, MarkAllAsRead
  <2>2. waiting' \in [Persons -> Nat]
    BY <1>1, <1>12 DEF EmailJobEnds, MarkAsRead, MarkAllAsRead
  <2>3. inbox' \in [Persons -> [unread : Nat, read : Nat]]
    BY <1>1, <1>12 DEF EmailJobEnds, MarkAsRead, MarkAllAsRead
  <2> QED BY <1>1, <1>4, <2>1, <2>2, <2>3
<1> QED BY <1>6, <1>7, <1>8, <1>9, <1>10, <1>11, <1>12 DEF NotificationStep

(* Changes of accounts, assignments, links and roles *)
LEMMA ChangeKeeps ==
  ASSUME NotificationInv, Change
  PROVE  NotificationInv'
<1>1. UNCHANGED <<event, waiting, inbox, bus, faults>>
  BY DEF Change, notification
<1>2. changes' \in 0..MaxChanges
  BY NotificationAssumption DEF Change, NotificationInv, NotificationTypeOK
<1>3. active' \subseteq Persons
  BY DEF Change, NotificationInv, NotificationTypeOK
<1>4. assigned' \in BOOLEAN /\ linked' \in BOOLEAN /\ granted' \in BOOLEAN
  BY Zenon DEF Change, NotificationInv, NotificationTypeOK
<1> QED BY <1>1, <1>2, <1>3, <1>4 DEF NotificationInv, NotificationTypeOK

(***************************************************************************)
(* The gateway                                                             *)
(***************************************************************************)

(* The answers of the access checks are Booleans. *)
LEMMA AnswersBoolean ==
  ASSUME GatewayTypeOK, NEW u \in Persons
  PROVE  /\ isStillAuthorized(u) \in BOOLEAN /\ canAccessTenantRoom(u) \in BOOLEAN
         /\ \A room \in Rooms : canAccessRoom(u, room) \in BOOLEAN
<1>1. assigned \in BOOLEAN /\ linked \in BOOLEAN /\ granted \in BOOLEAN
  BY DEF GatewayTypeOK, NotificationTypeOK
<1>2. isStillAuthorized(u) \in BOOLEAN /\ canAccessTenantRoom(u) \in BOOLEAN
  BY DEF isStillAuthorized, canAccessTenantRoom
<1>3. canView(u) \in BOOLEAN
  <2>1. CASE u = "manager"
    BY <2>1 DEF canView
  <2>2. CASE u = "agent"
    BY <1>1, <2>2 DEF canView
  <2>3. CASE u = "customer"
    BY <1>1, <2>3 DEF canView
  <2> QED BY <2>1, <2>2, <2>3 DEF Persons
<1>4. ASSUME NEW room \in Rooms PROVE canAccessRoom(u, room) \in BOOLEAN
  <2> DEFINE own == room = u
  <2>1. own \in BOOLEAN
    OBVIOUS
  <2>2. CASE room = "tenant"
    BY <1>2, <2>2 DEF canAccessRoom
  <2>3. CASE room = "ticket"
    BY <1>3, <2>3 DEF canAccessRoom
  <2>4. CASE room # "tenant" /\ room # "ticket"
    BY <2>1, <2>4 DEF canAccessRoom
  <2> QED BY <2>2, <2>3, <2>4
<1> QED BY <1>2, <1>4

(* The rooms of one connection in the manager, and its part of the         *)
(* invariant: before it is authenticated it is in no map and in no room.   *)
Mine(c) == {room \in Rooms : <<c, room>> \in member}

ClientInv(c) ==
    /\ IF client[c].listed THEN Mine(c) = client[c].rooms ELSE Mine(c) \subseteq {"tenant"}
    /\ client[c].phase \in {"new", "authenticating"} => ~client[c].listed /\ Mine(c) = {}

(* An answer to a subscribe message is for the room it has asked for. *)
AskedFirst == \A c \in Clients : sub[c].answer # Nothing => sub[c].room # Nothing

GatewayInv ==
    /\ NotificationInv
    /\ GatewayTypeOK
    /\ AskedFirst
    /\ \A c \in Clients : ClientInv(c)

(* Initially nobody is connected. *)
LEMMA GatewayInit0 == GatewayInit => GatewayInv
<1> SUFFICES ASSUME GatewayInit PROVE GatewayInv
  OBVIOUS
<1>1. NotificationInv /\ NotificationTypeOK
  BY NotificationInit0 DEF GatewayInit, NotificationInv
<1>2. NotConnected \in WSClients /\ NotConnected.listed = FALSE
  BY DEF NotConnected, WSClients, Persons
<1>3. /\ NoSub \in [room : Rooms \cup {Nothing}, answer : BOOLEAN \cup {Nothing}]
      /\ Idle \in [stage : {"idle", "account", "rooms"}, todo : SUBSET Rooms,
                   room : Rooms \cup {Nothing}, answer : BOOLEAN \cup {Nothing}]
  BY DEF NoSub, Idle
<1>4. GatewayTypeOK
  BY <1>1, <1>2, <1>3 DEF GatewayInit, GatewayTypeOK
<1>5. \A c \in Clients : ClientInv(c)
  BY <1>2 DEF GatewayInit, ClientInv, Mine
<1>6. AskedFirst
  BY DEF GatewayInit, AskedFirst, NoSub
<1> QED BY <1>1, <1>4, <1>5, <1>6 DEF GatewayInv

(* What a change of the manager's rooms makes of those of c and of the     *)
(* others.                                                                 *)
Elsewhere(c) == \A d \in Clients \ {c}, room \in Rooms : <<d, room>> \in member' <=> <<d, room>> \in member

LEMMA MineMoves ==
  ASSUME GatewayTypeOK, NEW c \in Clients
  PROVE  /\ member' = member => Mine(c)' = Mine(c) /\ Elsewhere(c)
         /\ \A r \in Rooms : member' = member \cup {<<c, r>>} => Mine(c)' = Mine(c) \cup {r} /\ Elsewhere(c)
         /\ \A r \in Rooms : member' = member \ {<<c, r>>} => Mine(c)' = Mine(c) \ {r} /\ Elsewhere(c)
         /\ member' = Left(c) => Mine(c)' = {} /\ Elsewhere(c)
<1>1. member' = member => Mine(c)' = Mine(c) /\ Elsewhere(c)
  BY DEF Mine, Elsewhere
<1>2. ASSUME NEW r \in Rooms, member' = member \cup {<<c, r>>}
      PROVE  Mine(c)' = Mine(c) \cup {r} /\ Elsewhere(c)
  BY <1>2 DEF Mine, Elsewhere
<1>3. ASSUME NEW r \in Rooms, member' = member \ {<<c, r>>}
      PROVE  Mine(c)' = Mine(c) \ {r} /\ Elsewhere(c)
  BY <1>3 DEF Mine, Elsewhere
<1>4. ASSUME member' = Left(c) PROVE Mine(c)' = {} /\ Elsewhere(c)
  BY <1>4 DEF Mine, Elsewhere, Left
<1> QED BY <1>1, <1>2, <1>3, <1>4

(* A step that replaces the record of one connection. *)
LEMMA OneClient ==
  ASSUME GatewayInv, NEW c \in Clients, NEW n \in WSClients, client' = [client EXCEPT ![c] = n],
         Elsewhere(c),
         IF n.listed THEN Mine(c)' = n.rooms ELSE Mine(c)' \subseteq {"tenant"},
         n.phase \in {"new", "authenticating"} => ~n.listed /\ Mine(c)' = {}
  PROVE  client' \in [Clients -> WSClients] /\ \A d \in Clients : ClientInv(d)'
<1>1. client \in [Clients -> WSClients]
  BY DEF GatewayInv, GatewayTypeOK
<1>2. client' \in [Clients -> WSClients] /\ client'[c] = n
        /\ \A d \in Clients \ {c} : client'[d] = client[d]
  BY <1>1
<1>3. ClientInv(c)'
  BY <1>2 DEF ClientInv
<1>4. ASSUME NEW d \in Clients \ {c} PROVE ClientInv(d)'
  <2>1. Mine(d)' = Mine(d)
    BY <1>4 DEF Mine, Elsewhere
  <2> QED BY <1>2, <1>4, <2>1 DEF ClientInv, GatewayInv
<1> QED BY <1>2, <1>3, <1>4

(* A step that touches neither the records nor the rooms. *)
LEMMA NoClient ==
  ASSUME GatewayInv, client' = client, member' = member
  PROVE  client' \in [Clients -> WSClients] /\ \A d \in Clients : ClientInv(d)'
  BY DEF GatewayInv, GatewayTypeOK, ClientInv, Mine

(* The gateway writes nothing of the notifications' but the channel. *)
LEMMA NotificationFrame ==
  ASSUME NotificationInv, UNCHANGED <<people, notification>>, bus' \subseteq bus,
         faults' = faults \/ Fault
  PROVE  NotificationInv'
<1>1. faults' \in 0..MaxFaults
  BY NotificationAssumption DEF Fault, NotificationInv, NotificationTypeOK
<1> QED BY <1>1 DEF people, notification, NotificationInv, NotificationTypeOK

Subs  == [room : Rooms \cup {Nothing}, answer : BOOLEAN \cup {Nothing}]
Beats == [stage : {"idle", "account", "rooms"}, todo : SUBSET Rooms,
          room : Rooms \cup {Nothing}, answer : BOOLEAN \cup {Nothing}]

(* Connecting and disconnecting *)
LEMMA ConnectionKeeps ==
  ASSUME GatewayInv, NEW c \in Clients,
         \/ \E u \in Persons : Connect(c, u)
         \/ Refuse(c) \/ Authenticate(c) \/ CheckTenantRoom(c) \/ FinishSetup(c) \/ SetupFails(c)
         \/ SocketCloses(c)
  PROVE  /\ client' \in [Clients -> WSClients] /\ \A d \in Clients : ClientInv(d)'
         /\ member' \subseteq Clients \X Rooms
<1> DEFINE k == client[c]
<1>1. /\ client \in [Clients -> WSClients] /\ k \in WSClients /\ member \subseteq Clients \X Rooms
      /\ GatewayTypeOK
  BY DEF GatewayInv, GatewayTypeOK
<1>2. /\ IF k.listed THEN Mine(c) = k.rooms ELSE Mine(c) \subseteq {"tenant"}
      /\ k.phase \in {"new", "authenticating"} => ~k.listed /\ Mine(c) = {}
  BY DEF GatewayInv, ClientInv
<1>3. k.user \in Persons /\ k.user \in Rooms /\ "tenant" \in Rooms
  BY <1>1 DEF WSClients, Rooms
<1>4. ASSUME member' = member
      PROVE  member' \subseteq Clients \X Rooms /\ Mine(c)' = Mine(c) /\ Elsewhere(c)
  BY <1>1, <1>4, MineMoves
<1>5. ASSUME NEW u \in Persons, Connect(c, u)
      PROVE  /\ client' \in [Clients -> WSClients] /\ \A d \in Clients : ClientInv(d)'
             /\ member' \subseteq Clients \X Rooms
  <2> DEFINE n == [k EXCEPT !.phase = "authenticating", !.user = u, !.open = TRUE]
  <2>1. client' = [client EXCEPT ![c] = n] /\ member' = member /\ k.phase = "new"
    BY <1>1, <1>5 DEF Connect
  <2>2. n \in WSClients /\ n.listed = k.listed /\ n.rooms = k.rooms
    BY <1>1 DEF WSClients
  <2> HIDE DEF n
  <2> QED BY <1>2, <1>4, <2>1, <2>2, OneClient
<1>6. CASE Refuse(c)
  <2> DEFINE n == [k EXCEPT !.phase = "over", !.open = FALSE]
  <2>1. client' = [client EXCEPT ![c] = n] /\ member' = member
    BY <1>1, <1>6 DEF Refuse
  <2>2. n \in WSClients /\ n.listed = k.listed /\ n.rooms = k.rooms /\ n.phase = "over"
    BY <1>1 DEF WSClients
  <2> HIDE DEF n
  <2> QED BY <1>2, <1>4, <2>1, <2>2, OneClient
<1>7. CASE Authenticate(c)
  <2> DEFINE n == [k EXCEPT !.phase = "setup", !.listed = TRUE, !.alive = TRUE, !.rooms = {k.user}]
  <2>1. /\ client' = [client EXCEPT ![c] = n] /\ member' = member \cup {<<c, k.user>>}
        /\ k.phase = "authenticating"
    BY <1>1, <1>7 DEF Authenticate
  <2>2. n \in WSClients /\ n.listed = TRUE /\ n.rooms = {k.user} /\ n.phase = "setup"
    BY <1>1, <1>3 DEF WSClients
  <2>3. Mine(c)' = Mine(c) \cup {k.user} /\ Elsewhere(c) /\ member' \subseteq Clients \X Rooms
    BY <1>1, <1>3, <2>1, MineMoves
  <2> HIDE DEF n
  <2> QED BY <1>2, <2>1, <2>2, <2>3, OneClient
<1>8. CASE CheckTenantRoom(c)
  <2> DEFINE n == [k EXCEPT !.answer = canAccessTenantRoom(k.user)]
  <2>1. client' = [client EXCEPT ![c] = n] /\ member' = member
    BY <1>1, <1>8 DEF CheckTenantRoom
  <2>2. canAccessTenantRoom(k.user) \in BOOLEAN
    BY <1>1, <1>3, AnswersBoolean
  <2>3. n \in WSClients /\ n.listed = k.listed /\ n.rooms = k.rooms /\ n.phase = k.phase
    BY <1>1, <2>2 DEF WSClients
  <2> HIDE DEF n
  <2> QED BY <1>2, <1>4, <2>1, <2>3, OneClient
<1>9. CASE FinishSetup(c)
  <2> DEFINE more == IF k.answer THEN {"tenant"} ELSE {}
             n == [k EXCEPT !.phase = "on", !.answer = Nothing, !.rooms = k.rooms \cup more]
  <2>1. k.answer \in BOOLEAN
    BY <1>1, <1>9 DEF FinishSetup, WSClients
  <2>2. client' = [client EXCEPT ![c] = n]
    BY <1>1, <1>9 DEF FinishSetup
  <2>3. member' = member \cup (IF k.answer THEN {<<c, "tenant">>} ELSE {})
    BY <1>9 DEF FinishSetup
  <2>4. more \subseteq {"tenant"}
    OBVIOUS
  <2>5. Mine(c)' = Mine(c) \cup more /\ Elsewhere(c) /\ member' \subseteq Clients \X Rooms
    <3>1. CASE k.answer
      <4>1. member' = member \cup {<<c, "tenant">>}
        BY <2>3, <3>1
      <4> QED BY <1>1, <1>3, <3>1, <4>1, MineMoves
    <3>2. CASE ~k.answer
      <4>1. member' = member
        BY <2>3, <3>2
      <4> QED BY <1>4, <3>2, <4>1
    <3> QED BY <3>1, <3>2
  <2> HIDE DEF more
  <2>6. n \in WSClients /\ n.listed = k.listed /\ n.rooms = k.rooms \cup more /\ n.phase = "on"
    BY <1>1, <1>3, <2>4 DEF WSClients
  <2> HIDE DEF n, k
  <2>7. IF n.listed THEN Mine(c)' = n.rooms ELSE Mine(c)' \subseteq {"tenant"}
    BY <1>2, <2>4, <2>5, <2>6
  <2> QED BY <2>2, <2>5, <2>6, <2>7, OneClient
<1>10. CASE SetupFails(c)
  <2> DEFINE n == [k EXCEPT !.phase = "over", !.open = FALSE]
  <2>1. client' = [client EXCEPT ![c] = n] /\ member' = member
    BY <1>1, <1>10 DEF SetupFails
  <2>2. n \in WSClients /\ n.listed = k.listed /\ n.rooms = k.rooms /\ n.phase = "over"
    BY <1>1 DEF WSClients
  <2> HIDE DEF n
  <2> QED BY <1>2, <1>4, <2>1, <2>2, OneClient
<1>11. CASE SocketCloses(c) /\ k.phase = "on"
  <2>1. client' = [client EXCEPT ![c] = Disconnected(c)]
          /\ member' = IF k.listed THEN Left(c) ELSE member
    BY <1>11 DEF SocketCloses
  <2>2. Disconnected(c) \in WSClients /\ Disconnected(c).listed = FALSE /\ Disconnected(c).phase = "on"
    BY <1>1, <1>11 DEF WSClients, Disconnected
  <2>3. Mine(c)' \subseteq {"tenant"} /\ Elsewhere(c) /\ member' \subseteq Clients \X Rooms
    <3>1. CASE k.listed
      <4>1. member' = Left(c) /\ Left(c) \subseteq member
        BY <2>1, <3>1 DEF Left
      <4> QED BY <1>1, <4>1, MineMoves
    <3>2. CASE ~k.listed
      <4>1. member' = member
        BY <2>1, <3>2
      <4> QED BY <1>2, <1>4, <3>2, <4>1
    <3> QED BY <3>1, <3>2
  <2> QED BY <2>1, <2>2, <2>3, OneClient
<1>12. CASE SocketCloses(c) /\ k.phase # "on"
  <2> DEFINE n == [k EXCEPT !.open = FALSE]
  <2>1. client' = [client EXCEPT ![c] = n] /\ member' = member
    BY <1>1, <1>12 DEF SocketCloses
  <2>2. n \in WSClients /\ n.listed = k.listed /\ n.rooms = k.rooms /\ n.phase = k.phase
    BY <1>1 DEF WSClients
  <2> HIDE DEF n
  <2> QED BY <1>2, <1>4, <2>1, <2>2, OneClient
<1> QED BY <1>5, <1>6, <1>7, <1>8, <1>9, <1>10, <1>11, <1>12

(* Subscriptions, pongs, the heartbeat and its rechecks *)
LEMMA MessageKeeps ==
  ASSUME GatewayInv, NEW c \in Clients,
         \/ CheckSubscription(c) \/ JoinRoom(c) \/ SubscribeFails(c) \/ Pong(c)
         \/ \E room \in Rooms : Subscribe(c, room) \/ Unsubscribe(c, room)
         \/ Heartbeat(c) \/ Recheck(c) \/ RecheckFails(c)
  PROVE  /\ client' \in [Clients -> WSClients] /\ \A d \in Clients : ClientInv(d)'
         /\ member' \subseteq Clients \X Rooms
<1> DEFINE k == client[c]
           OK == /\ client' \in [Clients -> WSClients] /\ \A d \in Clients : ClientInv(d)'
                 /\ member' \subseteq Clients \X Rooms
<1>1. /\ client \in [Clients -> WSClients] /\ k \in WSClients /\ member \subseteq Clients \X Rooms
      /\ GatewayTypeOK /\ sub[c] \in Subs /\ beat[c] \in Beats
  BY DEF GatewayInv, GatewayTypeOK, Subs, Beats
<1>2. /\ IF k.listed THEN Mine(c) = k.rooms ELSE Mine(c) \subseteq {"tenant"}
      /\ k.phase \in {"new", "authenticating"} => ~k.listed /\ Mine(c) = {}
  BY DEF GatewayInv, ClientInv
<1>3. ASSUME client' = client, member' = member PROVE OK
  BY <1>1, <1>3, NoClient
<1>4. ASSUME NEW r \in Rooms, member' = member \ {<<c, r>>},
             client' = [client EXCEPT ![c].rooms = @ \ {r}]
      PROVE  OK
  <2> DEFINE n == [k EXCEPT !.rooms = k.rooms \ {r}]
  <2>1. client' = [client EXCEPT ![c] = n]
    BY <1>1, <1>4
  <2>2. n \in WSClients /\ n.listed = k.listed /\ n.rooms = k.rooms \ {r} /\ n.phase = k.phase
    BY <1>1 DEF WSClients
  <2>3. Mine(c)' = Mine(c) \ {r} /\ Elsewhere(c) /\ member' \subseteq Clients \X Rooms
    BY <1>1, <1>4, MineMoves
  <2> HIDE DEF n
  <2> QED BY <1>2, <2>1, <2>2, <2>3, OneClient
<1>5. ASSUME client' = [client EXCEPT ![c] = Disconnected(c)],
             member' = Left(c) \/ (member' = member /\ ~k.listed)
      PROVE  OK
  <2>1. /\ Disconnected(c) \in WSClients /\ Disconnected(c).listed = FALSE
        /\ Disconnected(c).phase = k.phase
    BY <1>1 DEF WSClients, Disconnected
  <2>2. CASE member' = Left(c)
    <3>1. Mine(c)' = {} /\ Elsewhere(c) /\ member' \subseteq Clients \X Rooms
      BY <1>1, <2>2, MineMoves DEF Left
    <3> QED BY <1>5, <2>1, <3>1, OneClient
  <2>3. CASE member' = member /\ ~k.listed
    <3>1. Mine(c)' = Mine(c) /\ Elsewhere(c) /\ member' \subseteq Clients \X Rooms
      BY <1>1, <2>3, MineMoves
    <3> QED BY <1>2, <1>5, <2>1, <2>3, <3>1, OneClient
  <2> QED BY <1>5, <2>2, <2>3
<1>6. ASSUME NEW b \in BOOLEAN, client' = [client EXCEPT ![c].alive = b], member' = member
      PROVE  OK
  <2> DEFINE n == [k EXCEPT !.alive = b]
  <2>1. client' = [client EXCEPT ![c] = n]
    BY <1>1, <1>6
  <2>2. n \in WSClients /\ n.listed = k.listed /\ n.rooms = k.rooms /\ n.phase = k.phase
    BY <1>1 DEF WSClients
  <2>3. Mine(c)' = Mine(c) /\ Elsewhere(c) /\ member' \subseteq Clients \X Rooms
    BY <1>1, <1>6, MineMoves
  <2> HIDE DEF n
  <2> QED BY <1>2, <2>1, <2>2, <2>3, OneClient
<1>7. CASE CheckSubscription(c) \/ SubscribeFails(c) \/ RecheckAccount(c) \/ RecheckRoom(c)
             \/ RecheckEnds(c) \/ RecheckFails(c) \/ \E room \in Rooms : Subscribe(c, room)
  BY <1>3, <1>7 DEF CheckSubscription, SubscribeFails, RecheckAccount, RecheckRoom, RecheckEnds,
                    RecheckFails, Subscribe
<1>8. CASE JoinRoom(c)
  <2>1. CASE sub[c].answer /\ k.listed
    <3> DEFINE r == sub[c].room
               n == [k EXCEPT !.rooms = k.rooms \cup {r}]
    <3>1. client' = [client EXCEPT ![c] = n] /\ member' = member \cup {<<c, r>>}
      BY <1>1, <1>8, <2>1 DEF JoinRoom
    <3>2. r \in Rooms
      BY <1>1, <1>8 DEF JoinRoom, GatewayInv, AskedFirst, Subs
    <3>3. n \in WSClients /\ n.listed = k.listed /\ n.rooms = k.rooms \cup {r} /\ n.phase = k.phase
      BY <1>1, <3>2 DEF WSClients
    <3>4. Mine(c)' = Mine(c) \cup {r} /\ Elsewhere(c) /\ member' \subseteq Clients \X Rooms
      BY <1>1, <3>1, <3>2, MineMoves
    <3> HIDE DEF n, r
    <3> QED BY <1>2, <2>1, <3>1, <3>3, <3>4, OneClient
  <2>2. CASE ~(sub[c].answer /\ k.listed)
    BY <1>3, <1>8, <2>2 DEF JoinRoom
  <2> QED BY <2>1, <2>2
<1>9. CASE Pong(c)
  BY <1>6, <1>9 DEF Pong
<1>10. CASE \E room \in Rooms : Unsubscribe(c, room)
  BY <1>4, <1>10 DEF Unsubscribe
<1>11. CASE Heartbeat(c)
  <2>1. CASE k.alive
    BY <1>6, <1>11, <2>1 DEF Heartbeat
  <2>2. CASE ~k.alive
    BY <1>5, <1>11, <2>2 DEF Heartbeat
  <2> QED BY <2>1, <2>2
<1>12. CASE AccountRechecked(c)
  <2>1. CASE beat[c].answer
    BY <1>3, <1>12, <2>1 DEF AccountRechecked
  <2>2. CASE ~beat[c].answer
    <3>1. /\ client' = [client EXCEPT ![c] = Disconnected(c)]
          /\ member' = IF k.listed THEN Left(c) ELSE member
      BY <1>12, <2>2 DEF AccountRechecked
    <3> QED BY <1>5, <3>1
  <2> QED BY <2>1, <2>2
<1>13. CASE RoomRechecked(c)
  <2>1. CASE beat[c].answer
    BY <1>3, <1>13, <2>1 DEF RoomRechecked
  <2>2. CASE ~beat[c].answer
    <3>1. beat[c].room \in Rooms
      BY <1>1, <1>13 DEF RoomRechecked, Beats
    <3>2. /\ client' = [client EXCEPT ![c].rooms = @ \ {beat[c].room}]
          /\ member' = member \ {<<c, beat[c].room>>}
      BY <1>13, <2>2 DEF RoomRechecked
    <3> QED BY <1>4, <3>1, <3>2
  <2> QED BY <2>1, <2>2
<1> QED BY <1>7, <1>8, <1>9, <1>10, <1>11, <1>12, <1>13 DEF Recheck

(* The checks under way are well typed. *)
LEMMA ChecksKeep ==
  ASSUME GatewayInv, NEW c \in Clients,
         \/ \E u \in Persons : Connect(c, u)
         \/ Refuse(c) \/ Authenticate(c) \/ CheckTenantRoom(c) \/ FinishSetup(c) \/ SetupFails(c)
         \/ SocketCloses(c) \/ CheckSubscription(c) \/ JoinRoom(c) \/ SubscribeFails(c) \/ Pong(c)
         \/ \E room \in Rooms : Subscribe(c, room) \/ Unsubscribe(c, room)
         \/ Heartbeat(c) \/ Recheck(c) \/ RecheckFails(c)
  PROVE  sub' \in [Clients -> Subs] /\ beat' \in [Clients -> Beats] /\ AskedFirst'
<1>1. /\ sub \in [Clients -> Subs] /\ beat \in [Clients -> Beats] /\ GatewayTypeOK
      /\ client[c] \in WSClients
  BY DEF GatewayInv, GatewayTypeOK, Subs, Beats
<1>2. client[c].user \in Persons /\ client[c].rooms \subseteq Rooms
  BY <1>1 DEF WSClients
<1>3. NoSub \in Subs /\ NoSub.answer = Nothing /\ Idle \in Beats
  BY DEF NoSub, Subs, Idle, Beats
<1>4. ASSUME NEW s \in Subs, s.answer # Nothing => s.room # Nothing,
             sub' = sub \/ sub' = [sub EXCEPT ![c] = s]
      PROVE  sub' \in [Clients -> Subs] /\ AskedFirst'
  BY <1>1, <1>4 DEF GatewayInv, AskedFirst
<1>5. sub' \in [Clients -> Subs] /\ AskedFirst'
  <2>1. CASE \E room \in Rooms : Subscribe(c, room)
    <3>1. PICK room \in Rooms : Subscribe(c, room)
      BY <2>1
    <3> DEFINE s == [sub[c] EXCEPT !.room = room]
    <3>2. s \in Subs /\ s.room = room /\ sub' = [sub EXCEPT ![c] = s]
      BY <1>1, <3>1 DEF Subscribe, Subs
    <3> HIDE DEF s
    <3> QED BY <1>4, <3>2, GatewayAssumption
  <2>2. CASE CheckSubscription(c)
    <3> DEFINE a == canAccessRoom(client[c].user, sub[c].room)
               s == [sub[c] EXCEPT !.answer = a]
    <3>1. sub[c].room \in Rooms
      BY <1>1, <2>2 DEF CheckSubscription, Subs
    <3>2. a \in BOOLEAN
      BY <1>1, <1>2, <3>1, AnswersBoolean
    <3>3. sub' = [sub EXCEPT ![c] = s]
      BY <1>1, <2>2 DEF CheckSubscription
    <3> HIDE DEF a
    <3>4. s \in Subs /\ s.room = sub[c].room
      BY <1>1, <3>2 DEF Subs
    <3> HIDE DEF s
    <3> QED BY <1>4, <3>1, <3>3, <3>4, GatewayAssumption
  <2>3. CASE JoinRoom(c) \/ SubscribeFails(c)
    BY <1>3, <1>4, <2>3 DEF JoinRoom, SubscribeFails
  <2>4. CASE sub' = sub
    BY <1>3, <1>4, <2>4
  <2> QED BY <2>1, <2>2, <2>3, <2>4
          DEF Connect, Refuse, Authenticate, CheckTenantRoom, FinishSetup, SetupFails, SocketCloses,
              Pong, Unsubscribe, Heartbeat, Recheck, RecheckAccount, AccountRechecked, RecheckRoom,
              RoomRechecked, RecheckEnds, RecheckFails
<1>6. ASSUME NEW b \in Beats, beat' = beat \/ beat' = [beat EXCEPT ![c] = b]
      PROVE  beat' \in [Clients -> Beats]
  BY <1>1, <1>6
<1>7. beat' \in [Clients -> Beats]
  <2>1. CASE Heartbeat(c)
    <3> DEFINE b == [beat[c] EXCEPT !.stage = "account"]
    <3>1. b \in Beats /\ beat' = [beat EXCEPT ![c] = b]
      BY <1>1, <2>1 DEF Heartbeat, Beats
    <3> HIDE DEF b
    <3> QED BY <1>6, <3>1
  <2>2. CASE RecheckAccount(c)
    <3> DEFINE a == isStillAuthorized(client[c].user)
               b == [beat[c] EXCEPT !.answer = a]
    <3>1. a \in BOOLEAN
      BY <1>1, <1>2, AnswersBoolean
    <3>2. beat' = [beat EXCEPT ![c] = b]
      BY <1>1, <2>2 DEF RecheckAccount
    <3> HIDE DEF a
    <3>3. b \in Beats
      BY <1>1, <3>1 DEF Beats
    <3> HIDE DEF b
    <3> QED BY <1>6, <3>2, <3>3
  <2>3. CASE AccountRechecked(c)
    <3> DEFINE b == [Idle EXCEPT !.stage = "rooms", !.todo = client[c].rooms \ Persons]
    <3>1. b \in Beats
      BY <1>2, <1>3 DEF Beats
    <3>2. beat' = [beat EXCEPT ![c] = b] \/ beat' = [beat EXCEPT ![c] = Idle]
      BY <2>3 DEF AccountRechecked
    <3> HIDE DEF b
    <3> QED BY <1>3, <1>6, <3>1, <3>2
  <2>4. CASE RecheckRoom(c)
    <3>1. PICK room \in beat[c].todo :
             beat' = [beat EXCEPT ![c].room = room, ![c].todo = @ \ {room},
                                  ![c].answer = canAccessRoom(client[c].user, room)]
      BY <2>4 DEF RecheckRoom
    <3> DEFINE a == canAccessRoom(client[c].user, room)
               b == [beat[c] EXCEPT !.room = room, !.todo = beat[c].todo \ {room}, !.answer = a]
    <3>2. room \in Rooms
      BY <1>1 DEF Beats
    <3>3. a \in BOOLEAN
      BY <1>1, <1>2, <3>2, AnswersBoolean
    <3> HIDE DEF a
    <3>4. beat' = [beat EXCEPT ![c] = b]
      BY <1>1, <3>1 DEF a
    <3>5. b \in Beats
      BY <1>1, <3>2, <3>3 DEF Beats
    <3> HIDE DEF b
    <3> QED BY <1>6, <3>4, <3>5
  <2>5. CASE RoomRechecked(c)
    <3> DEFINE b == [beat[c] EXCEPT !.room = Nothing, !.answer = Nothing]
    <3>1. b \in Beats /\ beat' = [beat EXCEPT ![c] = b]
      BY <1>1, <2>5 DEF RoomRechecked, Beats
    <3> HIDE DEF b
    <3> QED BY <1>6, <3>1
  <2>6. CASE RecheckEnds(c) \/ RecheckFails(c)
    BY <1>3, <1>6, <2>6 DEF RecheckEnds, RecheckFails
  <2>7. CASE beat' = beat
    BY <1>3, <1>6, <2>7
  <2> QED BY <2>1, <2>2, <2>3, <2>4, <2>5, <2>6, <2>7
          DEF Connect, Refuse, Authenticate, CheckTenantRoom, FinishSetup, SetupFails, SocketCloses,
              CheckSubscription, JoinRoom, SubscribeFails, Pong, Subscribe, Unsubscribe, Recheck
<1> QED BY <1>5, <1>7

(* Every step of the gateway, the handlers and the people keeps the        *)
(* invariant.                                                              *)
LEMMA GatewayKeeps == GatewayInv /\ [GatewayNext]_gatewayVars => GatewayInv'
<1> SUFFICES ASSUME GatewayInv, [GatewayNext]_gatewayVars PROVE GatewayInv'
  OBVIOUS
<1>1. ASSUME NotificationInv', client' \in [Clients -> WSClients], member' \subseteq Clients \X Rooms,
             sub' \in [Clients -> Subs], beat' \in [Clients -> Beats], AskedFirst',
             \A d \in Clients : ClientInv(d)'
      PROVE  GatewayInv'
  <2>1. GatewayTypeOK'
    BY <1>1 DEF GatewayTypeOK, NotificationInv, Subs, Beats
  <2> QED BY <1>1, <2>1 DEF GatewayInv
<1>2. ASSUME NEW c \in Clients,
             \/ \E u \in Persons : Connect(c, u)
             \/ Refuse(c) \/ Authenticate(c) \/ CheckTenantRoom(c) \/ FinishSetup(c) \/ SetupFails(c)
             \/ SocketCloses(c) \/ CheckSubscription(c) \/ JoinRoom(c) \/ SubscribeFails(c) \/ Pong(c)
             \/ \E room \in Rooms : Subscribe(c, room) \/ Unsubscribe(c, room)
             \/ Heartbeat(c) \/ Recheck(c) \/ RecheckFails(c)
      PROVE  GatewayInv'
  <2>1. /\ client' \in [Clients -> WSClients] /\ \A d \in Clients : ClientInv(d)'
        /\ member' \subseteq Clients \X Rooms
    BY <1>2, ConnectionKeeps, MessageKeeps
  <2>2. sub' \in [Clients -> Subs] /\ beat' \in [Clients -> Beats] /\ AskedFirst'
    BY <1>2, ChecksKeep
  <2>3. UNCHANGED <<people, notification>> /\ bus' = bus /\ (faults' = faults \/ Fault)
    BY <1>2 DEF Connect, Refuse, Authenticate, CheckTenantRoom, FinishSetup, SetupFails, SocketCloses,
                CheckSubscription, JoinRoom, SubscribeFails, Pong, Subscribe, Unsubscribe, Heartbeat,
                Recheck, RecheckAccount, AccountRechecked, RecheckRoom, RoomRechecked, RecheckEnds,
                RecheckFails
  <2>4. NotificationInv'
    BY <2>3, NotificationFrame DEF GatewayInv
  <2> QED BY <1>1, <2>1, <2>2, <2>4
<1>3. ASSUME UNCHANGED gateway, NotificationInv' PROVE GatewayInv'
  <2>1. client' = client /\ member' = member /\ sub' = sub /\ beat' = beat
    BY <1>3 DEF gateway
  <2>2. client' \in [Clients -> WSClients] /\ \A d \in Clients : ClientInv(d)'
    BY <2>1, NoClient
  <2>3. /\ member' \subseteq Clients \X Rooms
        /\ sub' \in [Clients -> Subs] /\ beat' \in [Clients -> Beats] /\ AskedFirst'
    BY <2>1 DEF GatewayInv, GatewayTypeOK, Subs, Beats, AskedFirst
  <2> QED BY <1>1, <1>3, <2>2, <2>3
<1>4. ASSUME NEW m \in bus, Deliver(m) \/ MessageLost(m) PROVE GatewayInv'
  <2>1. UNCHANGED <<people, notification>> /\ bus' \subseteq bus /\ (faults' = faults \/ Fault)
          /\ UNCHANGED gateway
    BY <1>4 DEF Deliver, MessageLost
  <2> QED BY <1>3, <2>1, NotificationFrame DEF GatewayInv
<1>5. CASE NotificationStep /\ UNCHANGED gateway
  BY <1>3, <1>5, NotificationKeeps DEF GatewayInv
<1>6. CASE Change /\ UNCHANGED gateway
  BY <1>3, <1>6, ChangeKeeps DEF GatewayInv
<1>7. CASE UNCHANGED gatewayVars
  <2>1. UNCHANGED <<people, notification>> /\ bus' \subseteq bus /\ faults' = faults
          /\ UNCHANGED gateway
    BY <1>7 DEF gatewayVars
  <2> QED BY <1>3, <2>1, NotificationFrame DEF GatewayInv
<1> QED BY <1>2, <1>4, <1>5, <1>6, <1>7 DEF GatewayNext, GatewayStep

(* For every set of events and connections and every number of faults and  *)
(* changes: the state of the handlers, the channel and the gateway keeps   *)
(* its types, what a handler has left to do or has done covers everybody   *)
(* its event concerns, and the rooms of every connection are its own.      *)
THEOREM GatewayInvariant == GatewaySpec => []GatewayInv
  BY GatewayInit0, GatewayKeeps, PTL DEF GatewaySpec

(* The state of the handlers, the channel and the gateway is well typed.   *)
THEOREM GatewayTypeCorrect == GatewaySpec => []GatewayTypeOK
<1>1. GatewayInv => GatewayTypeOK
  BY DEF GatewayInv
<1> QED BY <1>1, GatewayInvariant, PTL

(* The handlers swallow errors in nested try blocks: a processed event     *)
(* has reached everybody it concerns, unless a call for that person or     *)
(* outside of the nested block failed, whatever restarts it went through.  *)
THEOREM EverybodyIsTold == GatewaySpec => []ToldOrFailed
<1>1. GatewayInv => ToldOrFailed
  BY DoneIsTold DEF GatewayInv, NotificationInv, ToldOrFailed
<1> QED BY <1>1, GatewayInvariant, PTL

(* The room manager and the clients' records agree, although connections   *)
(* close while their access checks are under way, and a connection that    *)
(* is gone is left in no room but the tenant's.                            *)
THEOREM RoomsAndRecordsAgree == GatewaySpec => []RoomsAgree
<1>1. GatewayInv => RoomsAgree
  BY DEF GatewayInv, ClientInv, Mine, RoomsAgree
<1> QED BY <1>1, GatewayInvariant, PTL
=============================================================================
