------------------------------- MODULE Outbox -------------------------------
(***************************************************************************)
(* The transactional outbox: the outbox_events table                       *)
(* (infrastructure/outbox/outbox.repository.ts), the polling workers that  *)
(* drain it (outbox.worker.ts, outbox.processor.ts), the in-process event  *)
(* bus with its Redis ledger of completed handlers                         *)
(* (application/event-bus/event-bus.ts, redis-handler-ledger.ts) and the   *)
(* operator interventions of platform-operations.service.ts.               *)
(*                                                                         *)
(* Every await of the code is a point where another process may step, so   *)
(* every database statement and every Redis call is an action of its own.  *)
(* A row id stands for its event_id too: both are unique and never reused. *)
(* Rows are numbered by occurred_at.  Wall-clock conditions are Booleans   *)
(* that an environment action turns on: `available` (available_at <=       *)
(* NOW()) and `expired` (locked_at < NOW() - lease).                       *)
(***************************************************************************)
EXTENDS Integers, FiniteSets

CONSTANTS Rows,         \* row ids, numbered in the order of occurred_at
          Workers,      \* worker ids; a process incarnation has its own
          Operators,    \* concurrent requests of platform admins
          Handlers,     \* the handlers subscribed to the event type
          BatchSize,    \* LIMIT of the claim statement
          MaxAttempts,  \* DEFAULT_MAX_ATTEMPTS
          RetryGrant,   \* settings.retryMaxAttempts
          AttemptCap,   \* BOUND: attempts an operator may still add to
          LedgerLoses,  \* TRUE: Redis may lose or expire a ledger entry
          None          \* null

ASSUME RowsAssumption == Rows \subseteq Nat
ASSUME NoneAssumption == None \notin Rows /\ None \notin Workers
ASSUME BoundsAssumption == /\ BatchSize \in Nat \ {0}
                           /\ MaxAttempts \in Nat \ {0}
                           /\ RetryGrant \in Nat \ {0}
                           /\ AttemptCap \in Nat
                           /\ LedgerLoses \in BOOLEAN

VARIABLES
    \* one column of outbox_events each
    status, attempts, maxAttempts, lockedBy, replayOf, occurredAt,
    available, expired,
    \* the workers
    pc,          \* where the worker is in tick() / processBatch()
    batch,       \* claimed records not yet dispatched
    current,     \* the record being dispatched
    stage,       \* stage[w][h]: progress of runOnce for handler h
    \* shared services
    ledger,      \* <<row, handler>> keys present in Redis
    paused,      \* paused[w]: settings.get().outboxPaused in w's process
    \* operators between their read and their write
    op,
    \* history
    ran          \* <<row, handler>> pairs whose handler completed

row  == <<status, attempts, maxAttempts, lockedBy, replayOf, occurredAt,
          available, expired>>
work == <<pc, batch, current, stage>>
hist == <<ran>>
vars == <<row, work, ledger, paused, op, hist>>

Statuses == {"ABSENT", "PENDING", "PROCESSING", "PROCESSED", "FAILED",
             "DEAD_LETTER", "CANCELLED", "DELETED"}

(* MUTANTs: a cancelled row may be retried, a PROCESSING row cancelled. *)
RETRYABLE_CANCELLED    == {"FAILED", "DEAD_LETTER", "CANCELLED"}
CANCELLABLE_PROCESSING == {"PENDING", "PROCESSING", "FAILED", "DEAD_LETTER"}

RETRYABLE   == {"FAILED", "DEAD_LETTER"}
CANCELLABLE == {"PENDING", "FAILED", "DEAD_LETTER"}
REPLAYABLE  == {"PROCESSED", "DEAD_LETTER", "CANCELLED"}
PURGEABLE   == {"PROCESSED", "CANCELLED"}
ACTIVE      == {"PENDING", "PROCESSING", "FAILED"}

PCs    == {"idle", "expire", "claim", "next", "dispatch", "failing", "dead"}
Stages == {"check", "run", "mark", "ok", "failed"}

(* The part of an OutboxRecord that the processor uses after the claim. *)
Records == [row : Rows, attempts : Nat, max : Nat]
NoRec   == [row |-> None, attempts |-> 0, max |-> 0]

OpStates == [kind : {"retry", "replay"}, row : Rows, attempts : Nat]
NoOp     == [kind |-> "none", row |-> None, attempts |-> 0]

Fresh == [h \in Handlers |-> "check"]

TypeOK ==
    /\ status \in [Rows -> Statuses]
    /\ attempts \in [Rows -> Nat]
    /\ maxAttempts \in [Rows -> Nat]
    /\ lockedBy \in [Rows -> Workers \cup {None}]
    /\ replayOf \in [Rows -> Rows \cup {None}]
    /\ occurredAt \in [Rows -> Rows]
    /\ available \in [Rows -> BOOLEAN]
    /\ expired \in [Rows -> BOOLEAN]
    /\ pc \in [Workers -> PCs]
    /\ batch \in [Workers -> SUBSET Records]
    /\ current \in [Workers -> Records \cup {NoRec}]
    /\ stage \in [Workers -> [Handlers -> Stages]]
    /\ ledger \subseteq Rows \X Handlers
    /\ paused \in [Workers -> BOOLEAN]
    /\ op \in [Operators -> OpStates \cup {NoOp}]
    /\ ran \subseteq Rows \X Handlers

Init ==
    /\ status = [r \in Rows |-> "ABSENT"]
    /\ attempts = [r \in Rows |-> 0]
    /\ maxAttempts = [r \in Rows |-> 0]
    /\ lockedBy = [r \in Rows |-> None]
    /\ replayOf = [r \in Rows |-> None]
    /\ occurredAt = [r \in Rows |-> r]
    /\ available = [r \in Rows |-> FALSE]
    /\ expired = [r \in Rows |-> FALSE]
    /\ pc = [w \in Workers |-> "idle"]
    /\ batch = [w \in Workers |-> {}]
    /\ current = [w \in Workers |-> NoRec]
    /\ stage = [w \in Workers |-> Fresh]
    /\ ledger = {}
    /\ paused = [w \in Workers |-> FALSE]
    /\ op = [o \in Operators |-> NoOp]
    /\ ran = {}

(***************************************************************************)
(* Publishing                                                              *)
(***************************************************************************)

(* enqueueMany: one createMany inserts the rows of a transaction.  Row ids *)
(* that exist already are skipped (skipDuplicates), i.e. not in S.         *)
Enqueue(S) ==
    /\ S # {}
    /\ \A r \in S : status[r] = "ABSENT"
    /\ status' = [r \in Rows |-> IF r \in S THEN "PENDING" ELSE status[r]]
    /\ maxAttempts' = [r \in Rows |-> IF r \in S THEN MaxAttempts ELSE maxAttempts[r]]
    /\ available' = [r \in Rows |-> IF r \in S THEN TRUE ELSE available[r]]
    /\ UNCHANGED <<attempts, lockedBy, replayOf, occurredAt, expired,
                   work, ledger, paused, op, hist>>

(***************************************************************************)
(* Worker: tick() and claimBatch()                                         *)
(***************************************************************************)

(* tick: no batch in flight and the operator has not paused the outbox. *)
Tick(w) ==
    /\ pc[w] = "idle"
    /\ ~paused[w]
    /\ pc' = [pc EXCEPT ![w] = "expire"]
    /\ UNCHANGED <<row, batch, current, stage, ledger, paused, op, hist>>

Exhausted(r) == /\ status[r] = "PROCESSING"
                /\ expired[r]
                /\ attempts[r] >= maxAttempts[r]

(* First statement of claimBatch. *)
DeadLetterExpired(w) ==
    /\ pc[w] = "expire"
    /\ status' = [r \in Rows |-> IF Exhausted(r) THEN "DEAD_LETTER" ELSE status[r]]
    /\ lockedBy' = [r \in Rows |-> IF Exhausted(r) THEN None ELSE lockedBy[r]]
    /\ expired' = [r \in Rows |-> IF Exhausted(r) THEN FALSE ELSE expired[r]]
    /\ pc' = [pc EXCEPT ![w] = "claim"]
    /\ UNCHANGED <<attempts, maxAttempts, replayOf, occurredAt, available,
                   batch, current, stage, ledger, paused, op, hist>>

(* MUTANT: rows of a crashed worker are never reclaimed. *)
ClaimableNoReclaim(r) == status[r] \in {"PENDING", "FAILED"} /\ available[r]

(* WHERE of the claim.  attempts < AttemptCap bounds how often a row whose *)
(* lease expires between the two statements outlives its budget; no other  *)
(* row reaches the cap.                                                    *)
Claimable(r) ==
    \/ status[r] \in {"PENDING", "FAILED"} /\ available[r]
    \/ status[r] = "PROCESSING" /\ expired[r] /\ attempts[r] < AttemptCap

(* ORDER BY occurred_at LIMIT BatchSize *)
IsOldestBatch(S) ==
    LET claimable == {r \in Rows : Claimable(r)} IN
    /\ S \subseteq claimable
    /\ Cardinality(S) <= BatchSize
    /\ Cardinality(S) < BatchSize => S = claimable
    /\ \A r \in S, q \in claimable \ S : occurredAt[r] <= occurredAt[q]

(* MUTANT: the record is read before the update. *)
StaleClaimedRecord(r) == [row |-> r, attempts |-> attempts[r], max |-> maxAttempts[r]]

(* The OutboxRecord that RETURNING yields: the row after the update. *)
ClaimedRecord(r) == [row |-> r, attempts |-> attempts[r] + 1, max |-> maxAttempts[r]]

(* Second statement of claimBatch.  When the connection is lost after the  *)
(* commit (~answered) the rows are locked but the worker never sees them.  *)
Claim(w, S, answered) ==
    /\ pc[w] = "claim"
    /\ IsOldestBatch(S)
    /\ status' = [r \in Rows |-> IF r \in S THEN "PROCESSING" ELSE status[r]]
    /\ attempts' = [r \in Rows |-> IF r \in S THEN attempts[r] + 1 ELSE attempts[r]]
    /\ lockedBy' = [r \in Rows |-> IF r \in S THEN w ELSE lockedBy[r]]
    /\ expired' = [r \in Rows |-> IF r \in S THEN FALSE ELSE expired[r]]
    /\ pc' = [pc EXCEPT ![w] = IF answered THEN "next" ELSE "idle"]
    /\ batch' = [batch EXCEPT ![w] = IF answered THEN {ClaimedRecord(r) : r \in S} ELSE {}]
    /\ UNCHANGED <<maxAttempts, replayOf, occurredAt, available,
                   current, stage, ledger, paused, op, hist>>

(***************************************************************************)
(* Worker: processBatch() and InProcessEventBus.publish()                  *)
(***************************************************************************)

(* The loop takes the records in the order of occurredAt. *)
StartDispatch(w, rec) ==
    /\ pc[w] = "next"
    /\ rec \in batch[w]
    /\ \A other \in batch[w] : occurredAt[rec.row] <= occurredAt[other.row]
    /\ pc' = [pc EXCEPT ![w] = "dispatch"]
    /\ batch' = [batch EXCEPT ![w] = @ \ {rec}]
    /\ current' = [current EXCEPT ![w] = rec]
    /\ stage' = [stage EXCEPT ![w] = Fresh]
    /\ UNCHANGED <<row, ledger, paused, op, hist>>

EndBatch(w) ==
    /\ pc[w] = "next"
    /\ batch[w] = {}
    /\ pc' = [pc EXCEPT ![w] = "idle"]
    /\ UNCHANGED <<row, batch, current, stage, ledger, paused, op, hist>>

Key(w, h) == <<current[w].row, h>>

AtStage(w, h, s) == pc[w] = "dispatch" /\ stage[w][h] = s

GoTo(w, h, s) ==
    /\ stage' = [stage EXCEPT ![w][h] = s]
    /\ UNCHANGED <<row, pc, batch, current, paused, op>>

(* runOnce: ledger.isDone *)
CheckLedger(w, h) ==
    /\ AtStage(w, h, "check")
    /\ GoTo(w, h, IF Key(w, h) \in ledger THEN "ok" ELSE "run")
    /\ UNCHANGED <<ledger, hist>>

(* runOnce: await handler(event) resolves *)
RunHandler(w, h) ==
    /\ AtStage(w, h, "run")
    /\ GoTo(w, h, "mark")
    /\ ran' = ran \cup {Key(w, h)}
    /\ UNCHANGED ledger

(* runOnce: ledger.markDone *)
MarkDone(w, h) ==
    /\ AtStage(w, h, "mark")
    /\ GoTo(w, h, "ok")
    /\ ledger' = ledger \cup {Key(w, h)}
    /\ UNCHANGED hist

(* runOnce rejects: the handler, or one of the two Redis calls, failed. *)
RunOnceRejects(w, h) ==
    /\ stage[w][h] \in {"check", "run", "mark"}
    /\ pc[w] = "dispatch"
    /\ GoTo(w, h, "failed")
    /\ UNCHANGED <<ledger, hist>>

(* Promise.allSettled has an outcome for every handler. *)
Settled(w) == pc[w] = "dispatch" /\ \A h \in Handlers : stage[w][h] \in {"ok", "failed"}

(* MUTANT: publish() logs the failures and does not throw AggregateError. *)
RejectedSwallowed(w) == FALSE

(* publish() throws an AggregateError. *)
Rejected(w) == \E h \in Handlers : stage[w][h] = "failed"

(* where: { id, lockedBy: workerId, status: PROCESSING } *)
HoldsLease(w, r) == status[r] = "PROCESSING" /\ lockedBy[r] = w

(* The worker is done with its current record. *)
NextRecord(w) ==
    /\ pc' = [pc EXCEPT ![w] = "next"]
    /\ current' = [current EXCEPT ![w] = NoRec]
    /\ stage' = [stage EXCEPT ![w] = Fresh]
    /\ UNCHANGED batch

(* updateMany on the row of the current record, if the lease still holds. *)
Settle(w, r, st, retryNow) ==
    /\ status' = IF HoldsLease(w, r) THEN [status EXCEPT ![r] = st] ELSE status
    /\ available' = IF HoldsLease(w, r) THEN [available EXCEPT ![r] = retryNow] ELSE available
    /\ expired' = IF HoldsLease(w, r) THEN [expired EXCEPT ![r] = FALSE] ELSE expired
    /\ lockedBy' = IF HoldsLease(w, r) THEN [lockedBy EXCEPT ![r] = None] ELSE lockedBy
    /\ UNCHANGED <<attempts, maxAttempts, replayOf, occurredAt>>

MarkProcessed(w) ==
    /\ Settled(w) /\ ~Rejected(w)
    /\ Settle(w, current[w].row, "PROCESSED", available[current[w].row])
    /\ NextRecord(w)
    /\ UNCHANGED <<ledger, paused, op, hist>>

(* markProcessed throws (before or after its update took effect) and the   *)
(* catch block goes on to markFailed.                                      *)
MarkProcessedThrows(w, applied) ==
    /\ Settled(w) /\ ~Rejected(w)
    /\ IF applied
       THEN Settle(w, current[w].row, "PROCESSED", available[current[w].row])
       ELSE UNCHANGED row
    /\ pc' = [pc EXCEPT ![w] = "failing"]
    /\ UNCHANGED <<batch, current, stage, ledger, paused, op, hist>>

Failing(w) == (Settled(w) /\ Rejected(w)) \/ pc[w] = "failing"

(* Decided on the claimed record, not on the row. *)
FailureStatus(rec) == IF rec.attempts >= rec.max THEN "DEAD_LETTER" ELSE "FAILED"

MarkFailed(w) ==
    /\ Failing(w)
    /\ Settle(w, current[w].row, FailureStatus(current[w]), FALSE)
    /\ NextRecord(w)
    /\ UNCHANGED <<ledger, paused, op, hist>>

(* markFailed throws: processBatch rejects, tick() logs it and the rest of *)
(* the batch stays PROCESSING until its lease expires.                     *)
AbandonBatch(w) ==
    /\ Failing(w)
    /\ pc' = [pc EXCEPT ![w] = "idle"]
    /\ batch' = [batch EXCEPT ![w] = {}]
    /\ current' = [current EXCEPT ![w] = NoRec]
    /\ stage' = [stage EXCEPT ![w] = Fresh]
    /\ UNCHANGED <<row, ledger, paused, op, hist>>

(* The process dies.  A restarted process has a new worker id, so the last *)
(* worker id stands for all the later incarnations and does not crash.     *)
Crash(w) ==
    /\ pc[w] # "dead"
    /\ \E v \in Workers \ {w} : pc[v] # "dead"
    /\ pc' = [pc EXCEPT ![w] = "dead"]
    /\ batch' = [batch EXCEPT ![w] = {}]
    /\ current' = [current EXCEPT ![w] = NoRec]
    /\ stage' = [stage EXCEPT ![w] = Fresh]
    /\ UNCHANGED <<row, ledger, paused, op, hist>>

(***************************************************************************)
(* Operators (PlatformOperationsService)                                   *)
(***************************************************************************)

(* The partial unique index outbox_events_active_replay_key. *)
IndexAllows(r, original) ==
    \A q \in Rows \ {r} : ~(replayOf[q] = original /\ status[q] \in ACTIVE)

(* retryOutbox: findOutbox reads attempts before the conditional update. *)
RetryRead(o, r) ==
    /\ op[o] = NoOp
    /\ status[r] \notin {"ABSENT", "DELETED"}
    /\ attempts[r] + RetryGrant <= AttemptCap
    /\ op' = [op EXCEPT ![o] = [kind |-> "retry", row |-> r, attempts |-> attempts[r]]]
    /\ UNCHANGED <<row, work, ledger, paused, hist>>

RetryAccepted(r) ==
    /\ status[r] \in RETRYABLE
    /\ replayOf[r] # None => IndexAllows(r, replayOf[r])

(* The second conjunct bounds the attempts that retries can add up to. *)
RetryWrite(o) ==
    LET r == op[o].row IN
    /\ op[o].kind = "retry"
    /\ RetryAccepted(r)
    /\ attempts[r] + RetryGrant <= AttemptCap
    /\ status' = [status EXCEPT ![r] = "PENDING"]
    /\ available' = [available EXCEPT ![r] = TRUE]
    /\ maxAttempts' = [maxAttempts EXCEPT ![r] = op[o].attempts + RetryGrant]
    /\ op' = [op EXCEPT ![o] = NoOp]
    /\ UNCHANGED <<attempts, lockedBy, replayOf, occurredAt, expired,
                   work, ledger, paused, hist>>

(* ConflictError, or the unique index rejects the update. *)
RetryConflict(o) ==
    /\ op[o].kind = "retry"
    /\ ~RetryAccepted(op[o].row) \/ attempts[op[o].row] + RetryGrant > AttemptCap
    /\ op' = [op EXCEPT ![o] = NoOp]
    /\ UNCHANGED <<row, work, ledger, paused, hist>>

(* cancelOutbox: its read only feeds the error message. *)
CancelRow(r) ==
    /\ status[r] \in CANCELLABLE
    /\ status' = [status EXCEPT ![r] = "CANCELLED"]
    /\ lockedBy' = [lockedBy EXCEPT ![r] = None]
    /\ UNCHANGED <<attempts, maxAttempts, replayOf, occurredAt, available, expired,
                   work, ledger, paused, op, hist>>

(* replayOutbox: the status of the original is checked on a read ... *)
ReplayRead(o, r) ==
    /\ op[o] = NoOp
    /\ status[r] \in REPLAYABLE
    /\ op' = [op EXCEPT ![o] = [kind |-> "replay", row |-> r, attempts |-> 0]]
    /\ UNCHANGED <<row, work, ledger, paused, hist>>

(* ... and a new row with a new event id is inserted afterwards. *)
ReplayCreate(o, new) ==
    LET original == op[o].row IN
    /\ op[o].kind = "replay"
    /\ status[new] = "ABSENT"
    /\ IndexAllows(new, original)
    /\ status' = [status EXCEPT ![new] = "PENDING"]
    /\ maxAttempts' = [maxAttempts EXCEPT ![new] = RetryGrant]
    /\ replayOf' = [replayOf EXCEPT ![new] = original]
    /\ occurredAt' = [occurredAt EXCEPT ![new] = occurredAt[original]]
    /\ available' = [available EXCEPT ![new] = TRUE]
    /\ op' = [op EXCEPT ![o] = NoOp]
    /\ UNCHANGED <<attempts, lockedBy, expired, work, ledger, paused, hist>>

(* P2002 (ConflictError), or no row id is left in this instance. *)
ReplayConflict(o) ==
    /\ op[o].kind = "replay"
    /\ \/ ~IndexAllows(None, op[o].row)
       \/ \A q \in Rows : status[q] # "ABSENT"
    /\ op' = [op EXCEPT ![o] = NoOp]
    /\ UNCHANGED <<row, work, ledger, paused, hist>>

(* purge / deleteProcessed: finished rows past the retention. *)
Purge(S) ==
    /\ S # {}
    /\ \A r \in S : status[r] \in PURGEABLE
    /\ status' = [r \in Rows |-> IF r \in S THEN "DELETED" ELSE status[r]]
    /\ UNCHANGED <<attempts, maxAttempts, lockedBy, replayOf, occurredAt, available,
                   expired, work, ledger, paused, op, hist>>

(* settings.get() is cached for CACHE_MS in every process: an update of    *)
(* outboxPaused reaches each worker at a time of its own.                  *)
SetPaused(w) ==
    /\ paused' = [paused EXCEPT ![w] = ~@]
    /\ UNCHANGED <<row, work, ledger, op, hist>>

(***************************************************************************)
(* Time and Redis                                                          *)
(***************************************************************************)
LeaseExpires(r) ==
    /\ status[r] = "PROCESSING" /\ ~expired[r]
    /\ expired' = [expired EXCEPT ![r] = TRUE]
    /\ UNCHANGED <<status, attempts, maxAttempts, lockedBy, replayOf, occurredAt,
                   available, work, ledger, paused, op, hist>>

(* computeRetryDelayMs(attempts) has passed. *)
BackoffElapses(r) ==
    /\ status[r] = "FAILED" /\ ~available[r]
    /\ available' = [available EXCEPT ![r] = TRUE]
    /\ UNCHANGED <<status, attempts, maxAttempts, lockedBy, replayOf, occurredAt,
                   expired, work, ledger, paused, op, hist>>

LedgerForgets(k) ==
    /\ LedgerLoses
    /\ k \in ledger
    /\ ledger' = ledger \ {k}
    /\ UNCHANGED <<row, work, paused, op, hist>>

(***************************************************************************)
(* Specification                                                           *)
(***************************************************************************)
RunHandlers(w) == \E h \in Handlers : CheckLedger(w, h) \/ RunHandler(w, h) \/ MarkDone(w, h)

(* What a live worker does by itself. *)
WorkerStep(w) ==
    \/ Tick(w)
    \/ DeadLetterExpired(w)
    \/ \E S \in SUBSET Rows : Claim(w, S, TRUE)
    \/ \E rec \in batch[w] : StartDispatch(w, rec)
    \/ EndBatch(w)
    \/ RunHandlers(w)
    \/ MarkProcessed(w)
    \/ MarkFailed(w)

(* Failures of the worker's surroundings. *)
WorkerFault(w) ==
    \/ \E S \in SUBSET Rows : Claim(w, S, FALSE)
    \/ \E h \in Handlers : RunOnceRejects(w, h)
    \/ \E applied \in BOOLEAN : MarkProcessedThrows(w, applied)
    \/ AbandonBatch(w)
    \/ Crash(w)

OperatorStep ==
    \/ \E o \in Operators : \/ RetryWrite(o) \/ RetryConflict(o) \/ ReplayConflict(o)
                            \/ \E r \in Rows : RetryRead(o, r) \/ ReplayRead(o, r) \/ ReplayCreate(o, r)
    \/ \E r \in Rows : CancelRow(r)
    \/ \E w \in Workers : SetPaused(w)

TimePasses == \E r \in Rows : LeaseExpires(r) \/ BackoffElapses(r)

Next == \/ \E S \in SUBSET Rows : Enqueue(S) \/ Purge(S)
        \/ \E w \in Workers : WorkerStep(w) \/ WorkerFault(w)
        \/ OperatorStep
        \/ TimePasses
        \/ \E k \in ledger : LedgerForgets(k)

Spec == Init /\ [][Next]_vars

(* Polling goes on in every live process, a handler call returns, and time *)
(* passes.  Nothing is assumed of the operators or of Redis.               *)
Fairness == /\ \A w \in Workers : WF_vars(WorkerStep(w))
            /\ WF_vars(TimePasses)

FairSpec == Spec /\ Fairness

(***************************************************************************)
(* Properties                                                              *)
(***************************************************************************)

(* At-least-once delivery (README, ADR-002): markProcessed is reached only *)
(* when every subscribed handler has completed for the event, whoever ran  *)
(* it, even if workers crashed, lost their lease or the ledger lost keys.  *)
AtLeastOnce ==
    \A r \in Rows, h \in Handlers :
        status[r] = "PROCESSED" => <<r, h>> \in ran

(* The records a worker still has in hand. *)
InHand(w) == batch[w] \cup ({current[w]} \ {NoRec})

(* markFailed decides between FAILED and DEAD_LETTER on the record read by *)
(* the claim, and writes if lockedBy is still this worker: as long as that *)
(* test succeeds the record's attempts and budget are the row's.           *)
LeaseFencing ==
    \A w \in Workers : \A rec \in InHand(w) :
        HoldsLease(w, rec.row) => /\ rec.attempts = attempts[rec.row]
                                  /\ rec.max = maxAttempts[rec.row]

(* PROCESSING rows belong to a worker (ADR-002: only the lease holder can  *)
(* complete or fail a row): a row leaves PROCESSING, or changes its owner, *)
(* only if its lease expired or its owner is settling exactly that row.    *)
LeaseRespected ==
    [][\A r \in Rows :
          /\ status[r] = "PROCESSING"
          /\ ~(status'[r] = "PROCESSING" /\ lockedBy'[r] = lockedBy[r])
          => \/ expired[r]
             \/ \E w \in Workers : lockedBy[r] = w /\ current[w].row = r]_vars

(* A FAILED row is retried after its backoff, so it must have attempts     *)
(* left; a row without attempts left is dead-lettered by markFailed.       *)
FailedHasBudget ==
    \A r \in Rows : status[r] = "FAILED" => attempts[r] < maxAttempts[r]

(* Why the above hold: a worker that polls holds nothing; one that         *)
(* dispatches has a record of an existing row; what the ledger, and a      *)
(* worker's own progress, say is complete did complete.                    *)
HandInv ==
    /\ \A w \in Workers :
          /\ pc[w] \in {"idle", "expire", "claim", "dead"} => batch[w] = {} /\ current[w] = NoRec
          /\ pc[w] = "next" => current[w] = NoRec
          /\ pc[w] \in {"dispatch", "failing"} => current[w] \in Records
    /\ \A w \in Workers : \A rec \in InHand(w) : status[rec.row] # "ABSENT"

ProgressInv ==
    /\ ledger \subseteq ran
    /\ \A w \in Workers, h \in Handlers :
          pc[w] \in {"dispatch", "failing"} /\ stage[w][h] \in {"mark", "ok"} => Key(w, h) \in ran

(* The outbox as an implementation of EventDelivery: leases, retries and   *)
(* snapshots are invisible, and a row's fate is its status.                *)
Fate(st) == CASE st = "ABSENT" -> "unborn"
              [] st \in ACTIVE -> "queued"
              [] st = "PROCESSED" -> "delivered"
              [] st = "DEAD_LETTER" -> "dead"
              [] st = "CANCELLED" -> "cancelled"
              [] st = "DELETED" -> "gone"

Delivery == INSTANCE EventDelivery
              WITH fate <- [r \in Rows |-> Fate(status[r])], received <- ran

ImplementsDelivery == Delivery!Spec

(* No event is stuck: once the outbox is no longer paused, every queued    *)
(* event is delivered, dead-lettered or cancelled, in spite of crashes,    *)
(* abandoned batches and lost answers.                                     *)
EventuallySettled ==
    <>[](\A w \in Workers : ~paused[w]) => \A r \in Rows : (status[r] \in ACTIVE) ~> (status[r] \notin ACTIVE)

=============================================================================
