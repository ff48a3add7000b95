------------------------------ MODULE Reports ------------------------------
(***************************************************************************)
(* Report jobs (ReportService): requested over HTTP, built by the          *)
(* report-processing job of every worker process, stored as a file,        *)
(* expired after a day and purged after a month.                           *)
(*                                                                         *)
(* The scheduler's lock names the minute it was taken for, so a tick that  *)
(* lasts longer than a minute runs beside the next one on another process: *)
(* workers do overlap.  startedAt, which tells one claim of a job from     *)
(* another, is the number of the claim: a job is claimed again only 15     *)
(* minutes after its last startedAt, so no two claims have the same one.   *)
(***************************************************************************)
EXTENDS Integers, FiniteSets

CONSTANTS Jobs,        \* report ids, numbered in the order of createdAt
          Workers,     \* worker processes
          ClaimTake,   \* jobs listed by one tick (take: 5)
          ExpireTake,  \* expired files listed by one tick (take: 50)
          MaxBatches,  \* MAX_REPORT_ROWS / BATCH_SIZE
          MaxSlow,     \* BOUND: builds that outlast STALE_RUN_MS
          MaxFaults    \* BOUND: crashed ticks and failed deletions

ASSUME JobsAssumption  == Jobs \subseteq Nat \ {0}
ASSUME TakeAssumption  == ClaimTake \in Nat \ {0} /\ ExpireTake \in Nat \ {0}
ASSUME LimitAssumption == MaxBatches \in Nat /\ MaxSlow \in Nat /\ MaxFaults \in Nat

VARIABLES
    job,      \* job[j]: the row of report_jobs
    files,    \* the files in storage
    worker,   \* what every worker is doing
    local,    \* STORAGE_PROVIDER: is a file on disk, or in S3 or memory?
    slow,     \* builds that have outlasted STALE_RUN_MS so far
    faults,   \* crashes and failed deletions so far
    \* history
    lost      \* files whose worker has failed before it could name them in a row

vars == <<job, files, worker, local, slow, faults, lost>>

(* A file is the upload of one claim of one job. *)
Files == [job : Jobs, run : Nat]
FileOf(j, r) == [job |-> j, run |-> r]
NoFile == FileOf(0, 0)

Statuses == {"PENDING", "RUNNING", "COMPLETED", "FAILED", "CANCELLED", "EXPIRED"}
Settled  == {"FAILED", "CANCELLED", "EXPIRED"}

(* "none" and "purged" are ids without a row.  path is the claim whose     *)
(* upload storagePath names, or 0.  due says that the time set by the last *)
(* change of status has come: startedAt is STALE_RUN_MS ago for a RUNNING  *)
(* job, expiresAt is past for a COMPLETED one, updatedAt is                *)
(* RECORD_RETENTION_MS ago for a settled one.                              *)
Rows == [status : Statuses \cup {"none", "purged"}, run : Nat, path : Nat, due : BOOLEAN]

NoRow == [status |-> "none", run |-> 0, path |-> 0, due |-> FALSE]

(* The steps of processPending, and of process between two awaits. *)
Building == {"read", "assert", "upload", "complete"}
Steps    == {"idle", "expire", "mark", "claim"}
            \cup Building \cup {"discard", "fail"}

(* expiring and pending are what is left of the two lists of the tick, and *)
(* stale the claims that were older than its staleBefore; file is the      *)
(* upload (job and claim) that the worker is concerned with; late counts   *)
(* the batches it has read since it lost its claim.                        *)
WorkerStates == [pc : Steps, expiring : SUBSET Files, pending : SUBSET Jobs,
                 stale : SUBSET Files, file : Files \cup {NoFile}, batches : Nat, last : BOOLEAN, late : Nat]

TypeOK ==
    /\ job \in [Jobs -> Rows]
    /\ files \subseteq Files /\ lost \subseteq Files
    /\ worker \in [Workers -> WorkerStates]
    /\ local \in BOOLEAN
    /\ slow \in Nat /\ faults \in Nat

Idle == [pc |-> "idle", expiring |-> {}, pending |-> {}, stale |-> {}, file |-> NoFile,
         batches |-> 0, last |-> FALSE, late |-> 0]

Init ==
    /\ job = [j \in Jobs |-> NoRow]
    /\ files = {} /\ lost = {}
    /\ worker = [w \in Workers |-> Idle]
    /\ local \in BOOLEAN
    /\ slow = 0 /\ faults = 0

(***************************************************************************)
(* Requests                                                                *)
(***************************************************************************)
(* Ids are taken in the order of createdAt. *)
create(j) ==
    /\ job[j].status = "none"
    /\ \A k \in Jobs : k < j => job[k].status # "none"
    /\ job' = [job EXCEPT ![j].status = "PENDING"]
    /\ UNCHANGED <<files, worker, local, slow, faults, lost>>

cancel(j) ==
    /\ job[j].status \in {"PENDING", "RUNNING"}
    /\ job' = [job EXCEPT ![j].status = "CANCELLED", ![j].due = FALSE]
    /\ UNCHANGED <<files, worker, local, slow, faults, lost>>

(* getDownloadUrl signs a URL for the file of such a job. *)
Downloadable(j) ==
    job[j].status = "COMPLETED" /\ job[j].path # 0 /\ ~job[j].due

(***************************************************************************)
(* A tick of processPending: first the files that have expired             *)
(***************************************************************************)
Pc(w) == worker[w].pc
Job(w) == worker[w].file.job
Run(w) == worker[w].file.run

Expired == {j \in Jobs : job[j].status = "COMPLETED" /\ job[j].due}

(* The list has no order: any ExpireTake of the expired files. *)
expireFiles(w) ==
    /\ Pc(w) = "idle"
    /\ \E some \in SUBSET Expired :
          /\ some = Expired \/ Cardinality(some) = ExpireTake
          /\ Cardinality(some) <= ExpireTake
          /\ worker' = [worker EXCEPT ![w].pc = "expire",
                           ![w].expiring = {FileOf(j, job[j].path) : j \in some}]
    /\ UNCHANGED <<job, files, local, slow, faults, lost>>

(* A file that is not there makes unlink fail, and with it the tick; S3    *)
(* and the memory provider delete it again.                                *)
ExpireDelete(w) ==
    /\ Pc(w) = "expire"
    /\ \E f \in worker[w].expiring :
          IF local /\ f \notin files
          THEN /\ worker' = [worker EXCEPT ![w] = Idle]
               /\ UNCHANGED files
          ELSE /\ worker' = [worker EXCEPT ![w].pc = "mark", ![w].file = f,
                                ![w].expiring = @ \ {f}]
               /\ files' = files \ {f}
    /\ UNCHANGED <<job, local, slow, faults, lost>>

ExpireMark(w) ==
    /\ Pc(w) = "mark"
    /\ job' = IF job[Job(w)].status = "COMPLETED"
              THEN [job EXCEPT ![Job(w)].status = "EXPIRED", ![Job(w)].path = 0,
                                  ![Job(w)].due = FALSE]
              ELSE job
    /\ worker' = [worker EXCEPT ![w].pc = "expire", ![w].file = NoFile]
    /\ UNCHANGED <<files, local, slow, faults, lost>>

(***************************************************************************)
(* ... then the jobs that can be claimed                                   *)
(***************************************************************************)
(* staleBefore is computed once per tick: a claim that is not stale when   *)
(* the tick lists its jobs never is for this tick.                         *)
Stale == {FileOf(j, job[j].run) : j \in {k \in Jobs : job[k].status = "RUNNING" /\ job[k].due}}

Claimable(j, stale) ==
    job[j].status = "PENDING" \/ (job[j].status = "RUNNING" /\ FileOf(j, job[j].run) \in stale)

(* Rows are only marked as purged: their ids are not used again. *)
purgeRecords ==
    job' = [j \in Jobs |-> IF job[j].status \in Settled /\ job[j].due
                           THEN [job[j] EXCEPT !.status = "purged"] ELSE job[j]]

(* MUTANT: jobs left behind by a crashed worker are not listed. *)
ListPendingOnly(w) ==
    /\ Pc(w) = "expire" /\ worker[w].expiring = {}
    /\ purgeRecords
    /\ worker' = [worker EXCEPT ![w].pc = "claim",
                     ![w].pending = {j \in Jobs : job[j].status = "PENDING"}]
    /\ UNCHANGED <<files, local, slow, faults, lost>>

(* The rows past retention go, and the ClaimTake oldest of the claimable   *)
(* ones are listed: the two statements touch different rows.               *)
List(w) ==
    /\ Pc(w) = "expire" /\ worker[w].expiring = {}
    /\ purgeRecords
    /\ worker' = [worker EXCEPT ![w].pc = "claim", ![w].stale = Stale, ![w].pending =
          {j \in Jobs : /\ Claimable(j, Stale)
                        /\ Cardinality({k \in Jobs : k < j /\ Claimable(k, Stale)}) < ClaimTake}]
    /\ UNCHANGED <<files, local, slow, faults, lost>>

ClaimAs(w, j) ==
    /\ job' = [job EXCEPT ![j].status = "RUNNING", ![j].run = @ + 1, ![j].due = FALSE]
    /\ worker' = [worker EXCEPT ![w].pc = "read", ![w].pending = @ \ {j},
                     ![w].file = FileOf(j, job[j].run + 1)]

Skip(w, j) ==
    /\ worker' = [worker EXCEPT ![w].pending = @ \ {j}]
    /\ UNCHANGED job

Oldest(w, j) == \A k \in worker[w].pending : j <= k

(* The conditional claim, for the next job of the list. *)
Claim(w) ==
    /\ Pc(w) = "claim"
    /\ \E j \in worker[w].pending :
          /\ Oldest(w, j)
          /\ IF Claimable(j, worker[w].stale) THEN ClaimAs(w, j) ELSE Skip(w, j)
    /\ UNCHANGED <<files, local, slow, faults, lost>>

TickEnds(w) ==
    /\ Pc(w) = "claim" /\ worker[w].pending = {}
    /\ worker' = [worker EXCEPT ![w] = Idle]
    /\ UNCHANGED <<job, files, local, slow, faults, lost>>

(***************************************************************************)
(* process: building one report                                            *)
(***************************************************************************)
(* The row is still the one that this worker has claimed. *)
Mine(w) == job[Job(w)].status = "RUNNING" /\ job[Job(w)].run = Run(w)

Go(w, pc) == worker' = [worker EXCEPT ![w].pc = pc]

(* On to the next job of the list. *)
Back(w) == worker' = [worker EXCEPT ![w] = [Idle EXCEPT !.pc = "claim",
                         !.pending = worker[w].pending, !.stale = worker[w].stale]]

(* One page: empty, full, or the last. *)
ReadBatch(w) ==
    /\ Pc(w) = "read"
    /\ \/ Go(w, "upload")
       \/ \E last \in BOOLEAN :
             worker' = [worker EXCEPT
                ![w].pc = IF worker[w].batches < MaxBatches THEN "assert" ELSE "fail",
                ![w].batches = @ + 1, ![w].last = last,
                ![w].late = IF Mine(w) THEN @ ELSE @ + 1]
    /\ UNCHANGED <<job, files, local, slow, faults, lost>>

assertStillRunning(w) ==
    /\ Pc(w) = "assert"
    /\ IF ~Mine(w) THEN Back(w) ELSE Go(w, IF worker[w].last THEN "upload" ELSE "read")
    /\ UNCHANGED <<job, files, local, slow, faults, lost>>

Upload(w) ==
    /\ Pc(w) = "upload"
    /\ files' = files \cup {worker[w].file}
    /\ Go(w, "complete")
    /\ UNCHANGED <<job, local, slow, faults, lost>>

(* Whether the audit row is written makes no difference to the job. *)
Completed(w) ==
    /\ job' = [job EXCEPT ![Job(w)].status = "COMPLETED", ![Job(w)].path = Run(w),
                          ![Job(w)].due = FALSE]
    /\ Back(w) \/ Go(w, "fail")

(* MUTANT: completion is not bound to the claim. *)
CompleteRunning(w) ==
    /\ Pc(w) = "complete"
    /\ IF job[Job(w)].status = "RUNNING" THEN Completed(w) ELSE Go(w, "discard") /\ UNCHANGED job
    /\ UNCHANGED <<files, local, slow, faults, lost>>

(* MUTANT: the file of a claim that was lost is left in storage. *)
CompleteOrLeave(w) ==
    /\ Pc(w) = "complete"
    /\ IF Mine(w) THEN Completed(w) ELSE Back(w) /\ UNCHANGED job
    /\ UNCHANGED <<files, local, slow, faults, lost>>

Complete(w) ==
    /\ Pc(w) = "complete"
    /\ IF Mine(w) THEN Completed(w) ELSE Go(w, "discard") /\ UNCHANGED job
    /\ UNCHANGED <<files, local, slow, faults, lost>>

Discard(w) ==
    /\ Pc(w) = "discard"
    /\ files' = files \ {worker[w].file}
    /\ Back(w)
    /\ UNCHANGED <<job, local, slow, faults, lost>>

(* A query or the upload fails, the requester is no longer active or has   *)
(* lost the permission: the catch of processPending.                       *)
ProcessFails(w) ==
    /\ Pc(w) \in Building
    /\ Go(w, "fail")
    /\ lost' = IF Pc(w) = "complete" THEN lost \cup {worker[w].file} ELSE lost
    /\ UNCHANGED <<job, files, local, slow, faults>>

(* MUTANT: the failure is written whatever became of the job. *)
FailAny(w) ==
    /\ Pc(w) = "fail"
    /\ job' = [job EXCEPT ![Job(w)].status = "FAILED", ![Job(w)].due = FALSE]
    /\ Back(w)
    /\ UNCHANGED <<files, local, slow, faults, lost>>

Fail(w) ==
    /\ Pc(w) = "fail"
    /\ job' = IF Mine(w) THEN [job EXCEPT ![Job(w)].status = "FAILED", ![Job(w)].due = FALSE] ELSE job
    /\ Back(w)
    /\ UNCHANGED <<files, local, slow, faults, lost>>

(***************************************************************************)
(* Failures and time                                                       *)
(***************************************************************************)
Held(w) == IF Pc(w) \in {"complete", "discard"} THEN {worker[w].file} ELSE {}

(* storage.delete fails: the worker reports a failure of the job.          *)
DiscardFails(w) ==
    /\ faults < MaxFaults /\ faults' = faults + 1
    /\ Pc(w) = "discard"
    /\ Go(w, "fail")
    /\ lost' = lost \cup Held(w)
    /\ UNCHANGED <<job, files, local, slow>>

(* The process dies, or a statement outside process throws: the tick ends. *)
Crash(w) ==
    /\ faults < MaxFaults /\ faults' = faults + 1
    /\ Pc(w) # "idle"
    /\ worker' = [worker EXCEPT ![w] = Idle]
    /\ lost' = lost \cup Held(w)
    /\ UNCHANGED <<job, files, local, slow>>

(* Some worker is still busy with the current claim of the job. *)
Alive(j) == \E w \in Workers : Pc(w) \in Building \cup {"fail"} /\ Job(w) = j /\ Run(w) = job[j].run

(* STALE_RUN_MS pass: for a build under way at most MaxSlow times. *)
RunGoesStale(j) ==
    /\ job[j].status = "RUNNING" /\ ~job[j].due
    /\ Alive(j) => slow < MaxSlow
    /\ slow' = IF Alive(j) THEN slow + 1 ELSE slow
    /\ job' = [job EXCEPT ![j].due = TRUE]
    /\ UNCHANGED <<files, worker, local, faults, lost>>

(* REPORT_LIFETIME_MS pass. *)
FileExpires(j) ==
    /\ job[j].status = "COMPLETED" /\ ~job[j].due
    /\ job' = [job EXCEPT ![j].due = TRUE]
    /\ UNCHANGED <<files, worker, local, slow, faults, lost>>

(* RECORD_RETENTION_MS pass. *)
RecordAges(j) ==
    /\ job[j].status \in Settled /\ ~job[j].due
    /\ job' = [job EXCEPT ![j].due = TRUE]
    /\ UNCHANGED <<files, worker, local, slow, faults, lost>>

Request == \E j \in Jobs : create(j) \/ cancel(j)

Expiry(w) == expireFiles(w) \/ ExpireDelete(w) \/ ExpireMark(w)

Build(w) ==
    \/ ReadBatch(w) \/ assertStillRunning(w) \/ Upload(w)
    \/ Complete(w) \/ Discard(w) \/ Fail(w)

processPending(w) == Expiry(w) \/ List(w) \/ Claim(w) \/ TickEnds(w) \/ Build(w)

Fault == \E w \in Workers : ProcessFails(w) \/ DiscardFails(w) \/ Crash(w)

TimePasses(j) == RunGoesStale(j) \/ FileExpires(j) \/ RecordAges(j)

Next ==
    \/ Request
    \/ \E w \in Workers : processPending(w)
    \/ Fault
    \/ \E j \in Jobs : TimePasses(j)

(* A worker takes its steps and ticks again; time does not stop. *)
Fairness ==
    /\ \A w \in Workers : WF_vars(processPending(w))
    /\ \A j \in Jobs : WF_vars(TimePasses(j))

Spec     == Init /\ [][Next]_vars
FairSpec == Spec /\ Fairness

(***************************************************************************)
(* Properties                                                              *)
(***************************************************************************)
(* A completed report is the result of the job's latest claim: a worker    *)
(* that was taken for dead and replaced cannot publish what it has built.  *)
ResultOfLatestClaim ==
    \A j \in Jobs :
        /\ job[j].path # 0 <=> job[j].status = "COMPLETED"
        /\ job[j].status = "COMPLETED" => job[j].path = job[j].run

(* A file never outlives its job: it is the result of a completed report,  *)
(* or in the hands of a worker that will complete the job or delete it;    *)
(* only a failure between the upload and the row leaves one behind.        *)
Published == {FileOf(j, job[j].path) : j \in {k \in Jobs : job[k].status = "COMPLETED"}}
NoFileOutlivesItsJob ==
    files \subseteq Published \cup (UNION {Held(w) : w \in Workers}) \cup lost

(* While getDownloadUrl hands out a URL for a report, its file exists,     *)
(* whatever other workers discard and expire.                              *)
DownloadsExist == \A j \in Jobs : Downloadable(j) => FileOf(j, job[j].path) \in files

(* A worker whose job was cancelled or claimed by another reads at most    *)
(* one more batch ("running jobs stop at their next batch").               *)
LostClaimStops == \A w \in Workers : worker[w].late <= 1

Lifecycle ==
    {<<"none", "PENDING">>}
    \cup {"PENDING"} \X {"RUNNING", "CANCELLED"}
    \cup {"RUNNING"} \X {"COMPLETED", "FAILED", "CANCELLED"}
    \cup {<<"COMPLETED", "EXPIRED">>}
    \cup Settled \X {"purged"}

StatusStep ==
    \A j \in Jobs :
        /\ job'[j].status # job[j].status => <<job[j].status, job'[j].status>> \in Lifecycle
        /\ job'[j].run # job[j].run => job[j].status = "PENDING" \/ job[j].due

(* "PENDING -> RUNNING -> COMPLETED -> EXPIRED; FAILED and CANCELLED are   *)
(* terminal", whichever workers and requests meet; and a claim is taken    *)
(* over only when it is 15 minutes old.                                    *)
FollowsLifecycle == [][StatusStep]_vars

(* The file of a completed, expired report is gone and the file system     *)
(* says so: every tick ends there.                                         *)
Blocked == local /\ \E j \in Expired : FileOf(j, job[j].path) \notin files

(* Every report that was asked for is built, fails or is cancelled, even   *)
(* if the worker that builds it dies, unless expireFiles blocks the ticks  *)
(* for good.                                                               *)
ReportsAreServed ==
    \A j \in Jobs : job[j].status \in {"PENDING", "RUNNING"} ~>
                        (job[j].status \notin {"PENDING", "RUNNING"} \/ []Blocked)

============================================================================
