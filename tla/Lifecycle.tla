----------------------------- MODULE Lifecycle -----------------------------
(***************************************************************************)
(* The processes of a deployment: how an API process (main.ts, HttpServer) *)
(* and a worker process (worker.ts) start, what they have in flight, how   *)
(* they shut down, and the scheduler both of them run.                     *)
(*                                                                         *)
(* A shutdown is a sequence of steps.  A step first stops the source of    *)
(* some work, then waits for the work of that source that is in flight,    *)
(* then closes what it is about; `at` is the step being waited for.        *)
(*                                                                         *)
(* The clock counts minutes.  A lock of the scheduler lives TTL minutes    *)
(* unless its holder extends it; `renewer` is the process that still does. *)
(***************************************************************************)
EXTENDS Integers, Sequences, FiniteSets

CONSTANTS Apis,        \* processes that run main.ts (RUN_WORKERS is true)
          Workers,     \* processes that run worker.ts
          Kinds,       \* the kinds of work that may be in flight
          TTL,         \* lockTtlMs, in minutes
          FirstMinute, \* the minute the first process starts in
          LastMinute,  \* BOUND: the last minute of the clock
          MaxStarts,   \* BOUND: starts of processes
          MaxStops,    \* BOUND: shutdowns
          MaxWork,     \* BOUND: work in flight besides the ticks
          MaxFaults,   \* BOUND: Redis calls of the scheduler that fail
          None

Procs   == Apis \cup Workers
Minutes == FirstMinute..LastMinute

AllKinds  == {"request", "tick", "batch", "job"}
Resources == {"database", "redis", "queues", "websocket"}

ASSUME LifecycleAssumption ==
    /\ Apis \cap Workers = {} /\ None \notin Procs
    /\ Kinds \subseteq AllKinds
    /\ TTL \in Nat \ {0} /\ MaxStarts \in Nat /\ MaxStops \in Nat
    /\ MaxWork \in Nat /\ MaxFaults \in Nat
    /\ FirstMinute \in Nat /\ LastMinute \in Nat /\ FirstMinute <= LastMinute

VARIABLES
    phase,     \* "down", "booting", "up", "stopping" or "exited"
    starts,    \* how many starts and ...
    stops,     \* ... shutdowns there were
    open,      \* the connections and servers it holds open
    work,      \* the kinds of work it has in flight
    at,        \* the shutdown step it waits for
    clean,     \* no shutdown step has failed
    wanted,    \* the exit code shutdown was called with
    exitCode,
    now,
    lastRun,   \* lastRunMinute of the process' scheduler
    run,       \* the tick in progress: its minute, the jobs left, the one running
    lock,      \* the locks in Redis, by occurrence
    faults,    \* failed Redis calls of the scheduler so far
    missed,    \* history: minutes a running occurrence's lock was not extended
    ran        \* history: how often an occurrence was started

process   == <<phase, starts, stops, open, at, clean, wanted, exitCode>>
scheduler == <<now, lastRun, run, lock, faults, missed, ran>>
vars      == <<process, work, scheduler>>

(***************************************************************************)
(* Cron expressions (cron.registry.ts)                                     *)
(***************************************************************************)
MatchesPart(value, part, lo, hi) ==
    CASE part.kind = "any"    -> TRUE
      [] part.kind = "step"   -> part.n > 0 /\ (value - lo) % part.n = 0
      [] part.kind = "range"  -> value >= part.from /\ value <= part.to
      [] part.kind = "number" -> part.n >= lo /\ part.n <= hi /\ value = part.n

(* A field is a comma-separated list of parts. *)
MatchesField(value, field, lo, hi) == \E part \in field : MatchesPart(value, part, lo, hi)

Any     == {[kind |-> "any"]}
Step(n) == {[kind |-> "step", n |-> n]}
At(n)   == {[kind |-> "number", n |-> n]}

(* The jobs, in the order startBackgroundProcessing registers them.  Day,  *)
(* month and weekday are "*" in every expression.                          *)
Schedule == << [name |-> "analytics-rollup",     minute |-> At(0),    hour |-> At(1)],
               [name |-> "ticket-escalation",    minute |-> Step(15), hour |-> Any],
               [name |-> "operations-retention", minute |-> At(15),   hour |-> At(3)],
               [name |-> "report-processing",    minute |-> Step(1),  hour |-> Any],
               [name |-> "tenant-cleanup",       minute |-> At(30),   hour |-> At(2)] >>

CronJobs == DOMAIN Schedule

Due(j, m) == /\ MatchesField(m % 60, Schedule[j].minute, 0, 59)
             /\ MatchesField((m \div 60) % 24, Schedule[j].hour, 0, 23)

(* getDueJobs; they are run in the order of their registration. *)
DueJobs(m) == {j \in CronJobs : Due(j, m)}

Occurrences == CronJobs \X Minutes
NoRun       == [minute |-> 0, todo |-> {}, cur |-> 0]
FreeLock    == [ttl |-> 0, renewer |-> None]

TypeOK ==
    /\ phase \in [Procs -> {"down", "booting", "up", "stopping", "exited"}]
    /\ starts \in 0..MaxStarts
    /\ stops \in 0..MaxStops
    /\ open \in [Procs -> SUBSET Resources]
    /\ work \in [Procs -> SUBSET Kinds]
    /\ at \in [Procs -> 0..6]
    /\ clean \in [Procs -> BOOLEAN]
    /\ wanted \in [Procs -> {0, 1}]
    /\ exitCode \in [Procs -> {None, 0, 1}]
    /\ now \in Minutes
    /\ lastRun \in [Procs -> [CronJobs -> Minutes \cup {0}]]
    /\ run \in [Procs -> [minute : Minutes \cup {0}, todo : SUBSET CronJobs, cur : CronJobs \cup {0}]]
    /\ lock \in [Occurrences -> [ttl : 0..TTL, renewer : Procs \cup {None}]]
    /\ faults \in 0..MaxFaults
    /\ missed \in [Occurrences -> 0..MaxFaults]
    /\ ran \in [Occurrences -> Nat]

Init ==
    /\ phase = [p \in Procs |-> "down"]
    /\ starts = 0
    /\ stops = 0
    /\ open = [p \in Procs |-> {}]
    /\ work = [p \in Procs |-> {}]
    /\ at = [p \in Procs |-> 0]
    /\ clean = [p \in Procs |-> TRUE]
    /\ wanted = [p \in Procs |-> 0]
    /\ exitCode = [p \in Procs |-> None]
    /\ now = FirstMinute
    /\ lastRun = [p \in Procs |-> [j \in CronJobs |-> 0]]
    /\ run = [p \in Procs |-> NoRun]
    /\ lock = [o \in Occurrences |-> FreeLock]
    /\ faults = 0
    /\ missed = [o \in Occurrences |-> 0]
    /\ ran = [o \in Occurrences |-> 0]

(***************************************************************************)
(* Starting                                                                *)
(***************************************************************************)

(* The orchestrator starts the process, for the first time or again. *)
StartProcess(p) ==
    /\ phase[p] \in {"down", "exited"}
    /\ starts < MaxStarts
    /\ phase' = [phase EXCEPT ![p] = "booting"]
    /\ starts' = starts + 1
    /\ exitCode' = [exitCode EXCEPT ![p] = None]
    /\ UNCHANGED <<stops, open, at, clean, wanted, work, scheduler>>

(* process.exit, or the operating system ends the process: what it had in  *)
(* flight and in memory is gone, and nobody extends its locks.             *)
Exit(p, code) ==
    /\ phase' = [phase EXCEPT ![p] = "exited"]
    /\ exitCode' = [exitCode EXCEPT ![p] = code]
    /\ open' = [open EXCEPT ![p] = {}]
    /\ work' = [work EXCEPT ![p] = {}]
    /\ at' = [at EXCEPT ![p] = 0]
    /\ clean' = [clean EXCEPT ![p] = TRUE]
    /\ wanted' = [wanted EXCEPT ![p] = 0]
    /\ lastRun' = [lastRun EXCEPT ![p] = [j \in CronJobs |-> 0]]
    /\ run' = [run EXCEPT ![p] = NoRun]
    /\ lock' = [o \in Occurrences |-> IF lock[o].renewer = p
                                      THEN [lock[o] EXCEPT !.renewer = None] ELSE lock[o]]
    /\ UNCHANGED <<starts, stops, now, faults, missed, ran>>

(* validateStartupConfig, connectDatabase, createRedisClient, the bridge   *)
(* to the gateway or listen() fails.                                       *)
BootFails(p) == phase[p] = "booting" /\ Exit(p, 1)

Opens(p, r) ==
    /\ phase[p] = "booting"
    /\ open' = [open EXCEPT ![p] = @ \cup {r}]
    /\ UNCHANGED <<phase, starts, stops, at, clean, wanted, exitCode, work, scheduler>>

ConnectDatabase(p) == open[p] = {} /\ Opens(p, "database")

CreateRedisClient(p) == open[p] = {"database"} /\ Opens(p, "redis")

(* The container, the background processing, the signal handlers and       *)
(* listen() follow without giving way to any of them.                      *)
ListenAndWork(p) ==
    /\ phase[p] = "booting"
    /\ {"database", "redis"} \subseteq open[p]
    /\ open' = [open EXCEPT ![p] = @ \cup {"queues", "websocket"}]
    /\ phase' = [phase EXCEPT ![p] = "up"]
    /\ UNCHANGED <<starts, stops, at, clean, wanted, exitCode, work, scheduler>>

(***************************************************************************)
(* Shutting down                                                           *)
(***************************************************************************)
ApiSteps    == <<"websocket", "http", "background", "queues", "database", "redis">>
WorkerSteps == <<"background", "queues", "websocket", "database", "redis">>

(* MUTANT: the database is closed before the queues have drained. *)
ShutdownStepsEager(p) ==
    IF p \in Apis THEN <<"websocket", "http", "background", "database", "queues", "redis">>
    ELSE <<"background", "database", "queues", "websocket", "redis">>

ShutdownSteps(p) == IF p \in Apis THEN ApiSteps ELSE WorkerSteps

(* The step that stops the source of a kind of work and waits for it.  No  *)
(* step waits for what a request leaves running after its answer (the      *)
(* processing of a WhatsApp message), which is not part of `work`.         *)
Waiter(k) == CASE k = "request" -> "http"
               [] k \in {"tick", "batch"} -> "background"
               [] k = "job" -> "queues"

(* What the handlers of a kind of work use. *)
Needs(k) == CASE k \in {"request", "batch"} -> {"database", "redis", "queues"}
              [] k \in {"tick", "job"} -> {"database", "redis"}

Begun(p) == IF phase[p] = "stopping" THEN {ShutdownSteps(p)[i] : i \in 1..at[p]} ELSE {}

InFlight == UNION {{p} \X (work[p] \ {"tick"}) : p \in Procs}

(* A request arrives, a queue hands out a job, the outbox timer fires: as  *)
(* long as the source has not been stopped.                                *)
StartWork(p, k) ==
    /\ k # "tick"
    /\ phase[p] \in {"up", "stopping"}
    /\ k \notin work[p]
    /\ k = "request" => p \in Apis
    /\ Waiter(k) \notin Begun(p)
    /\ Cardinality(InFlight) < MaxWork
    /\ work' = [work EXCEPT ![p] = @ \cup {k}]
    /\ UNCHANGED <<process, scheduler>>

FinishWork(p, k) ==
    /\ k \in work[p] \ {"tick"}
    /\ work' = [work EXCEPT ![p] = @ \ {k}]
    /\ UNCHANGED <<process, scheduler>>

(* shutdown(code): a signal asks for 0, an uncaught exception or rejection *)
(* for 1.  While a shutdown is in progress both return at once.            *)
Shutdown(p, code) ==
    /\ phase[p] = "up"
    /\ stops < MaxStops
    /\ stops' = stops + 1
    /\ phase' = [phase EXCEPT ![p] = "stopping"]
    /\ wanted' = [wanted EXCEPT ![p] = code]
    /\ at' = [at EXCEPT ![p] = 1]
    /\ UNCHANGED <<starts, open, clean, exitCode, work, scheduler>>

Current(p) == ShutdownSteps(p)[at[p]]
Drained(p) == \A k \in work[p] : Waiter(k) # Current(p)
Last(p)    == at[p] = Len(ShutdownSteps(p))

FinalCode(p, ok) == IF wanted[p] # 0 THEN wanted[p] ELSE IF ok THEN 0 ELSE 1

(* The current step is over, well or badly; the next one begins, and after *)
(* the last one the process exits.                                         *)
EndStep(p, ok) ==
    \/ /\ ~Last(p)
       /\ at' = [at EXCEPT ![p] = @ + 1]
       /\ clean' = [clean EXCEPT ![p] = @ /\ ok]
       /\ open' = [open EXCEPT ![p] = IF ok \/ Current(p) = "queues" THEN @ \ {Current(p)} ELSE @]
       /\ UNCHANGED <<phase, starts, stops, wanted, exitCode, work, scheduler>>
    \/ /\ Last(p)
       /\ Exit(p, FinalCode(p, ok /\ clean[p]))

StepCloses(p) == phase[p] = "stopping" /\ Drained(p) /\ EndStep(p, TRUE)

(* A step throws.  server.close() fails only when the server is not        *)
(* listening, and the hook only after the background work has ended;       *)
(* closeAllQueues closes the queues although a worker failed to close, and *)
(* disconnectRedis swallows its errors.                                    *)
StepFails(p) ==
    /\ phase[p] = "stopping"
    /\ Current(p) # "redis"
    /\ Current(p) = "background" => p \in Apis
    /\ Current(p) # "queues" => Drained(p)
    /\ EndStep(p, FALSE)

(* MUTANT: the timer is set after the first step. *)
ForceExitLate(p) == phase[p] = "stopping" /\ at[p] > 1 /\ Exit(p, 1)

(* SHUTDOWN_TIMEOUT_MS have passed. *)
ForceExit(p) == phase[p] = "stopping" /\ Exit(p, 1)

(* The process is killed. *)
Killed(p) == phase[p] \in {"up", "stopping"} /\ Exit(p, 1)

(***************************************************************************)
(* The scheduler (scheduler.service.ts)                                    *)
(***************************************************************************)

(* tick: skipped while one is in flight; a tick without a job to run ends  *)
(* at once and is left out.                                                *)
Tick(p) ==
    /\ "tick" \in Kinds
    /\ phase[p] \in {"up", "stopping"}
    /\ "background" \notin Begun(p)
    /\ "tick" \notin work[p]
    /\ \E j \in CronJobs : Due(j, now) /\ lastRun[p][j] # now
    /\ run' = [run EXCEPT ![p] = [minute |-> now, todo |-> DueJobs(now), cur |-> 0]]
    /\ work' = [work EXCEPT ![p] = @ \cup {"tick"}]
    /\ UNCHANGED <<process, now, lastRun, lock, faults, missed, ran>>

Turn(p) == "tick" \in work[p] /\ run[p].cur = 0 /\ run[p].todo # {}
NextJob(p) == CHOOSE j \in run[p].todo : \A i \in run[p].todo : j <= i
Later(p) == run[p].todo \ {NextJob(p)}
Occurrence(p) == <<NextJob(p), run[p].minute>>
AlreadyRan(p) == lastRun[p][NextJob(p)] = run[p].minute

(* The loop goes on with the jobs `todo`; after the last one the tick ends. *)
GoOn(p, todo) ==
    /\ run' = [run EXCEPT ![p] = IF todo = {} THEN NoRun
                                 ELSE [@ EXCEPT !.todo = todo, !.cur = 0]]
    /\ work' = [work EXCEPT ![p] = IF todo = {} THEN @ \ {"tick"} ELSE @]

MarkRun(p) == lastRun' = [lastRun EXCEPT ![p][NextJob(p)] = run[p].minute]

(* The job ran in this minute already, or another process has the lock. *)
SkipJob(p) ==
    /\ Turn(p)
    /\ AlreadyRan(p) \/ lock[Occurrence(p)].ttl > 0
    /\ GoOn(p, Later(p))
    /\ MarkRun(p)
    /\ UNCHANGED <<process, now, lock, faults, missed, ran>>

(* The SET fails: runJob throws, and the loop goes on with the next job.   *)
(* Redis may have stored the lock nevertheless; nobody will extend it.     *)
LockCallFails(p, stored) ==
    /\ Turn(p) /\ ~AlreadyRan(p)
    /\ faults < MaxFaults
    /\ faults' = faults + 1
    /\ GoOn(p, Later(p))
    /\ MarkRun(p)
    /\ lock' = IF stored /\ lock[Occurrence(p)].ttl = 0
               THEN [lock EXCEPT ![Occurrence(p)] = [ttl |-> TTL, renewer |-> None]] ELSE lock
    /\ UNCHANGED <<process, now, missed, ran>>

(* SET NX PX, and the handler starts. *)
RunJob(p) ==
    /\ Turn(p) /\ ~AlreadyRan(p)
    /\ lock[Occurrence(p)].ttl = 0
    /\ lock' = [lock EXCEPT ![Occurrence(p)] = [ttl |-> TTL, renewer |-> p]]
    /\ run' = [run EXCEPT ![p].todo = Later(p), ![p].cur = NextJob(p)]
    /\ ran' = [ran EXCEPT ![Occurrence(p)] = @ + 1]
    /\ MarkRun(p)
    /\ UNCHANGED <<process, work, now, faults, missed>>

(* MUTANT: the lock of an occurrence is released like that of a manual run. *)
JobEndsReleasing(p) ==
    LET o == <<run[p].cur, run[p].minute>> IN
    /\ "tick" \in work[p] /\ run[p].cur # 0
    /\ GoOn(p, run[p].todo)
    /\ lock' = IF lock[o].renewer = p THEN [lock EXCEPT ![o] = FreeLock] ELSE lock
    /\ UNCHANGED <<process, now, lastRun, faults, missed, ran>>

(* The handler returns or throws; the lock is left to expire. *)
JobEnds(p) ==
    LET o == <<run[p].cur, run[p].minute>> IN
    /\ "tick" \in work[p] /\ run[p].cur # 0
    /\ GoOn(p, run[p].todo)
    /\ lock' = IF lock[o].renewer = p THEN [lock EXCEPT ![o].renewer = None] ELSE lock
    /\ UNCHANGED <<process, now, lastRun, faults, missed, ran>>

(* MUTANT: the lock of a long job is not extended. *)
ExtendedNever(l) == [l EXCEPT !.ttl = IF @ > 0 THEN @ - 1 ELSE 0]

(* EXTEND_LOCK_SCRIPT: the holder sets the full time to live again. *)
Extended(l) == IF l.renewer # None /\ l.ttl > 0 THEN [l EXCEPT !.ttl = TTL]
               ELSE [l EXCEPT !.ttl = IF @ > 0 THEN @ - 1 ELSE 0]

(* A minute passes.  The extensions of the locks in `lost` fail: Redis is  *)
(* not reachable or the process does not get round to them.                *)
Minute(lost) ==
    /\ now < LastMinute
    /\ \A o \in lost : lock[o].renewer # None /\ lock[o].ttl > 0
    /\ faults + Cardinality(lost) <= MaxFaults
    /\ faults' = faults + Cardinality(lost)
    /\ now' = now + 1
    /\ lock' = [o \in Occurrences |->
                  IF o \in lost THEN [lock[o] EXCEPT !.ttl = @ - 1] ELSE Extended(lock[o])]
    /\ missed' = [o \in Occurrences |-> IF o \in lost THEN missed[o] + 1 ELSE missed[o]]
    /\ UNCHANGED <<process, work, lastRun, run, ran>>

(***************************************************************************)
(* Specification                                                           *)
(***************************************************************************)
Boot(p)      == StartProcess(p) \/ ConnectDatabase(p) \/ CreateRedisClient(p) \/ ListenAndWork(p) \/ BootFails(p)
Work(p)      == \E k \in Kinds : StartWork(p, k) \/ FinishWork(p, k)
Stop(p)      == \/ \E code \in {0, 1} : Shutdown(p, code)
                \/ StepCloses(p) \/ StepFails(p) \/ ForceExit(p)
Schedules(p) == \/ Tick(p) \/ SkipJob(p) \/ RunJob(p) \/ JobEnds(p)
                \/ \E stored \in BOOLEAN : LockCallFails(p, stored)

Next == \/ \E p \in Procs : Boot(p) \/ Work(p) \/ Stop(p) \/ Killed(p) \/ Schedules(p)
        \/ \E lost \in SUBSET {o \in Occurrences : lock[o].renewer # None} : Minute(lost)

Spec == Init /\ [][Next]_vars

(* Only the shutdown timer is certain to fire: requests, jobs and close()  *)
(* calls may hang.                                                         *)
FairSpec == Spec /\ \A p \in Procs : WF_vars(ForceExit(p))

(***************************************************************************)
(* Properties                                                              *)
(***************************************************************************)

(* As long as no shutdown step has failed, work that the shutdown waits    *)
(* for never loses a connection it uses: requests, outbox batches, ticks   *)
(* and queue jobs are drained before the queues, the database and Redis    *)
(* are closed, in the order of both processes.                             *)
ResourcesOutliveWork ==
    \A p \in Procs : clean[p] =>
        \A k \in work[p] : Needs(k) \subseteq open[p]

(* "The whole sequence is bounded by a timeout so the process can never    *)
(* hang": whatever hangs, a shutdown that began ends with an exit.         *)
ShutdownEnds == \A p \in Procs : (phase[p] = "stopping") ~> (phase[p] = "exited")

RunningNow(p) == <<run[p].cur, run[p].minute>>

(* Two processes are in the handler of the same occurrence only after its  *)
(* lock was not extended for its whole time to live, although processes    *)
(* are late, restart with an empty lastRunMinute and die holding locks.    *)
NoOverlappingRuns ==
    \A p, q \in Procs : p # q /\ run[p].cur # 0 /\ RunningNow(p) = RunningNow(q) =>
        missed[RunningNow(p)] >= TTL

(* An occurrence that has run is repeated only by a process that comes to  *)
(* it a full time to live after its minute: neither another process of     *)
(* that minute nor a restarted one runs it again.                          *)
RepeatsAreLate ==
    [][\A o \in Occurrences : ran[o] > 0 /\ ran'[o] > ran[o] => now >= o[2] + TTL]_vars
=============================================================================
