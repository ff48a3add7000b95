----------------------------- MODULE FileProofs -----------------------------
(***************************************************************************)
(* Proofs about the two parts that keep files: Reports, for any number of  *)
(* jobs, workers, slow builds and failures, and then Attachments, for any  *)
(* number of files, requests and failures.                                 *)
(***************************************************************************)
EXTENDS Reports, Attachments, TLAPS

(* A worker between its claim of a job and the end of the build. *)
Claims(w) == Pc(w) \in Building \cup {"discard", "fail"}

(* ... that has not given up its upload. *)
Owns(w) == Pc(w) \in Building \cup {"discard"}

(* The files that a worker has listed for deletion, or has just deleted. *)
Dying(w) == worker[w].expiring \cup (IF Pc(w) = "mark" THEN {worker[w].file} ELSE {})

(* A claim is of a job, and not later than the job's latest one. *)
ClaimInv ==
    \A w \in Workers : Claims(w) =>
        Job(w) \in Jobs /\ Run(w) >= 1 /\ Run(w) <= job[Job(w)].run

(* Two workers never have the same claim. *)
UniqueInv ==
    \A w, v \in Workers : w # v /\ Claims(w) /\ Claims(v) => worker[w].file # worker[v].file

(* A build that is not finished is not published; its upload exists once   *)
(* it is made.                                                             *)
OwnInv ==
    \A w \in Workers : Owns(w) =>
        /\ job[Job(w)].path # Run(w)
        /\ Pc(w) \in {"complete", "discard"} => worker[w].file \in files

(* A file listed for deletion is the result of a completed report that has *)
(* expired, and that nobody claims any more; a file that was deleted is    *)
(* not uploaded again.                                                     *)
DyingInv ==
    \A v \in Workers : \A f \in Dying(v) :
        /\ f \in Files
        /\ job[f.job].run = f.run /\ f.run >= 1
        /\ job[f.job].status \in {"COMPLETED", "EXPIRED", "purged"}
        /\ job[f.job].status = "COMPLETED" => job[f.job].due
        /\ \A w \in Workers : Owns(w) => worker[w].file # f
        /\ Pc(v) = "mark" /\ f = worker[v].file => f \notin files

(* Only a build that has lost its claim has read a late batch, and only    *)
(* one.                                                                    *)
LateInv ==
    \A w \in Workers :
        /\ worker[w].late <= 1
        /\ Pc(w) \notin {"assert", "fail"} => worker[w].late = 0
        /\ Pc(w) = "assert" /\ worker[w].late # 0 => ~Mine(w)

(* What a tick has found stale is stale until it is claimed again. *)
StaleInv ==
    \A w \in Workers : \A f \in worker[w].stale :
        /\ f \in Files /\ f.run <= job[f.job].run
        /\ job[f.job].status = "RUNNING" /\ job[f.job].run = f.run => job[f.job].due

(* NoFileOutlivesItsJob, file by file. *)
KeptInv ==
    \A f \in files :
        \/ f \in lost
        \/ job[f.job].status = "COMPLETED" /\ job[f.job].path = f.run
        \/ \E w \in Workers : Pc(w) \in {"complete", "discard"} /\ worker[w].file = f

IInv == /\ TypeOK /\ ResultOfLatestClaim /\ ClaimInv /\ UniqueInv /\ OwnInv /\ DyingInv
        /\ LateInv /\ StaleInv /\ KeptInv /\ DownloadsExist

LEMMA KeptIsAccounted == ASSUME TypeOK, KeptInv PROVE NoFileOutlivesItsJob
  <1> DEFINE U == UNION {Held(w) : w \in Workers}
  <1>1. \A w \in Workers : Held(w) \subseteq U OBVIOUS
  <1>2. files \subseteq Published \cup U \cup lost => NoFileOutlivesItsJob
    BY DEF NoFileOutlivesItsJob
  <1> HIDE DEF U
  <1> SUFFICES ASSUME NEW f \in files PROVE f \in Published \/ f \in U \/ f \in lost
    BY <1>2
  <1>3. CASE job[f.job].status = "COMPLETED" /\ job[f.job].path = f.run
    BY <1>3 DEF Published, TypeOK, Files, FileOf
  <1>4. CASE \E w \in Workers : Pc(w) \in {"complete", "discard"} /\ worker[w].file = f
    BY <1>1, <1>4 DEF Held
  <1> QED BY <1>3, <1>4 DEF KeptInv

(* The file of a claim is a file. *)
LEMMA ClaimedFile ==
  ASSUME TypeOK, ClaimInv, NEW w \in Workers, Claims(w)
  PROVE  worker[w].file \in Files
  BY JobsAssumption DEF TypeOK, ClaimInv, WorkerStates, NoFile, FileOf, Files, Job

(* A worker goes on, or gives up its claim, without touching anything. *)
LEMMA WorkerStep ==
  ASSUME IInv, TypeOK', NEW x \in Workers, UNCHANGED <<job, files, lost>>,
         \A v \in Workers \ {x} : worker'[v] = worker[v],
         Claims(x)' => Claims(x) /\ worker'[x].file = worker[x].file,
         Owns(x)' => Owns(x),
         Pc(x)' \in {"complete", "discard"} <=> Pc(x) \in {"complete", "discard"},
         Pc(x)' # "mark", worker'[x].expiring \subseteq worker[x].expiring,
         worker'[x].stale \subseteq worker[x].stale,
         worker'[x].late <= 1,
         Pc(x)' \notin {"assert", "fail"} => worker'[x].late = 0,
         Pc(x)' = "assert" /\ worker'[x].late # 0 => ~Mine(x)
  PROVE  IInv'
  <1>1. ResultOfLatestClaim' /\ DownloadsExist'
    BY DEF IInv, ResultOfLatestClaim, DownloadsExist, Downloadable
  <1>2. ClaimInv'
    BY DEF IInv, ClaimInv, Claims, Pc, Job, Run
  <1>3. UniqueInv'
    BY DEF IInv, UniqueInv, Claims, Pc
  <1>4. OwnInv'
    BY DEF IInv, OwnInv, Owns, Claims, Pc, Job, Run
  <1>5. DyingInv'
    <2>1. \A v \in Workers : Dying(v)' \subseteq Dying(v) /\ (Pc(v)' = "mark" => v # x)
      BY DEF Dying, Pc
    <2>2. \A w \in Workers : Owns(w)' => Owns(w) /\ worker'[w].file = worker[w].file
      BY DEF Owns, Claims, Pc
    <2> QED BY <2>1, <2>2 DEF IInv, DyingInv, Pc
  <1>6. LateInv'
    <2> SUFFICES ASSUME NEW w \in Workers
                 PROVE  /\ worker'[w].late <= 1
                        /\ Pc(w)' \notin {"assert", "fail"} => worker'[w].late = 0
                        /\ Pc(w)' = "assert" /\ worker'[w].late # 0 => ~Mine(w)'
      BY DEF LateInv
    <2>1. CASE w = x
      <3>1. Pc(x)' = "assert" => (Mine(x)' <=> Mine(x))
        BY DEF Mine, Job, Run, Pc, Claims, Building
      <3> QED BY <2>1, <3>1
    <2>2. CASE w # x
      BY <2>2 DEF IInv, LateInv, Mine, Job, Run, Pc
    <2> QED BY <2>1, <2>2
  <1>7. StaleInv'
    BY DEF IInv, StaleInv
  <1>8. KeptInv'
    <2> SUFFICES ASSUME NEW f \in files', f \notin lost,
                        ~(job[f.job].status = "COMPLETED" /\ job[f.job].path = f.run)
                 PROVE  \E w \in Workers : Pc(w)' \in {"complete", "discard"} /\ worker'[w].file = f
      BY DEF KeptInv
    <2> PICK w \in Workers : Pc(w) \in {"complete", "discard"} /\ worker[w].file = f
      BY DEF IInv, KeptInv
    <2>1. Pc(w)' \in {"complete", "discard"} /\ worker'[w].file = f
      BY DEF Pc, Claims, Building
    <2> QED BY <2>1
  <1> QED BY <1>1, <1>2, <1>3, <1>4, <1>5, <1>6, <1>7, <1>8 DEF IInv

(* A new row is nobody's claim. *)
LEMMA Keeps_create == ASSUME IInv, NEW i \in Jobs, create(i) PROVE IInv'
  <1>1. TypeOK'
    <2>1. job' \in [Jobs -> Rows]
      BY DEF IInv, TypeOK, Rows, Statuses, create
    <2>2. files' \subseteq Files /\ lost' \subseteq Files
      BY DEF IInv, TypeOK, create
    <2>3. worker' \in [Workers -> WorkerStates]
      BY DEF IInv, TypeOK, create
    <2>4. local' \in BOOLEAN /\ slow' \in Nat /\ faults' \in Nat
      BY DEF IInv, TypeOK, create
    <2> QED BY <2>1, <2>2, <2>3, <2>4 DEF TypeOK
  <1>2. ResultOfLatestClaim'
    BY DEF IInv, TypeOK, Rows, ResultOfLatestClaim, create
  <1>3. ClaimInv'
    BY DEF IInv, TypeOK, Rows, WorkerStates, ClaimInv, Claims, Building, Job, Run, Pc, Idle,
       create
  <1>4. UniqueInv'
    BY DEF IInv, TypeOK, WorkerStates, UniqueInv, Claims, Building, Pc, Idle, create
  <1>5. OwnInv'
    BY DEF IInv, TypeOK, Rows, WorkerStates, ClaimInv, OwnInv, Owns, Claims, Building, Job,
       Run, Pc, Idle, create
  <1>6. DyingInv'
    BY DEF IInv, TypeOK, Rows, WorkerStates, Files, DyingInv, Dying, Owns, Building, Pc,
       Idle, create
  <1>7. LateInv'
    BY DEF IInv, TypeOK, Rows, WorkerStates, ClaimInv, Claims, LateInv, Mine, Building, Job,
       Run, Pc, Idle, create
  <1>8. StaleInv'
    BY DEF IInv, TypeOK, Rows, WorkerStates, Files, StaleInv, Idle, create
  <1>9. KeptInv'
    BY DEF IInv, TypeOK, Rows, WorkerStates, Files, KeptInv, Pc, Building, Idle, create
  <1>10. DownloadsExist'
    BY DEF IInv, TypeOK, Rows, DownloadsExist, Downloadable, create
  <1> QED BY <1>1, <1>2, <1>3, <1>4, <1>5, <1>6, <1>7, <1>8, <1>9, <1>10 DEF IInv

(* Cancelling takes the claim away and touches no file. *)
LEMMA Keeps_cancel == ASSUME IInv, NEW i \in Jobs, cancel(i) PROVE IInv'
  <1>1. TypeOK'
    <2>1. job' \in [Jobs -> Rows]
      BY DEF IInv, TypeOK, Rows, Statuses, cancel
    <2>2. files' \subseteq Files /\ lost' \subseteq Files
      BY DEF IInv, TypeOK, cancel
    <2>3. worker' \in [Workers -> WorkerStates]
      BY DEF IInv, TypeOK, cancel
    <2>4. local' \in BOOLEAN /\ slow' \in Nat /\ faults' \in Nat
      BY DEF IInv, TypeOK, cancel
    <2> QED BY <2>1, <2>2, <2>3, <2>4 DEF TypeOK
  <1>2. ResultOfLatestClaim'
    BY DEF IInv, TypeOK, Rows, ResultOfLatestClaim, cancel
  <1>3. ClaimInv'
    BY DEF IInv, TypeOK, Rows, WorkerStates, ClaimInv, Claims, Building, Job, Run, Pc, Idle,
       cancel
  <1>4. UniqueInv'
    BY DEF IInv, TypeOK, WorkerStates, UniqueInv, Claims, Building, Pc, Idle, cancel
  <1>5. OwnInv'
    BY DEF IInv, TypeOK, Rows, WorkerStates, ClaimInv, OwnInv, Owns, Claims, Building, Job,
       Run, Pc, Idle, cancel
  <1>6. DyingInv'
    BY DEF IInv, TypeOK, Rows, WorkerStates, Files, DyingInv, Dying, Owns, Building, Pc,
       Idle, cancel
  <1>7. LateInv'
    <2>1. \A w \in Workers : Claims(w) /\ Mine(w)' => Mine(w)
      BY DEF IInv, TypeOK, Rows, ClaimInv, Mine, Job, Run, cancel
    <2> QED BY <2>1 DEF IInv, LateInv, Claims, Building, Pc, cancel
  <1>8. StaleInv'
    BY DEF IInv, TypeOK, Rows, WorkerStates, Files, StaleInv, Idle, cancel
  <1>9. KeptInv'
    BY DEF IInv, TypeOK, Rows, WorkerStates, Files, KeptInv, Pc, Building, Idle, cancel
  <1>10. DownloadsExist'
    BY DEF IInv, TypeOK, Rows, DownloadsExist, Downloadable, cancel
  <1> QED BY <1>1, <1>2, <1>3, <1>4, <1>5, <1>6, <1>7, <1>8, <1>9, <1>10 DEF IInv

(* What is listed for deletion is published, so nobody owns it. *)
LEMMA Keeps_expireFiles == ASSUME IInv, NEW x \in Workers, expireFiles(x) PROVE IInv'
  <1>1. TypeOK'
    <2>1. job' \in [Jobs -> Rows]
      BY DEF IInv, TypeOK, Rows, Statuses, expireFiles, Expired
    <2>2. files' \subseteq Files /\ lost' \subseteq Files
      BY DEF IInv, TypeOK, expireFiles, Expired
    <2>3. worker' \in [Workers -> WorkerStates]
      <3> PICK some \in SUBSET Expired :
             worker' = [worker EXCEPT ![x].pc = "expire",
                           ![x].expiring = {FileOf(j, job[j].path) : j \in some}]
        BY DEF expireFiles
      <3>1. {FileOf(j, job[j].path) : j \in some} \subseteq Files
        BY DEF Expired, IInv, TypeOK, Rows, Files, FileOf
      <3> DEFINE E == {FileOf(j, job[j].path) : j \in some}
      <3> HIDE DEF E
      <3>2. E \subseteq Files /\ worker' = [worker EXCEPT ![x].pc = "expire", ![x].expiring = E]
        BY <3>1 DEF E
      <3>8. worker[x] \in WorkerStates BY DEF IInv, TypeOK
      <3>9. [worker[x] EXCEPT !.pc = "expire", !.expiring = E] \in WorkerStates
        BY <3>2, <3>8 DEF WorkerStates, Steps, Building
      <3> QED BY <3>2, <3>9 DEF IInv, TypeOK
    <2>4. local' \in BOOLEAN /\ slow' \in Nat /\ faults' \in Nat
      BY DEF IInv, TypeOK, expireFiles, Expired
    <2> QED BY <2>1, <2>2, <2>3, <2>4 DEF TypeOK
  <1>f. /\ Pc(x) = "idle" /\ Pc(x)' = "expire" /\ \A v \in Workers \ {x} : worker'[v] = worker[v]
        /\ worker'[x].file = worker[x].file /\ worker'[x].stale = worker[x].stale
        /\ worker'[x].late = worker[x].late
        /\ \A f \in worker'[x].expiring : f.job \in Expired /\ f.run = job[f.job].path
        /\ UNCHANGED <<job, files, lost>>
    <2> PICK some \in SUBSET Expired :
             worker' = [worker EXCEPT ![x].pc = "expire",
                           ![x].expiring = {FileOf(j, job[j].path) : j \in some}]
        BY DEF expireFiles
    <2> DEFINE E == {FileOf(j, job[j].path) : j \in some}
    <2>1. \A f \in E : f.job \in Expired /\ f.run = job[f.job].path
      BY DEF FileOf
    <2> HIDE DEF E
    <2>2. worker' = [worker EXCEPT ![x].pc = "expire", ![x].expiring = E]
      BY DEF E
    <2> QED BY <2>1, <2>2 DEF IInv, TypeOK, WorkerStates, Pc, expireFiles
  <1>2. ResultOfLatestClaim'
    BY <1>f DEF IInv, TypeOK, Rows, ResultOfLatestClaim, Expired
  <1>3. ClaimInv'
    BY <1>f DEF IInv, TypeOK, Rows, WorkerStates, ClaimInv, Claims, Building, Job, Run, Pc,
       Idle, Expired
  <1>4. UniqueInv'
    BY <1>f DEF IInv, TypeOK, WorkerStates, UniqueInv, Claims, Building, Pc, Idle, Expired
  <1>5. OwnInv'
    BY <1>f DEF IInv, TypeOK, Rows, WorkerStates, ClaimInv, OwnInv, Owns, Claims, Building,
       Job, Run, Pc, Idle, Expired
  <1>6. DyingInv'
    <2>1. \A v \in Workers \ {x} : Dying(v)' = Dying(v)
      BY <1>f DEF Dying, Pc
    <2>2. \A w \in Workers : (Owns(w)' <=> Owns(w)) /\ worker'[w].file = worker[w].file
      BY <1>f DEF Owns, Building, Pc
    <2>3. Dying(x)' = worker'[x].expiring
      BY <1>f DEF Dying, Pc
    <2>4. \A f \in worker'[x].expiring :
             /\ f \in Files /\ job[f.job].run = f.run /\ f.run >= 1
             /\ job[f.job].status = "COMPLETED" /\ job[f.job].due
             /\ \A w \in Workers : Owns(w) => worker[w].file # f
      BY <1>1, <1>f DEF IInv, TypeOK, Rows, WorkerStates, Files, Expired,
         ResultOfLatestClaim, OwnInv, Job, Run
    <2> QED BY <1>f, <2>1, <2>2, <2>3, <2>4 DEF IInv, DyingInv, Pc
  <1>7. LateInv'
    BY <1>f DEF IInv, TypeOK, Rows, WorkerStates, ClaimInv, Claims, LateInv, Mine, Building,
       Job, Run, Pc, Idle, Expired
  <1>8. StaleInv'
    BY <1>f DEF IInv, TypeOK, Rows, WorkerStates, Files, StaleInv, Idle, Expired
  <1>9. KeptInv'
    BY <1>f DEF IInv, TypeOK, Rows, WorkerStates, Files, KeptInv, Pc, Building, Idle,
       Expired
  <1>10. DownloadsExist'
    BY <1>f DEF IInv, TypeOK, Rows, DownloadsExist, Downloadable, Expired
  <1> QED BY <1>1, <1>2, <1>3, <1>4, <1>5, <1>6, <1>7, <1>8, <1>9, <1>10 DEF IInv

(* A file is deleted only after its report has expired. *)
LEMMA Keeps_ExpireDelete == ASSUME IInv, NEW x \in Workers, ExpireDelete(x) PROVE IInv'
  <1>1. TypeOK'
    <2>1. job' \in [Jobs -> Rows]
      BY DEF IInv, TypeOK, Rows, Statuses, ExpireDelete
    <2>2. files' \subseteq Files /\ lost' \subseteq Files
      BY DEF IInv, TypeOK, ExpireDelete
    <2>3. worker' \in [Workers -> WorkerStates]
      <3> PICK f \in worker[x].expiring :
             \/ worker' = [worker EXCEPT ![x] = Idle]
             \/ worker' = [worker EXCEPT ![x].pc = "mark", ![x].file = f, ![x].expiring = @ \ {f}]
        BY DEF ExpireDelete
      <3>1. Idle \in WorkerStates
        BY DEF Idle, WorkerStates, Steps
      <3>2. CASE worker' = [worker EXCEPT ![x] = Idle]
        BY <3>1, <3>2 DEF IInv, TypeOK
      <3>3. CASE worker' = [worker EXCEPT ![x].pc = "mark", ![x].file = f, ![x].expiring = @ \ {f}]
        BY <3>3 DEF IInv, TypeOK, WorkerStates, Steps
      <3> QED BY <3>2, <3>3
    <2>4. local' \in BOOLEAN /\ slow' \in Nat /\ faults' \in Nat
      BY DEF IInv, TypeOK, ExpireDelete
    <2> QED BY <2>1, <2>2, <2>3, <2>4 DEF TypeOK
  <1>2. ResultOfLatestClaim'
    BY DEF IInv, TypeOK, Rows, ResultOfLatestClaim, ExpireDelete
  <1>3. ClaimInv'
    BY DEF IInv, TypeOK, Rows, WorkerStates, ClaimInv, Claims, Building, Job, Run, Pc, Idle,
       ExpireDelete
  <1>4. UniqueInv'
    BY DEF IInv, TypeOK, WorkerStates, UniqueInv, Claims, Building, Pc, Idle, ExpireDelete
  <1>5. OwnInv'
    BY DEF IInv, TypeOK, Rows, WorkerStates, ClaimInv, OwnInv, Owns, Claims, Building, Job,
       Run, Pc, Idle, ExpireDelete
  <1>6. DyingInv'
    BY <1>1 DEF IInv, TypeOK, WorkerStates, DyingInv, Dying, Owns, Building, Pc, Idle,
       ExpireDelete
  <1>7. LateInv'
    BY <1>1 DEF IInv, TypeOK, WorkerStates, LateInv, Mine, Job, Run, Pc, Idle, ExpireDelete
  <1>8. StaleInv'
    BY DEF IInv, TypeOK, Rows, WorkerStates, Files, StaleInv, Idle, ExpireDelete
  <1>9. KeptInv'
    BY DEF IInv, TypeOK, Rows, WorkerStates, Files, KeptInv, Pc, Building, Idle,
       ExpireDelete
  <1>10. DownloadsExist'
    BY <1>1 DEF IInv, TypeOK, Rows, Files, DyingInv, Dying, ResultOfLatestClaim,
       DownloadsExist, Downloadable, FileOf, ExpireDelete
  <1> QED BY <1>1, <1>2, <1>3, <1>4, <1>5, <1>6, <1>7, <1>8, <1>9, <1>10 DEF IInv

(* The row that loses its file is the one whose file is gone. *)
LEMMA Keeps_ExpireMark == ASSUME IInv, NEW x \in Workers, ExpireMark(x) PROVE IInv'
  <1>1. TypeOK'
    <2>1. job' \in [Jobs -> Rows]
      <3>1. Job(x) \in Jobs
        BY DEF IInv, DyingInv, Dying, Files, Job, Pc, ExpireMark
      <3> QED BY <3>1 DEF IInv, TypeOK, Rows, Statuses, ExpireMark
    <2>2. files' \subseteq Files /\ lost' \subseteq Files
      BY DEF IInv, TypeOK, ExpireMark
    <2>3. worker' \in [Workers -> WorkerStates]
      <3>8. worker[x] \in WorkerStates BY DEF IInv, TypeOK
      <3>9. [worker[x] EXCEPT !.pc = "expire", !.file = NoFile] \in WorkerStates
        BY <3>8 DEF WorkerStates, Steps, Building
      <3> QED BY <3>9 DEF IInv, TypeOK, ExpireMark
    <2>4. local' \in BOOLEAN /\ slow' \in Nat /\ faults' \in Nat
      BY DEF IInv, TypeOK, ExpireMark
    <2> QED BY <2>1, <2>2, <2>3, <2>4 DEF TypeOK
  <1>f. /\ Pc(x) = "mark" /\ Pc(x)' = "expire" /\ \A v \in Workers \ {x} : worker'[v] = worker[v]
        /\ worker'[x].expiring = worker[x].expiring /\ worker'[x].stale = worker[x].stale
        /\ worker'[x].late = worker[x].late
        /\ UNCHANGED <<files, lost>>
    BY DEF IInv, TypeOK, WorkerStates, Pc, ExpireMark
  <1>g. /\ Job(x) \in Jobs /\ job[Job(x)].run = Run(x) /\ Run(x) >= 1
        /\ worker[x].file \notin files /\ worker[x].file = FileOf(Job(x), Run(x))
    BY DEF IInv, DyingInv, Dying, Files, FileOf, Job, Run, Pc, ExpireMark
  <1>h. /\ \A j \in Jobs : job'[j].run = job[j].run
        /\ \A j \in Jobs : j # Job(x) \/ job[j].status # "COMPLETED" => job'[j] = job[j]
        /\ job[Job(x)].status = "COMPLETED" =>
              job'[Job(x)].status = "EXPIRED" /\ job'[Job(x)].path = 0
    BY <1>g DEF IInv, TypeOK, Rows, ExpireMark
  <1>2. ResultOfLatestClaim'
    BY <1>1, <1>f, <1>g, <1>h DEF IInv, TypeOK, Rows, ResultOfLatestClaim
  <1>3. ClaimInv'
    BY <1>1, <1>f, <1>g, <1>h DEF IInv, TypeOK, Rows, ClaimInv, Claims, Building, Pc, Job,
       Run
  <1>4. UniqueInv'
    BY <1>1, <1>f, <1>g, <1>h DEF IInv, TypeOK, Rows, UniqueInv, Claims, Building, Pc
  <1>5. OwnInv'
    BY <1>1, <1>f, <1>g, <1>h DEF IInv, TypeOK, Rows, OwnInv, Owns, Claims, ClaimInv,
       Building, Pc, Job, Run
  <1>6. DyingInv'
    <2>1. \A v \in Workers : Dying(v)' \subseteq Dying(v) /\ (Pc(v)' = "mark" => v # x)
      BY <1>f DEF Dying, Pc
    <2>2. \A w \in Workers : Owns(w)' => Owns(w) /\ worker'[w].file = worker[w].file
      BY <1>f DEF Owns, Building, Pc
    <2>3. \A f \in Files : job[f.job].status \in {"COMPLETED", "EXPIRED", "purged"} =>
             /\ job'[f.job].status \in {"COMPLETED", "EXPIRED", "purged"}
             /\ job'[f.job].status = "COMPLETED" => job'[f.job] = job[f.job]
      BY <1>g, <1>h DEF Files
    <2>4. \A f \in Files : job'[f.job].run = job[f.job].run
      BY <1>h DEF Files
    <2> QED BY <1>f, <2>1, <2>2, <2>3, <2>4 DEF IInv, DyingInv, Pc
  <1>7. LateInv'
    <2>1. \A w \in Workers \ {x} : Claims(w) /\ Mine(w)' => Mine(w)
      BY <1>f, <1>g, <1>h DEF IInv, ClaimInv, Mine, Job, Run
    <2> QED BY <1>f, <2>1 DEF IInv, LateInv, Claims, Building, Pc
  <1>8. StaleInv'
    BY <1>1, <1>f, <1>g, <1>h DEF IInv, TypeOK, Rows, StaleInv, Files
  <1>9. KeptInv'
    <2> SUFFICES ASSUME NEW f \in files, f \notin lost,
                        ~\E w \in Workers : Pc(w)' \in {"complete", "discard"} /\ worker'[w].file = f
                 PROVE  job'[f.job].status = "COMPLETED" /\ job'[f.job].path = f.run
      BY <1>f DEF KeptInv
    <2>1. job[f.job].status = "COMPLETED" /\ job[f.job].path = f.run
      BY <1>f DEF IInv, KeptInv, Pc
    <2>2. f.job # Job(x)
      BY <1>g, <2>1 DEF IInv, TypeOK, ResultOfLatestClaim, Files, FileOf
    <2> QED BY <1>h, <2>1, <2>2 DEF IInv, TypeOK, Files
  <1>10. DownloadsExist'
    BY <1>1, <1>f, <1>g, <1>h DEF IInv, TypeOK, Rows, DownloadsExist, Downloadable
  <1> QED BY <1>1, <1>2, <1>3, <1>4, <1>5, <1>6, <1>7, <1>8, <1>9, <1>10 DEF IInv

(* purgeRecords only sees settled rows; what is stale now stays so until claimed. *)
LEMMA Keeps_List == ASSUME IInv, NEW x \in Workers, List(x) PROVE IInv'
  <1>1. TypeOK'
    <2>1. job' \in [Jobs -> Rows]
      BY DEF IInv, TypeOK, Rows, List, purgeRecords
    <2>2. files' \subseteq Files /\ lost' \subseteq Files
      BY DEF IInv, TypeOK, List, purgeRecords
    <2>3. worker' \in [Workers -> WorkerStates]
      <3> DEFINE P == {j \in Jobs : /\ Claimable(j, Stale)
                        /\ Cardinality({k \in Jobs : k < j /\ Claimable(k, Stale)}) < ClaimTake}
      <3>1. Stale \subseteq Files
        BY DEF Stale, IInv, TypeOK, Rows, Files, FileOf
      <3>2. worker' = [worker EXCEPT ![x].pc = "claim", ![x].stale = Stale, ![x].pending = P]
        BY DEF List
      <3>3. P \subseteq Jobs OBVIOUS
      <3> HIDE DEF P
      <3>8. worker[x] \in WorkerStates BY DEF IInv, TypeOK
      <3>9. [worker[x] EXCEPT !.pc = "claim", !.stale = Stale, !.pending = P] \in WorkerStates
        BY <3>1, <3>3, <3>8 DEF WorkerStates, Steps, Building
      <3> QED BY <3>2, <3>9 DEF IInv, TypeOK
    <2>4. local' \in BOOLEAN /\ slow' \in Nat /\ faults' \in Nat
      BY DEF IInv, TypeOK, List, purgeRecords
    <2> QED BY <2>1, <2>2, <2>3, <2>4 DEF TypeOK
  <1>f. /\ Pc(x) = "expire" /\ Pc(x)' = "claim" /\ \A v \in Workers \ {x} : worker'[v] = worker[v]
        /\ worker'[x].expiring = worker[x].expiring /\ worker'[x].stale = Stale
        /\ worker'[x].late = worker[x].late
        /\ UNCHANGED <<files, lost>>
    <2> DEFINE P == {j \in Jobs : /\ Claimable(j, Stale)
                        /\ Cardinality({k \in Jobs : k < j /\ Claimable(k, Stale)}) < ClaimTake}
    <2>1. worker' = [worker EXCEPT ![x].pc = "claim", ![x].stale = Stale, ![x].pending = P]
      BY DEF List
    <2> HIDE DEF P
    <2> QED BY <2>1 DEF IInv, TypeOK, WorkerStates, Pc, List
  <1>h. /\ \A j \in Jobs : /\ job'[j].run = job[j].run /\ job'[j].path = job[j].path
                           /\ job'[j].due = job[j].due
        /\ \A j \in Jobs : job[j].status \notin Settled => job'[j] = job[j]
        /\ \A j \in Jobs : job[j].status \in Settled => job'[j].status \in {job[j].status, "purged"}
    BY DEF IInv, TypeOK, Rows, List, purgeRecords
  <1>2. ResultOfLatestClaim'
    BY <1>1, <1>f, <1>h DEF IInv, TypeOK, Rows, ResultOfLatestClaim, Settled
  <1>3. ClaimInv'
    BY <1>1, <1>f, <1>h DEF IInv, TypeOK, Rows, ClaimInv, Claims, Building, Pc, Job, Run
  <1>4. UniqueInv'
    BY <1>1, <1>f, <1>h DEF IInv, TypeOK, Rows, UniqueInv, Claims, Building, Pc
  <1>5. OwnInv'
    BY <1>1, <1>f, <1>h DEF IInv, TypeOK, Rows, OwnInv, Owns, Claims, ClaimInv, Building,
       Pc, Job, Run
  <1>6. DyingInv'
    <2>1. \A v \in Workers : Dying(v)' \subseteq Dying(v) /\ (Pc(v)' = "mark" => v # x)
      BY <1>f DEF Dying, Pc
    <2>2. \A w \in Workers : Owns(w)' => Owns(w) /\ worker'[w].file = worker[w].file
      BY <1>f DEF Owns, Building, Pc
    <2>3. \A f \in Files : job[f.job].status \in {"COMPLETED", "EXPIRED", "purged"} =>
             /\ job'[f.job].status \in {"COMPLETED", "EXPIRED", "purged"}
             /\ job'[f.job].status = "COMPLETED" => job[f.job].status = "COMPLETED"
      BY <1>h DEF Files, Settled
    <2>4. \A f \in Files : job'[f.job].run = job[f.job].run /\ job'[f.job].due = job[f.job].due
      BY <1>h DEF Files
    <2> QED BY <1>f, <2>1, <2>2, <2>3, <2>4 DEF IInv, DyingInv, Pc
  <1>7. LateInv'
    <2>1. \A w \in Workers \ {x} : Claims(w) /\ Mine(w)' => Mine(w)
      BY <1>f, <1>h DEF IInv, ClaimInv, Mine, Job, Run, Settled
    <2> QED BY <1>f, <2>1 DEF IInv, LateInv, Claims, Building, Pc
  <1>8. StaleInv'
    <2>1. \A f \in Stale : f \in Files /\ f.run = job[f.job].run /\ job[f.job].due
      BY DEF Stale, IInv, TypeOK, Rows, Files, FileOf
    <2>2. \A f \in Files : /\ job'[f.job].run = job[f.job].run /\ job'[f.job].due = job[f.job].due
                           /\ job'[f.job].status = "RUNNING" => job[f.job].status = "RUNNING"
      BY <1>h DEF Files, Settled
    <2>3. \A f \in Files : job[f.job].run \in Nat /\ f.run \in Nat
      BY DEF IInv, TypeOK, Rows, Files
    <2> QED BY <1>f, <2>1, <2>2, <2>3 DEF IInv, StaleInv
  <1>9. KeptInv'
    <2>1. \A f \in Files : job[f.job].status = "COMPLETED" => job'[f.job] = job[f.job]
      BY <1>h DEF Files, Settled
    <2>2. \A w \in Workers : Pc(w) \in {"complete", "discard"} => worker'[w] = worker[w]
      BY <1>f
    <2>3. files \subseteq Files
      BY DEF IInv, TypeOK
    <2> QED BY <1>f, <2>1, <2>2, <2>3 DEF IInv, KeptInv, Pc
  <1>10. DownloadsExist'
    BY <1>1, <1>f, <1>h DEF IInv, TypeOK, Rows, DownloadsExist, Downloadable, Settled
  <1> QED BY <1>1, <1>2, <1>3, <1>4, <1>5, <1>6, <1>7, <1>8, <1>9, <1>10 DEF IInv

(* A new claim is later than every claim, file and stale entry there is. *)
LEMMA Keeps_Claim == ASSUME IInv, NEW x \in Workers, Claim(x) PROVE IInv'
  <1> PICK j \in worker[x].pending :
         IF Claimable(j, worker[x].stale) THEN ClaimAs(x, j) ELSE Skip(x, j)
    BY DEF Claim
  <1>0. /\ j \in Jobs /\ Pc(x) = "claim" /\ UNCHANGED <<files, local, slow, faults, lost>>
        /\ worker[x] \in WorkerStates
    BY DEF IInv, TypeOK, WorkerStates, Claim
  <1>1. CASE ~Claimable(j, worker[x].stale)
    <2>1. worker' = [worker EXCEPT ![x].pending = @ \ {j}] /\ UNCHANGED job
      BY <1>1 DEF Skip
    <2>2. [worker[x] EXCEPT !.pending = @ \ {j}] \in WorkerStates
      BY <1>0 DEF WorkerStates
    <2>3. TypeOK'
      BY <1>0, <2>1, <2>2 DEF IInv, TypeOK
    <2>4. /\ \A v \in Workers \ {x} : worker'[v] = worker[v]
          /\ Pc(x)' = Pc(x) /\ worker'[x].file = worker[x].file /\ worker'[x].late = worker[x].late
          /\ worker'[x].expiring = worker[x].expiring /\ worker'[x].stale = worker[x].stale
      BY <2>1, <1>0 DEF IInv, TypeOK, WorkerStates, Pc
    <2>5. (Claims(x)' <=> Claims(x)) /\ (Owns(x)' <=> Owns(x))
      BY <2>4 DEF Claims, Owns
    <2>6. worker[x].late = 0
      BY <1>0 DEF IInv, LateInv
    <2> QED BY <1>0, <2>1, <2>3, <2>4, <2>5, <2>6, WorkerStep
  <1>2. CASE Claimable(j, worker[x].stale)
    <2>1. /\ job' = [job EXCEPT ![j].status = "RUNNING", ![j].run = @ + 1, ![j].due = FALSE]
          /\ worker' = [worker EXCEPT ![x].pc = "read", ![x].pending = @ \ {j},
                           ![x].file = FileOf(j, job[j].run + 1)]
      BY <1>2 DEF ClaimAs
    <2>2. job[j] \in Rows /\ job[j].run \in Nat /\ job[j].run + 1 \in Nat
      BY <1>0 DEF IInv, TypeOK, Rows
    <2>3. FileOf(j, job[j].run + 1) \in Files
      BY <1>0, <2>2 DEF Files, FileOf
    <2>4. TypeOK'
      <3>1. [worker[x] EXCEPT !.pc = "read", !.pending = @ \ {j},
                           !.file = FileOf(j, job[j].run + 1)] \in WorkerStates
        BY <1>0, <2>3 DEF WorkerStates, Steps, Building
      <3>2. worker' \in [Workers -> WorkerStates]
        BY <2>1, <3>1 DEF IInv, TypeOK
      <3>3. job' \in [Jobs -> Rows]
        BY <2>1, <2>2, <1>0 DEF IInv, TypeOK, Rows, Statuses
      <3> QED BY <1>0, <3>2, <3>3 DEF IInv, TypeOK
    <2>5. /\ \A v \in Workers \ {x} : worker'[v] = worker[v]
          /\ Pc(x)' = "read" /\ Job(x)' = j /\ Run(x)' = job[j].run + 1
          /\ worker'[x].file = FileOf(j, job[j].run + 1)
          /\ worker'[x].late = worker[x].late
          /\ worker'[x].expiring = worker[x].expiring /\ worker'[x].stale = worker[x].stale
      BY <2>1, <1>0 DEF IInv, TypeOK, WorkerStates, Pc, Job, Run, FileOf
    <2>6. /\ job[j].status \in {"PENDING", "RUNNING"} /\ job[j].path = 0
          /\ \A k \in Jobs \ {j} : job'[k] = job[k]
          /\ job'[j].status = "RUNNING" /\ job'[j].run = job[j].run + 1 /\ job'[j].path = 0
      BY <1>0, <1>2, <2>1 DEF IInv, TypeOK, Rows, Claimable, ResultOfLatestClaim
    <2>7. \A k \in Jobs : job[k].run \in Nat /\ job'[k].run \in Nat /\ job'[k].run >= job[k].run
      BY <2>2, <2>4, <2>6 DEF IInv, TypeOK, Rows
    <2>8. ResultOfLatestClaim' /\ DownloadsExist'
      BY <1>0, <2>6 DEF IInv, ResultOfLatestClaim, DownloadsExist, Downloadable
    <2>9. ClaimInv'
      <3> SUFFICES ASSUME NEW w \in Workers, Claims(w)'
                   PROVE  Job(w)' \in Jobs /\ Run(w)' >= 1 /\ Run(w)' <= job'[Job(w)'].run
        BY DEF ClaimInv
      <3>1. CASE w = x
        BY <1>0, <2>2, <2>5, <2>6, <3>1
      <3>2. CASE w # x
        <4>1. Claims(w) /\ Job(w)' = Job(w) /\ Run(w)' = Run(w)
          BY <3>2, <2>5 DEF Claims, Pc, Job, Run
        <4>2. Run(w) \in Nat
          BY <4>1, ClaimedFile DEF IInv, Files, Run
        <4> QED BY <4>1, <4>2, <2>7 DEF IInv, ClaimInv
      <3> QED BY <3>1, <3>2
    <2>10. \A w \in Workers : w # x /\ Claims(w) => worker[w].file # FileOf(j, job[j].run + 1)
      BY <2>2 DEF IInv, ClaimInv, FileOf, Job, Run
    <2>11. UniqueInv'
      BY <2>5, <2>10 DEF IInv, UniqueInv, Claims, Pc
    <2>12. OwnInv'
      <3> SUFFICES ASSUME NEW w \in Workers, Owns(w)'
                   PROVE  /\ job'[Job(w)'].path # Run(w)'
                          /\ Pc(w)' \in {"complete", "discard"} => worker'[w].file \in files'
        BY DEF OwnInv
      <3>1. CASE w = x
        BY <2>2, <2>5, <2>6, <3>1
      <3>2. CASE w # x
        <4>1. Owns(w) /\ Claims(w) /\ Job(w)' = Job(w) /\ Run(w)' = Run(w) /\ worker'[w] = worker[w]
          BY <3>2, <2>5 DEF Owns, Claims, Pc, Job, Run
        <4>2. Job(w) \in Jobs /\ job'[Job(w)].path = job[Job(w)].path
          BY <4>1, <2>6, <1>0 DEF IInv, ClaimInv
        <4> QED BY <4>1, <4>2, <1>0 DEF IInv, OwnInv, Pc
      <3> QED BY <3>1, <3>2
    <2>13. DyingInv'
      <3>1. \A v \in Workers : Dying(v)' = Dying(v) /\ (Pc(v)' = "mark" => v # x)
        BY <1>0, <2>5 DEF Dying, Pc
      <3>2. \A v \in Workers : \A f \in Dying(v) : f \in Files /\ f.job # j /\ f.run = job[f.job].run
        BY <2>6 DEF IInv, DyingInv
      <3>3. \A f \in Files : f.job # j => job'[f.job] = job[f.job] /\ f # FileOf(j, job[j].run + 1)
        BY <2>6 DEF Files, FileOf
      <3>4. \A w \in Workers : Owns(w)' /\ w # x => Owns(w) /\ worker'[w] = worker[w]
        BY <2>5 DEF Owns, Pc
      <3> QED BY <1>0, <2>5, <3>1, <3>2, <3>3, <3>4 DEF IInv, DyingInv, Pc
    <2>14. LateInv'
      <3>1. \A w \in Workers : w # x /\ Claims(w) /\ Mine(w)' => Mine(w)
        <4> SUFFICES ASSUME NEW w \in Workers, w # x, Claims(w), Mine(w)' PROVE Mine(w)
          OBVIOUS
        <4>1. Job(w) \in Jobs /\ Run(w) <= job[Job(w)].run /\ Run(w) \in Nat
          BY ClaimedFile DEF IInv, ClaimInv, Files, Run
        <4>2. job'[Job(w)].status = "RUNNING" /\ job'[Job(w)].run = Run(w)
          BY <2>5 DEF Mine, Job, Run
        <4>3. Job(w) # j
          BY <4>1, <4>2, <2>2, <2>6
        <4> QED BY <4>1, <4>2, <4>3, <2>6 DEF Mine
      <3> QED BY <1>0, <2>5, <3>1 DEF IInv, LateInv, Claims, Building, Pc
    <2>15. StaleInv'
      <3> SUFFICES ASSUME NEW w \in Workers, NEW f \in worker'[w].stale
                   PROVE  /\ f \in Files /\ f.run <= job'[f.job].run
                          /\ job'[f.job].status = "RUNNING" /\ job'[f.job].run = f.run
                                => job'[f.job].due
        BY DEF StaleInv
      <3>1. f \in worker[w].stale
        BY <2>5
      <3>2. /\ f \in Files /\ f.run <= job[f.job].run /\ f.run \in Nat /\ f.job \in Jobs
            /\ job[f.job].status = "RUNNING" /\ job[f.job].run = f.run => job[f.job].due
        BY <3>1 DEF IInv, StaleInv, Files
      <3>3. CASE f.job = j
        BY <3>2, <3>3, <2>2, <2>6
      <3>4. CASE f.job # j
        BY <3>2, <3>4, <2>6
      <3> QED BY <3>3, <3>4
    <2>16. KeptInv'
      <3>1. \A w \in Workers : Pc(w) \in {"complete", "discard"} => worker'[w] = worker[w]
        BY <1>0, <2>5
      <3>2. \A f \in Files : job[f.job].status = "COMPLETED" => job'[f.job] = job[f.job]
        BY <2>6 DEF Files
      <3>3. files \subseteq Files
        BY DEF IInv, TypeOK
      <3> QED BY <1>0, <3>1, <3>2, <3>3 DEF IInv, KeptInv, Pc
    <2> QED BY <2>4, <2>8, <2>9, <2>11, <2>12, <2>13, <2>14, <2>15, <2>16 DEF IInv
  <1> QED BY <1>1, <1>2

(* The tick of a worker without a claim ends. *)
LEMMA Keeps_TickEnds == ASSUME IInv, NEW x \in Workers, TickEnds(x) PROVE IInv'
  <1>1. TypeOK'
    <2>1. job' \in [Jobs -> Rows]
      BY DEF IInv, TypeOK, Rows, Statuses, TickEnds
    <2>2. files' \subseteq Files /\ lost' \subseteq Files
      BY DEF IInv, TypeOK, TickEnds
    <2>3. worker' \in [Workers -> WorkerStates]
      BY DEF IInv, TypeOK, WorkerStates, Steps, Building, Idle, TickEnds
    <2>4. local' \in BOOLEAN /\ slow' \in Nat /\ faults' \in Nat
      BY DEF IInv, TypeOK, TickEnds
    <2> QED BY <2>1, <2>2, <2>3, <2>4 DEF TypeOK
  <1>2. ResultOfLatestClaim'
    BY DEF IInv, TypeOK, Rows, ResultOfLatestClaim, TickEnds
  <1>3. ClaimInv'
    BY DEF IInv, TypeOK, Rows, WorkerStates, ClaimInv, Claims, Building, Job, Run, Pc, Idle,
       TickEnds
  <1>4. UniqueInv'
    BY DEF IInv, TypeOK, WorkerStates, UniqueInv, Claims, Building, Pc, Idle, TickEnds
  <1>5. OwnInv'
    BY DEF IInv, TypeOK, Rows, WorkerStates, ClaimInv, OwnInv, Owns, Claims, Building, Job,
       Run, Pc, Idle, TickEnds
  <1>6. DyingInv'
    BY DEF IInv, TypeOK, Rows, WorkerStates, Files, DyingInv, Dying, Owns, Building, Pc,
       Idle, TickEnds
  <1>7. LateInv'
    BY DEF IInv, TypeOK, Rows, WorkerStates, ClaimInv, Claims, LateInv, Mine, Building, Job,
       Run, Pc, Idle, TickEnds
  <1>8. StaleInv'
    BY DEF IInv, TypeOK, Rows, WorkerStates, Files, StaleInv, Idle, TickEnds
  <1>9. KeptInv'
    BY DEF IInv, TypeOK, Rows, WorkerStates, Files, KeptInv, Pc, Building, Idle, TickEnds
  <1>10. DownloadsExist'
    BY DEF IInv, TypeOK, Rows, DownloadsExist, Downloadable, TickEnds
  <1> QED BY <1>1, <1>2, <1>3, <1>4, <1>5, <1>6, <1>7, <1>8, <1>9, <1>10 DEF IInv

(* A late batch is read only by a build that has read none before. *)
LEMMA Keeps_ReadBatch == ASSUME IInv, NEW x \in Workers, ReadBatch(x) PROVE IInv'
  <1>0. /\ Pc(x) = "read" /\ worker[x].late = 0 /\ worker[x] \in WorkerStates
        /\ UNCHANGED <<job, files, local, slow, faults, lost>>
    BY DEF IInv, LateInv, TypeOK, ReadBatch
  <1>1. CASE Go(x, "upload")
    <2>1. [worker[x] EXCEPT !.pc = "upload"] \in WorkerStates
      BY <1>0 DEF WorkerStates, Steps, Building
    <2>2. TypeOK'
      BY <1>0, <1>1, <2>1 DEF IInv, TypeOK, Go
    <2>3. /\ \A v \in Workers \ {x} : worker'[v] = worker[v]
          /\ Pc(x)' = "upload" /\ worker'[x].file = worker[x].file /\ worker'[x].late = 0
          /\ worker'[x].expiring = worker[x].expiring /\ worker'[x].stale = worker[x].stale
      BY <1>0, <1>1 DEF IInv, TypeOK, WorkerStates, Pc, Go
    <2>4. Claims(x) /\ Owns(x)
      BY <1>0 DEF Claims, Owns, Building
    <2> QED BY <1>0, <2>2, <2>3, <2>4, WorkerStep
  <1>2. ASSUME NEW last \in BOOLEAN,
               worker' = [worker EXCEPT
                  ![x].pc = IF worker[x].batches < MaxBatches THEN "assert" ELSE "fail",
                  ![x].batches = @ + 1, ![x].last = last,
                  ![x].late = IF Mine(x) THEN @ ELSE @ + 1]
        PROVE  IInv'
    <2> DEFINE pc == IF worker[x].batches < MaxBatches THEN "assert" ELSE "fail"
               late == IF Mine(x) THEN worker[x].late ELSE worker[x].late + 1
    <2>1. pc \in {"assert", "fail"} /\ late \in {0, 1} /\ (late # 0 => ~Mine(x))
      BY <1>0
    <2>2. worker' = [worker EXCEPT ![x].pc = pc, ![x].batches = @ + 1, ![x].last = last,
                                   ![x].late = late]
      BY <1>2
    <2> HIDE DEF pc, late
    <2>3. [worker[x] EXCEPT !.pc = pc, !.batches = @ + 1, !.last = last, !.late = late]
             \in WorkerStates
      <3> DEFINE n == worker[x].batches + 1
      <3>1. n \in Nat /\ late \in Nat /\ pc \in Steps
        BY <1>0, <2>1 DEF WorkerStates, Steps, Building
      <3> HIDE DEF n
      <3>2. [worker[x] EXCEPT !.pc = pc, !.batches = n, !.last = last, !.late = late]
               \in WorkerStates
        BY <1>0, <3>1 DEF WorkerStates
      <3> QED BY <3>2 DEF n
    <2>4. TypeOK'
      BY <1>0, <2>2, <2>3 DEF IInv, TypeOK
    <2>5. /\ \A v \in Workers \ {x} : worker'[v] = worker[v]
          /\ Pc(x)' = pc /\ worker'[x].file = worker[x].file /\ worker'[x].late = late
          /\ worker'[x].expiring = worker[x].expiring /\ worker'[x].stale = worker[x].stale
      BY <1>0, <2>2 DEF IInv, TypeOK, WorkerStates, Pc
    <2>6. Claims(x) /\ Owns(x)
      BY <1>0 DEF Claims, Owns, Building
    <2> QED BY <1>0, <2>1, <2>4, <2>5, <2>6, WorkerStep
  <1> QED BY <1>1, <1>2 DEF ReadBatch

(* Only a build that still has its claim goes on. *)
LEMMA Keeps_assertStillRunning == ASSUME IInv, NEW x \in Workers, assertStillRunning(x) PROVE IInv'
  <1>0. /\ Pc(x) = "assert" /\ worker[x] \in WorkerStates
        /\ UNCHANGED <<job, files, local, slow, faults, lost>>
    BY DEF IInv, TypeOK, assertStillRunning
  <1>1. CASE Back(x)
    <2>1. [Idle EXCEPT !.pc = "claim", !.pending = worker[x].pending, !.stale = worker[x].stale]
             \in WorkerStates
      BY <1>0 DEF Idle, WorkerStates, Steps
    <2>2. TypeOK'
      BY <1>0, <1>1, <2>1 DEF IInv, TypeOK, Back
    <2>3. /\ \A v \in Workers \ {x} : worker'[v] = worker[v]
          /\ Pc(x)' = "claim" /\ worker'[x].late = 0
          /\ worker'[x].expiring = {} /\ worker'[x].stale = worker[x].stale
      BY <1>0, <1>1 DEF IInv, TypeOK, WorkerStates, Pc, Back, Idle
    <2>4. ~Claims(x)' /\ ~Owns(x)'
      BY <2>3 DEF Claims, Owns, Building
    <2> QED BY <1>0, <2>2, <2>3, <2>4, WorkerStep
  <1>2. ASSUME NEW pc \in {"upload", "read"}, Go(x, pc), Mine(x)
        PROVE  IInv'
    <2>1. [worker[x] EXCEPT !.pc = pc] \in WorkerStates
      BY <1>0 DEF WorkerStates, Steps, Building
    <2>2. TypeOK'
      BY <1>0, <1>2, <2>1 DEF IInv, TypeOK, Go
    <2>3. /\ \A v \in Workers \ {x} : worker'[v] = worker[v]
          /\ Pc(x)' = pc /\ worker'[x].file = worker[x].file /\ worker'[x].late = worker[x].late
          /\ worker'[x].expiring = worker[x].expiring /\ worker'[x].stale = worker[x].stale
      BY <1>0, <1>2 DEF IInv, TypeOK, WorkerStates, Pc, Go
    <2>4. Claims(x) /\ Owns(x) /\ worker[x].late = 0
      BY <1>0, <1>2 DEF IInv, LateInv, Claims, Owns, Building
    <2> QED BY <1>0, <2>2, <2>3, <2>4, WorkerStep
  <1>3. CASE ~Mine(x)
    BY <1>1, <1>3 DEF assertStillRunning
  <1>4. CASE Mine(x)
    <2>1. CASE worker[x].last
      BY <1>2, <1>4, <2>1 DEF assertStillRunning
    <2>2. CASE ~worker[x].last
      BY <1>2, <1>4, <2>2 DEF assertStillRunning
    <2> QED BY <2>1, <2>2
  <1> QED BY <1>3, <1>4

(* An upload is owned, so it is not listed for deletion. *)
LEMMA Keeps_Upload == ASSUME IInv, NEW x \in Workers, Upload(x) PROVE IInv'
  <1>1. TypeOK'
    <2>1. job' \in [Jobs -> Rows]
      BY DEF IInv, TypeOK, Rows, Statuses, Upload, Go
    <2>2. files' \subseteq Files /\ lost' \subseteq Files
      BY ClaimedFile DEF IInv, TypeOK, Claims, Building, Upload
    <2>3. worker' \in [Workers -> WorkerStates]
      BY DEF IInv, TypeOK, WorkerStates, Steps, Building, Idle, Upload, Go
    <2>4. local' \in BOOLEAN /\ slow' \in Nat /\ faults' \in Nat
      BY DEF IInv, TypeOK, Upload, Go
    <2> QED BY <2>1, <2>2, <2>3, <2>4 DEF TypeOK
  <1>2. ResultOfLatestClaim'
    BY DEF IInv, TypeOK, Rows, ResultOfLatestClaim, Upload, Go
  <1>3. ClaimInv'
    BY DEF IInv, TypeOK, Rows, WorkerStates, ClaimInv, Claims, Building, Job, Run, Pc, Idle,
       Upload, Go
  <1>4. UniqueInv'
    BY DEF IInv, TypeOK, WorkerStates, UniqueInv, Claims, Building, Pc, Idle, Upload, Go
  <1>5. OwnInv'
    BY DEF IInv, TypeOK, Rows, WorkerStates, ClaimInv, OwnInv, Owns, Claims, Building, Job,
       Run, Pc, Idle, Upload, Go
  <1>6. DyingInv'
    BY DEF IInv, TypeOK, Rows, WorkerStates, Files, DyingInv, Dying, Owns, Building, Pc,
       Idle, Upload, Go
  <1>7. LateInv'
    BY DEF IInv, TypeOK, Rows, WorkerStates, ClaimInv, Claims, LateInv, Mine, Building, Job,
       Run, Pc, Idle, Upload, Go
  <1>8. StaleInv'
    BY DEF IInv, TypeOK, Rows, WorkerStates, Files, StaleInv, Idle, Upload, Go
  <1>9. KeptInv'
    BY DEF IInv, TypeOK, Rows, WorkerStates, Files, KeptInv, Pc, Building, Idle, Upload, Go
  <1>10. DownloadsExist'
    BY DEF IInv, TypeOK, Rows, DownloadsExist, Downloadable, Upload, Go
  <1> QED BY <1>1, <1>2, <1>3, <1>4, <1>5, <1>6, <1>7, <1>8, <1>9, <1>10 DEF IInv

(* The latest claim is published; any other keeps its file to discard it. *)
LEMMA Keeps_Complete == ASSUME IInv, NEW x \in Workers, Complete(x) PROVE IInv'
  <1>0. /\ Pc(x) = "complete" /\ worker[x] \in WorkerStates
        /\ UNCHANGED <<files, local, slow, faults, lost>>
        /\ Claims(x) /\ Owns(x) /\ worker[x].late = 0 /\ worker[x].file \in files
    BY DEF IInv, TypeOK, LateInv, OwnInv, Claims, Owns, Building, Complete
  <1>1. /\ worker[x].file \in Files /\ Job(x) \in Jobs /\ Run(x) \in Nat /\ Run(x) >= 1
        /\ worker[x].file = FileOf(Job(x), Run(x)) /\ job[Job(x)].path # Run(x)
    BY <1>0, ClaimedFile DEF IInv, ClaimInv, OwnInv, Files, FileOf, Job, Run
  <1>2. CASE ~Mine(x)
    <2>1. Go(x, "discard") /\ UNCHANGED job
      BY <1>2 DEF Complete
    <2>2. [worker[x] EXCEPT !.pc = "discard"] \in WorkerStates
      BY <1>0 DEF WorkerStates, Steps
    <2>3. TypeOK'
      BY <1>0, <2>1, <2>2 DEF IInv, TypeOK, Go
    <2>4. /\ \A v \in Workers \ {x} : worker'[v] = worker[v]
          /\ Pc(x)' = "discard" /\ worker'[x].file = worker[x].file /\ worker'[x].late = 0
          /\ worker'[x].expiring = worker[x].expiring /\ worker'[x].stale = worker[x].stale
      BY <1>0, <2>1 DEF IInv, TypeOK, WorkerStates, Pc, Go
    <2> QED BY <1>0, <2>1, <2>3, <2>4, WorkerStep
  <1>3. CASE Mine(x)
    <2>0. Completed(x) /\ job[Job(x)].status = "RUNNING" /\ job[Job(x)].run = Run(x)
      BY <1>3 DEF Complete, Mine
    <2>1. /\ \A k \in Jobs \ {Job(x)} : job'[k] = job[k]
          /\ job'[Job(x)].status = "COMPLETED" /\ job'[Job(x)].path = Run(x)
          /\ job'[Job(x)].run = Run(x) /\ job'[Job(x)].due = FALSE
      BY <1>1, <2>0 DEF IInv, TypeOK, Rows, Completed
    <2>2. /\ \A v \in Workers \ {x} : worker'[v] = worker[v]
          /\ Pc(x)' \in {"claim", "fail"} /\ worker'[x].late = 0
          /\ Pc(x)' = "fail" => worker'[x].file = worker[x].file
          /\ worker'[x].expiring \subseteq worker[x].expiring
          /\ worker'[x].stale = worker[x].stale
          /\ worker'[x] \in WorkerStates
      <3>1. CASE Back(x)
        <4>1. [Idle EXCEPT !.pc = "claim", !.pending = worker[x].pending, !.stale = worker[x].stale]
                 \in WorkerStates
          BY <1>0 DEF Idle, WorkerStates, Steps
        <4> QED BY <1>0, <3>1, <4>1 DEF IInv, TypeOK, WorkerStates, Pc, Back, Idle
      <3>2. CASE Go(x, "fail")
        BY <1>0, <3>2 DEF IInv, TypeOK, WorkerStates, Steps, Pc, Go
      <3> QED BY <2>0, <3>1, <3>2 DEF Completed
    <2>3. TypeOK'
      <3>1. job' \in [Jobs -> Rows]
        BY <1>1, <2>0 DEF IInv, TypeOK, Rows, Statuses, Completed
      <3>2. worker' \in [Workers -> WorkerStates]
        <4>1. worker' = [worker EXCEPT ![x] = worker'[x]]
          BY <2>0 DEF IInv, TypeOK, Completed, Back, Go
        <4> QED BY <4>1, <2>2 DEF IInv, TypeOK
      <3> QED BY <1>0, <3>1, <3>2 DEF IInv, TypeOK
    <2>4. ResultOfLatestClaim'
      BY <1>1, <2>1 DEF IInv, ResultOfLatestClaim
    <2>5. DownloadsExist'
      BY <1>0, <1>1, <2>1 DEF IInv, DownloadsExist, Downloadable
    <2>6. \A k \in Jobs : job'[k].run = job[k].run
      BY <2>0, <2>1
    <2>7. \A w \in Workers : Claims(w)' => Claims(w) /\ worker'[w].file = worker[w].file
      BY <1>0, <2>2 DEF Claims, Building, Pc
    <2>8. \A w \in Workers : Owns(w)' => Owns(w) /\ w # x /\ worker'[w] = worker[w]
      BY <1>0, <2>2 DEF Owns, Building, Pc
    <2>9. ClaimInv'
      BY <2>6, <2>7 DEF IInv, ClaimInv, Job, Run
    <2>10. UniqueInv'
      BY <2>7 DEF IInv, UniqueInv
    <2>11. \A w \in Workers : Owns(w)' => worker[w].file # worker[x].file
      BY <1>0, <2>8 DEF IInv, UniqueInv, Owns, Claims
    <2>12. OwnInv'
      <3> SUFFICES ASSUME NEW w \in Workers, Owns(w)'
                   PROVE  /\ job'[Job(w)].path # Run(w)
                          /\ Pc(w) \in {"complete", "discard"} => worker[w].file \in files
        BY <1>0, <2>8 DEF OwnInv, Job, Run, Pc
      <3>1. Owns(w) /\ Claims(w) /\ Job(w) \in Jobs
        BY <2>8 DEF IInv, ClaimInv, Owns, Claims
      <3>2. worker[w].file = FileOf(Job(w), Run(w))
        BY <3>1, ClaimedFile DEF IInv, Files, FileOf, Job, Run
      <3>3. CASE Job(w) = Job(x)
        BY <1>1, <2>1, <2>11, <3>1, <3>2, <3>3 DEF IInv, OwnInv
      <3>4. CASE Job(w) # Job(x)
        BY <2>1, <3>1, <3>4 DEF IInv, OwnInv
      <3> QED BY <3>3, <3>4
    <2>13. DyingInv'
      <3>1. \A v \in Workers : Dying(v)' \subseteq Dying(v) /\ (Pc(v)' = "mark" => v # x)
        BY <2>2 DEF Dying, Pc
      <3>2. \A v \in Workers : \A f \in Dying(v) : f \in Files /\ f.job # Job(x)
        BY <2>0 DEF IInv, DyingInv
      <3>3. \A f \in Files : f.job # Job(x) => job'[f.job] = job[f.job]
        BY <2>1 DEF Files
      <3> QED BY <1>0, <2>2, <2>8, <3>1, <3>2, <3>3 DEF IInv, DyingInv, Pc
    <2>14. LateInv'
      <3>1. \A w \in Workers : w # x /\ Claims(w) /\ Mine(w)' => Mine(w)
        BY <1>1, <2>1, <2>2 DEF IInv, ClaimInv, Mine, Job, Run
      <3> QED BY <2>2, <3>1 DEF IInv, LateInv, Claims, Building, Pc
    <2>15. StaleInv'
      BY <2>1, <2>2, <2>6 DEF IInv, StaleInv, Files
    <2>16. KeptInv'
      <3> SUFFICES ASSUME NEW f \in files, f \notin lost,
                          ~(job'[f.job].status = "COMPLETED" /\ job'[f.job].path = f.run)
                   PROVE  \E w \in Workers : Pc(w)' \in {"complete", "discard"} /\ worker'[w].file = f
        BY <1>0 DEF KeptInv
      <3>1. f \in Files /\ f # worker[x].file
        BY <1>1, <2>1 DEF IInv, TypeOK, FileOf
      <3>2. ~(job[f.job].status = "COMPLETED" /\ job[f.job].path = f.run)
        BY <2>0, <2>1, <3>1 DEF Files
      <3>3. PICK w \in Workers : Pc(w) \in {"complete", "discard"} /\ worker[w].file = f
        BY <3>2 DEF IInv, KeptInv
      <3>4. Pc(w)' \in {"complete", "discard"} /\ worker'[w].file = f
        BY <2>2, <3>1, <3>3 DEF Pc
      <3> QED BY <3>4
    <2> QED BY <2>3, <2>4, <2>5, <2>9, <2>10, <2>12, <2>13, <2>14, <2>15, <2>16 DEF IInv
  <1> QED BY <1>2, <1>3

(* The file discarded is not published, and not another worker's. *)
LEMMA Keeps_Discard == ASSUME IInv, NEW x \in Workers, Discard(x) PROVE IInv'
  <1>1. TypeOK'
    <2>1. job' \in [Jobs -> Rows]
      BY DEF IInv, TypeOK, Rows, Statuses, Discard, Back
    <2>2. files' \subseteq Files /\ lost' \subseteq Files
      BY DEF IInv, TypeOK, Discard, Back
    <2>3. worker' \in [Workers -> WorkerStates]
      BY DEF IInv, TypeOK, WorkerStates, Steps, Building, Idle, Discard, Back
    <2>4. local' \in BOOLEAN /\ slow' \in Nat /\ faults' \in Nat
      BY DEF IInv, TypeOK, Discard, Back
    <2> QED BY <2>1, <2>2, <2>3, <2>4 DEF TypeOK
  <1>2. ResultOfLatestClaim'
    BY DEF IInv, TypeOK, Rows, ResultOfLatestClaim, Discard, Back
  <1>3. ClaimInv'
    BY DEF IInv, TypeOK, Rows, WorkerStates, ClaimInv, Claims, Building, Job, Run, Pc, Idle,
       Discard, Back
  <1>4. UniqueInv'
    BY DEF IInv, TypeOK, WorkerStates, UniqueInv, Claims, Building, Pc, Idle, Discard, Back
  <1>5. OwnInv'
    <2>1. \A w \in Workers : Owns(w)' => Owns(w) /\ w # x /\ worker'[w] = worker[w]
      BY DEF IInv, TypeOK, Owns, Building, Pc, Idle, Discard, Back
    <2>2. \A w \in Workers : Owns(w)' => worker[w].file # worker[x].file
      BY <2>1 DEF IInv, UniqueInv, Owns, Claims, Discard
    <2> QED BY <2>1, <2>2 DEF IInv, OwnInv, Job, Run, Pc, Discard
  <1>6. DyingInv'
    BY DEF IInv, TypeOK, Rows, WorkerStates, Files, DyingInv, Dying, Owns, Building, Pc,
       Idle, Discard, Back
  <1>7. LateInv'
    BY DEF IInv, TypeOK, Rows, WorkerStates, ClaimInv, Claims, LateInv, Mine, Building, Job,
       Run, Pc, Idle, Discard, Back
  <1>8. StaleInv'
    BY DEF IInv, TypeOK, Rows, WorkerStates, Files, StaleInv, Idle, Discard, Back
  <1>9. KeptInv'
    BY DEF IInv, TypeOK, Rows, WorkerStates, Files, KeptInv, Pc, Building, Idle, Discard,
       Back
  <1>10. DownloadsExist'
    <2>1. \A j \in Jobs : job[j].path # 0 => FileOf(j, job[j].path) # worker[x].file
      BY DEF IInv, TypeOK, Rows, OwnInv, Owns, Discard, FileOf, Job, Run
    <2> QED BY <2>1 DEF IInv, DownloadsExist, Downloadable, Discard
  <1> QED BY <1>1, <1>2, <1>3, <1>4, <1>5, <1>6, <1>7, <1>8, <1>9, <1>10 DEF IInv

(* A failed build gives up its claim, and its file is recorded as lost. *)
LEMMA Keeps_ProcessFails == ASSUME IInv, NEW x \in Workers, ProcessFails(x) PROVE IInv'
  <1>1. TypeOK'
    <2>1. job' \in [Jobs -> Rows]
      BY DEF IInv, TypeOK, Rows, Statuses, ProcessFails, Go
    <2>2. files' \subseteq Files /\ lost' \subseteq Files
      BY ClaimedFile DEF IInv, TypeOK, Claims, Building, ProcessFails
    <2>3. worker' \in [Workers -> WorkerStates]
      BY DEF IInv, TypeOK, WorkerStates, Steps, Building, Idle, ProcessFails, Go
    <2>4. local' \in BOOLEAN /\ slow' \in Nat /\ faults' \in Nat
      BY DEF IInv, TypeOK, ProcessFails, Go
    <2> QED BY <2>1, <2>2, <2>3, <2>4 DEF TypeOK
  <1>2. ResultOfLatestClaim'
    BY DEF IInv, TypeOK, Rows, ResultOfLatestClaim, ProcessFails, Go
  <1>3. ClaimInv'
    BY DEF IInv, TypeOK, Rows, WorkerStates, ClaimInv, Claims, Building, Job, Run, Pc, Idle,
       ProcessFails, Go
  <1>4. UniqueInv'
    BY DEF IInv, TypeOK, WorkerStates, UniqueInv, Claims, Building, Pc, Idle, ProcessFails,
       Go
  <1>5. OwnInv'
    BY DEF IInv, TypeOK, Rows, WorkerStates, ClaimInv, OwnInv, Owns, Claims, Building, Job,
       Run, Pc, Idle, ProcessFails, Go
  <1>6. DyingInv'
    BY DEF IInv, TypeOK, Rows, WorkerStates, Files, DyingInv, Dying, Owns, Building, Pc,
       Idle, ProcessFails, Go
  <1>7. LateInv'
    BY DEF IInv, TypeOK, Rows, WorkerStates, ClaimInv, Claims, LateInv, Mine, Building, Job,
       Run, Pc, Idle, ProcessFails, Go
  <1>8. StaleInv'
    BY DEF IInv, TypeOK, Rows, WorkerStates, Files, StaleInv, Idle, ProcessFails, Go
  <1>9. KeptInv'
    BY DEF IInv, TypeOK, Rows, WorkerStates, Files, KeptInv, Pc, Building, Idle,
       ProcessFails, Go
  <1>10. DownloadsExist'
    BY DEF IInv, TypeOK, Rows, DownloadsExist, Downloadable, ProcessFails, Go
  <1> QED BY <1>1, <1>2, <1>3, <1>4, <1>5, <1>6, <1>7, <1>8, <1>9, <1>10 DEF IInv

(* Only the latest claim can fail the job. *)
LEMMA Keeps_Fail == ASSUME IInv, NEW x \in Workers, Fail(x) PROVE IInv'
  <1>1. TypeOK'
    <2>1. job' \in [Jobs -> Rows]
      BY DEF IInv, TypeOK, Rows, Statuses, Fail, Mine, Back
    <2>2. files' \subseteq Files /\ lost' \subseteq Files
      BY DEF IInv, TypeOK, Fail, Mine, Back
    <2>3. worker' \in [Workers -> WorkerStates]
      BY DEF IInv, TypeOK, WorkerStates, Steps, Building, Idle, Fail, Mine, Back
    <2>4. local' \in BOOLEAN /\ slow' \in Nat /\ faults' \in Nat
      BY DEF IInv, TypeOK, Fail, Mine, Back
    <2> QED BY <2>1, <2>2, <2>3, <2>4 DEF TypeOK
  <1>2. ResultOfLatestClaim'
    BY DEF IInv, TypeOK, Rows, ResultOfLatestClaim, Fail, Mine, Back
  <1>3. ClaimInv'
    BY DEF IInv, TypeOK, Rows, WorkerStates, ClaimInv, Claims, Building, Job, Run, Pc, Idle,
       Fail, Mine, Back
  <1>4. UniqueInv'
    BY DEF IInv, TypeOK, WorkerStates, UniqueInv, Claims, Building, Pc, Idle, Fail, Mine,
       Back
  <1>5. OwnInv'
    BY DEF IInv, TypeOK, Rows, WorkerStates, ClaimInv, OwnInv, Owns, Claims, Building, Job,
       Run, Pc, Idle, Fail, Mine, Back
  <1>6. DyingInv'
    BY DEF IInv, TypeOK, Rows, WorkerStates, Files, DyingInv, Dying, Owns, Building, Pc,
       Idle, Fail, Mine, Back
  <1>7. LateInv'
    <2>1. \A w \in Workers : Claims(w) /\ Mine(w)' /\ w # x => Mine(w)
      BY DEF IInv, TypeOK, Rows, WorkerStates, ClaimInv, Claims, Pc, Mine, Job, Run, Fail,
         Back
    <2> QED BY <2>1 DEF IInv, TypeOK, LateInv, Claims, Building, Pc, Idle, Fail, Back
  <1>8. StaleInv'
    BY DEF IInv, TypeOK, Rows, WorkerStates, Files, StaleInv, Idle, Fail, Mine, Back
  <1>9. KeptInv'
    BY DEF IInv, TypeOK, Rows, WorkerStates, Files, KeptInv, Pc, Building, Idle, Fail, Mine,
       Back
  <1>10. DownloadsExist'
    BY DEF IInv, TypeOK, Rows, DownloadsExist, Downloadable, Fail, Mine, Back
  <1> QED BY <1>1, <1>2, <1>3, <1>4, <1>5, <1>6, <1>7, <1>8, <1>9, <1>10 DEF IInv

(* A file that cannot be deleted is recorded as lost. *)
LEMMA Keeps_DiscardFails == ASSUME IInv, NEW x \in Workers, DiscardFails(x) PROVE IInv'
  <1>1. TypeOK'
    <2>1. job' \in [Jobs -> Rows]
      BY DEF IInv, TypeOK, Rows, Statuses, DiscardFails, Go, Held
    <2>2. files' \subseteq Files /\ lost' \subseteq Files
      BY ClaimedFile DEF IInv, TypeOK, Claims, Building, Held, DiscardFails
    <2>3. worker' \in [Workers -> WorkerStates]
      BY DEF IInv, TypeOK, WorkerStates, Steps, Go, DiscardFails
    <2>4. local' \in BOOLEAN /\ slow' \in Nat /\ faults' \in Nat
      BY DEF IInv, TypeOK, DiscardFails, Go, Held
    <2> QED BY <2>1, <2>2, <2>3, <2>4 DEF TypeOK
  <1>2. ResultOfLatestClaim'
    BY DEF IInv, TypeOK, Rows, ResultOfLatestClaim, DiscardFails, Go, Held
  <1>3. ClaimInv'
    BY DEF IInv, TypeOK, Rows, WorkerStates, ClaimInv, Claims, Building, Job, Run, Pc, Idle,
       DiscardFails, Go, Held
  <1>4. UniqueInv'
    BY DEF IInv, TypeOK, WorkerStates, UniqueInv, Claims, Building, Pc, Idle, DiscardFails,
       Go, Held
  <1>5. OwnInv'
    BY DEF IInv, TypeOK, Rows, WorkerStates, ClaimInv, OwnInv, Owns, Claims, Building, Job,
       Run, Pc, Idle, DiscardFails, Go, Held
  <1>6. DyingInv'
    BY DEF IInv, TypeOK, Rows, WorkerStates, Files, DyingInv, Dying, Owns, Building, Pc,
       Idle, DiscardFails, Go, Held
  <1>7. LateInv'
    BY DEF IInv, TypeOK, Rows, WorkerStates, ClaimInv, Claims, LateInv, Mine, Building, Job,
       Run, Pc, Idle, DiscardFails, Go, Held
  <1>8. StaleInv'
    BY DEF IInv, TypeOK, Rows, WorkerStates, Files, StaleInv, Idle, DiscardFails, Go, Held
  <1>9. KeptInv'
    BY DEF IInv, TypeOK, Rows, WorkerStates, Files, KeptInv, Pc, Building, Idle,
       DiscardFails, Go, Held
  <1>10. DownloadsExist'
    BY DEF IInv, TypeOK, Rows, DownloadsExist, Downloadable, DiscardFails, Go, Held
  <1> QED BY <1>1, <1>2, <1>3, <1>4, <1>5, <1>6, <1>7, <1>8, <1>9, <1>10 DEF IInv

(* A file in the hands of a crashed worker is recorded as lost. *)
LEMMA Keeps_Crash == ASSUME IInv, NEW x \in Workers, Crash(x) PROVE IInv'
  <1>1. TypeOK'
    <2>1. job' \in [Jobs -> Rows]
      BY DEF IInv, TypeOK, Rows, Statuses, Crash, Held
    <2>2. files' \subseteq Files /\ lost' \subseteq Files
      BY ClaimedFile DEF IInv, TypeOK, Claims, Building, Held, Crash
    <2>3. worker' \in [Workers -> WorkerStates]
      BY DEF IInv, TypeOK, WorkerStates, Steps, Building, Idle, Crash, Held
    <2>4. local' \in BOOLEAN /\ slow' \in Nat /\ faults' \in Nat
      BY DEF IInv, TypeOK, Crash, Held
    <2> QED BY <2>1, <2>2, <2>3, <2>4 DEF TypeOK
  <1>2. ResultOfLatestClaim'
    BY DEF IInv, TypeOK, Rows, ResultOfLatestClaim, Crash, Held
  <1>3. ClaimInv'
    BY DEF IInv, TypeOK, Rows, WorkerStates, ClaimInv, Claims, Building, Job, Run, Pc, Idle,
       Crash, Held
  <1>4. UniqueInv'
    BY DEF IInv, TypeOK, WorkerStates, UniqueInv, Claims, Building, Pc, Idle, Crash, Held
  <1>5. OwnInv'
    BY DEF IInv, TypeOK, Rows, WorkerStates, ClaimInv, OwnInv, Owns, Claims, Building, Job,
       Run, Pc, Idle, Crash, Held
  <1>6. DyingInv'
    BY DEF IInv, TypeOK, Rows, WorkerStates, Files, DyingInv, Dying, Owns, Building, Pc,
       Idle, Crash, Held
  <1>7. LateInv'
    BY DEF IInv, TypeOK, Rows, WorkerStates, ClaimInv, Claims, LateInv, Mine, Building, Job,
       Run, Pc, Idle, Crash, Held
  <1>8. StaleInv'
    BY DEF IInv, TypeOK, Rows, WorkerStates, Files, StaleInv, Idle, Crash, Held
  <1>9. KeptInv'
    BY DEF IInv, TypeOK, Rows, WorkerStates, Files, KeptInv, Pc, Building, Idle, Crash, Held
  <1>10. DownloadsExist'
    BY DEF IInv, TypeOK, Rows, DownloadsExist, Downloadable, Crash, Held
  <1> QED BY <1>1, <1>2, <1>3, <1>4, <1>5, <1>6, <1>7, <1>8, <1>9, <1>10 DEF IInv

(* Time only makes a claim stale. *)
LEMMA Keeps_RunGoesStale == ASSUME IInv, NEW i \in Jobs, RunGoesStale(i) PROVE IInv'
  <1>1. TypeOK'
    <2>1. job' \in [Jobs -> Rows]
      BY DEF IInv, TypeOK, Rows, Statuses, RunGoesStale
    <2>2. files' \subseteq Files /\ lost' \subseteq Files
      BY DEF IInv, TypeOK, RunGoesStale
    <2>3. worker' \in [Workers -> WorkerStates]
      BY DEF IInv, TypeOK, RunGoesStale
    <2>4. local' \in BOOLEAN /\ slow' \in Nat /\ faults' \in Nat
      BY DEF IInv, TypeOK, RunGoesStale
    <2> QED BY <2>1, <2>2, <2>3, <2>4 DEF TypeOK
  <1>2. ResultOfLatestClaim'
    BY DEF IInv, TypeOK, Rows, ResultOfLatestClaim, RunGoesStale
  <1>3. ClaimInv'
    BY DEF IInv, TypeOK, Rows, WorkerStates, ClaimInv, Claims, Building, Job, Run, Pc, Idle,
       RunGoesStale
  <1>4. UniqueInv'
    BY DEF IInv, TypeOK, WorkerStates, UniqueInv, Claims, Building, Pc, Idle, RunGoesStale
  <1>5. OwnInv'
    BY DEF IInv, TypeOK, Rows, WorkerStates, ClaimInv, OwnInv, Owns, Claims, Building, Job,
       Run, Pc, Idle, RunGoesStale
  <1>6. DyingInv'
    BY DEF IInv, TypeOK, Rows, WorkerStates, Files, DyingInv, Dying, Owns, Building, Pc,
       Idle, RunGoesStale
  <1>7. LateInv'
    BY DEF IInv, TypeOK, Rows, WorkerStates, ClaimInv, Claims, LateInv, Mine, Building, Job,
       Run, Pc, Idle, RunGoesStale
  <1>8. StaleInv'
    BY DEF IInv, TypeOK, Rows, WorkerStates, Files, StaleInv, Idle, RunGoesStale
  <1>9. KeptInv'
    BY DEF IInv, TypeOK, Rows, WorkerStates, Files, KeptInv, Pc, Building, Idle,
       RunGoesStale
  <1>10. DownloadsExist'
    BY DEF IInv, TypeOK, Rows, DownloadsExist, Downloadable, RunGoesStale
  <1> QED BY <1>1, <1>2, <1>3, <1>4, <1>5, <1>6, <1>7, <1>8, <1>9, <1>10 DEF IInv

(* Time only makes a report undownloadable. *)
LEMMA Keeps_FileExpires == ASSUME IInv, NEW i \in Jobs, FileExpires(i) PROVE IInv'
  <1>1. TypeOK'
    <2>1. job' \in [Jobs -> Rows]
      BY DEF IInv, TypeOK, Rows, Statuses, FileExpires
    <2>2. files' \subseteq Files /\ lost' \subseteq Files
      BY DEF IInv, TypeOK, FileExpires
    <2>3. worker' \in [Workers -> WorkerStates]
      BY DEF IInv, TypeOK, FileExpires
    <2>4. local' \in BOOLEAN /\ slow' \in Nat /\ faults' \in Nat
      BY DEF IInv, TypeOK, FileExpires
    <2> QED BY <2>1, <2>2, <2>3, <2>4 DEF TypeOK
  <1>2. ResultOfLatestClaim'
    BY DEF IInv, TypeOK, Rows, ResultOfLatestClaim, FileExpires
  <1>3. ClaimInv'
    BY DEF IInv, TypeOK, Rows, WorkerStates, ClaimInv, Claims, Building, Job, Run, Pc, Idle,
       FileExpires
  <1>4. UniqueInv'
    BY DEF IInv, TypeOK, WorkerStates, UniqueInv, Claims, Building, Pc, Idle, FileExpires
  <1>5. OwnInv'
    BY DEF IInv, TypeOK, Rows, WorkerStates, ClaimInv, OwnInv, Owns, Claims, Building, Job,
       Run, Pc, Idle, FileExpires
  <1>6. DyingInv'
    BY DEF IInv, TypeOK, Rows, WorkerStates, Files, DyingInv, Dying, Owns, Building, Pc,
       Idle, FileExpires
  <1>7. LateInv'
    BY DEF IInv, TypeOK, Rows, WorkerStates, ClaimInv, Claims, LateInv, Mine, Building, Job,
       Run, Pc, Idle, FileExpires
  <1>8. StaleInv'
    BY DEF IInv, TypeOK, Rows, WorkerStates, Files, StaleInv, Idle, FileExpires
  <1>9. KeptInv'
    BY DEF IInv, TypeOK, Rows, WorkerStates, Files, KeptInv, Pc, Building, Idle, FileExpires
  <1>10. DownloadsExist'
    BY DEF IInv, TypeOK, Rows, DownloadsExist, Downloadable, FileExpires
  <1> QED BY <1>1, <1>2, <1>3, <1>4, <1>5, <1>6, <1>7, <1>8, <1>9, <1>10 DEF IInv

(* Time only makes a row old. *)
LEMMA Keeps_RecordAges == ASSUME IInv, NEW i \in Jobs, RecordAges(i) PROVE IInv'
  <1>1. TypeOK'
    <2>1. job' \in [Jobs -> Rows]
      BY DEF IInv, TypeOK, Rows, Statuses, RecordAges
    <2>2. files' \subseteq Files /\ lost' \subseteq Files
      BY DEF IInv, TypeOK, RecordAges
    <2>3. worker' \in [Workers -> WorkerStates]
      BY DEF IInv, TypeOK, RecordAges
    <2>4. local' \in BOOLEAN /\ slow' \in Nat /\ faults' \in Nat
      BY DEF IInv, TypeOK, RecordAges
    <2> QED BY <2>1, <2>2, <2>3, <2>4 DEF TypeOK
  <1>2. ResultOfLatestClaim'
    BY DEF IInv, TypeOK, Rows, ResultOfLatestClaim, RecordAges
  <1>3. ClaimInv'
    BY DEF IInv, TypeOK, Rows, WorkerStates, ClaimInv, Claims, Building, Job, Run, Pc, Idle,
       RecordAges
  <1>4. UniqueInv'
    BY DEF IInv, TypeOK, WorkerStates, UniqueInv, Claims, Building, Pc, Idle, RecordAges
  <1>5. OwnInv'
    BY DEF IInv, TypeOK, Rows, WorkerStates, ClaimInv, OwnInv, Owns, Claims, Building, Job,
       Run, Pc, Idle, RecordAges
  <1>6. DyingInv'
    BY DEF IInv, TypeOK, Rows, WorkerStates, Files, DyingInv, Dying, Owns, Building, Pc,
       Idle, RecordAges
  <1>7. LateInv'
    BY DEF IInv, TypeOK, Rows, WorkerStates, ClaimInv, Claims, LateInv, Mine, Building, Job,
       Run, Pc, Idle, RecordAges
  <1>8. StaleInv'
    BY DEF IInv, TypeOK, Rows, WorkerStates, Files, StaleInv, Idle, RecordAges
  <1>9. KeptInv'
    BY DEF IInv, TypeOK, Rows, WorkerStates, Files, KeptInv, Pc, Building, Idle, RecordAges
  <1>10. DownloadsExist'
    BY DEF IInv, TypeOK, Rows, DownloadsExist, Downloadable, RecordAges
  <1> QED BY <1>1, <1>2, <1>3, <1>4, <1>5, <1>6, <1>7, <1>8, <1>9, <1>10 DEF IInv

(* The inductive invariant: every step keeps it. *)
LEMMA KeepsInvariant == ASSUME IInv, [Next]_vars PROVE IInv'
  <1>1. CASE UNCHANGED vars
    <2>1. UNCHANGED <<job, files, worker, local, slow, faults, lost>>
      BY <1>1 DEF vars
    <2>2. TypeOK' /\ ResultOfLatestClaim' /\ DownloadsExist' /\ ClaimInv' /\ UniqueInv' /\ OwnInv'
      BY <2>1 DEF IInv, TypeOK, ResultOfLatestClaim, DownloadsExist, Downloadable, ClaimInv,
         UniqueInv,
                  OwnInv, Claims, Owns, Pc, Job, Run
    <2>3. DyingInv'
      BY <2>1 DEF IInv, DyingInv, Dying, Owns, Pc
    <2>4. LateInv' /\ StaleInv' /\ KeptInv'
      BY <2>1 DEF IInv, LateInv, StaleInv, KeptInv, Mine, Pc, Job, Run
    <2> QED BY <2>2, <2>3, <2>4 DEF IInv
  <1>2. CASE Request
    BY <1>2, Keeps_create, Keeps_cancel DEF Request
  <1>3. ASSUME NEW x \in Workers, Expiry(x) PROVE IInv'
    BY <1>3, Keeps_expireFiles, Keeps_ExpireDelete, Keeps_ExpireMark DEF Expiry
  <1>4. ASSUME NEW x \in Workers, Build(x) PROVE IInv'
    BY <1>4, Keeps_ReadBatch, Keeps_assertStillRunning, Keeps_Upload, Keeps_Complete,
       Keeps_Discard, Keeps_Fail DEF Build
  <1>5. CASE \E x \in Workers : processPending(x)
    BY <1>3, <1>4, <1>5, Keeps_List, Keeps_Claim, Keeps_TickEnds DEF processPending
  <1>6. CASE Fault
    BY <1>6, Keeps_ProcessFails, Keeps_DiscardFails, Keeps_Crash DEF Fault
  <1>7. CASE \E j \in Jobs : TimePasses(j)
    BY <1>7, Keeps_RunGoesStale, Keeps_FileExpires, Keeps_RecordAges DEF TimePasses
  <1> QED BY <1>1, <1>2, <1>5, <1>6, <1>7 DEF Next

LEMMA InitiallyInvariant == ASSUME Init PROVE IInv
  <1>1. TypeOK
    <2>1. Idle \in WorkerStates /\ NoRow \in Rows
      BY DEF Idle, WorkerStates, Steps, NoRow, Rows
    <2> QED BY <2>1 DEF Init, TypeOK
  <1>2. ResultOfLatestClaim /\ DownloadsExist
    BY DEF Init, NoRow, ResultOfLatestClaim, DownloadsExist, Downloadable
  <1>3. \A w \in Workers : worker[w] = Idle /\ ~Claims(w) /\ ~Owns(w) /\ Dying(w) = {}
    BY DEF Init, Idle, Claims, Owns, Dying, Pc, Building
  <1>4. ClaimInv /\ UniqueInv /\ OwnInv /\ DyingInv
    BY <1>3 DEF ClaimInv, UniqueInv, OwnInv, DyingInv
  <1>5. LateInv /\ StaleInv /\ KeptInv
    BY <1>3 DEF Init, LateInv, StaleInv, KeptInv, Idle, Pc
  <1> QED BY <1>1, <1>2, <1>4, <1>5 DEF IInv

(* Reports: the inductive invariant holds in every reachable state. *)
THEOREM ReportInvariant == Spec => []IInv
  BY InitiallyInvariant, KeepsInvariant, PTL DEF Spec

(* Reports: rows, files and workers keep their types. *)
THEOREM ReportTypeCorrect == Spec => []TypeOK
  <1>1. IInv => TypeOK BY DEF IInv
  <1> QED BY <1>1, ReportInvariant, PTL

(* report.service.ts, process: only the latest claim of a job completes    *)
(* it, however many workers were taken for dead.                           *)
THEOREM LatestClaimCompletes == Spec => []ResultOfLatestClaim
  <1>1. IInv => ResultOfLatestClaim BY DEF IInv
  <1> QED BY <1>1, ReportInvariant, PTL

(* report.service.ts, process: a file outlives its job only if its worker  *)
(* fails between the upload and the update or deletion that must follow.   *)
THEOREM FilesAreAccounted == Spec => []NoFileOutlivesItsJob
  <1>1. IInv => NoFileOutlivesItsJob BY KeptIsAccounted DEF IInv
  <1> QED BY <1>1, ReportInvariant, PTL

(* report.service.ts, getDownloadUrl: the file of a report that can be     *)
(* downloaded exists.                                                      *)
THEOREM DownloadableFilesExist == Spec => []DownloadsExist
  <1>1. IInv => DownloadsExist BY DEF IInv
  <1> QED BY <1>1, ReportInvariant, PTL

(* report.service.ts, assertStillRunning: a build that has lost its claim  *)
(* reads at most one more batch.                                           *)
THEOREM LostClaimsStop == Spec => []LostClaimStops
  <1>1. IInv => LostClaimStops BY DEF IInv, LateInv, LostClaimStops
  <1> QED BY <1>1, ReportInvariant, PTL

(* Every step moves every row along its lifecycle. *)
LEMMA LifecycleStep == ASSUME IInv, Next PROVE StatusStep
  <1>1. UNCHANGED job => StatusStep
    BY DEF StatusStep
  <1>2. CASE Request
    BY <1>2 DEF IInv, TypeOK, Rows, Request, create, cancel, StatusStep, Lifecycle
  <1>3. ASSUME NEW x \in Workers, processPending(x) PROVE StatusStep
    <2>1. CASE ExpireMark(x)
      BY <2>1 DEF IInv, TypeOK, Rows, ExpireMark, StatusStep, Lifecycle
    <2>2. CASE List(x)
      BY <2>2 DEF IInv, TypeOK, Rows, List, purgeRecords, Settled, StatusStep, Lifecycle
    <2>3. CASE Claim(x)
      <3> PICK j \in worker[x].pending :
             IF Claimable(j, worker[x].stale) THEN ClaimAs(x, j) ELSE Skip(x, j)
        BY <2>3 DEF Claim
      <3>1. j \in Jobs
        BY DEF IInv, TypeOK, WorkerStates
      <3>2. CASE ~Claimable(j, worker[x].stale)
        BY <1>1, <3>2 DEF Skip
      <3>3. CASE Claimable(j, worker[x].stale)
        <4>1. job[j].status = "PENDING" \/ (job[j].status = "RUNNING" /\ job[j].due)
          BY <3>1, <3>3 DEF Claimable, IInv, StaleInv, FileOf
        <4>2. job' = [job EXCEPT ![j].status = "RUNNING", ![j].run = @ + 1, ![j].due = FALSE]
          BY <3>3 DEF ClaimAs
        <4> QED BY <3>1, <4>1, <4>2 DEF IInv, TypeOK, Rows, StatusStep, Lifecycle
      <3> QED BY <3>2, <3>3
    <2>4. CASE Complete(x)
      BY <2>4, <1>1 DEF IInv, TypeOK, Rows, Complete, Completed, Mine, StatusStep, Lifecycle
    <2>5. CASE Fail(x)
      BY <2>5 DEF IInv, TypeOK, Rows, Fail, Mine, StatusStep, Lifecycle
    <2>6. CASE expireFiles(x) \/ ExpireDelete(x) \/ TickEnds(x) \/ ReadBatch(x)
               \/ assertStillRunning(x) \/ Upload(x) \/ Discard(x)
      BY <1>1, <2>6 DEF expireFiles, ExpireDelete, TickEnds, ReadBatch, assertStillRunning,
         Upload, Discard
    <2> QED BY <1>3, <2>1, <2>2, <2>3, <2>4, <2>5, <2>6 DEF processPending, Expiry, Build
  <1>4. CASE Fault
    BY <1>1, <1>4 DEF Fault, ProcessFails, DiscardFails, Crash
  <1>5. CASE \E j \in Jobs : TimePasses(j)
    BY <1>5 DEF IInv, TypeOK, Rows, TimePasses, RunGoesStale, FileExpires, RecordAges,
       StatusStep
  <1> QED BY <1>2, <1>3, <1>4, <1>5 DEF Next

(* report.service.ts: a job only moves along PENDING, RUNNING, COMPLETED,  *)
(* EXPIRED; FAILED and CANCELLED are terminal, and no worker takes over a  *)
(* claim before its 15 minutes have passed.                                *)
THEOREM LifecycleIsFollowed == Spec => FollowsLifecycle
  <1>1. IInv /\ [Next]_vars => [StatusStep]_vars
    BY LifecycleStep
  <1> QED BY <1>1, ReportInvariant, PTL DEF Spec, FollowsLifecycle


(***************************************************************************)
(* Attachments                                                             *)
(***************************************************************************)
AttSpec == AttInit /\ [][AttNext]_attVars

AttRows   == [state : {"none", "row", "gone"}, by : Users \cup {"nobody"},
              linked : BOOLEAN, status : {"PENDING", "CLEAN"}]
AttPcs    == {"rest", "resolve", "store", "save", "check", "sign", "unlink", "remove"}
AttCalls  == [pc : AttPcs, by : Users \cup {"nobody"}, att : Uploads \cup {"nothing"}, via : Targets]
Uploading == {"resolve", "store", "save"}

(* A call that is under way is somebody's, about an attachment. *)
AboutInv == \A c \in Calls : At(c) # "rest" => File(c) \in Uploads /\ call[c].by \in Users

(* An upload has its id for itself until the row is written ... *)
UploadInv ==
    \A c \in Calls : At(c) \in Uploading =>
        /\ row[File(c)].state = "none"
        /\ \A d \in Calls \ {c} : At(d) # "rest" => File(d) # File(c)

(* ... and writes it after the file. *)
SavingInv == \A c \in Calls : At(c) = "save" => File(c) \in stored

(* The other calls have seen a row ... *)
SeenInv == \A c \in Calls : At(c) \notin Uploading \cup {"rest"} => row[File(c)].state # "none"

(* ... and one that removes it has tried to delete the file: no upload can *)
(* bring it back.                                                          *)
RemovingInv == \A c \in Calls : At(c) = "remove" => File(c) \notin stored \ stranded

RowInv ==
    \A a \in Uploads : row[a].state = "row" =>
        a \in stored \cup orphaned \/ \E c \in Calls : At(c) = "remove" /\ File(c) = a

FileInv ==
    \A a \in stored : row[a].state = "row" \/ a \in stranded
                      \/ \E c \in Calls : At(c) = "save" /\ File(c) = a

AttInv == AttTypeOK /\ AboutInv /\ UploadInv /\ SavingInv /\ SeenInv /\ RemovingInv /\ RowInv /\ FileInv

LEMMA AgreeFollows == ASSUME AttInv PROVE RowsAndFilesAgree
  BY DEF AttInv, AttTypeOK, RowInv, FileInv, RowsAndFilesAgree, WithRow, Found, InRemove, InSave

LEMMA AttInitInv == ASSUME AttInit PROVE AttInv
  BY UsersAssumption, MishapAssumption
  DEF AttInit, AttInv, AttTypeOK, AboutInv, UploadInv, SavingInv, SeenInv, RemovingInv, RowInv,
      FileInv, NoAttachment, Resting, Targets, At, File, Uploading

(* A call ends or goes on with its file. *)
Moved(c, pc) == call'[c].pc = pc /\ call'[c].att = call[c].att /\ call'[c].by = call[c].by

LEMMA CallTypes ==
  ASSUME AttTypeOK, NEW c \in Calls, NEW pc \in AttPcs, Ends(c) \/ Goes(c, pc)
  PROVE  /\ call' \in [Calls -> AttCalls]
         /\ \A d \in Calls \ {c} : call'[d] = call[d]
         /\ Ends(c) => call'[c].pc = "rest"
         /\ Goes(c, pc) => Moved(c, pc)
  <1>1. call \in [Calls -> AttCalls]
    BY DEF AttTypeOK, AttCalls, AttPcs
  <1>2. Resting \in AttCalls /\ Resting.pc = "rest"
    BY DEF Resting, AttCalls, AttPcs, Targets
  <1>3. CASE Ends(c)
    <2> HIDE DEF Resting, AttCalls
    <2>1. call' \in [Calls -> AttCalls] /\ call'[c] = Resting /\ \A d \in Calls \ {c} : call'[d] = call[d]
      BY <1>1, <1>2, <1>3 DEF Ends
    <2>2. Goes(c, pc) => Moved(c, pc)
      BY <1>1 DEF Goes, AttCalls, Moved
    <2> QED BY <2>1, <2>2, <1>2
  <1>4. CASE Goes(c, pc)
    <2>1. call' \in [Calls -> AttCalls] /\ \A d \in Calls \ {c} : call'[d] = call[d]
      BY <1>1, <1>4 DEF Goes, AttCalls
    <2>2. Moved(c, pc)
      BY <1>1, <1>4 DEF Goes, AttCalls, Moved
    <2>3. Ends(c) => call'[c].pc = "rest"
      BY <1>1, <1>2 DEF Ends
    <2> QED BY <2>1, <2>2, <2>3
  <1> QED BY <1>3, <1>4

(* What a call may do to the calls, the rows and the files. *)
LEMMA CallStep ==
  ASSUME AttInv, AttTypeOK', NEW c \in Calls,
         \A d \in Calls \ {c} : call'[d] = call[d],
         At(c)' # "rest" => File(c)' \in Uploads /\ call'[c].by \in Users,
         (* an upload is new or goes on *)
         At(c)' \in Uploading =>
            /\ row[File(c)'].state = "none"
            /\ \A d \in Calls \ {c} : At(d) # "rest" => File(d) # File(c)',
         At(c)' = "save" => File(c)' \in stored',
         At(c)' \notin Uploading \cup {"rest"} => row'[File(c)'].state # "none",
         At(c)' = "remove" => File(c)' \notin stored' \ stranded',
         (* rows are written and removed, files too, by whoever may *)
         \A a \in Uploads : row'[a] # row[a] =>
            /\ At(c) \in {"save", "remove"} /\ a = File(c) /\ row'[a].state # "none"
            /\ At(c) = "save" => At(c)' \notin Uploading /\ row'[a].state = "row"
            /\ At(c) = "remove" => row'[a].state = "gone",
         \A a \in stored' \ stored : At(c) = "store" /\ At(c)' = "save" /\ a = File(c)' /\ a = File(c),
         \A a \in stored \ stored' : At(c) = "unlink" /\ At(c)' = "remove" /\ a = File(c)' /\ a = File(c),
         stranded \subseteq stranded',
         \A a \in orphaned \ orphaned' : a \in Uploads => row'[a].state # "row",
         (* what it leaves behind when it ends is written down *)
         At(c) = "save" => \/ row'[File(c)].state = "row"
                           \/ File(c) \in stranded',
         At(c) = "remove" => \/ row'[File(c)].state # "row"
                             \/ File(c) \in orphaned'
  PROVE  AttInv'
  <1>1. AboutInv'
    BY DEF AttInv, AboutInv, At, File
  <1>u. \A d \in Calls \ {c} : At(d)' = At(d) /\ File(d)' = File(d)
    BY DEF At, File
  <1>t. row \in [Uploads -> AttRows] /\ row' \in [Uploads -> AttRows] /\ stored \subseteq Uploads
    BY DEF AttInv, AttTypeOK, AttRows
  <1>2. UploadInv'
    <2> SUFFICES ASSUME NEW d \in Calls, At(d)' \in Uploading
                 PROVE  /\ row'[File(d)'].state = "none"
                        /\ \A e \in Calls \ {d} : At(e)' # "rest" => File(e)' # File(d)'
      BY DEF UploadInv
    <2>1. CASE d = c
      <3>1. row'[File(c)'] = row[File(c)']
        <4> SUFFICES ASSUME row'[File(c)'] # row[File(c)'] PROVE FALSE
          OBVIOUS
        <4>1. File(c)' \in Uploads
          BY <2>1 DEF Uploading
        <4>2. At(c) \in {"save", "remove"} /\ File(c)' = File(c)
          BY <4>1
        <4>3. CASE At(c) = "save"
          BY <2>1, <4>1, <4>3
        <4>4. CASE At(c) = "remove"
          BY <2>1, <4>2, <4>4 DEF AttInv, SeenInv, Uploading
        <4> QED BY <4>2, <4>3, <4>4
      <3> QED BY <2>1, <3>1, <1>u
    <2>2. CASE d # c
      <3>1. At(d) \in Uploading /\ row[File(d)].state = "none" /\ File(d) \in Uploads
        BY <2>2, <1>u DEF AttInv, UploadInv, AboutInv, Uploading
      <3>2. row'[File(d)] = row[File(d)]
        BY <2>2, <3>1 DEF AttInv, UploadInv
      <3>3. ASSUME At(c)' # "rest" PROVE File(c)' # File(d)
        <4>1. CASE At(c)' \in Uploading
          BY <2>2, <3>1, <4>1 DEF Uploading
        <4>2. CASE At(c)' \notin Uploading \cup {"rest"}
          BY <3>1, <3>2, <4>2
        <4> QED BY <3>3, <4>1, <4>2
      <3>4. \A e \in Calls \ {c, d} : At(e) # "rest" => File(e) # File(d)
        BY <3>1 DEF AttInv, UploadInv
      <3> QED BY <2>2, <3>1, <3>2, <3>3, <3>4, <1>u
    <2> QED BY <2>1, <2>2
  <1>3. SavingInv'
    <2> SUFFICES ASSUME NEW d \in Calls \ {c}, At(d)' = "save" PROVE File(d)' \in stored'
      BY DEF SavingInv
    <2>1. At(d) = "save" /\ File(d)' = File(d) /\ File(d) \in stored
      BY <1>u DEF AttInv, SavingInv
    <2>2. At(c) # "rest" => File(c) # File(d)
      BY <2>1 DEF AttInv, UploadInv, Uploading
    <2> QED BY <2>1, <2>2
  <1>4. SeenInv'
    <2> SUFFICES ASSUME NEW d \in Calls \ {c}, At(d)' \notin Uploading \cup {"rest"}
                 PROVE  row'[File(d)'].state # "none"
      BY DEF SeenInv
    <2>1. File(d)' = File(d) /\ File(d) \in Uploads /\ row[File(d)].state # "none"
      BY <1>u DEF AttInv, SeenInv, AboutInv
    <2> QED BY <2>1
  <1>5. RemovingInv'
    <2> SUFFICES ASSUME NEW d \in Calls \ {c}, At(d)' = "remove"
                 PROVE  File(d)' \notin stored' \ stranded'
      BY DEF RemovingInv
    <2>1. At(d) = "remove" /\ File(d)' = File(d) /\ File(d) \notin stored \ stranded
      BY <1>u DEF AttInv, RemovingInv
    <2>2. row[File(d)].state # "none"
      BY <2>1 DEF AttInv, SeenInv, Uploading
    <2>3. At(c) = "store" => File(c) # File(d)
      BY <2>2 DEF AttInv, UploadInv, Uploading
    <2> QED BY <2>1, <2>3
  <1>6. RowInv'
    <2> SUFFICES ASSUME NEW a \in Uploads, row'[a].state = "row", a \notin stored', a \notin orphaned'
                 PROVE  \E e \in Calls : At(e)' = "remove" /\ File(e)' = a
      BY DEF RowInv
    <2>1. CASE row[a].state # "row"
      <3>1. At(c) = "save" /\ a = File(c)
        BY <2>1
      <3>2. a \in stored
        BY <3>1 DEF AttInv, SavingInv
      <3> QED BY <3>1, <3>2
    <2>2. CASE row[a].state = "row"
      <3>1. CASE a \in stored
        BY <3>1
      <3>2. CASE a \notin stored
        <4>1. PICK e \in Calls : At(e) = "remove" /\ File(e) = a
          BY <2>2, <3>2 DEF AttInv, RowInv
        <4>2. e # c
          BY <4>1
        <4> QED BY <4>1, <4>2, <1>u
      <3> QED BY <3>1, <3>2
    <2> QED BY <2>1, <2>2
  <1>7. FileInv'
    <2> SUFFICES ASSUME NEW a \in stored', row'[a].state # "row", a \notin stranded'
                 PROVE  \E e \in Calls : At(e)' = "save" /\ File(e)' = a
      BY DEF FileInv
    <2>1. CASE a \notin stored
      BY <2>1
    <2>2. CASE a \in stored
      <3>1. a \in Uploads
        BY <2>2, <1>t
      <3>2. row[a].state # "row"
        <4> SUFFICES ASSUME row[a].state = "row" PROVE FALSE
          OBVIOUS
        <4>1. row'[a] # row[a] /\ a = File(c) /\ At(c) = "remove"
          BY <3>1
        <4> QED BY <4>1, <2>2 DEF AttInv, RemovingInv
      <3>3. PICK e \in Calls : At(e) = "save" /\ File(e) = a
        BY <2>2, <3>2 DEF AttInv, FileInv
      <3>4. e # c
        BY <3>3
      <3> QED BY <3>3, <3>4, <1>u
    <2> QED BY <2>1, <2>2
  <1> QED BY <1>1, <1>2, <1>3, <1>4, <1>5, <1>6, <1>7 DEF AttInv

LEMMA Keeps_ReceiveFile == ASSUME AttInv, NEW c \in Calls, ReceiveFile(c) PROVE AttInv'
  <1> PICK u \in Users, a \in Uploads, via \in Targets :
         /\ row[a].state = "none" /\ \A d \in Calls : File(d) # a
         /\ call' = [call EXCEPT ![c] = [pc |-> "resolve", by |-> u, att |-> a, via |-> via]]
    BY DEF ReceiveFile
  <1>1. call \in [Calls -> AttCalls] /\ At(c) = "rest"
    BY DEF AttInv, AttTypeOK, AttCalls, AttPcs, ReceiveFile
  <1>2. /\ call' \in [Calls -> AttCalls] /\ call'[c].pc = "resolve" /\ call'[c].att = a /\ call'[c].by = u
        /\ \A d \in Calls \ {c} : call'[d] = call[d]
    BY <1>1 DEF AttCalls, AttPcs
  <1>3. UNCHANGED <<row, stored, urls, setting, bounds, history>>
    BY DEF ReceiveFile
  <1>4. AttTypeOK'
    BY <1>2, <1>3 DEF AttInv, AttTypeOK, AttCalls, AttPcs, setting, bounds, history
  <1> QED
    BY <1>1, <1>2, <1>3, <1>4, CallStep DEF At, File, Uploading, history

LEMMA Keeps_Admit ==
  ASSUME AttInv, NEW c \in Calls, NEW next \in {"sign", "unlink"}, Admit(c, next)
  PROVE  AttInv'
  <1> PICK u \in Users, a \in Uploads :
         /\ Found(a)
         /\ call' = [call EXCEPT ![c] = [pc |-> next, by |-> u, att |-> a, via |-> "none"]]
    BY DEF Admit
  <1>1. call \in [Calls -> AttCalls] /\ At(c) = "rest"
    BY DEF AttInv, AttTypeOK, AttCalls, AttPcs, Admit
  <1>2. /\ call' \in [Calls -> AttCalls] /\ call'[c].pc = next /\ call'[c].att = a /\ call'[c].by = u
        /\ \A d \in Calls \ {c} : call'[d] = call[d]
    BY <1>1 DEF AttCalls, AttPcs, Targets
  <1>3. UNCHANGED <<row, stored, urls, setting, bounds, history>>
    BY DEF Admit
  <1>4. AttTypeOK'
    BY <1>2, <1>3 DEF AttInv, AttTypeOK, AttCalls, AttPcs, setting, bounds, history
  <1> QED
    BY <1>1, <1>2, <1>3, <1>4, CallStep DEF At, File, Uploading, Found, history

(* Steps that only move the call on or end it: an upload that is refused   *)
(* or accepted, an answer, a URL that is signed.                           *)
LEMMA Keeps_Answers ==
  ASSUME AttInv, NEW c \in Calls, ResolveAndValidate(c) \/ CheckAfter(c) \/ Sign(c)
  PROVE  AttInv'
  <1>1. At(c) \in {"resolve", "check", "sign"} /\ UNCHANGED <<row, stored, setting, bounds, history>>
    BY DEF ResolveAndValidate, CheckAfter, Sign
  <1>2. Ends(c) \/ (At(c) = "resolve" /\ Goes(c, "store"))
    BY DEF ResolveAndValidate, CheckAfter, Sign
  <1>3. urls' \subseteq Users \X Uploads
    <2>1. CASE urls' = urls
      BY <2>1 DEF AttInv, AttTypeOK
    <2>2. CASE Sign(c) /\ urls' # urls
      <3>1. At(c) = "sign" /\ urls' = urls \cup {<<call[c].by, File(c)>>}
        BY <2>2 DEF Sign, getSignedUrl
      <3>2. call[c].by \in Users /\ File(c) \in Uploads
        BY <3>1 DEF AttInv, AboutInv
      <3> QED BY <3>1, <3>2 DEF AttInv, AttTypeOK
    <2> QED BY <2>1, <2>2 DEF ResolveAndValidate, CheckAfter
  <1>4. /\ call' \in [Calls -> AttCalls]
        /\ \A d \in Calls \ {c} : call'[d] = call[d]
        /\ call'[c].pc = "rest" \/ (At(c) = "resolve" /\ Moved(c, "store"))
    BY <1>2, CallTypes DEF AttInv, AttPcs
  <1>5. AttTypeOK'
    BY <1>1, <1>3, <1>4 DEF AttInv, AttTypeOK, AttCalls, AttPcs, setting, bounds, history
  <1> QED
    BY <1>1, <1>4, <1>5, CallStep DEF At, File, Uploading, Moved, history, AttInv, AboutInv, UploadInv

LEMMA Keeps_Store == ASSUME AttInv, NEW c \in Calls, Store(c) PROVE AttInv'
  <1>1. /\ At(c) = "store" /\ stored' = stored \cup {File(c)} /\ Goes(c, "save")
        /\ UNCHANGED <<row, urls, setting, bounds, history>>
    BY DEF Store, upload
  <1>2. /\ call' \in [Calls -> AttCalls] /\ Moved(c, "save")
        /\ \A d \in Calls \ {c} : call'[d] = call[d]
    BY <1>1, CallTypes DEF AttInv, AttPcs
  <1>3. File(c) \in Uploads
    BY <1>1 DEF AttInv, AboutInv
  <1>4. AttTypeOK'
    BY <1>1, <1>2, <1>3 DEF AttInv, AttTypeOK, AttCalls, AttPcs, setting, bounds, history
  <1> QED
    BY <1>1, <1>2, <1>3, <1>4, CallStep
    DEF At, File, Uploading, Moved, history, AttInv, AboutInv, UploadInv

LEMMA Keeps_SaveRow == ASSUME AttInv, NEW c \in Calls, SaveRow(c) PROVE AttInv'
  <1>1. At(c) = "save" /\ UNCHANGED <<stored, urls, setting, bounds, orphaned>>
    BY DEF SaveRow
  <1>2. File(c) \in Uploads /\ call[c].by \in Users /\ row \in [Uploads -> AttRows]
    BY <1>1 DEF AttInv, AboutInv, AttTypeOK, AttRows
  <1>3. CASE ~resolveTicketId(c)
    <2>1. Ends(c) /\ stranded' = stranded \cup {File(c)} /\ row' = row
      BY <1>3 DEF SaveRow
    <2>2. /\ call' \in [Calls -> AttCalls] /\ call'[c].pc = "rest"
          /\ \A d \in Calls \ {c} : call'[d] = call[d]
      BY <2>1, CallTypes DEF AttInv, AttPcs
    <2>3. AttTypeOK'
      BY <1>1, <1>2, <2>1, <2>2 DEF AttInv, AttTypeOK, AttCalls, AttPcs, setting, bounds
    <2> QED BY <1>1, <2>1, <2>2, <2>3, CallStep DEF At, File, Uploading
  <1>4. CASE resolveTicketId(c)
    <2> DEFINE new == [state |-> "row", by |-> call[c].by, linked |-> call[c].via # "none",
                       status |-> IF Scanner THEN "CLEAN" ELSE "PENDING"]
    <2>1. row' = [row EXCEPT ![File(c)] = new] /\ stranded' = stranded /\ (Ends(c) \/ Goes(c, "check"))
      BY <1>4 DEF SaveRow
    <2>2. new \in AttRows /\ new.state = "row"
      BY <1>2 DEF AttRows
    <2> HIDE DEF new
    <2>3. /\ row' \in [Uploads -> AttRows] /\ row'[File(c)] = new
          /\ \A a \in Uploads \ {File(c)} : row'[a] = row[a]
      BY <1>2, <2>1, <2>2
    <2>4. /\ call' \in [Calls -> AttCalls]
          /\ call'[c].pc = "rest" \/ Moved(c, "check")
          /\ \A d \in Calls \ {c} : call'[d] = call[d]
      BY <2>1, CallTypes DEF AttInv, AttPcs
    <2>5. AttTypeOK'
      BY <1>1, <2>1, <2>3, <2>4 DEF AttInv, AttTypeOK, AttRows, AttCalls, AttPcs, setting, bounds
    <2> QED
      BY <1>1, <1>2, <2>1, <2>2, <2>3, <2>4, <2>5, CallStep DEF At, File, Uploading, Moved
  <1> QED BY <1>3, <1>4

LEMMA Keeps_Unlink == ASSUME AttInv, NEW c \in Calls, Unlink(c) \/ UnlinkFails(c) PROVE AttInv'
  <1>1. /\ At(c) = "unlink" /\ UNCHANGED <<row, urls, setting, moves, orphaned>>
        /\ mishaps' \in Nat
    BY DEF Unlink, UnlinkFails, AttInv, AttTypeOK, bounds, history
  <1>2. File(c) \in Uploads /\ call[c].by \in Users /\ row[File(c)].state # "none"
    BY <1>1 DEF AttInv, AboutInv, SeenInv, Uploading
  <1>3. \/ Ends(c) /\ UNCHANGED <<stored, stranded>>
        \/ Goes(c, "remove") /\ stored' = stored \ {File(c)} /\ stranded' = stranded
        \/ Goes(c, "remove") /\ stored' = stored /\ stranded' = stranded \cup {File(c)}
    BY DEF Unlink, UnlinkFails, history
  <1>4. /\ call' \in [Calls -> AttCalls]
        /\ \A d \in Calls \ {c} : call'[d] = call[d]
        /\ Ends(c) => call'[c].pc = "rest"
        /\ Goes(c, "remove") => Moved(c, "remove")
    BY <1>3, CallTypes DEF AttInv, AttPcs
  <1>5. AttTypeOK'
    BY <1>1, <1>2, <1>3, <1>4 DEF AttInv, AttTypeOK, AttCalls, AttPcs, setting
  <1>6. /\ At(c)' = "rest" \/ (At(c)' = "remove" /\ File(c)' = File(c) /\ call'[c].by = call[c].by)
        /\ At(c)' = "rest" => UNCHANGED <<stored, stranded>>
    BY <1>3, <1>4 DEF At, File, Moved
  <1>7. CASE At(c)' = "rest"
    BY <1>1, <1>4, <1>5, <1>6, <1>7, CallStep DEF Uploading
  <1>8. CASE At(c)' = "remove"
    <2>1. /\ stored' \subseteq stored /\ stranded \subseteq stranded'
          /\ \A a \in stored \ stored' : a = File(c)
          /\ File(c) \notin stored' \ stranded'
      BY <1>3, <1>4, <1>8 DEF At
    <2> QED BY <1>1, <1>2, <1>4, <1>5, <1>6, <1>8, <2>1, CallStep DEF Uploading
  <1> QED BY <1>6, <1>7, <1>8

LEMMA Keeps_RemoveRow == ASSUME AttInv, NEW c \in Calls, RemoveRow(c) PROVE AttInv'
  <1> DEFINE gone == [NoAttachment EXCEPT !.state = "gone"]
  <1>1. /\ At(c) = "remove" /\ orphaned' = orphaned \ {File(c)} /\ Ends(c)
        /\ UNCHANGED <<stored, urls, setting, bounds, stranded>>
        /\ row' = IF Found(File(c)) THEN [row EXCEPT ![File(c)] = gone] ELSE row
    BY DEF RemoveRow
  <1>2. File(c) \in Uploads /\ row \in [Uploads -> AttRows]
    BY <1>1 DEF AttInv, AboutInv, AttTypeOK, AttRows
  <1>3. gone \in AttRows /\ gone.state = "gone"
    BY DEF NoAttachment, AttRows
  <1> HIDE DEF gone
  <1>4. /\ row' \in [Uploads -> AttRows]
        /\ \A a \in Uploads \ {File(c)} : row'[a] = row[a]
        /\ row'[File(c)] # row[File(c)] => row'[File(c)] = gone
        /\ row'[File(c)].state # "row"
    BY <1>1, <1>2, <1>3 DEF Found
  <1>5. /\ call' \in [Calls -> AttCalls] /\ call'[c].pc = "rest"
        /\ \A d \in Calls \ {c} : call'[d] = call[d]
    BY <1>1, CallTypes DEF AttInv, AttPcs
  <1>6. AttTypeOK'
    BY <1>1, <1>4, <1>5 DEF AttInv, AttTypeOK, AttRows, AttCalls, AttPcs, setting, bounds
  <1> QED
    BY <1>1, <1>2, <1>3, <1>4, <1>5, <1>6, CallStep DEF At, File, Uploading

LEMMA Keeps_CallDies == ASSUME AttInv, NEW c \in Calls, CallDies(c) PROVE AttInv'
  <1>1. /\ At(c) # "rest" /\ Ends(c) /\ mishaps' \in Nat
        /\ UNCHANGED <<row, stored, urls, setting, moves>>
        /\ stranded' = IF At(c) = "save" THEN stranded \cup {File(c)} ELSE stranded
        /\ orphaned' = IF At(c) = "remove" /\ Found(File(c)) THEN orphaned \cup {File(c)} ELSE orphaned
    BY DEF CallDies, AttInv, AttTypeOK
  <1>2. File(c) \in Uploads
    BY <1>1 DEF AttInv, AboutInv
  <1>3. /\ call' \in [Calls -> AttCalls] /\ call'[c].pc = "rest"
        /\ \A d \in Calls \ {c} : call'[d] = call[d]
    BY <1>1, CallTypes DEF AttInv, AttPcs
  <1>4. AttTypeOK'
    BY <1>1, <1>2, <1>3 DEF AttInv, AttTypeOK, AttCalls, AttPcs, setting
  <1> QED
    BY <1>1, <1>3, <1>4, CallStep DEF At, File, Uploading, Found

(* Whatever leaves calls, rows and files alone. *)
LEMMA Keeps_Surroundings ==
  ASSUME AttInv, AttTypeOK', UNCHANGED <<row, stored, call, history>>
  PROVE  AttInv'
  BY DEF AttInv, AboutInv, UploadInv, SavingInv, SeenInv, RemovingInv, RowInv, FileInv, At, File, history

LEMMA AttNextInv == ASSUME AttInv, [AttNext]_attVars PROVE AttInv'
  <1>1. ASSUME NEW c \in Calls,
               \/ ReceiveFile(c) \/ AskForUrl(c) \/ AskToDelete(c) \/ Proceed(c)
               \/ UnlinkFails(c) \/ CallDies(c)
        PROVE  AttInv'
    BY <1>1, Keeps_ReceiveFile, Keeps_Admit, Keeps_Answers, Keeps_Store, Keeps_SaveRow,
       Keeps_Unlink, Keeps_RemoveRow, Keeps_CallDies DEF AskForUrl, AskToDelete, Proceed
  <1>2. ASSUME NEW u \in Users, NEW a \in Uploads, UrlLapses(u, a) PROVE AttInv'
    <2>1. AttTypeOK' /\ UNCHANGED <<row, stored, call, history>>
      BY <1>2 DEF UrlLapses, AttInv, AttTypeOK, setting, bounds, history
    <2> QED BY <2>1, Keeps_Surroundings
  <1>3. CASE Reassign \/ DeleteComment \/ Redeploy
    <2>1. UNCHANGED <<row, stored, call, urls, mishaps, history>>
      BY <1>3 DEF Reassign, DeleteComment, Redeploy, bounds
    <2>2. assigned' \in BOOLEAN /\ comment' \in BOOLEAN /\ required' \in BOOLEAN
      BY <1>3, Zenon DEF Reassign, DeleteComment, Redeploy, AttInv, AttTypeOK
    <2>3. moves' \in Nat
      BY <1>3 DEF Reassign, DeleteComment, Redeploy, AttInv, AttTypeOK, bounds
    <2>4. AttTypeOK'
      BY <2>1, <2>2, <2>3 DEF AttInv, AttTypeOK, history
    <2> QED BY <2>1, <2>4, Keeps_Surroundings
  <1>4. CASE UNCHANGED attVars
    <2>1. UNCHANGED <<row, stored, call, urls, setting, bounds, history>>
      BY <1>4 DEF attVars
    <2>2. AttTypeOK'
      BY <2>1 DEF AttInv, AttTypeOK, setting, bounds, history
    <2> QED BY <2>1, <2>2, Keeps_Surroundings
  <1> QED BY <1>1, <1>2, <1>3, <1>4 DEF AttNext

(* Uploads, reads and deletions of attachments keep the types and the      *)
(* bookkeeping of AttInv, however their steps interleave, fail or die.     *)
THEOREM AttachmentInvariant == AttSpec => []AttInv
<1>1. AttInit => AttInv
  BY AttInitInv
<1>2. AttInv /\ [AttNext]_attVars => AttInv'
  BY AttNextInv
<1> QED BY <1>1, <1>2, PTL DEF AttSpec

(* Every variable of Attachments keeps its type. *)
THEOREM AttachmentTypeCorrect == AttSpec => []AttTypeOK
<1>1. AttInv => AttTypeOK
  BY DEF AttInv
<1> QED BY <1>1, AttachmentInvariant, PTL

(* deleteAttachment and uploadAttachment leave rows without files and      *)
(* files without rows only where a call is between its two steps, or has   *)
(* failed there.                                                           *)
THEOREM RowsHaveTheirFiles == AttSpec => []RowsAndFilesAgree
<1>1. AttInv => RowsAndFilesAgree
  BY AgreeFollows
<1> QED BY <1>1, AttachmentInvariant, PTL
============================================================================
