-------------------------- MODULE BackgroundProofs --------------------------
(***************************************************************************)
(* Proofs about the background work: the AI jobs of a tenant, for any      *)
(* number of jobs, flags, edits and failures, and the processes that run   *)
(* it with their scheduler, for any number of processes, any time to live  *)
(* of a lock and any length of the clock.                                  *)
(***************************************************************************)
EXTENDS Lifecycle, AiJobs, FiniteSetTheorems, TLAPS

(***************************************************************************)
(* AI jobs                                                                 *)
(***************************************************************************)
JobPcs  == {"none", "queued", "flag", "ask", "act", "reread", "read", "write", "done"}
JobRows == [type : JobTypes \cup {"none"}, long : BOOLEAN, copy : RowType, pc : JobPcs]
Edits   == [subject : Subjects, copy : RowType]

SubjectAt(j) == SubjectOf(job[j].type)

(* Updating the tenant has never undone a flag. *)
FlagInv == flags = wish

(* A job that runs while the tenant wants escalation is known to have, and *)
(* one that has passed the opt-in as well.                                 *)
AgreeInv == \A j \in Jobs : Running(j) /\ isAutoEscalationEnabled(wish) => j \in agreed
OptedInv ==
    \A j \in Jobs : job[j].pc \in {"reread", "read", "write"} /\ job[j].type # "risk-score" =>
        j \in agreed

(* A job that has acted is over: it is not taken again. *)
DoneInv == \A j \in acted : job[j].pc = "done"

(* What a job is about to write is the row as agents left it. *)
CopyInv ==
    \A j \in Jobs : job[j].pc = "write" /\ SubjectAt(j) \notin overlapped =>
        job[j].copy.edit = edited[SubjectAt(j)]

(* A result for every attempt at most. *)
Unanswered == {"none", "queued", "flag", "ask"}
AttemptInv ==
    \A j \in Jobs : /\ result[j] <= mishaps + 1
                    /\ job[j].pc \in Unanswered => result[j] <= mishaps

(* The bound on the agents' writes, with the one under way. *)
EditInv ==
    /\ edited["ticket"] + edited["customer"] <= MaxEdits
    /\ edit # NoCopy => edited["ticket"] + edited["customer"] < MaxEdits

AiInv == /\ AiTypeOK /\ FlagInv /\ AgreeInv /\ OptedInv /\ DoneInv /\ OptInOnly
         /\ CopyInv /\ EditsSurvive /\ AttemptInv /\ EditInv

LEMMA UntouchedRow == Untouched \in RowType
  BY AiAssumption DEF Untouched, RowType

LEMMA NoJobRow == NoJob \in JobRows /\ NoJob.pc = "none" /\ NoJob.type = "none"
  BY UntouchedRow DEF NoJob, JobRows, JobPcs

LEMMA AiInitInv == ASSUME AiInit PROVE AiInv
  <1>1. \A j \in Jobs : job[j].pc = "none"
    BY NoJobRow DEF AiInit
  <1>2. AiTypeOK
    <2>1. job \in [Jobs -> JobRows]
      BY NoJobRow DEF AiInit
    <2>2. row \in [Subjects -> RowType]
      BY UntouchedRow DEF AiInit
    <2> QED BY <2>1, <2>2, AiAssumption DEF AiInit, AiTypeOK, JobRows, JobPcs
  <1>3. FlagInv /\ AgreeInv /\ OptedInv /\ DoneInv /\ OptInOnly /\ CopyInv
    BY <1>1 DEF AiInit, FlagInv, AgreeInv, OptedInv, DoneInv, OptInOnly, CopyInv, Running
  <1>4. EditsSurvive
    BY DEF AiInit, EditsSurvive, Untouched
  <1>5. AttemptInv /\ EditInv
    BY AiAssumption DEF AiInit, AttemptInv, EditInv, Subjects
  <1> QED BY <1>2, <1>3, <1>4, <1>5 DEF AiInv

(* What a step of job j may do. *)
LEMMA JobStep ==
  ASSUME AiInv, AiTypeOK', NEW j \in Jobs,
         \A i \in Jobs \ {j} : job'[i] = job[i] /\ result'[i] = result[i],
         UNCHANGED <<flags, wish, edit, edited, overlapped>>,
         agreed \ {j} \subseteq agreed',
         acted' \subseteq acted \cup {j},
         j \in acted' => job'[j].pc = "done" /\ j \in agreed',
         Running(j)' /\ isAutoEscalationEnabled(wish) => j \in agreed',
         job'[j].pc \in {"reread", "read", "write"} /\ job'[j].type # "risk-score" => j \in agreed',
         job'[j].pc = "write" /\ SubjectOf(job'[j].type) \notin overlapped =>
            job'[j].copy.edit = edited[SubjectOf(job'[j].type)],
         mishaps <= mishaps',
         result'[j] <= mishaps' + 1,
         job'[j].pc \in Unanswered => result'[j] <= mishaps',
         \A s \in Subjects \ overlapped : row'[s].edit \in {row[s].edit, edited[s]}
  PROVE  AiInv'
  <1>1. FlagInv'
    BY DEF AiInv, FlagInv
  <1>2. AgreeInv'
    <2> HIDE DEF isAutoEscalationEnabled
    <2>1. isAutoEscalationEnabled(wish)' <=> isAutoEscalationEnabled(wish)
      BY DEF isAutoEscalationEnabled, isEnabled
    <2> QED BY <2>1 DEF AiInv, AgreeInv, Running
  <1>3. OptedInv'
    BY DEF AiInv, OptedInv
  <1>4. DoneInv' /\ OptInOnly'
    BY DEF AiInv, DoneInv, OptInOnly, AiTypeOK
  <1>5. CopyInv'
    BY DEF AiInv, CopyInv, SubjectAt
  <1>6. EditsSurvive'
    BY DEF AiInv, EditsSurvive
  <1>7. AttemptInv'
    <2>1. \A i \in Jobs : result[i] \in Int /\ result'[i] \in Int /\ mishaps \in Int /\ mishaps' \in Int
      BY DEF AiInv, AiTypeOK
    <2> QED BY <2>1 DEF AiInv, AttemptInv
  <1>8. EditInv'
    BY DEF AiInv, EditInv
  <1> QED BY <1>1, <1>2, <1>3, <1>4, <1>5, <1>6, <1>7, <1>8 DEF AiInv

(* The record of a job after a step. *)
Becomes(j, type, pc) ==
    /\ job' \in [Jobs -> JobRows]
    /\ \A i \in Jobs \ {j} : job'[i] = job[i]
    /\ job'[j].type = type /\ job'[j].pc = pc

LEMMA JobTable == ASSUME AiTypeOK PROVE job \in [Jobs -> JobRows]
  BY DEF AiTypeOK, JobRows, JobPcs

LEMMA FinishedRow ==
  ASSUME AiTypeOK, NEW j \in Jobs, Finished(j)
  PROVE  Becomes(j, job[j].type, "done")
  <1> DEFINE r == [NoJob EXCEPT !.type = job[j].type, !.pc = "done"]
  <1>1. r \in JobRows /\ r.type = job[j].type /\ r.pc = "done"
    BY NoJobRow, JobTable DEF JobRows, JobPcs
  <1>2. job' = [job EXCEPT ![j] = r]
    BY DEF Finished
  <1> HIDE DEF r
  <1> QED BY <1>1, <1>2, JobTable DEF Becomes

LEMMA ToRow ==
  ASSUME AiTypeOK, NEW j \in Jobs, NEW pc \in JobPcs, To(j, pc)
  PROVE  Becomes(j, job[j].type, pc) /\ job'[j].copy = job[j].copy
  BY JobTable DEF To, JobRows, Becomes

(* The steps of a job that leave the tables alone: it goes on or is over,  *)
(* and stores its result.                                                  *)
LEMMA QuietStep ==
  ASSUME AiInv, NEW j \in Jobs, NEW pc \in JobPcs, Becomes(j, job[j].type, pc),
         UNCHANGED <<Rest, mishaps>>, Running(j),
         pc = "done" \/ pc \notin Unanswered \/ (pc = "ask" /\ job[j].pc = "flag"),
         pc \in {"reread", "read", "write"} /\ job[j].type # "risk-score" => j \in agreed,
         pc = "write" => job'[j].copy.edit = row[SubjectAt(j)].edit,
         result' = result \/ (job[j].pc = "ask" /\ pc # "ask" /\ result' = [result EXCEPT ![j] = @ + 1])
  PROVE  AiInv'
  <1>1. UNCHANGED <<flags, update, row, edit, accepted, changes, wish, agreed, acted, edited, overlapped>>
    BY DEF Rest
  <1>2. result \in [Jobs -> 0..(MaxMishaps + 1)] /\ mishaps \in 0..MaxMishaps /\ MaxMishaps \in Nat
    BY AiAssumption DEF AiInv, AiTypeOK
  <1>3. /\ \A i \in Jobs \ {j} : result'[i] = result[i]
        /\ result' \in [Jobs -> 0..(MaxMishaps + 1)]
        /\ result'[j] <= mishaps + 1
        /\ pc \in Unanswered => result'[j] <= mishaps
    <2>1. CASE result' = result
      BY <1>2, <2>1 DEF AiInv, AttemptInv, Unanswered
    <2>2. CASE job[j].pc = "ask" /\ pc # "ask" /\ result' = [result EXCEPT ![j] = @ + 1]
      <3>1. result[j] <= mishaps
        BY <2>2 DEF AiInv, AttemptInv, Unanswered
      <3>2. result[j] + 1 \in 0..(MaxMishaps + 1)
        BY <1>2, <3>1
      <3>3. pc \notin Unanswered
        BY <2>2 DEF Unanswered
      <3> QED BY <1>2, <2>2, <3>1, <3>2, <3>3
    <2> QED BY <2>1, <2>2
  <1>4. AiTypeOK'
    BY <1>1, <1>3 DEF AiInv, AiTypeOK, Becomes, JobRows, JobPcs
  <1>5. j \notin acted
    BY DEF AiInv, DoneInv, Running
  <1>6. isAutoEscalationEnabled(wish) => j \in agreed
    BY DEF AiInv, AgreeInv
  <1>7. pc = "write" /\ SubjectAt(j) \notin overlapped => job'[j].copy.edit = edited[SubjectAt(j)]
    BY DEF AiInv, EditsSurvive, SubjectAt, SubjectOf, Subjects
  <1> QED
    BY <1>1, <1>2, <1>3, <1>4, <1>5, <1>6, <1>7, JobStep DEF Becomes, SubjectAt

LEMMA Keeps_Enqueue ==
  ASSUME AiInv, NEW j \in Jobs, NEW type \in JobTypes, NEW long \in BOOLEAN, Enqueue(j, type, long)
  PROVE  AiInv'
  <1> DEFINE r == [NoJob EXCEPT !.type = type, !.long = long, !.pc = "queued"]
  <1>1. r \in JobRows /\ r.type = type /\ r.pc = "queued"
    BY NoJobRow DEF JobRows, JobPcs
  <1>2. job' = [job EXCEPT ![j] = r] /\ job[j].pc = "none"
    BY NoJobRow DEF Enqueue
  <1> HIDE DEF r
  <1>3. Becomes(j, type, "queued")
    BY <1>1, <1>2, JobTable DEF Becomes, AiInv
  <1>4. UNCHANGED <<flags, update, row, edit, result, accepted, changes, mishaps, wish, agreed, acted,
                    edited, overlapped>>
    BY DEF Enqueue
  <1>5. AiTypeOK'
    BY <1>3, <1>4 DEF AiInv, AiTypeOK, Becomes, JobRows, JobPcs
  <1>6. j \notin acted /\ result[j] <= mishaps /\ mishaps \in Nat /\ result[j] \in Nat
    BY <1>2 DEF AiInv, DoneInv, AttemptInv, Unanswered, AiTypeOK
  <1> QED BY <1>3, <1>4, <1>5, <1>6, JobStep DEF Becomes, Running

LEMMA Keeps_Start == ASSUME AiInv, NEW j \in Jobs, Start(j) PROVE AiInv'
  <1>1. /\ job[j].pc = "queued"
        /\ job' = [job EXCEPT ![j].pc = "flag",
                     ![j].copy = IF job[j].type \in {"categorize", "urgency"} THEN row["ticket"] ELSE @]
        /\ UNCHANGED <<flags, update, row, edit, result, accepted, changes, mishaps, wish, acted, edited,
                       overlapped>>
    BY DEF Start
  <1>2. agreed' \subseteq agreed \cup {j} /\ agreed \ {j} \subseteq agreed'
    BY DEF Start
  <1>3. isAutoEscalationEnabled(wish) => j \in agreed'
    BY DEF Start
  <1>4. Becomes(j, job[j].type, "flag")
    <2>1. row["ticket"] \in RowType
      BY DEF AiInv, AiTypeOK, Subjects
    <2> QED BY <1>1, <2>1, JobTable DEF AiInv, Becomes, JobRows, JobPcs
  <1>5. AiTypeOK'
    BY <1>1, <1>2, <1>4 DEF AiInv, AiTypeOK, Becomes, JobRows, JobPcs
  <1>6. j \notin acted /\ result[j] <= mishaps /\ mishaps \in Nat /\ result[j] \in Nat
    BY <1>1 DEF AiInv, DoneInv, AttemptInv, Unanswered, AiTypeOK
  <1> QED BY <1>1, <1>2, <1>3, <1>4, <1>5, <1>6, JobStep DEF Becomes

(* The steps that only decide how a job goes on. *)
LEMMA Keeps_Decision ==
  ASSUME AiInv, NEW j \in Jobs,
         \/ CheckFeature(j) \/ UnknownCategory(j) \/ CheckUrgency(j)
         \/ job[j].type = "sentiment" /\ (CheckSentiment(j) \/ Reread(j))
  PROVE  AiInv'
  <1>1. UNCHANGED <<Rest, mishaps>> /\ result' = result
    BY DEF CheckFeature, UnknownCategory, CheckSentiment, CheckUrgency, Reread
  <1>2. Running(j)
    BY DEF CheckFeature, UnknownCategory, CheckSentiment, CheckUrgency, Reread, Running
  <1>3. CASE Finished(j)
    <2>1. Becomes(j, job[j].type, "done")
      BY <1>3, FinishedRow DEF AiInv
    <2> QED BY <1>1, <1>2, <2>1, QuietStep DEF JobPcs
  <1>4. CASE ~Finished(j)
    <2>1. \/ job[j].pc = "flag" /\ To(j, "ask")
          \/ isAutoEscalationEnabled(flags) /\ To(j, "reread")
          \/ isAutoEscalationEnabled(flags) /\ To(j, "read")
          \/ job[j].pc = "reread" /\ job[j].type = "sentiment" /\ To(j, "read")
      BY <1>4 DEF CheckFeature, UnknownCategory, CheckSentiment, CheckUrgency, Reread
    <2>2. isAutoEscalationEnabled(flags) => j \in agreed
      BY <1>2 DEF AiInv, FlagInv, AgreeInv
    <2>3. job[j].pc = "reread" /\ job[j].type = "sentiment" => j \in agreed
      BY DEF AiInv, OptedInv
    <2>4. CASE job[j].pc = "flag" /\ To(j, "ask")
      <3>1. Becomes(j, job[j].type, "ask")
        BY <2>4, ToRow DEF AiInv, JobPcs
      <3> QED BY <1>1, <1>2, <2>4, <3>1, QuietStep DEF JobPcs
    <2>5. ASSUME NEW pc \in {"reread", "read"}, To(j, pc), j \in agreed PROVE AiInv'
      <3>1. Becomes(j, job[j].type, pc) /\ pc \in JobPcs
        BY <2>5, ToRow DEF AiInv, JobPcs
      <3> QED BY <1>1, <1>2, <2>5, <3>1, QuietStep DEF Unanswered
    <2> QED BY <2>1, <2>2, <2>3, <2>4, <2>5
  <1> QED BY <1>3, <1>4

LEMMA Keeps_Answered ==
  ASSUME AiInv, NEW j \in Jobs, NEW answers, NEW next \in {"act", "done", "read"},
         next = "read" => job[j].type = "risk-score", Answered(j, answers, next)
  PROVE  AiInv'
  <1>1. /\ job[j].pc = "ask" /\ result' = [result EXCEPT ![j] = @ + 1] /\ UNCHANGED <<Rest, mishaps>>
        /\ To(j, next) \/ Finished(j)
    BY DEF Answered
  <1>2. PICK pc \in {"act", "done", "read"} : Becomes(j, job[j].type, pc) /\ pc \in {next, "done"}
    BY <1>1, ToRow, FinishedRow DEF AiInv, JobPcs
  <1> QED BY <1>1, <1>2, QuietStep DEF JobPcs, Running, Unanswered

LEMMA Keeps_ReadToWrite == ASSUME AiInv, NEW j \in Jobs, ReadToWrite(j) PROVE AiInv'
  <1>1. job[j].pc = "read" /\ UNCHANGED <<Rest, mishaps>> /\ result' = result
    BY DEF ReadToWrite
  <1>2. CASE Finished(j)
    <2>1. Becomes(j, job[j].type, "done")
      BY <1>2, FinishedRow DEF AiInv
    <2> QED BY <1>1, <2>1, QuietStep DEF JobPcs, Running
  <1>3. CASE ~Finished(j)
    <2> DEFINE now0 == row[SubjectAt(j)]
    <2>1. job' = [job EXCEPT ![j].pc = "write", ![j].copy = now0]
      BY <1>3 DEF ReadToWrite, SubjectAt
    <2>2. now0 \in RowType
      BY DEF AiInv, AiTypeOK, SubjectAt, SubjectOf, Subjects
    <2> HIDE DEF now0
    <2>3. Becomes(j, job[j].type, "write") /\ job'[j].copy = now0
      BY <2>1, <2>2, JobTable DEF AiInv, Becomes, JobRows, JobPcs
    <2>4. job[j].type # "risk-score" => j \in agreed
      BY <1>1 DEF AiInv, OptedInv
    <2> QED BY <1>1, <2>3, <2>4, QuietStep DEF now0, JobPcs, Running, Unanswered
  <1> QED BY <1>2, <1>3

(* The steps that write a row: one column of it, or a copy of it whole. *)
LEMMA WriteStep ==
  ASSUME AiInv, NEW j \in Jobs, Running(j), job[j].pc \notin Unanswered, Finished(j),
         UNCHANGED <<flags, update, edit, result, accepted, changes, mishaps, wish, agreed, edited,
                     overlapped>>,
         acted' \subseteq acted \cup {j},
         acted' # acted => j \in agreed,
         row' \in [Subjects -> RowType],
         \A s \in Subjects \ overlapped : row'[s].edit \in {row[s].edit, edited[s]}
  PROVE  AiInv'
  <1>1. Becomes(j, job[j].type, "done")
    BY FinishedRow DEF AiInv
  <1>2. AiTypeOK'
    BY <1>1 DEF AiInv, AiTypeOK, Becomes, JobRows, JobPcs
  <1>3. mishaps \in Nat /\ result[j] <= mishaps + 1 /\ j \notin acted
    BY DEF AiInv, AiTypeOK, AttemptInv, DoneInv, Running
  <1>4. ~Running(j)' /\ job'[j].pc \notin Unanswered
    BY <1>1 DEF Becomes, Running, Unanswered
  <1> QED BY <1>1, <1>2, <1>3, <1>4, JobStep DEF Becomes

LEMMA Keeps_WriteCategory == ASSUME AiInv, NEW j \in Jobs, WriteCategory(j) PROVE AiInv'
  <1>1. /\ job[j].pc = "act" /\ Finished(j) /\ row' = [row EXCEPT !["ticket"].label = "new"]
        /\ UNCHANGED <<flags, update, edit, result, accepted, changes, mishaps, wish, agreed, acted,
                       edited, overlapped>>
    BY DEF WriteCategory
  <1>2. /\ row' \in [Subjects -> RowType]
        /\ \A s \in Subjects : row'[s].edit = row[s].edit
    BY <1>1 DEF AiInv, AiTypeOK, RowType, Subjects
  <1> QED BY <1>1, <1>2, WriteStep DEF Running, Unanswered

(* The copy of a row that a job holds to write. *)
LEMMA CopyToWrite ==
  ASSUME AiInv, NEW j \in Jobs, job[j].pc = "write"
  PROVE  /\ job[j].copy \in RowType
         /\ SubjectAt(j) \notin overlapped => job[j].copy.edit = edited[SubjectAt(j)]
  BY JobTable DEF AiInv, CopyInv, JobRows

LEMMA Keeps_EscalateTicket ==
  ASSUME AiInv, NEW j \in Jobs, job[j].type \in {"sentiment", "urgency"}, EscalateTicket(j)
  PROVE  AiInv'
  <1> DEFINE new == [job[j].copy EXCEPT !.escalated = TRUE]
  <1>1. /\ job[j].pc = "write" /\ Finished(j) /\ row' = [row EXCEPT !["ticket"] = new]
        /\ acted' = acted \cup {j}
        /\ UNCHANGED <<flags, update, edit, result, accepted, changes, mishaps, wish, agreed, edited,
                       overlapped>>
    BY DEF EscalateTicket
  <1>2. new \in RowType /\ new.edit = job[j].copy.edit
    BY <1>1, CopyToWrite DEF RowType
  <1>3. "ticket" \notin overlapped => new.edit = edited["ticket"]
    BY <1>1, <1>2, CopyToWrite DEF SubjectAt, SubjectOf
  <1> HIDE DEF new
  <1>4. /\ row' \in [Subjects -> RowType] /\ row'["ticket"] = new
        /\ \A s \in Subjects \ {"ticket"} : row'[s] = row[s]
    BY <1>1, <1>2 DEF AiInv, AiTypeOK, Subjects
  <1>5. j \in agreed
    BY <1>1 DEF AiInv, OptedInv
  <1> QED BY <1>1, <1>3, <1>4, <1>5, WriteStep DEF Running, Unanswered

LEMMA Keeps_updateRiskScore ==
  ASSUME AiInv, NEW j \in Jobs, job[j].type = "risk-score", updateRiskScore(j)
  PROVE  AiInv'
  <1> DEFINE new == [job[j].copy EXCEPT !.label = "new"]
  <1>1. /\ job[j].pc = "write" /\ Finished(j) /\ row' = [row EXCEPT !["customer"] = new]
        /\ UNCHANGED <<flags, update, edit, result, accepted, changes, mishaps, wish, agreed, acted,
                       edited, overlapped>>
    BY DEF updateRiskScore
  <1>2. new \in RowType /\ new.edit = job[j].copy.edit
    BY <1>1, CopyToWrite DEF RowType
  <1>3. "customer" \notin overlapped => new.edit = edited["customer"]
    BY <1>1, <1>2, CopyToWrite DEF SubjectAt, SubjectOf
  <1> HIDE DEF new
  <1>4. /\ row' \in [Subjects -> RowType] /\ row'["customer"] = new
        /\ \A s \in Subjects \ {"customer"} : row'[s] = row[s]
    BY <1>1, <1>2 DEF AiInv, AiTypeOK, Subjects
  <1> QED BY <1>1, <1>3, <1>4, WriteStep DEF Running, Unanswered

(* A job fails, or stalls and waits in the queue again. *)
LEMMA Keeps_Ended == ASSUME AiInv, NEW j \in Jobs, Ended(j) PROVE AiInv'
  <1>1. /\ Running(j) /\ mishaps < MaxMishaps /\ mishaps' = mishaps + 1
        /\ UNCHANGED <<Rest, result>>
    BY DEF Ended, JobFails, JobStalls
  <1>2. UNCHANGED <<flags, update, row, edit, accepted, changes, wish, agreed, acted, edited, overlapped>>
    BY <1>1 DEF Rest
  <1>3. PICK pc \in {"queued", "done"} : Becomes(j, job[j].type, pc)
    <2>1. CASE JobFails(j)
      BY <2>1, FinishedRow DEF JobFails, AiInv
    <2>2. CASE JobStalls(j)
      <3> DEFINE r == [NoJob EXCEPT !.type = job[j].type, !.long = job[j].long, !.pc = "queued"]
      <3>1. r \in JobRows /\ r.type = job[j].type /\ r.pc = "queued"
        BY NoJobRow, JobTable DEF JobRows, JobPcs, AiInv
      <3>2. job' = [job EXCEPT ![j] = r]
        BY <2>2 DEF JobStalls
      <3> HIDE DEF r
      <3> QED BY <3>1, <3>2, JobTable DEF Becomes, AiInv
    <2> QED BY <2>1, <2>2 DEF Ended
  <1>4. mishaps \in Nat /\ mishaps' \in 0..MaxMishaps /\ result[j] \in Nat /\ result[j] <= mishaps + 1
    BY <1>1, AiAssumption DEF AiInv, AiTypeOK, AttemptInv
  <1>5. AiTypeOK'
    BY <1>1, <1>2, <1>3, <1>4 DEF AiInv, AiTypeOK, Becomes, JobRows, JobPcs
  <1>6. ~Running(j)' /\ j \notin acted
    BY <1>1, <1>3 DEF AiInv, DoneInv, Running, Becomes
  <1> QED BY <1>1, <1>2, <1>3, <1>4, <1>5, <1>6, JobStep DEF Becomes

LEMMA JobsInv ==
  ASSUME AiInv, NEW j \in Jobs,
         \/ \E long \in BOOLEAN : queueTicketJob(j, long) \/ triggerRiskScoreUpdate(j, long)
         \/ processCategorizationJob(j) \/ processSentimentJob(j) \/ processUrgencyJob(j)
         \/ processSuggestResponseJob(j) \/ processSummarizeJob(j) \/ processRiskScoreJob(j)
  PROVE  AiInv'
  <1>1. CASE \E long \in BOOLEAN : queueTicketJob(j, long) \/ triggerRiskScoreUpdate(j, long)
    BY <1>1, Keeps_Enqueue DEF queueTicketJob, triggerRiskScoreUpdate, TicketJobs, JobTypes
  <1>2. CASE processCategorizationJob(j)
    BY <1>2, Keeps_Start, Keeps_Decision, Keeps_Answered, Keeps_WriteCategory, Keeps_Ended
    DEF processCategorizationJob
  <1>3. CASE processSentimentJob(j)
    BY <1>3, Keeps_Start, Keeps_Decision, Keeps_Answered, Keeps_ReadToWrite, Keeps_EscalateTicket,
       Keeps_Ended DEF processSentimentJob
  <1>4. CASE processUrgencyJob(j)
    BY <1>4, Keeps_Start, Keeps_Decision, Keeps_Answered, Keeps_ReadToWrite, Keeps_EscalateTicket,
       Keeps_Ended DEF processUrgencyJob
  <1>5. CASE processSuggestResponseJob(j) \/ processSummarizeJob(j)
    BY <1>5, Keeps_Start, Keeps_Decision, Keeps_Answered, Keeps_Ended
    DEF processSuggestResponseJob, processSummarizeJob
  <1>6. CASE processRiskScoreJob(j)
    BY <1>6, Keeps_Start, Keeps_Decision, Keeps_Answered, Keeps_ReadToWrite, Keeps_updateRiskScore,
       Keeps_Ended DEF processRiskScoreJob
  <1> QED BY <1>1, <1>2, <1>3, <1>4, <1>5, <1>6

(* Agents and managers: what does not touch rows, jobs or flags ... *)
LEMMA Keeps_Reads ==
  ASSUME AiInv, NEW s \in Subjects,
         \/ AgentReads(s) \/ ReadTenant \/ UpdateTenant
         \/ \E j \in Jobs : acceptResponseSuggestion(j)
  PROVE  AiInv'
  <1>1. UNCHANGED <<flags, row, job, result, changes, mishaps, wish, agreed, acted, edited, overlapped>>
    BY DEF AgentReads, ReadTenant, UpdateTenant, acceptResponseSuggestion
  <1>2. edit' = edit \/ (edit' \in Edits /\ edited["ticket"] + edited["customer"] < MaxEdits)
    BY DEF AgentReads, ReadTenant, UpdateTenant, acceptResponseSuggestion, AiInv, AiTypeOK, Edits
  <1>3. update' \in {update, flags, NoCopy} /\ accepted' \subseteq Jobs
    BY DEF AgentReads, ReadTenant, UpdateTenant, acceptResponseSuggestion, AiInv, AiTypeOK
  <1>4. AiTypeOK'
    BY <1>1, <1>2, <1>3 DEF AiInv, AiTypeOK, Edits
  <1>5. AgreeInv'
    BY <1>1 DEF AiInv, AgreeInv, Running, isAutoEscalationEnabled, isEnabled
  <1>6. EditInv'
    BY <1>1, <1>2 DEF AiInv, EditInv
  <1>7. FlagInv' /\ OptedInv' /\ DoneInv' /\ OptInOnly' /\ CopyInv' /\ EditsSurvive' /\ AttemptInv'
    BY <1>1 DEF AiInv, FlagInv, OptedInv, DoneInv, OptInOnly, CopyInv, EditsSurvive, AttemptInv, SubjectAt
  <1> QED BY <1>4, <1>5, <1>6, <1>7 DEF AiInv

(* ... an agent's write, which sets the copies of jobs apart ... *)
LEMMA Keeps_AgentWrites == ASSUME AiInv, NEW active \in BOOLEAN, AgentWrites(active) PROVE AiInv'
  <1> DEFINE s == edit.subject
             new == [edit.copy EXCEPT !.edit = edited[s] + 1, !.active = active]
  <1>1. edit \in Edits /\ s \in Subjects /\ edit.copy \in RowType
    BY DEF AgentWrites, AiInv, AiTypeOK, Edits
  <1>2. /\ row' = [row EXCEPT ![s] = new] /\ edited' = [edited EXCEPT ![s] = @ + 1] /\ edit' = NoCopy
        /\ UNCHANGED <<flags, update, job, result, accepted, changes, mishaps, wish, agreed, acted>>
        /\ overlapped' = IF \E j \in Jobs : job[j].pc = "write" /\ SubjectAt(j) = s
                         THEN overlapped \cup {s} ELSE overlapped
    BY DEF AgentWrites, SubjectAt
  <1>3. edited["ticket"] + edited["customer"] < MaxEdits /\ edited \in [Subjects -> 0..MaxEdits]
    BY DEF AgentWrites, AiInv, EditInv, AiTypeOK
  <1>4. edited[s] + 1 \in 0..MaxEdits
    BY <1>1, <1>3, AiAssumption DEF Subjects
  <1>5. new \in RowType /\ new.edit = edited[s] + 1
    BY <1>1, <1>4 DEF RowType
  <1> HIDE DEF new, s
  <1>6. /\ row' \in [Subjects -> RowType] /\ row'[s] = new
        /\ \A t \in Subjects \ {s} : row'[t] = row[t] /\ edited'[t] = edited[t]
        /\ edited' \in [Subjects -> 0..MaxEdits] /\ edited'[s] = edited[s] + 1
    BY <1>1, <1>2, <1>3, <1>4, <1>5 DEF AiInv, AiTypeOK
  <1>7. overlapped \subseteq overlapped' /\ overlapped' \subseteq Subjects
    BY <1>1, <1>2 DEF AiInv, AiTypeOK
  <1>8. AiTypeOK'
    BY <1>2, <1>6, <1>7 DEF AiInv, AiTypeOK
  <1>9. EditsSurvive'
    BY <1>1, <1>5, <1>6, <1>7 DEF AiInv, EditsSurvive
  <1>10. CopyInv'
    <2> SUFFICES ASSUME NEW j \in Jobs, job'[j].pc = "write", SubjectAt(j)' \notin overlapped'
                 PROVE  job'[j].copy.edit = edited'[SubjectAt(j)']
      BY DEF CopyInv
    <2>1. job' = job /\ SubjectAt(j)' = SubjectAt(j) /\ SubjectAt(j) \in Subjects
      BY <1>2 DEF SubjectAt, SubjectOf, Subjects
    <2>2. SubjectAt(j) # s
      BY <1>2, <2>1
    <2> QED BY <1>6, <1>7, <2>1, <2>2 DEF AiInv, CopyInv
  <1>11. EditInv'
    BY <1>1, <1>2, <1>3, <1>6, AiAssumption DEF EditInv, Subjects
  <1>12. AgreeInv'
    BY <1>2 DEF AiInv, AgreeInv, Running, isAutoEscalationEnabled, isEnabled
  <1>13. FlagInv' /\ OptedInv' /\ DoneInv' /\ OptInOnly' /\ AttemptInv'
    BY <1>2 DEF AiInv, FlagInv, OptedInv, DoneInv, OptInOnly, AttemptInv
  <1> QED BY <1>8, <1>9, <1>10, <1>11, <1>12, <1>13 DEF AiInv

(* ... and a flag that is set or deleted while jobs run. *)
LEMMA Keeps_ChangeFlag ==
  ASSUME AiInv, NEW f \in Features, NEW d \in Definitions, ChangeFlag(f, d)
  PROVE  AiInv'
  <1>1. /\ changes < MaxFlagChanges /\ changes' = changes + 1
        /\ flags' = [flags EXCEPT ![f] = d] /\ wish' = [wish EXCEPT ![f] = d]
        /\ UNCHANGED <<update, row, edit, job, result, accepted, mishaps, acted, edited, overlapped>>
    BY DEF ChangeFlag
  <1>2. /\ agreed \subseteq agreed' /\ agreed' \subseteq agreed \cup Jobs
        /\ isAutoEscalationEnabled(wish') => \A j \in Jobs : Running(j) => j \in agreed'
    BY DEF ChangeFlag
  <1>3. AiTypeOK'
    BY <1>1, <1>2, AiAssumption DEF AiInv, AiTypeOK
  <1>4. AgreeInv'
    <2>1. isAutoEscalationEnabled(wish)' <=> isAutoEscalationEnabled(wish')
      BY DEF isAutoEscalationEnabled, isEnabled
    <2> HIDE DEF isAutoEscalationEnabled
    <2> QED BY <1>1, <1>2, <2>1 DEF AgreeInv, Running
  <1>5. FlagInv' /\ OptedInv' /\ DoneInv' /\ OptInOnly' /\ CopyInv' /\ EditsSurvive' /\ AttemptInv' /\ EditInv'
    BY <1>1, <1>2 DEF AiInv, FlagInv, OptedInv, DoneInv, OptInOnly, CopyInv, EditsSurvive, AttemptInv,
       EditInv, SubjectAt
  <1> QED BY <1>3, <1>4, <1>5 DEF AiInv

LEMMA AiNextInv == ASSUME AiInv, [AiNext]_aiVars PROVE AiInv'
  <1>1. ASSUME NEW j \in Jobs, acceptResponseSuggestion(j) PROVE AiInv'
    BY <1>1, Keeps_Reads DEF Subjects
  <1>2. ASSUME NEW f \in Managed, deleteTenantFlag(f) \/ \E d \in Definitions : setTenantFlag(f, d)
        PROVE  AiInv'
    BY <1>2, Keeps_ChangeFlag, AiAssumption DEF deleteTenantFlag, setTenantFlag, Definitions
  <1>3. CASE ReadTenant \/ UpdateTenant \/ \E s \in Subjects : AgentReads(s)
    BY <1>3, Keeps_Reads DEF Subjects
  <1>4. CASE UNCHANGED aiVars
    BY <1>4 DEF aiVars, AiInv, AiTypeOK, FlagInv, AgreeInv, OptedInv, DoneInv, OptInOnly, CopyInv,
       EditsSurvive, AttemptInv, EditInv, SubjectAt, Running, isAutoEscalationEnabled, isEnabled
  <1> QED BY <1>1, <1>2, <1>3, <1>4, JobsInv, Keeps_AgentWrites DEF AiNext

(* Jobs, agents and managers of a tenant keep AiInv, however their steps   *)
(* interleave and whatever jobs fail or stall.                             *)
THEOREM AiInvariant == AiSpec => []AiInv
<1>1. AiInit => AiInv
  BY AiInitInv
<1>2. AiInv /\ [AiNext]_aiVars => AiInv'
  BY AiNextInv
<1> QED BY <1>1, <1>2, PTL DEF AiSpec

(* Every variable of AiJobs keeps its type; among them the number of       *)
(* results a job stores, at most one for every attempt.                    *)
THEOREM AiTypeCorrect == AiSpec => []AiTypeOK
<1>1. AiInv => AiTypeOK
  BY DEF AiInv
<1> QED BY <1>1, AiInvariant, PTL

(* processSentimentJob and processUrgencyJob escalate only for a tenant    *)
(* that wanted it while the job ran.                                       *)
THEOREM EscalationIsOptIn == AiSpec => []OptInOnly
<1>1. AiInv => OptInOnly
  BY DEF AiInv
<1> QED BY <1>1, AiInvariant, PTL

(* No job undoes what an agent wrote, except between the read and the      *)
(* write of escalateTicket and updateRiskScore.                            *)
THEOREM AgentsEditsSurvive == AiSpec => []EditsSurvive
<1>1. AiInv => EditsSurvive
  BY DEF AiInv
<1> QED BY <1>1, AiInvariant, PTL

(***************************************************************************)
(* Processes and their scheduler                                           *)
(***************************************************************************)
RunRows  == [minute : Minutes \cup {0}, todo : SUBSET CronJobs, cur : CronJobs \cup {0}]
LockRows == [ttl : 0..TTL, renewer : Procs \cup {None}]

(* A process works between its start and its end only; until a shutdown    *)
(* begins, all that it needs is open.                                      *)
PhaseInv ==
    \A p \in Procs :
        /\ phase[p] \in {"down", "booting", "exited"} => work[p] = {} /\ clean[p]
        /\ phase[p] = "up" => open[p] = Resources /\ clean[p]
        /\ "request" \in work[p] => p \in Apis

(* Step i of the shutdown of p is over. *)
Over(p, i) == i \in 1..(at[p] - 1)

(* A shutdown without a failure has drained the work of every step that is *)
(* over, and has closed nothing but what those steps are about.            *)
StopInv ==
    \A p \in Procs : phase[p] = "stopping" =>
        /\ at[p] \in 1..Len(ShutdownSteps(p))
        /\ clean[p] => /\ \A k \in work[p], i \in 1..6 : Over(p, i) => ShutdownSteps(p)[i] # Waiter(k)
                       /\ \A r \in Resources \ open[p] :
                             \E i \in 1..6 : Over(p, i) /\ ShutdownSteps(p)[i] = r

(* A handler runs in a tick, for a minute that has begun. *)
RunInv ==
    \A p \in Procs :
        /\ "tick" \in work[p] => run[p].minute \in Minutes /\ run[p].minute <= now
        /\ run[p].cur # 0 => "tick" \in work[p]

(* Whoever runs an occurrence extends its lock, unless it was lost ... *)
HoldInv ==
    \A p \in Procs : run[p].cur # 0 =>
        lock[RunningNow(p)].renewer = p \/ missed[RunningNow(p)] >= TTL

(* ... which takes as many missed extensions as the lock has minutes. *)
ExtendInv == \A o \in Occurrences : lock[o].renewer # None => lock[o].ttl + missed[o] >= TTL

(* The lock of an occurrence that has run outlives its minute by TTL. *)
LateInv == \A o \in Occurrences : ran[o] > 0 => lock[o].ttl + now >= o[2] + TTL

MissedInv == \A o \in Occurrences : missed[o] <= faults

Inv == TypeOK /\ PhaseInv /\ StopInv /\ RunInv /\ HoldInv /\ ExtendInv /\ LateInv /\ MissedInv

LEMMA CronJobsAre == CronJobs = 1..5
  BY DEF CronJobs, Schedule

(* The order of both shutdowns. *)
LEMMA ApiOrder ==
  ASSUME NEW p \in Apis
  PROVE  /\ Len(ShutdownSteps(p)) = 6
         /\ ShutdownSteps(p)[1] = "websocket" /\ ShutdownSteps(p)[2] = "http"
         /\ ShutdownSteps(p)[3] = "background" /\ ShutdownSteps(p)[4] = "queues"
         /\ ShutdownSteps(p)[5] = "database" /\ ShutdownSteps(p)[6] = "redis"
  BY DEF ShutdownSteps, ApiSteps

LEMMA WorkerOrder ==
  ASSUME NEW p \in Workers
  PROVE  /\ Len(ShutdownSteps(p)) = 5
         /\ ShutdownSteps(p)[1] = "background" /\ ShutdownSteps(p)[2] = "queues"
         /\ ShutdownSteps(p)[3] = "websocket" /\ ShutdownSteps(p)[4] = "database"
         /\ ShutdownSteps(p)[5] = "redis"
  BY LifecycleAssumption DEF ShutdownSteps, WorkerSteps, Procs

(* In both, work is waited for before anything that it needs is closed. *)
LEMMA WaitsFirst ==
  ASSUME NEW p \in Procs, NEW k \in AllKinds, k = "request" => p \in Apis,
         NEW j \in 1..Len(ShutdownSteps(p)), ShutdownSteps(p)[j] \in Needs(k)
  PROVE  \E i \in 1..6 : i < j /\ ShutdownSteps(p)[i] = Waiter(k)
  <1>1. CASE p \in Apis
    <2> HIDE DEF ShutdownSteps
    <2>1. j \in 1..6 /\ j \in {1, 2, 3, 4, 5, 6}
      BY <1>1, ApiOrder
    <2>2. CASE k = "request"
      BY <1>1, <2>1, <2>2, ApiOrder DEF Needs, Waiter
    <2>3. CASE k \in {"tick", "batch"}
      BY <1>1, <2>1, <2>3, ApiOrder DEF Needs, Waiter
    <2>4. CASE k = "job"
      BY <1>1, <2>1, <2>4, ApiOrder DEF Needs, Waiter
    <2> QED BY <2>2, <2>3, <2>4 DEF AllKinds
  <1>2. CASE p \in Workers
    <2> HIDE DEF ShutdownSteps
    <2>1. j \in 1..5 /\ j \in {1, 2, 3, 4, 5}
      BY <1>2, WorkerOrder
    <2>2. k # "request"
      BY <1>2, LifecycleAssumption
    <2>3. CASE k \in {"tick", "batch"}
      BY <1>2, <2>1, <2>3, WorkerOrder DEF Needs, Waiter
    <2>4. CASE k = "job"
      BY <1>2, <2>1, <2>4, WorkerOrder DEF Needs, Waiter
    <2> QED BY <2>2, <2>3, <2>4 DEF AllKinds
  <1> QED BY <1>1, <1>2 DEF Procs

LEMMA OutliveFollows == ASSUME Inv PROVE ResourcesOutliveWork
  <1> SUFFICES ASSUME NEW p \in Procs, clean[p], NEW k \in work[p] PROVE Needs(k) \subseteq open[p]
    BY DEF ResourcesOutliveWork
  <1>1. k \in AllKinds /\ (k = "request" => p \in Apis)
    BY LifecycleAssumption DEF Inv, TypeOK, PhaseInv
  <1>2. Needs(k) \subseteq Resources
    BY <1>1 DEF Needs, AllKinds, Resources
  <1>3. CASE phase[p] = "up"
    BY <1>2, <1>3 DEF Inv, PhaseInv
  <1>4. CASE phase[p] = "stopping"
    <2> SUFFICES ASSUME NEW r \in Needs(k), r \notin open[p] PROVE FALSE
      OBVIOUS
    <2>1. PICK j \in 1..6 : Over(p, j) /\ ShutdownSteps(p)[j] = r
      BY <1>2, <1>4 DEF Inv, StopInv
    <2>2. at[p] \in 1..Len(ShutdownSteps(p)) /\ Len(ShutdownSteps(p)) \in {5, 6}
      BY <1>4, ApiOrder, WorkerOrder DEF Inv, StopInv, Procs
    <2>3. j \in 1..Len(ShutdownSteps(p))
      BY <2>1, <2>2 DEF Over
    <2>4. PICK i \in 1..6 : i < j /\ ShutdownSteps(p)[i] = Waiter(k)
      BY <1>1, <2>1, <2>3, WaitsFirst
    <2>5. Over(p, i)
      BY <2>1, <2>2, <2>4 DEF Over
    <2> QED BY <1>4, <2>4, <2>5 DEF Inv, StopInv
  <1>5. phase[p] \in {"up", "stopping"}
    BY DEF Inv, TypeOK, PhaseInv
  <1> QED BY <1>3, <1>4, <1>5

LEMMA NoOverlapFollows == ASSUME Inv PROVE NoOverlappingRuns
  <1> SUFFICES ASSUME NEW p \in Procs, NEW q \in Procs, p # q, run[p].cur # 0,
                      RunningNow(p) = RunningNow(q), missed[RunningNow(p)] < TTL
               PROVE  FALSE
    <2>1. \A p \in Procs : run[p].cur # 0 => missed[RunningNow(p)] \in Nat
      BY LifecycleAssumption DEF Inv, TypeOK, RunInv, RunningNow, Occurrences
    <2> QED BY <2>1, LifecycleAssumption DEF NoOverlappingRuns
  <1>1. run[q].cur # 0
    BY DEF RunningNow
  <1>2. missed[RunningNow(p)] \in Nat
    BY LifecycleAssumption DEF Inv, TypeOK, RunInv, RunningNow, Occurrences
  <1>3. lock[RunningNow(p)].renewer = p /\ lock[RunningNow(q)].renewer = q
    BY <1>1, <1>2, LifecycleAssumption DEF Inv, HoldInv
  <1> QED BY <1>3

LEMMA NoRunRow == NoRun \in RunRows /\ NoRun.cur = 0
  BY DEF NoRun, RunRows

LEMMA FreeLockRow == FreeLock \in LockRows /\ FreeLock.renewer = None /\ FreeLock.ttl = 0
  BY LifecycleAssumption DEF FreeLock, LockRows

LEMMA AtStep == ASSUME TypeOK, NEW p \in Procs PROVE at[p] \in 0..6
  <1>1. at \in [Procs -> 0..6]
    BY DEF TypeOK
  <1> QED BY <1>1

LEMMA OccurrencesFinite == IsFiniteSet(Occurrences)
  <1>1. IsFiniteSet(CronJobs)
    <2>1. \A n \in Int : IsFiniteSet(1..n)
      BY FS_Interval
    <2>2. CronJobs = 1..5 /\ 5 \in Int
      BY CronJobsAre
    <2> QED BY <2>1, <2>2, Zenon
  <1>2. IsFiniteSet(Minutes)
    BY FS_Interval, LifecycleAssumption DEF Minutes
  <1> QED BY <1>1, <1>2, FS_Product DEF Occurrences

(* What a process does apart from its scheduler: StopInv and PhaseInv hold *)
(* for it again, and its tick is left alone.                               *)
LEMMA ProcessStep ==
  ASSUME Inv, TypeOK', NEW p \in Procs, UNCHANGED scheduler,
         \A q \in Procs \ {p} : /\ phase'[q] = phase[q] /\ open'[q] = open[q] /\ at'[q] = at[q]
                                /\ clean'[q] = clean[q] /\ work'[q] = work[q],
         "tick" \in work'[p] <=> "tick" \in work[p],
         "request" \in work'[p] => p \in Apis,
         phase'[p] \in {"down", "booting", "exited"} => work'[p] = {} /\ clean'[p],
         phase'[p] = "up" => open'[p] = Resources /\ clean'[p],
         phase'[p] = "stopping" =>
            /\ at'[p] \in 1..Len(ShutdownSteps(p))
            /\ clean'[p] => /\ \A k \in work'[p], i \in 1..6 :
                                  Over(p, i)' => ShutdownSteps(p)[i] # Waiter(k)
                            /\ \A r \in Resources \ open'[p] :
                                  \E i \in 1..6 : Over(p, i)' /\ ShutdownSteps(p)[i] = r
  PROVE  Inv'
  <1>1. PhaseInv'
    BY DEF Inv, PhaseInv
  <1>2. StopInv'
    <2> SUFFICES ASSUME NEW q \in Procs, phase'[q] = "stopping", q # p
                 PROVE  /\ at'[q] \in 1..Len(ShutdownSteps(q))
                        /\ clean'[q] => /\ \A k \in work'[q], i \in 1..6 :
                                              Over(q, i)' => ShutdownSteps(q)[i] # Waiter(k)
                                        /\ \A r \in Resources \ open'[q] :
                                              \E i \in 1..6 : Over(q, i)' /\ ShutdownSteps(q)[i] = r
      BY DEF StopInv
    <2>1. \A i : Over(q, i)' <=> Over(q, i)
      BY DEF Over
    <2> QED BY <2>1 DEF Inv, StopInv
  <1>3. RunInv'
    BY DEF Inv, RunInv, scheduler
  <1>4. HoldInv' /\ ExtendInv' /\ LateInv' /\ MissedInv'
    BY DEF Inv, HoldInv, ExtendInv, LateInv, MissedInv, scheduler, RunningNow
  <1> QED BY <1>1, <1>2, <1>3, <1>4 DEF Inv

LEMMA Keeps_StartProcess == ASSUME Inv, NEW p \in Procs, StartProcess(p) PROVE Inv'
  <1>1. TypeOK'
    BY LifecycleAssumption DEF Inv, TypeOK, StartProcess, scheduler
  <1> QED BY <1>1, ProcessStep DEF Inv, TypeOK, PhaseInv, StartProcess

LEMMA Keeps_Opens == ASSUME Inv, NEW p \in Procs, NEW r \in Resources, Opens(p, r) PROVE Inv'
  <1>1. TypeOK'
    BY DEF Inv, TypeOK, Opens, scheduler
  <1> QED BY <1>1, ProcessStep DEF Inv, TypeOK, PhaseInv, Opens

LEMMA Keeps_ListenAndWork == ASSUME Inv, NEW p \in Procs, ListenAndWork(p) PROVE Inv'
  <1>1. TypeOK'
    BY DEF Inv, TypeOK, ListenAndWork, Resources, scheduler
  <1>2. open'[p] = Resources
    BY DEF Inv, TypeOK, ListenAndWork, Resources
  <1> QED BY <1>1, <1>2, ProcessStep DEF Inv, TypeOK, PhaseInv, ListenAndWork

(* New work is of a source that is not stopped yet. *)
LEMMA Keeps_StartWork ==
  ASSUME Inv, NEW p \in Procs, NEW k \in Kinds, StartWork(p, k)
  PROVE  Inv'
  <1>1. TypeOK'
    BY DEF Inv, TypeOK, StartWork, process, scheduler
  <1>2. /\ work' = [work EXCEPT ![p] = @ \cup {k}] /\ k # "tick" /\ (k = "request" => p \in Apis)
        /\ phase[p] \in {"up", "stopping"} /\ Waiter(k) \notin Begun(p)
        /\ UNCHANGED <<phase, open, at, clean>> /\ UNCHANGED scheduler
    BY DEF StartWork, process
  <1>3. work'[p] = work[p] \cup {k} /\ \A q \in Procs \ {p} : work'[q] = work[q]
    BY <1>2 DEF Inv, TypeOK
  <1>4. ASSUME phase[p] = "stopping", NEW i \in 1..6, Over(p, i) PROVE ShutdownSteps(p)[i] # Waiter(k)
    <2>1. i \in 1..at[p]
      <3>1. at[p] \in Int
        BY AtStep DEF Inv
      <3>2. i \in 1..(at[p] - 1)
        BY <1>4 DEF Over
      <3> QED BY <3>1, <3>2
    <2>2. Begun(p) = {ShutdownSteps(p)[n] : n \in 1..at[p]}
      BY <1>4 DEF Begun
    <2> HIDE DEF Begun, ShutdownSteps, Waiter
    <2> QED BY <1>2, <2>1, <2>2
  <1>5. \A i : Over(p, i)' <=> Over(p, i)
    BY <1>2 DEF Over
  <1> HIDE DEF ShutdownSteps, Waiter
  <1>6. phase'[p] = "stopping" =>
            /\ at'[p] \in 1..Len(ShutdownSteps(p))
            /\ clean'[p] => /\ \A l \in work'[p], i \in 1..6 :
                                  Over(p, i)' => ShutdownSteps(p)[i] # Waiter(l)
                            /\ \A r \in Resources \ open'[p] :
                                  \E i \in 1..6 : Over(p, i)' /\ ShutdownSteps(p)[i] = r
    BY <1>2, <1>3, <1>4, <1>5 DEF Inv, StopInv
  <1>7. "request" \in work'[p] => p \in Apis
    BY <1>2, <1>3 DEF Inv, PhaseInv
  <1>8. phase[p] = "up" => open[p] = Resources /\ clean[p]
    BY DEF Inv, PhaseInv
  <1> QED BY <1>1, <1>2, <1>3, <1>6, <1>7, <1>8, ProcessStep

LEMMA Keeps_FinishWork == ASSUME Inv, NEW p \in Procs, NEW k \in Kinds, FinishWork(p, k) PROVE Inv'
  <1>1. TypeOK'
    BY DEF Inv, TypeOK, FinishWork, process, scheduler
  <1>2. /\ work' = [work EXCEPT ![p] = @ \ {k}] /\ k # "tick"
        /\ UNCHANGED <<phase, open, at, clean>> /\ UNCHANGED scheduler
    BY DEF FinishWork, process
  <1>3. work'[p] = work[p] \ {k} /\ \A q \in Procs \ {p} : work'[q] = work[q]
    BY <1>2 DEF Inv, TypeOK
  <1>5. \A i : Over(p, i)' <=> Over(p, i)
    BY <1>2 DEF Over
  <1> HIDE DEF ShutdownSteps, Waiter
  <1>6. phase'[p] = "stopping" =>
            /\ at'[p] \in 1..Len(ShutdownSteps(p))
            /\ clean'[p] => /\ \A l \in work'[p], i \in 1..6 :
                                  Over(p, i)' => ShutdownSteps(p)[i] # Waiter(l)
                            /\ \A r \in Resources \ open'[p] :
                                  \E i \in 1..6 : Over(p, i)' /\ ShutdownSteps(p)[i] = r
    BY <1>2, <1>3, <1>5 DEF Inv, StopInv
  <1>7. /\ "request" \in work'[p] => p \in Apis
        /\ phase[p] \in {"down", "booting", "exited"} => work[p] = {} /\ clean[p]
        /\ phase[p] = "up" => open[p] = Resources /\ clean[p]
    BY <1>2, <1>3 DEF Inv, PhaseInv
  <1> QED BY <1>1, <1>2, <1>3, <1>6, <1>7, ProcessStep

LEMMA Keeps_Shutdown == ASSUME Inv, NEW p \in Procs, NEW code \in {0, 1}, Shutdown(p, code) PROVE Inv'
  <1>1. TypeOK'
    BY LifecycleAssumption DEF Inv, TypeOK, Shutdown, scheduler
  <1>2. /\ phase'[p] = "stopping" /\ at'[p] = 1 /\ open' = open /\ clean' = clean /\ work' = work
        /\ \A q \in Procs \ {p} : phase'[q] = phase[q] /\ at'[q] = at[q]
        /\ UNCHANGED scheduler /\ open[p] = Resources
    BY DEF Inv, TypeOK, PhaseInv, Shutdown
  <1>3. \A i \in 1..6 : ~Over(p, i)'
    BY <1>2 DEF Over
  <1>4. 1 \in 1..Len(ShutdownSteps(p))
    BY ApiOrder, WorkerOrder DEF Procs
  <1> QED BY <1>1, <1>2, <1>3, <1>4, ProcessStep DEF Inv, PhaseInv

(* A process ends: nobody extends its locks any more. *)
LEMMA Keeps_Exit == ASSUME Inv, NEW p \in Procs, NEW code \in {0, 1}, Exit(p, code) PROVE Inv'
  <1>1. /\ phase' = [phase EXCEPT ![p] = "exited"] /\ exitCode' = [exitCode EXCEPT ![p] = code]
        /\ open' = [open EXCEPT ![p] = {}] /\ work' = [work EXCEPT ![p] = {}]
        /\ at' = [at EXCEPT ![p] = 0] /\ clean' = [clean EXCEPT ![p] = TRUE]
        /\ wanted' = [wanted EXCEPT ![p] = 0]
        /\ lastRun' = [lastRun EXCEPT ![p] = [j \in CronJobs |-> 0]]
        /\ run' = [run EXCEPT ![p] = NoRun]
        /\ UNCHANGED <<starts, stops, now, faults, missed, ran>>
    BY DEF Exit
  <1>2. /\ run' \in [Procs -> RunRows] /\ run'[p].cur = 0
        /\ \A q \in Procs \ {p} : run'[q] = run[q]
    <2> HIDE DEF NoRun
    <2> QED BY <1>1, NoRunRow DEF Inv, TypeOK, RunRows
  <1>3. /\ lock' \in [Occurrences -> LockRows]
        /\ \A o \in Occurrences : /\ lock'[o].ttl = lock[o].ttl
                                  /\ lock'[o].renewer = lock[o].renewer \/ lock'[o].renewer = None
                                  /\ lock[o].renewer # p => lock'[o] = lock[o]
    <2>1. lock' = [o \in Occurrences |-> IF lock[o].renewer = p
                                         THEN [lock[o] EXCEPT !.renewer = None] ELSE lock[o]]
      BY DEF Exit
    <2>2. lock \in [Occurrences -> LockRows]
      BY DEF Inv, TypeOK, LockRows
    <2> SUFFICES ASSUME NEW o \in Occurrences
                 PROVE  /\ lock'[o] \in LockRows /\ lock'[o].ttl = lock[o].ttl
                        /\ lock'[o].renewer = lock[o].renewer \/ lock'[o].renewer = None
                        /\ lock[o].renewer # p => lock'[o] = lock[o]
      BY <2>1
    <2>3. CASE lock[o].renewer = p
      <3>1. lock'[o] = [lock[o] EXCEPT !.renewer = None]
        BY <2>1, <2>3
      <3> QED BY <2>2, <2>3, <3>1 DEF LockRows
    <2>4. CASE lock[o].renewer # p
      BY <2>1, <2>2, <2>4
    <2> QED BY <2>3, <2>4
  <1>4. TypeOK'
    <2>1. /\ phase' \in [Procs -> {"down", "booting", "up", "stopping", "exited"}]
          /\ open' \in [Procs -> SUBSET Resources] /\ work' \in [Procs -> SUBSET Kinds]
          /\ at' \in [Procs -> 0..6] /\ wanted' \in [Procs -> {0, 1}]
          /\ exitCode' \in [Procs -> {None, 0, 1}]
      BY <1>1 DEF Inv, TypeOK
    <2>2. clean' \in [Procs -> BOOLEAN]
      BY <1>1 DEF Inv, TypeOK
    <2>3. lastRun' \in [Procs -> [CronJobs -> Minutes \cup {0}]]
      BY <1>1 DEF Inv, TypeOK
    <2> QED BY <1>1, <1>2, <1>3, <2>1, <2>2, <2>3 DEF Inv, TypeOK, RunRows, LockRows
  <1>5. /\ phase'[p] = "exited" /\ work'[p] = {} /\ clean'[p]
        /\ \A q \in Procs \ {p} : /\ phase'[q] = phase[q] /\ open'[q] = open[q] /\ at'[q] = at[q]
                                  /\ clean'[q] = clean[q] /\ work'[q] = work[q]
    BY <1>1 DEF Inv, TypeOK
  <1>6. PhaseInv'
    BY <1>5 DEF Inv, PhaseInv
  <1>7. StopInv'
    <2> HIDE DEF ShutdownSteps, Waiter
    <2>1. \A q \in Procs \ {p} : \A i : Over(q, i)' <=> Over(q, i)
      BY <1>5 DEF Over
    <2> QED BY <1>5, <2>1 DEF Inv, StopInv
  <1>8. RunInv'
    BY <1>1, <1>2, <1>5 DEF Inv, RunInv
  <1>9. HoldInv'
    <2> SUFFICES ASSUME NEW q \in Procs, run'[q].cur # 0
                 PROVE  lock'[RunningNow(q)'].renewer = q \/ missed'[RunningNow(q)'] >= TTL
      BY DEF HoldInv
    <2>1. q # p /\ run'[q] = run[q]
      BY <1>2
    <2>2. RunningNow(q)' = RunningNow(q)
      BY <2>1 DEF RunningNow
    <2>3. RunningNow(q) \in Occurrences
      BY <2>1 DEF Inv, TypeOK, RunInv, RunningNow, Occurrences
    <2> QED BY <1>1, <1>3, <2>1, <2>2, <2>3 DEF Inv, HoldInv
  <1>10. ExtendInv' /\ LateInv' /\ MissedInv'
    BY <1>1, <1>3 DEF Inv, ExtendInv, LateInv, MissedInv
  <1> QED BY <1>4, <1>6, <1>7, <1>8, <1>9, <1>10 DEF Inv

(* The next step of a shutdown: a step that closes has drained its work. *)
LEMMA Keeps_EndStep ==
  ASSUME Inv, NEW p \in Procs, phase[p] = "stopping", NEW ok \in BOOLEAN, ok => Drained(p), EndStep(p, ok)
  PROVE  Inv'
  <1>1. CASE Last(p) /\ Exit(p, FinalCode(p, ok /\ clean[p]))
    <2>1. FinalCode(p, ok /\ clean[p]) \in {0, 1}
      BY DEF FinalCode, Inv, TypeOK
    <2> QED BY <1>1, <2>1, Keeps_Exit
  <1>2. CASE ~Last(p)
    <2>1. /\ at' = [at EXCEPT ![p] = @ + 1] /\ clean' = [clean EXCEPT ![p] = @ /\ ok]
          /\ open' = [open EXCEPT ![p] = IF ok \/ Current(p) = "queues" THEN @ \ {Current(p)} ELSE @]
          /\ UNCHANGED <<phase, starts, stops, wanted, exitCode, work>> /\ UNCHANGED scheduler
      BY <1>2 DEF EndStep
    <2>2. PICK n \in {5, 6} : n = Len(ShutdownSteps(p)) /\ at[p] \in 1..n /\ at[p] # n
      BY <1>2, ApiOrder, WorkerOrder DEF Inv, StopInv, Last, Procs
    <2>a. at[p] \in 1..6 /\ at[p] + 1 \in 1..n /\ at[p] + 1 \in 0..6
      <3>1. at[p] \in 1..n /\ at[p] # n
        BY <2>2
      <3> QED BY <3>1
    <2> HIDE DEF ShutdownSteps, Waiter, Needs
    <2>3. at'[p] = at[p] + 1 /\ \A q \in Procs \ {p} : at'[q] = at[q]
      <3>1. at \in [Procs -> 0..6]
        BY DEF Inv, TypeOK
      <3> QED BY <2>1, <3>1
    <2>4. at' \in [Procs -> 0..6] /\ at'[p] \in 1..Len(ShutdownSteps(p))
      <3>1. at \in [Procs -> 0..6]
        BY DEF Inv, TypeOK
      <3> QED BY <2>1, <2>2, <2>a, <3>1
    <2>5. clean' \in [Procs -> BOOLEAN] /\ (clean'[p] => clean[p] /\ ok)
          /\ \A q \in Procs \ {p} : clean'[q] = clean[q]
      <3>1. clean \in [Procs -> BOOLEAN]
        BY DEF Inv, TypeOK
      <3> QED BY <2>1, <3>1
    <2>6. /\ open' \in [Procs -> SUBSET Resources] /\ open[p] \ {Current(p)} \subseteq open'[p]
          /\ \A q \in Procs \ {p} : open'[q] = open[q]
      <3>1. open \in [Procs -> SUBSET Resources]
        BY DEF Inv, TypeOK
      <3> QED BY <2>1, <3>1
    <2>7. TypeOK'
      BY <2>1, <2>4, <2>5, <2>6 DEF Inv, TypeOK, scheduler
    <2>8. \A i \in 1..6 : Over(p, i)' <=> Over(p, i) \/ i = at[p]
      <3>1. at'[p] - 1 = at[p]
        BY <2>a, <2>3
      <3>2. \A i \in 1..6 : i \in 1..at[p] <=> i \in 1..(at[p] - 1) \/ i = at[p]
        BY <2>a
      <3> QED BY <3>1, <3>2 DEF Over
    <2>9. at[p] \in 1..6 /\ Current(p) = ShutdownSteps(p)[at[p]]
      BY <2>a DEF Current
    <2>10. ASSUME clean'[p], NEW k \in work[p], NEW i \in 1..6, Over(p, i)'
           PROVE  ShutdownSteps(p)[i] # Waiter(k)
      <3>1. clean[p] /\ Waiter(k) # Current(p)
        BY <2>5, <2>10 DEF Drained
      <3>2. CASE Over(p, i)
        BY <3>1, <3>2 DEF Inv, StopInv
      <3>3. CASE i = at[p]
        BY <3>1, <3>3, <2>9
      <3> QED BY <2>8, <2>10, <3>2, <3>3
    <2>11. ASSUME clean'[p], NEW r \in Resources \ open'[p]
           PROVE  \E i \in 1..6 : Over(p, i)' /\ ShutdownSteps(p)[i] = r
      <3>1. CASE r = Current(p)
        BY <2>8, <2>9, <3>1
      <3>2. CASE r # Current(p)
        BY <2>5, <2>6, <2>8, <2>11, <3>2 DEF Inv, StopInv
      <3> QED BY <3>1, <3>2
    <2>12. "request" \in work[p] => p \in Apis
      BY DEF Inv, PhaseInv
    <2> QED BY <2>1, <2>3, <2>4, <2>5, <2>6, <2>7, <2>10, <2>11, <2>12, ProcessStep
  <1> QED BY <1>1, <1>2 DEF EndStep

LEMMA ProcessInv ==
  ASSUME Inv, NEW p \in Procs, Boot(p) \/ Work(p) \/ Stop(p) \/ Killed(p)
  PROVE  Inv'
  <1>1. CASE Boot(p)
    BY <1>1, Keeps_StartProcess, Keeps_Opens, Keeps_ListenAndWork, Keeps_Exit
    DEF Boot, ConnectDatabase, CreateRedisClient, BootFails, Resources
  <1>2. CASE Work(p)
    BY <1>2, Keeps_StartWork, Keeps_FinishWork DEF Work
  <1>3. CASE Stop(p)
    BY <1>3, Keeps_Shutdown, Keeps_EndStep, Keeps_Exit DEF Stop, StepCloses, StepFails, ForceExit
  <1>4. CASE Killed(p)
    BY <1>4, Keeps_Exit DEF Killed
  <1> QED BY <1>1, <1>2, <1>3, <1>4

(* The job whose turn it is. *)
LEMMA NextJobIsDue ==
  ASSUME Inv, NEW p \in Procs, Turn(p)
  PROVE  /\ NextJob(p) \in run[p].todo /\ NextJob(p) \in CronJobs /\ NextJob(p) # 0
         /\ Occurrence(p) \in Occurrences /\ Occurrence(p)[2] = run[p].minute
         /\ run[p].minute \in Minutes /\ run[p].minute <= now
         /\ Later(p) \subseteq CronJobs
  <1> DEFINE S == run[p].todo
  <1>1. S \subseteq 1..5 /\ S # {}
    BY CronJobsAre DEF Inv, TypeOK, Turn
  <1> HIDE DEF S
  <1>2. \E j \in S : \A i \in S : j <= i
    <2>1. \A n \in S : n \in {1, 2, 3, 4, 5}
      BY <1>1
    <2>2. CASE 1 \in S
      BY <2>1, <2>2
    <2>3. CASE 1 \notin S /\ 2 \in S
      BY <2>1, <2>3
    <2>4. CASE 1 \notin S /\ 2 \notin S /\ 3 \in S
      BY <2>1, <2>4
    <2>5. CASE 1 \notin S /\ 2 \notin S /\ 3 \notin S /\ 4 \in S
      BY <2>1, <2>5
    <2>6. CASE 1 \notin S /\ 2 \notin S /\ 3 \notin S /\ 4 \notin S
      <3>1. PICK n \in S : TRUE
        BY <1>1
      <3>2. S = {5}
        BY <2>1, <2>6, <3>1
      <3> QED BY <3>2
    <2> QED BY <2>2, <2>3, <2>4, <2>5, <2>6
  <1>3. NextJob(p) \in S
    BY <1>2 DEF NextJob, S
  <1>4. NextJob(p) \in 1..5 /\ NextJob(p) # 0
    <2>1. \A n \in S : n \in 1..5 /\ n # 0
      BY <1>1
    <2> QED BY <1>3, <2>1
  <1>5. run[p].minute \in Minutes /\ run[p].minute <= now
    BY DEF Turn, Inv, RunInv
  <1>6. Occurrence(p) \in Occurrences /\ Occurrence(p)[2] = run[p].minute
    <2> HIDE DEF NextJob
    <2> QED BY <1>4, <1>5, CronJobsAre DEF Occurrence, Occurrences
  <1>7. Later(p) \subseteq CronJobs
    BY <1>1, CronJobsAre DEF Later, S
  <1> QED BY <1>3, <1>4, <1>5, <1>6, <1>7, CronJobsAre DEF S

(* Ticks begin while the process may work, and end at any time. *)
LEMMA TickWork ==
  ASSUME Inv, NEW p \in Procs, UNCHANGED process,
         \A q \in Procs \ {p} : work'[q] = work[q],
         work'[p] \subseteq work[p] \cup {"tick"},
         "tick" \in work'[p] /\ "tick" \notin work[p] =>
            phase[p] \in {"up", "stopping"} /\ "background" \notin Begun(p)
  PROVE  PhaseInv' /\ StopInv'
  <1>1. UNCHANGED <<phase, open, at, clean>>
    BY DEF process
  <1>2. PhaseInv'
    BY <1>1 DEF Inv, PhaseInv
  <1>3. \A q \in Procs, i \in 1..6 : Over(q, i)' <=> Over(q, i)
    BY <1>1 DEF Over
  <1>4. ASSUME phase[p] = "stopping", "tick" \in work'[p], "tick" \notin work[p],
               NEW i \in 1..6, Over(p, i)
        PROVE  ShutdownSteps(p)[i] # Waiter("tick")
    <2>1. i \in 1..at[p]
      <3>1. at[p] \in Int
        BY AtStep DEF Inv
      <3>2. i \in 1..(at[p] - 1)
        BY <1>4 DEF Over
      <3> QED BY <3>1, <3>2
    <2>2. Begun(p) = {ShutdownSteps(p)[n] : n \in 1..at[p]}
      BY <1>4 DEF Begun
    <2>3. Waiter("tick") = "background"
      BY DEF Waiter
    <2> HIDE DEF Begun, ShutdownSteps, Waiter
    <2> QED BY <1>4, <2>1, <2>2, <2>3
  <1>5. StopInv'
    <2> HIDE DEF ShutdownSteps, Waiter
    <2> SUFFICES ASSUME NEW q \in Procs, phase'[q] = "stopping"
                 PROVE  /\ at'[q] \in 1..Len(ShutdownSteps(q))
                        /\ clean'[q] => /\ \A k \in work'[q], i \in 1..6 :
                                              Over(q, i)' => ShutdownSteps(q)[i] # Waiter(k)
                                        /\ \A r \in Resources \ open'[q] :
                                              \E i \in 1..6 : Over(q, i)' /\ ShutdownSteps(q)[i] = r
      BY DEF StopInv, ShutdownSteps
    <2>1. /\ at'[q] \in 1..Len(ShutdownSteps(q))
          /\ clean'[q] => \A r \in Resources \ open'[q] :
                             \E i \in 1..6 : Over(q, i)' /\ ShutdownSteps(q)[i] = r
      BY <1>1, <1>3 DEF Inv, StopInv
    <2>2. ASSUME clean'[q], NEW k \in work'[q], NEW i \in 1..6, Over(q, i)'
          PROVE  ShutdownSteps(q)[i] # Waiter(k)
      <3>1. CASE k \in work[q]
        BY <1>1, <1>3, <2>2, <3>1 DEF Inv, StopInv
      <3>2. CASE k \notin work[q]
        <4>1. q = p /\ k = "tick"
          BY <3>2
        <4> QED BY <1>1, <1>3, <1>4, <2>2, <3>2, <4>1
      <3> QED BY <3>1, <3>2
    <2> QED BY <2>1, <2>2
  <1> QED BY <1>2, <1>5

LEMMA GoesOn ==
  ASSUME Inv, NEW p \in Procs, NEW todo \in SUBSET CronJobs, GoOn(p, todo)
  PROVE  /\ run' \in [Procs -> RunRows] /\ run'[p].cur = 0
         /\ \A q \in Procs \ {p} : run'[q] = run[q] /\ work'[q] = work[q]
         /\ work' \in [Procs -> SUBSET Kinds] /\ work'[p] \subseteq work[p]
         /\ "tick" \in work'[p] => run'[p].minute = run[p].minute
  <1>1. run \in [Procs -> RunRows] /\ work \in [Procs -> SUBSET Kinds]
    BY DEF Inv, TypeOK, RunRows
  <1>2. CASE todo = {}
    <2>1. run' = [run EXCEPT ![p] = NoRun] /\ work' = [work EXCEPT ![p] = @ \ {"tick"}]
      BY <1>2 DEF GoOn
    <2> HIDE DEF NoRun, RunRows
    <2> QED BY <1>1, <2>1, NoRunRow
  <1>3. CASE todo # {}
    <2> DEFINE new == [run[p] EXCEPT !.todo = todo, !.cur = 0]
    <2>1. run' = [run EXCEPT ![p] = new] /\ work' = [work EXCEPT ![p] = @]
      BY <1>3 DEF GoOn
    <2>2. new \in RunRows /\ new.cur = 0 /\ new.minute = run[p].minute
      BY <1>1 DEF RunRows
    <2> HIDE DEF new, RunRows
    <2>3. work' = work
      BY <1>1, <2>1
    <2> QED BY <1>1, <2>1, <2>2, <2>3
  <1> QED BY <1>2, <1>3

LEMMA MarksRun ==
  ASSUME Inv, NEW p \in Procs, Turn(p), MarkRun(p)
  PROVE  lastRun' \in [Procs -> [CronJobs -> Minutes \cup {0}]]
  <1>1. NextJob(p) \in CronJobs /\ run[p].minute \in Minutes
    BY NextJobIsDue
  <1> HIDE DEF NextJob
  <1> QED BY <1>1 DEF MarkRun, Inv, TypeOK

(* A tick that goes on after a job, or ends, has nobody's handler running. *)
LEMMA GoOnKeeps ==
  ASSUME Inv, NEW p \in Procs, NEW todo \in SUBSET CronJobs, GoOn(p, todo),
         "tick" \in work[p], UNCHANGED <<process, now, missed, ran>>,
         lastRun' \in [Procs -> [CronJobs -> Minutes \cup {0}]],
         lock' \in [Occurrences -> LockRows], faults' \in 0..MaxFaults, faults <= faults',
         \A q \in Procs \ {p} : run[q].cur # 0 =>
            lock'[RunningNow(q)].renewer = q \/ missed[RunningNow(q)] >= TTL,
         \A o \in Occurrences : lock'[o].ttl >= lock[o].ttl,
         ExtendInv'
  PROVE  Inv'
  <1>1. TypeOK'
    BY GoesOn DEF Inv, TypeOK, RunRows, LockRows, process
  <1>2. PhaseInv' /\ StopInv'
    BY GoesOn, TickWork
  <1>3. RunInv'
    BY GoesOn DEF Inv, RunInv
  <1>4. HoldInv'
    BY GoesOn DEF HoldInv, RunningNow
  <1>5. LateInv' /\ MissedInv'
    <2>1. \A o \in Occurrences : lock[o].ttl \in Int /\ lock'[o].ttl \in Int /\ missed[o] \in Int /\ o[2] \in Int
      BY LifecycleAssumption DEF Inv, TypeOK, LockRows, Occurrences, Minutes
    <2>2. now \in Int /\ faults \in Int /\ faults' \in Int /\ TTL \in Int
      BY LifecycleAssumption DEF Inv, TypeOK, Minutes
    <2> QED BY <2>1, <2>2 DEF Inv, LateInv, MissedInv
  <1> QED BY <1>1, <1>2, <1>3, <1>4, <1>5 DEF Inv

LEMMA Runs == ASSUME Inv, NEW q \in Procs, run[q].cur # 0 PROVE RunningNow(q) \in Occurrences
  BY DEF Inv, TypeOK, RunInv, RunningNow, Occurrences

(* SET NX takes a lock that nobody has extended to its end: whoever still  *)
(* runs the occurrence has missed as many extensions as it takes.          *)
LEMMA TakesLock ==
  ASSUME Inv, NEW o \in Occurrences, lock[o].ttl = 0, NEW h \in Procs \cup {None},
         lock' = [lock EXCEPT ![o] = [ttl |-> TTL, renewer |-> h]], missed' = missed
  PROVE  /\ lock' \in [Occurrences -> LockRows] /\ lock'[o].ttl = TTL /\ lock'[o].renewer = h
         /\ \A x \in Occurrences \ {o} : lock'[x] = lock[x]
         /\ \A x \in Occurrences : lock'[x].ttl >= lock[x].ttl
         /\ \A q \in Procs : run[q].cur # 0 =>
               lock'[RunningNow(q)].renewer = q \/ missed[RunningNow(q)] >= TTL
         /\ ExtendInv'
  <1> DEFINE new == [ttl |-> TTL, renewer |-> h]
  <1>1. lock \in [Occurrences -> LockRows] /\ missed \in [Occurrences -> Nat] /\ TTL \in Nat
    BY LifecycleAssumption DEF Inv, TypeOK, LockRows
  <1>2. new \in LockRows /\ new.ttl = TTL /\ new.renewer = h
    BY <1>1 DEF LockRows
  <1> HIDE DEF new
  <1>3. /\ lock' \in [Occurrences -> LockRows] /\ lock'[o] = new
        /\ \A x \in Occurrences \ {o} : lock'[x] = lock[x]
    BY <1>1, <1>2 DEF new
  <1>4. \A x \in Occurrences : lock'[x].ttl >= lock[x].ttl
    BY <1>1, <1>2, <1>3 DEF LockRows
  <1>5. ASSUME NEW q \in Procs, run[q].cur # 0
        PROVE  lock'[RunningNow(q)].renewer = q \/ missed[RunningNow(q)] >= TTL
    <2>1. RunningNow(q) \in Occurrences
      BY <1>5, Runs
    <2>2. CASE RunningNow(q) # o
      BY <1>3, <1>5, <2>1, <2>2 DEF Inv, HoldInv
    <2>3. CASE RunningNow(q) = o
      <3>1. lock[o].renewer = q \/ missed[o] >= TTL
        BY <1>5, <2>3 DEF Inv, HoldInv
      <3>2. lock[o].renewer = q => missed[o] >= TTL
        BY <1>1, LifecycleAssumption DEF Inv, ExtendInv
      <3> QED BY <2>3, <3>1, <3>2
    <2> QED BY <2>2, <2>3
  <1>6. ExtendInv'
    <2> SUFFICES ASSUME NEW x \in Occurrences, lock'[x].renewer # None
                 PROVE  lock'[x].ttl + missed[x] >= TTL
      BY DEF ExtendInv
    <2>1. CASE x = o
      BY <1>1, <1>2, <1>3, <2>1
    <2>2. CASE x # o
      BY <1>3, <2>2 DEF Inv, ExtendInv
    <2> QED BY <2>1, <2>2
  <1> QED BY <1>2, <1>3, <1>4, <1>5, <1>6

LEMMA Keeps_Tick == ASSUME Inv, NEW p \in Procs, Tick(p) PROVE Inv'
  <1> DEFINE new == [minute |-> now, todo |-> DueJobs(now), cur |-> 0]
  <1>1. /\ "tick" \in Kinds /\ phase[p] \in {"up", "stopping"} /\ "background" \notin Begun(p)
        /\ "tick" \notin work[p]
        /\ run' = [run EXCEPT ![p] = new] /\ work' = [work EXCEPT ![p] = @ \cup {"tick"}]
        /\ UNCHANGED <<process, now, lastRun, lock, faults, missed, ran>>
    BY DEF Tick
  <1>2. now \in Minutes /\ run \in [Procs -> RunRows] /\ work \in [Procs -> SUBSET Kinds]
    BY DEF Inv, TypeOK, RunRows
  <1>3. new \in RunRows /\ new.cur = 0 /\ new.minute = now
    BY <1>2 DEF RunRows, DueJobs
  <1> HIDE DEF new
  <1>4. /\ run' \in [Procs -> RunRows] /\ run'[p] = new
        /\ \A q \in Procs \ {p} : run'[q] = run[q] /\ work'[q] = work[q]
        /\ work' \in [Procs -> SUBSET Kinds] /\ work'[p] = work[p] \cup {"tick"}
    <2> HIDE DEF RunRows
    <2> QED BY <1>1, <1>2, <1>3
  <1>5. TypeOK'
    BY <1>1, <1>4 DEF Inv, TypeOK, RunRows, process
  <1>6. PhaseInv' /\ StopInv'
    <2> HIDE DEF Begun
    <2> QED BY <1>1, <1>4, TickWork
  <1>7. RunInv'
    <2>1. now \in Int
      BY <1>2, LifecycleAssumption DEF Minutes
    <2> QED BY <1>1, <1>2, <1>3, <1>4, <2>1 DEF Inv, RunInv
  <1>8. HoldInv'
    BY <1>1, <1>3, <1>4 DEF Inv, HoldInv, RunningNow
  <1>9. ExtendInv' /\ LateInv' /\ MissedInv'
    BY <1>1 DEF Inv, ExtendInv, LateInv, MissedInv
  <1> QED BY <1>5, <1>6, <1>7, <1>8, <1>9 DEF Inv

LEMMA Keeps_SkipJob == ASSUME Inv, NEW p \in Procs, SkipJob(p) PROVE Inv'
  <1>1. /\ Turn(p) /\ GoOn(p, Later(p)) /\ MarkRun(p)
        /\ UNCHANGED <<process, now, lock, faults, missed, ran>>
    BY DEF SkipJob
  <1>2. Later(p) \in SUBSET CronJobs /\ "tick" \in work[p]
    BY <1>1, NextJobIsDue DEF Turn
  <1>3. lastRun' \in [Procs -> [CronJobs -> Minutes \cup {0}]]
    BY <1>1, MarksRun
  <1>4. /\ lock \in [Occurrences -> LockRows] /\ faults \in 0..MaxFaults
        /\ \A o \in Occurrences : lock[o].ttl \in Int
    BY LifecycleAssumption DEF Inv, TypeOK, LockRows
  <1>5. ExtendInv'
    BY <1>1 DEF Inv, ExtendInv
  <1>6. \A q \in Procs : run[q].cur # 0 => lock[RunningNow(q)].renewer = q \/ missed[RunningNow(q)] >= TTL
    BY DEF Inv, HoldInv
  <1> HIDE DEF Later, NextJob, GoOn, LockRows
  <1>7. faults <= faults' /\ \A o \in Occurrences : lock'[o].ttl >= lock[o].ttl
    BY <1>1, <1>4
  <1> QED BY <1>1, <1>2, <1>3, <1>4, <1>5, <1>6, <1>7, GoOnKeeps

LEMMA Keeps_LockCallFails ==
  ASSUME Inv, NEW p \in Procs, NEW kept \in BOOLEAN, LockCallFails(p, kept)
  PROVE  Inv'
  <1>1. /\ Turn(p) /\ GoOn(p, Later(p)) /\ MarkRun(p)
        /\ faults < MaxFaults /\ faults' = faults + 1 /\ UNCHANGED <<process, now, missed, ran>>
        /\ lock' = IF kept /\ lock[Occurrence(p)].ttl = 0
                   THEN [lock EXCEPT ![Occurrence(p)] = [ttl |-> TTL, renewer |-> None]] ELSE lock
    BY DEF LockCallFails
  <1>2. Later(p) \in SUBSET CronJobs /\ "tick" \in work[p] /\ Occurrence(p) \in Occurrences
    BY <1>1, NextJobIsDue DEF Turn
  <1>3. lastRun' \in [Procs -> [CronJobs -> Minutes \cup {0}]]
    BY <1>1, MarksRun
  <1>4. faults' \in 0..MaxFaults /\ faults <= faults'
    BY <1>1, LifecycleAssumption DEF Inv, TypeOK
  <1> HIDE DEF Later, NextJob, GoOn, Occurrence
  <1>5. /\ lock' \in [Occurrences -> LockRows]
        /\ \A o \in Occurrences : lock'[o].ttl >= lock[o].ttl
        /\ \A q \in Procs : run[q].cur # 0 =>
              lock'[RunningNow(q)].renewer = q \/ missed[RunningNow(q)] >= TTL
        /\ ExtendInv'
    <2>1. CASE lock' = lock
      <3>1. lock \in [Occurrences -> LockRows] /\ \A o \in Occurrences : lock[o].ttl \in Int
        BY LifecycleAssumption DEF Inv, TypeOK, LockRows
      <3>2. \A o \in Occurrences : lock'[o].ttl >= lock[o].ttl
        BY <2>1, <3>1
      <3>3. \A q \in Procs : run[q].cur # 0 =>
               lock'[RunningNow(q)].renewer = q \/ missed[RunningNow(q)] >= TTL
        BY <2>1 DEF Inv, HoldInv
      <3>4. ExtendInv'
        BY <1>1, <2>1, Zenon DEF Inv, ExtendInv
      <3> QED BY <2>1, <3>1, <3>2, <3>3, <3>4
    <2>2. CASE lock' # lock
      BY <1>1, <1>2, <2>2, TakesLock
    <2> QED BY <2>1, <2>2
  <1> QED BY <1>1, <1>2, <1>3, <1>4, <1>5, GoOnKeeps

LEMMA Keeps_JobEnds == ASSUME Inv, NEW p \in Procs, JobEnds(p) PROVE Inv'
  <1> DEFINE o == RunningNow(p)
  <1>1. /\ "tick" \in work[p] /\ run[p].cur # 0 /\ GoOn(p, run[p].todo)
        /\ lock' = IF lock[o].renewer = p THEN [lock EXCEPT ![o].renewer = None] ELSE lock
        /\ UNCHANGED <<process, now, lastRun, faults, missed, ran>>
    BY DEF JobEnds, RunningNow
  <1>2. o \in Occurrences /\ lock \in [Occurrences -> LockRows]
    BY <1>1, Runs DEF Inv, TypeOK, LockRows
  <1> HIDE DEF o
  <1>3. /\ lock' \in [Occurrences -> LockRows]
        /\ \A x \in Occurrences : /\ lock'[x].ttl = lock[x].ttl
                                  /\ lock'[x].renewer \in {lock[x].renewer, None}
                                  /\ lock[x].renewer # p => lock'[x].renewer = lock[x].renewer
    <2>1. CASE lock[o].renewer = p
      <3>1. lock' = [lock EXCEPT ![o].renewer = None]
        BY <1>1, <2>1
      <3> DEFINE new == [lock[o] EXCEPT !.renewer = None]
      <3>2. new \in LockRows /\ new.ttl = lock[o].ttl /\ new.renewer = None
        BY <1>2 DEF LockRows
      <3>3. lock' = [lock EXCEPT ![o] = new]
        BY <1>2, <3>1
      <3> HIDE DEF new, LockRows
      <3>4. lock' \in [Occurrences -> LockRows] /\ lock'[o] = new /\ \A x \in Occurrences \ {o} : lock'[x] = lock[x]
        BY <1>2, <3>2, <3>3
      <3> QED BY <2>1, <3>2, <3>4
    <2>2. CASE lock[o].renewer # p
      BY <1>1, <1>2, <2>2
    <2> QED BY <2>1, <2>2
  <1>4. ExtendInv'
    BY <1>1, <1>3 DEF Inv, ExtendInv
  <1>5. ASSUME NEW q \in Procs \ {p}, run[q].cur # 0
        PROVE  lock'[RunningNow(q)].renewer = q \/ missed[RunningNow(q)] >= TTL
    BY <1>3, <1>5, Runs DEF Inv, HoldInv
  <1>6. /\ run[p].todo \in SUBSET CronJobs /\ faults \in 0..MaxFaults /\ faults <= faults'
        /\ lastRun \in [Procs -> [CronJobs -> Minutes \cup {0}]]
    BY <1>1, LifecycleAssumption DEF Inv, TypeOK
  <1>7. \A x \in Occurrences : lock'[x].ttl >= lock[x].ttl
    BY <1>2, <1>3, LifecycleAssumption DEF LockRows
  <1> HIDE DEF GoOn, LockRows
  <1> QED BY <1>1, <1>3, <1>4, <1>5, <1>6, <1>7, GoOnKeeps

(* An occurrence is started under its lock, not before its minute. *)
LEMMA Keeps_RunJob == ASSUME Inv, NEW p \in Procs, RunJob(p) PROVE Inv'
  <1> DEFINE o == Occurrence(p)
             new == [run[p] EXCEPT !.todo = Later(p), !.cur = NextJob(p)]
  <1>1. /\ Turn(p) /\ MarkRun(p) /\ lock[o].ttl = 0
        /\ lock' = [lock EXCEPT ![o] = [ttl |-> TTL, renewer |-> p]]
        /\ run' = [run EXCEPT ![p].todo = Later(p), ![p].cur = NextJob(p)]
        /\ ran' = [ran EXCEPT ![o] = @ + 1]
        /\ UNCHANGED <<process, work, now, faults, missed>>
    BY DEF RunJob
  <1>2. /\ NextJob(p) \in CronJobs /\ Later(p) \in SUBSET CronJobs /\ NextJob(p) # 0
        /\ o \in Occurrences /\ o[2] = run[p].minute /\ run[p].minute <= now /\ run[p].minute \in Minutes
    BY <1>1, NextJobIsDue
  <1>3. o = <<NextJob(p), run[p].minute>>
    BY DEF Occurrence
  <1>4. lastRun' \in [Procs -> [CronJobs -> Minutes \cup {0}]]
    BY <1>1, MarksRun
  <1> HIDE DEF NextJob, Later, o
  <1>5. run \in [Procs -> RunRows] /\ ran \in [Occurrences -> Nat]
    BY DEF Inv, TypeOK, RunRows
  <1>6. new \in RunRows /\ new.cur = NextJob(p) /\ new.minute = run[p].minute
    BY <1>2, <1>5 DEF RunRows
  <1>7. run' = [run EXCEPT ![p] = new]
    BY <1>1, <1>5 DEF RunRows
  <1> HIDE DEF new
  <1>8. run' \in [Procs -> RunRows] /\ run'[p] = new /\ \A q \in Procs \ {p} : run'[q] = run[q]
    <2> HIDE DEF RunRows
    <2> QED BY <1>5, <1>6, <1>7
  <1>9. /\ lock' \in [Occurrences -> LockRows] /\ lock'[o].ttl = TTL /\ lock'[o].renewer = p
        /\ \A x \in Occurrences \ {o} : lock'[x] = lock[x]
        /\ \A q \in Procs : run[q].cur # 0 =>
              lock'[RunningNow(q)].renewer = q \/ missed[RunningNow(q)] >= TTL
        /\ ExtendInv'
    BY <1>1, <1>2, TakesLock
  <1>10. ran' \in [Occurrences -> Nat] /\ \A x \in Occurrences \ {o} : ran'[x] = ran[x]
    BY <1>1, <1>2, <1>5
  <1>11. TypeOK'
    BY <1>1, <1>4, <1>8, <1>9, <1>10 DEF Inv, TypeOK, RunRows, LockRows, process
  <1>12. PhaseInv' /\ StopInv'
    BY <1>1, TickWork
  <1>13. RunInv'
    BY <1>1, <1>6, <1>8 DEF Inv, RunInv, Turn
  <1>14. HoldInv'
    <2> SUFFICES ASSUME NEW q \in Procs, run'[q].cur # 0
                 PROVE  lock'[RunningNow(q)'].renewer = q \/ missed[RunningNow(q)'] >= TTL
      BY <1>1 DEF HoldInv
    <2>1. CASE q = p
      <3>1. RunningNow(p)' = o
        BY <1>3, <1>6, <1>8 DEF RunningNow
      <3> QED BY <1>9, <2>1, <3>1
    <2>2. CASE q # p
      <3>1. RunningNow(q)' = RunningNow(q) /\ run[q].cur # 0
        BY <1>8, <2>2 DEF RunningNow
      <3> QED BY <1>9, <3>1
    <2> QED BY <2>1, <2>2
  <1>15. LateInv'
    <2> SUFFICES ASSUME NEW x \in Occurrences, ran'[x] > 0 PROVE lock'[x].ttl + now >= x[2] + TTL
      BY <1>1 DEF LateInv
    <2>1. CASE x = o
      <3>1. TTL \in Int /\ now \in Int /\ o[2] \in Int /\ o[2] <= now
        BY <1>2, LifecycleAssumption DEF Inv, TypeOK, Minutes
      <3> QED BY <1>9, <2>1, <3>1
    <2>2. CASE x # o
      BY <1>9, <1>10, <2>2 DEF Inv, LateInv
    <2> QED BY <2>1, <2>2
  <1>16. MissedInv'
    BY <1>1 DEF Inv, MissedInv
  <1> QED BY <1>9, <1>11, <1>12, <1>13, <1>14, <1>15, <1>16 DEF Inv

(* A minute takes a minute off a lock at most, and gives the full time     *)
(* back to one that is extended.                                           *)
LEMMA Keeps_Minute ==
  ASSUME Inv, NEW miss \in SUBSET {o \in Occurrences : lock[o].renewer # None}, Minute(miss)
  PROVE  Inv'
  <1>1. /\ now < LastMinute /\ now' = now + 1
        /\ \A o \in miss : lock[o].renewer # None /\ lock[o].ttl > 0
        /\ faults + Cardinality(miss) <= MaxFaults /\ faults' = faults + Cardinality(miss)
        /\ lock' = [o \in Occurrences |->
                      IF o \in miss THEN [lock[o] EXCEPT !.ttl = @ - 1] ELSE Extended(lock[o])]
        /\ missed' = [o \in Occurrences |-> IF o \in miss THEN missed[o] + 1 ELSE missed[o]]
        /\ UNCHANGED <<process, work, lastRun, run, ran>>
    BY DEF Minute
  <1>2. /\ lock \in [Occurrences -> LockRows] /\ missed \in [Occurrences -> Nat]
        /\ \A o \in Occurrences : missed[o] \in Int /\ missed[o] <= faults
        /\ faults \in Nat /\ TTL \in Nat /\ TTL > 0 /\ MaxFaults \in Nat
    BY LifecycleAssumption DEF Inv, TypeOK, LockRows, MissedInv
  <1>3. /\ Cardinality(miss) \in Nat
        /\ \A o \in miss : Cardinality(miss) >= 1
    <2>1. IsFiniteSet(miss)
      BY OccurrencesFinite, FS_Subset
    <2>2. Cardinality(miss) \in Nat /\ (Cardinality(miss) = 0 <=> miss = {})
      BY <2>1, FS_CardinalityType, FS_EmptySet
    <2> QED BY <2>2
  <1>4. ASSUME NEW o \in Occurrences
        PROVE  /\ lock'[o] \in LockRows /\ lock'[o].renewer = lock[o].renewer
               /\ lock'[o].ttl >= lock[o].ttl - 1
               /\ lock[o].renewer # None /\ o \notin miss => lock'[o].ttl \in {TTL, lock[o].ttl}
    <2>1. lock[o] \in LockRows /\ lock[o].ttl \in 0..TTL
      BY <1>2 DEF LockRows
    <2>2. CASE o \in miss
      <3>1. lock'[o] = [lock[o] EXCEPT !.ttl = @ - 1] /\ lock[o].ttl > 0
        BY <1>1, <2>2
      <3>2. lock[o].ttl - 1 \in 0..TTL
        BY <1>2, <2>1, <3>1
      <3> QED BY <2>1, <2>2, <3>1, <3>2 DEF LockRows
    <2>3. CASE o \notin miss /\ lock[o].renewer # None /\ lock[o].ttl > 0
      <3>1. lock'[o] = [lock[o] EXCEPT !.ttl = TTL]
        BY <1>1, <2>3 DEF Extended
      <3>2. TTL \in 0..TTL /\ TTL >= lock[o].ttl - 1
        BY <1>2, <2>1
      <3> QED BY <2>1, <3>1, <3>2 DEF LockRows
    <2>4. CASE o \notin miss /\ ~(lock[o].renewer # None /\ lock[o].ttl > 0) /\ lock[o].ttl > 0
      <3>1. lock'[o] = [lock[o] EXCEPT !.ttl = lock[o].ttl - 1] /\ lock[o].renewer = None
        BY <1>1, <2>4 DEF Extended
      <3>2. lock[o].ttl - 1 \in 0..TTL
        BY <1>2, <2>1, <2>4
      <3> QED BY <2>1, <3>1, <3>2 DEF LockRows
    <2>5. CASE o \notin miss /\ ~(lock[o].ttl > 0)
      <3>1. lock'[o] = [lock[o] EXCEPT !.ttl = 0] /\ lock[o].ttl = 0
        BY <1>1, <2>1, <2>5 DEF Extended
      <3> QED BY <1>2, <2>1, <3>1 DEF LockRows
    <2> QED BY <2>2, <2>3, <2>4, <2>5
  <1>5. lock' \in [Occurrences -> LockRows]
    BY <1>1, <1>4
  <1>6. /\ missed' \in [Occurrences -> 0..MaxFaults]
        /\ \A o \in Occurrences : /\ missed'[o] \in Int /\ missed'[o] >= missed[o] /\ missed'[o] <= faults'
                                  /\ o \in miss => missed'[o] = missed[o] + 1
    <2>1. \A o \in Occurrences : missed'[o] = IF o \in miss THEN missed[o] + 1 ELSE missed[o]
      BY <1>1
    <2>2. \A o \in Occurrences : missed'[o] \in 0..MaxFaults /\ missed'[o] <= faults'
      BY <1>1, <1>2, <1>3, <2>1
    <2> QED BY <1>1, <1>2, <2>1, <2>2
  <1>7. now \in Minutes /\ now' \in Minutes /\ now \in Int
    BY <1>1, LifecycleAssumption DEF Inv, TypeOK, Minutes
  <1>8. faults' \in 0..MaxFaults
    BY <1>1, <1>2, <1>3
  <1>9. TypeOK'
    BY <1>1, <1>5, <1>6, <1>7, <1>8 DEF Inv, TypeOK, LockRows, process
  <1>10. PhaseInv' /\ StopInv'
    <2>1. CASE Procs = {}
      BY <2>1 DEF PhaseInv, StopInv
    <2>2. CASE Procs # {}
      BY <1>1, <2>2, TickWork
    <2> QED BY <2>1, <2>2
  <1>11. RunInv'
    <2>1. \A p \in Procs : run[p].minute \in Minutes => run[p].minute \in Int
      BY LifecycleAssumption DEF Minutes
    <2> QED BY <1>1, <1>7, <2>1 DEF Inv, RunInv
  <1>12. HoldInv'
    <2> SUFFICES ASSUME NEW p \in Procs, run[p].cur # 0
                 PROVE  lock'[RunningNow(p)].renewer = p \/ missed'[RunningNow(p)] >= TTL
      BY <1>1 DEF HoldInv, RunningNow
    <2>1. RunningNow(p) \in Occurrences
      BY Runs
    <2>2. lock[RunningNow(p)].renewer = p \/ missed[RunningNow(p)] >= TTL
      BY DEF Inv, HoldInv
    <2> QED BY <1>2, <1>4, <1>6, <2>1, <2>2
  <1>13. ExtendInv'
    <2> SUFFICES ASSUME NEW o \in Occurrences, lock'[o].renewer # None
                 PROVE  lock'[o].ttl + missed'[o] >= TTL
      BY DEF ExtendInv
    <2>1. /\ lock[o].ttl \in Int /\ lock'[o].ttl \in Int /\ missed[o] \in Nat /\ missed'[o] \in Int
          /\ lock[o].ttl + missed[o] >= TTL
      BY <1>2, <1>4, <1>6 DEF Inv, ExtendInv, LockRows
    <2>2. CASE o \in miss
      BY <1>2, <1>4, <1>6, <2>1, <2>2
    <2>3. CASE o \notin miss
      BY <1>2, <1>4, <1>6, <2>1, <2>3
    <2> QED BY <2>2, <2>3
  <1>14. LateInv'
    <2> SUFFICES ASSUME NEW o \in Occurrences, ran[o] > 0 PROVE lock'[o].ttl + now' >= o[2] + TTL
      BY <1>1 DEF LateInv
    <2>1. lock[o].ttl \in Int /\ lock'[o].ttl \in Int /\ o[2] \in Int /\ TTL \in Int
      BY <1>2, <1>4, LifecycleAssumption DEF LockRows, Occurrences, Minutes
    <2>2. lock[o].ttl + now >= o[2] + TTL
      BY DEF Inv, LateInv
    <2>3. lock'[o].ttl >= lock[o].ttl - 1
      BY <1>4
    <2>4. now' = now + 1
      BY <1>1
    <2> QED BY <1>7, <2>1, <2>2, <2>3, <2>4
  <1>15. MissedInv'
    BY <1>6 DEF MissedInv
  <1> QED BY <1>9, <1>10, <1>11, <1>12, <1>13, <1>14, <1>15 DEF Inv

LEMMA InitInv == ASSUME Init PROVE Inv
  <1>1. run \in [Procs -> RunRows] /\ \A p \in Procs : run[p].cur = 0
    BY NoRunRow DEF Init
  <1>2. lock \in [Occurrences -> LockRows] /\ \A o \in Occurrences : lock[o].renewer = None
    BY FreeLockRow DEF Init
  <1>3. now \in Minutes
    BY LifecycleAssumption DEF Init, Minutes
  <1>4. TypeOK
    BY <1>1, <1>2, <1>3, LifecycleAssumption DEF Init, TypeOK, RunRows, LockRows
  <1>5. PhaseInv /\ StopInv
    BY DEF Init, PhaseInv, StopInv
  <1>6. RunInv /\ HoldInv /\ ExtendInv
    BY <1>1, <1>2 DEF Init, RunInv, HoldInv, ExtendInv
  <1>7. LateInv /\ MissedInv
    BY DEF Init, LateInv, MissedInv
  <1> QED BY <1>4, <1>5, <1>6, <1>7 DEF Inv

LEMMA NextInv == ASSUME Inv, [Next]_vars PROVE Inv'
  <1>1. ASSUME NEW p \in Procs, Schedules(p) PROVE Inv'
    BY <1>1, Keeps_Tick, Keeps_SkipJob, Keeps_RunJob, Keeps_JobEnds, Keeps_LockCallFails DEF Schedules
  <1>2. CASE UNCHANGED vars
    <2>1. UNCHANGED <<phase, starts, stops, open, at, clean, wanted, exitCode, work, now, lastRun, run,
                      lock, faults, missed, ran>>
      BY <1>2 DEF vars, process, scheduler
    <2> QED BY <2>1 DEF Inv, TypeOK, PhaseInv, StopInv, Over, RunInv, HoldInv, RunningNow, ExtendInv,
               LateInv, MissedInv
  <1> QED BY <1>1, <1>2, ProcessInv, Keeps_Minute DEF Next

(* Processes that start, work, shut down, fail, are killed and compete for *)
(* the locks of the scheduler keep Inv.                                    *)
THEOREM LifecycleInvariant == Spec => []Inv
<1>1. Init => Inv
  BY InitInv
<1>2. Inv /\ [Next]_vars => Inv'
  BY NextInv
<1> QED BY <1>1, <1>2, PTL DEF Spec

(* Every variable of Lifecycle keeps its type. *)
THEOREM LifecycleTypeCorrect == Spec => []TypeOK
<1>1. Inv => TypeOK
  BY DEF Inv
<1> QED BY <1>1, LifecycleInvariant, PTL

(* The shutdown of main.ts and of worker.ts closes nothing under the work  *)
(* it waits for, as long as no step of it fails.                           *)
THEOREM ShutdownDrainsFirst == Spec => []ResourcesOutliveWork
<1>1. Inv => ResourcesOutliveWork
  BY OutliveFollows
<1> QED BY <1>1, LifecycleInvariant, PTL

(* The lock that runJob takes and extends keeps a second process out of a  *)
(* running occurrence until TTL extensions of it are missed.               *)
THEOREM OccurrencesDoNotOverlap == Spec => []NoOverlappingRuns
<1>1. Inv => NoOverlappingRuns
  BY NoOverlapFollows
<1> QED BY <1>1, LifecycleInvariant, PTL

(* An occurrence is run again only TTL minutes after its minute or later,  *)
(* although a restarted process has forgotten lastRunMinute.               *)
THEOREM OccurrencesRepeatLate == Spec => RepeatsAreLate
<1>1. ASSUME Inv, [Next]_vars
      PROVE  [\A o \in Occurrences : ran[o] > 0 /\ ran'[o] > ran[o] => now >= o[2] + TTL]_vars
  <2>1. ASSUME NEW p \in Procs, RunJob(p), NEW o \in Occurrences, ran[o] > 0, ran'[o] > ran[o]
        PROVE  now >= o[2] + TTL
    <3>1. /\ lock[Occurrence(p)].ttl = 0 /\ Turn(p)
          /\ ran' = [ran EXCEPT ![Occurrence(p)] = @ + 1]
      BY <2>1 DEF RunJob
    <3> HIDE DEF Occurrence
    <3>2. ran \in [Occurrences -> Nat]
      BY <1>1 DEF Inv, TypeOK
    <3>3. o = Occurrence(p)
      BY <2>1, <3>1, <3>2
    <3>4. lock[o].ttl + now >= o[2] + TTL
      BY <1>1, <2>1 DEF Inv, LateInv
    <3>5. now \in Int
      BY <1>1, LifecycleAssumption DEF Inv, TypeOK, Minutes
    <3> QED BY <3>1, <3>3, <3>4, <3>5
  <2>2. (\E p \in Procs : RunJob(p)) \/ ran' = ran
    BY <1>1 DEF Next, Boot, Work, Stop, Killed, Schedules, StartProcess, ConnectDatabase,
       CreateRedisClient, Opens, ListenAndWork, BootFails, StartWork, FinishWork, Shutdown, StepCloses,
       StepFails, EndStep, ForceExit, Exit, Tick, SkipJob, JobEnds, LockCallFails, Minute, scheduler, vars
  <2>3. CASE ran' = ran
    <3>1. \A o \in Occurrences : ~(ran'[o] > ran[o])
      <4>1. ran \in [Occurrences -> Nat]
        BY <1>1 DEF Inv, TypeOK
      <4> QED BY <2>3, <4>1
    <3> QED BY <3>1
  <2> QED BY <2>1, <2>2, <2>3
<1> QED BY <1>1, LifecycleInvariant, PTL DEF Spec, RepeatsAreLate
=============================================================================
