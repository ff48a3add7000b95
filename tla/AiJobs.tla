------------------------------- MODULE AiJobs -------------------------------
(***************************************************************************)
(* The AI jobs (ai.service.ts) of one tenant, with its feature flags.  A   *)
(* job reads its subject, asks the provider, stores an AIResult and acts   *)
(* on the answer: it sets the category of the ticket, escalates it, or     *)
(* updates the risk score of the customer.  Agents edit the subjects and   *)
(* managers the tenant and its flags while the provider takes its time.    *)
(*                                                                         *)
(* A row stands for the columns of a ticket or a customer: `edit` for what *)
(* agents write, `label` for the category or the risk score.               *)
(***************************************************************************)
EXTENDS Integers, FiniteSets

CONSTANTS Jobs,
          ForcedOn, ForcedOff,  \* features with a FEATURE_FLAG_... variable
          InRollout,            \* subjects in the buckets of a partial rollout
          Managed,              \* BOUND: features whose flags managers change
          MaxEdits,             \* BOUND: writes of agents
          MaxFlagChanges,       \* BOUND: flags set and deleted
          MaxMishaps             \* BOUND: exceptions and stalled jobs

JobTypes == {"categorize", "sentiment", "urgency", "suggest-response", "summarize", "risk-score"}

AUTO == "auto-escalation"

Features == JobTypes \cup {AUTO}

Subjects == {"ticket", "customer"}

ASSUME AiAssumption ==
    /\ ForcedOn \cup ForcedOff \cup Managed \subseteq Features /\ ForcedOn \cap ForcedOff = {}
    /\ InRollout \subseteq Subjects \cup {"tenant"}
    /\ {MaxEdits, MaxFlagChanges, MaxMishaps} \subseteq Nat

VARIABLES
    flags,     \* settings.featureFlags of the tenant
    update,    \* the flags a request to update the tenant has read
    row,       \* the ticket and the customer
    edit,      \* an agent's request: the row as read
    job,       \* the queue and the workers
    result,    \* AIResults stored by each job
    accepted,  \* suggestions an agent accepted
    changes, mishaps,
    \* history
    wish,      \* the flags as last set or deleted
    agreed,    \* jobs during which the tenant wanted automatic escalation
    acted,     \* jobs that escalated the ticket
    edited,    \* writes of agents, per row
    overlapped \* rows written by an agent between the two halves of a job's write

aiVars == <<flags, update, row, edit, job, result, accepted, changes, mishaps, wish, agreed, acted,
          edited, overlapped>>

Definitions == {"absent", "off", "on", "partial"}

SubjectOf(type) == IF type = "risk-score" THEN "customer" ELSE "ticket"

RowType == [active : BOOLEAN, escalated : BOOLEAN, label : {"old", "new"}, edit : 0..MaxEdits]

Untouched == [active |-> TRUE, escalated |-> FALSE, label |-> "old", edit |-> 0]

NoJob == [type |-> "none", long |-> FALSE, pc |-> "none", copy |-> Untouched]

NoCopy == [subject |-> "none"]

AiTypeOK ==
    /\ {flags, wish} \subseteq [Features -> Definitions]
    /\ update = NoCopy \/ update \in [Features -> Definitions]
    /\ row \in [Subjects -> RowType]
    /\ edit = NoCopy \/ edit \in [subject : Subjects, copy : RowType]
    /\ job \in [Jobs -> [type : JobTypes \cup {"none"}, long : BOOLEAN, copy : RowType,
                         pc : {"none", "queued", "flag", "ask", "act", "reread", "read", "write", "done"}]]
    /\ result \in [Jobs -> 0..(MaxMishaps + 1)]
    /\ accepted \subseteq Jobs
    /\ changes \in 0..MaxFlagChanges
    /\ mishaps \in 0..MaxMishaps
    /\ agreed \cup acted \subseteq Jobs
    /\ edited \in [Subjects -> 0..MaxEdits]
    /\ overlapped \subseteq Subjects

AiInit ==
    /\ flags \in [Features -> Definitions]
    /\ update = NoCopy
    /\ row = [s \in Subjects |-> Untouched]
    /\ edit = NoCopy
    /\ job = [j \in Jobs |-> NoJob]
    /\ result = [j \in Jobs |-> 0]
    /\ accepted = {}
    /\ changes = 0
    /\ mishaps = 0
    /\ wish = flags
    /\ agreed = {}
    /\ acted = {}
    /\ edited = [s \in Subjects |-> 0]
    /\ overlapped = {}

(* evaluateDefinition: the bucket of a subject does not change. *)
evaluateDefinition(d, subject) == d = "on" \/ (d = "partial" /\ subject \in InRollout)

(* An override of the deployment, the tenant's definition, the fallback. *)
isEnabled(fs, f, subject, fallback) ==
    \/ f \in ForcedOn
    \/ /\ f \notin ForcedOff
       /\ IF fs[f] = "absent" THEN fallback ELSE evaluateDefinition(fs[f], subject)

isAutoEscalationEnabled(fs) == isEnabled(fs, AUTO, "tenant", FALSE)

(* A job is added to the queue; addTicketAnalysis adds three of them. *)
Enqueue(j, type, long) ==
    /\ job[j] = NoJob
    /\ job' = [job EXCEPT ![j] = [NoJob EXCEPT !.type = type, !.long = long, !.pc = "queued"]]
    /\ UNCHANGED <<flags, update, row, edit, result, accepted, changes, mishaps, wish, agreed, acted,
                   edited, overlapped>>

(* Tickets enqueue their analysis when they are created, commented on and  *)
(* resolved; agents ask for any job of a ticket.                           *)
TicketJobs == {"categorize", "sentiment", "urgency", "suggest-response", "summarize"}

queueTicketJob(j, long) == \E type \in TicketJobs : Enqueue(j, type, long)

(* Agents ask for the risk score of a customer. *)
triggerRiskScoreUpdate(j, long) == Enqueue(j, "risk-score", long)

Finished(j) == job' = [job EXCEPT ![j] = [NoJob EXCEPT !.type = job[j].type, !.pc = "done"]]

To(j, pc) == job' = [job EXCEPT ![j].pc = pc]

(* The worker takes the job and reads the ticket; two jobs keep it. *)
Start(j) ==
    /\ job[j].pc = "queued"
    /\ job' = [job EXCEPT ![j].pc = "flag",
                          ![j].copy = IF job[j].type \in {"categorize", "urgency"} THEN row["ticket"] ELSE @]
    /\ agreed' = IF isAutoEscalationEnabled(wish) THEN agreed \cup {j} ELSE agreed \ {j}
    /\ UNCHANGED <<flags, update, row, edit, result, accepted, changes, mishaps, wish, acted, edited,
                   overlapped>>

Rest == <<flags, update, row, edit, accepted, changes, wish, agreed, acted, edited, overlapped>>

(* The feature of the job, on by default, and at least eight characters. *)
CheckFeature(j) ==
    /\ job[j].pc = "flag"
    /\ IF isEnabled(flags, job[j].type, SubjectOf(job[j].type), TRUE) /\ job[j].long
       THEN To(j, "ask") ELSE Finished(j)
    /\ UNCHANGED <<Rest, result, mishaps>>

(* What the provider may answer.  An answer is strong when it reaches the *)
(* threshold of its type; one that cannot be parsed never does.            *)
categorizeTicket == {"weak", "strong"}    \* confidence 0.7
analyzeSentiment == {"weak", "strong"}    \* FRUSTRATED, confidence 0.8
predictUrgency == {"weak", "strong"}      \* the urgency threshold
suggestResponse == {"text"}
generateResolutionSummary == {"text"}
calculateRiskScore == {"score"}

(* The provider answers and the result is stored. *)
Answered(j, answers, next) ==
    /\ job[j].pc = "ask"
    /\ result' = [result EXCEPT ![j] = @ + 1]
    /\ \E x \in answers : IF x \in {"strong", "score"} THEN To(j, next) ELSE Finished(j)
    /\ UNCHANGED <<Rest, mishaps>>

(* MUTANT: saves the ticket as it was read before the provider was asked. *)
WriteCategoryWhole(j) ==
    /\ job[j].pc = "act"
    /\ row' = [row EXCEPT !["ticket"] = [job[j].copy EXCEPT !.label = "new"]]
    /\ Finished(j)
    /\ UNCHANGED <<flags, update, edit, result, accepted, changes, mishaps, wish, agreed, acted, edited,
                   overlapped>>

(* Only the category column is written; an answer outside the categories  *)
(* throws instead.                                                         *)
WriteCategory(j) ==
    /\ job[j].pc = "act"
    /\ row' = [row EXCEPT !["ticket"].label = "new"]
    /\ Finished(j)
    /\ UNCHANGED <<flags, update, edit, result, accepted, changes, mishaps, wish, agreed, acted, edited,
                   overlapped>>

UnknownCategory(j) ==
    /\ job[j].pc = "act"
    /\ Finished(j)
    /\ UNCHANGED <<Rest, result, mishaps>>

canEscalate(ticket) == ticket.active /\ ~ticket.escalated

(* Frustrated: the opt-in is checked and the ticket looked at again. *)
CheckSentiment(j) ==
    /\ job[j].pc = "act"
    /\ IF isAutoEscalationEnabled(flags) THEN To(j, "reread") ELSE Finished(j)
    /\ UNCHANGED <<Rest, result, mishaps>>

Reread(j) ==
    /\ job[j].pc = "reread"
    /\ IF canEscalate(row["ticket"]) THEN To(j, "read") ELSE Finished(j)
    /\ UNCHANGED <<Rest, result, mishaps>>

(* Urgent: the ticket as first read, and the opt-in. *)
CheckUrgency(j) ==
    /\ job[j].pc = "act"
    /\ IF canEscalate(job[j].copy) /\ isAutoEscalationEnabled(flags) THEN To(j, "read") ELSE Finished(j)
    /\ UNCHANGED <<Rest, result, mishaps>>

(* escalateTicket and updateRiskScore read the row again ... *)
ReadToWrite(j) ==
    LET now == row[SubjectOf(job[j].type)]
    IN /\ job[j].pc = "read"
       /\ IF job[j].type = "risk-score" \/ canEscalate(now)
          THEN job' = [job EXCEPT ![j].pc = "write", ![j].copy = now]
          ELSE Finished(j)
       /\ UNCHANGED <<Rest, result, mishaps>>

(* ... and write it whole. *)
EscalateTicket(j) ==
    /\ job[j].pc = "write"
    /\ row' = [row EXCEPT !["ticket"] = [job[j].copy EXCEPT !.escalated = TRUE]]
    /\ acted' = acted \cup {j}
    /\ Finished(j)
    /\ UNCHANGED <<flags, update, edit, result, accepted, changes, mishaps, wish, agreed, edited,
                   overlapped>>

updateRiskScore(j) ==
    /\ job[j].pc = "write"
    /\ row' = [row EXCEPT !["customer"] = [job[j].copy EXCEPT !.label = "new"]]
    /\ Finished(j)
    /\ UNCHANGED <<flags, update, edit, result, accepted, changes, mishaps, wish, agreed, acted, edited,
                   overlapped>>

Running(j) == job[j].pc \notin {"none", "queued", "done"}

(* Every exception inside a job is logged and the job completes. *)
JobFails(j) ==
    /\ Running(j)
    /\ mishaps < MaxMishaps
    /\ mishaps' = mishaps + 1
    /\ Finished(j)
    /\ UNCHANGED <<Rest, result>>

(* The worker dies; the job stalls and is taken again. *)
JobStalls(j) ==
    /\ Running(j)
    /\ mishaps < MaxMishaps
    /\ mishaps' = mishaps + 1
    /\ job' = [job EXCEPT ![j] = [NoJob EXCEPT !.type = job[j].type, !.long = job[j].long, !.pc = "queued"]]
    /\ UNCHANGED <<Rest, result>>

(* The jobs. *)
Ended(j) == JobFails(j) \/ JobStalls(j)

processCategorizationJob(j) ==
    /\ job[j].type = "categorize"
    /\ \/ Start(j) \/ CheckFeature(j) \/ Answered(j, categorizeTicket, "act")
       \/ WriteCategory(j) \/ UnknownCategory(j) \/ Ended(j)

processSentimentJob(j) ==
    /\ job[j].type = "sentiment"
    /\ \/ Start(j) \/ CheckFeature(j) \/ Answered(j, analyzeSentiment, "act")
       \/ CheckSentiment(j) \/ Reread(j) \/ ReadToWrite(j) \/ EscalateTicket(j) \/ Ended(j)

processUrgencyJob(j) ==
    /\ job[j].type = "urgency"
    /\ \/ Start(j) \/ CheckFeature(j) \/ Answered(j, predictUrgency, "act")
       \/ CheckUrgency(j) \/ ReadToWrite(j) \/ EscalateTicket(j) \/ Ended(j)

processSuggestResponseJob(j) ==
    /\ job[j].type = "suggest-response"
    /\ Start(j) \/ CheckFeature(j) \/ Answered(j, suggestResponse, "done") \/ Ended(j)

processSummarizeJob(j) ==
    /\ job[j].type = "summarize"
    /\ Start(j) \/ CheckFeature(j) \/ Answered(j, generateResolutionSummary, "done") \/ Ended(j)

processRiskScoreJob(j) ==
    /\ job[j].type = "risk-score"
    /\ \/ Start(j) \/ CheckFeature(j) \/ Answered(j, calculateRiskScore, "read")
       \/ ReadToWrite(j) \/ updateRiskScore(j) \/ Ended(j)

acceptResponseSuggestion(j) ==
    /\ job[j].type = "suggest-response" /\ result[j] > 0
    /\ accepted' = accepted \cup {j}
    /\ UNCHANGED <<flags, update, row, edit, job, result, changes, mishaps, wish, agreed, acted, edited,
                   overlapped>>

(* An agent's request reads the row and writes it whole. *)
AgentReads(s) ==
    /\ edit = NoCopy
    /\ edited["ticket"] + edited["customer"] < MaxEdits
    /\ edit' = [subject |-> s, copy |-> row[s]]
    /\ UNCHANGED <<flags, update, row, job, result, accepted, changes, mishaps, wish, agreed, acted,
                   edited, overlapped>>

AgentWrites(active) ==
    LET s == edit.subject
    IN /\ edit # NoCopy
       /\ row' = [row EXCEPT ![s] = [edit.copy EXCEPT !.edit = edited[s] + 1, !.active = active]]
       /\ edited' = [edited EXCEPT ![s] = @ + 1]
       /\ edit' = NoCopy
       /\ overlapped' = IF \E j \in Jobs : job[j].pc = "write" /\ SubjectOf(job[j].type) = s
                        THEN overlapped \cup {s} ELSE overlapped
       /\ UNCHANGED <<flags, update, job, result, accepted, changes, mishaps, wish, agreed, acted>>

(* The flags are updated in place. *)
ChangeFlag(f, d) ==
    /\ changes < MaxFlagChanges
    /\ changes' = changes + 1
    /\ flags' = [flags EXCEPT ![f] = d]
    /\ wish' = [wish EXCEPT ![f] = d]
    /\ agreed' = IF isAutoEscalationEnabled(wish') THEN agreed \cup {j \in Jobs : Running(j)} ELSE agreed
    /\ UNCHANGED <<update, row, edit, job, result, accepted, mishaps, acted, edited, overlapped>>

setTenantFlag(f, d) == d # "absent" /\ ChangeFlag(f, d)

deleteTenantFlag(f) == ChangeFlag(f, "absent")

(* A manager updates the tenant: it is read with its settings ... *)
ReadTenant ==
    /\ update = NoCopy
    /\ update' = flags
    /\ UNCHANGED <<flags, row, edit, job, result, accepted, changes, mishaps, wish, agreed, acted, edited,
                   overlapped>>

(* MUTANT: the settings are written as read. *)
UpdateTenantStale ==
    /\ update # NoCopy
    /\ flags' = update
    /\ update' = NoCopy
    /\ UNCHANGED <<row, edit, job, result, accepted, changes, mishaps, wish, agreed, acted, edited,
                   overlapped>>

(* ... and written with the flags stored by then. *)
UpdateTenant ==
    /\ update # NoCopy
    /\ update' = NoCopy
    /\ UNCHANGED <<flags, row, edit, job, result, accepted, changes, mishaps, wish, agreed, acted, edited,
                   overlapped>>

AiNext ==
    \/ \E j \in Jobs :
          \/ \E long \in BOOLEAN : queueTicketJob(j, long) \/ triggerRiskScoreUpdate(j, long)
          \/ processCategorizationJob(j) \/ processSentimentJob(j) \/ processUrgencyJob(j)
          \/ processSuggestResponseJob(j) \/ processSummarizeJob(j) \/ processRiskScoreJob(j)
          \/ acceptResponseSuggestion(j)
    \/ \E s \in Subjects : AgentReads(s)
    \/ \E active \in BOOLEAN : AgentWrites(active)
    \/ \E f \in Managed : deleteTenantFlag(f) \/ \E d \in Definitions : setTenantFlag(f, d)
    \/ ReadTenant \/ UpdateTenant

AiSpec == AiInit /\ [][AiNext]_aiVars

(***************************************************************************)
(* Properties                                                              *)
(***************************************************************************)

(* Automatic escalation is "tenant opt-in only": a job escalates a ticket  *)
(* only if the tenant's own setting, or the deployment, wanted it at some  *)
(* time while the job ran, whoever saved other settings meanwhile.         *)
OptInOnly == acted \subseteq agreed

(* "The ticket may have been changed by agents while the AI call was in    *)
(* flight": no job undoes what an agent wrote, however long the provider   *)
(* took, unless the agent wrote between the read and the write of          *)
(* escalateTicket or updateRiskScore.                                      *)
EditsSurvive == \A s \in Subjects \ overlapped : row[s].edit = edited[s]
=============================================================================
