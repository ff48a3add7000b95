---------------------------- MODULE Attachments ----------------------------
(***************************************************************************)
(* Files attached to a ticket (AttachmentController, AttachmentService and *)
(* the storage providers): uploaded before their row is written, deleted   *)
(* before it is removed, and fetched through signed URLs that are their    *)
(* own credential for 15 minutes.                                          *)
(*                                                                         *)
(* A call is one HTTP request; its steps are the stretches of the handler  *)
(* between two awaits that matter.  There is one ticket with one comment.  *)
(* The storage path of an upload holds a random UUID, so the attachment's  *)
(* name stands for its file and is never used again.                       *)
(***************************************************************************)
EXTENDS Integers

CONSTANTS Uploads,     \* attachment ids, each with its storage path
          Calls,       \* requests that can be under way at once
          Users,       \* some of AllUsers
          Scanner,     \* is an AntivirusScanner configured?  (the container has none)
          MaxMishaps,  \* BOUND: storage errors, failed statements and crashes
          MaxMoves     \* BOUND: assignments of the ticket and restarts with another setting

AllUsers == {"manager", "agent", "customer", "visitor"}

ASSUME UsersAssumption  == Users \subseteq AllUsers
ASSUME ScanAssumption   == Scanner \in BOOLEAN
ASSUME MishapAssumption == MaxMishaps \in Nat /\ MaxMoves \in Nat

VARIABLES
    row,        \* row[a]: the row of attachments
    stored,     \* the files in storage
    call,       \* what every call is doing
    urls,       \* signed URLs that have not expired: <<who asked, attachment>>
    assigned,   \* is the ticket assigned to the agent?
    comment,    \* does the comment exist?
    required,   \* REQUIRE_AV_SCAN
    mishaps, moves,
    \* history
    stranded,   \* files left behind by a call that has failed
    orphaned    \* rows left behind by a deletion that has failed

setting == <<assigned, comment, required>>
bounds  == <<mishaps, moves>>
history == <<stranded, orphaned>>
attVars == <<row, stored, call, urls, setting, bounds, history>>

(* "none" is an id that is not used yet, "gone" one whose row is deleted.  *)
NoAttachment == [state |-> "none", by |-> "nobody", linked |-> FALSE, status |-> "PENDING"]

Resting == [pc |-> "rest", by |-> "nobody", att |-> "nothing", via |-> "none"]

(* What an upload names: nothing, the ticket, its comment, or both. *)
Targets == {"none", "ticket", "comment", "both"}

AttTypeOK ==
    /\ row \in [Uploads -> [state : {"none", "row", "gone"}, by : Users \cup {"nobody"},
                            linked : BOOLEAN, status : {"PENDING", "CLEAN"}]]
    /\ stored \subseteq Uploads /\ stranded \subseteq Uploads /\ orphaned \subseteq Uploads
    /\ call \in [Calls -> [pc : {"rest", "resolve", "store", "save", "check",
                                 "sign", "unlink", "remove"},
                           by : Users \cup {"nobody"}, att : Uploads \cup {"nothing"}, via : Targets]]
    /\ urls \subseteq Users \X Uploads
    /\ assigned \in BOOLEAN /\ comment \in BOOLEAN /\ required \in BOOLEAN
    /\ mishaps \in Nat /\ moves \in Nat

AttInit ==
    /\ row = [a \in Uploads |-> NoAttachment]
    /\ stored = {} /\ stranded = {} /\ orphaned = {} /\ urls = {}
    /\ call = [c \in Calls |-> Resting]
    /\ assigned \in BOOLEAN /\ comment = TRUE /\ required \in BOOLEAN
    /\ mishaps = 0 /\ moves = 0

At(c) == call[c].pc
File(c) == call[c].att
Goes(c, pc) == call' = [call EXCEPT ![c].pc = pc]
Ends(c) == call' = [call EXCEPT ![c] = Resting]

(* assertCanAccess: the customer's record is linked to the ticket, the     *)
(* visitor is a customer with another record.                              *)
Viewers == {"manager", "customer"} \cup (IF assigned THEN {"agent"} ELSE {})

(***************************************************************************)
(* Uploading                                                               *)
(***************************************************************************)
(* The controller asks for access when the request names a ticket. *)
ReceiveFile(c) ==
    /\ At(c) = "rest"
    /\ \E u \in Users, a \in Uploads, via \in Targets :
          /\ row[a].state = "none" /\ a \notin stored \cup stranded
          /\ \A d \in Calls : File(d) # a
          /\ via \in {"ticket", "both"} => u \in Viewers
          /\ call' = [call EXCEPT ![c] = [pc |-> "resolve", by |-> u, att |-> a, via |-> via]]
    /\ UNCHANGED <<row, stored, urls, setting, bounds, history>>

(* What a file can be refused for before it is scanned. *)
Problems == {"none", "mime type", "size", "content"}

(* The antivirus validator, for a file without such a problem. *)
scan == IF Scanner THEN {"clean", "infected"} ELSE {"not-scanned"}

(* AttachmentPolicyValidator.validate *)
Verdicts(problem) == IF problem = "none" THEN scan ELSE {"not-scanned"}
Allowed(problem, verdict) ==
    problem = "none" /\ (verdict = "clean" \/ (verdict = "not-scanned" /\ ~required))

(* The comment that an upload names must exist; it implies its ticket. *)
resolveTicketId(c) == call[c].via \in {"comment", "both"} => comment

ResolveAndValidate(c) ==
    /\ At(c) = "resolve"
    /\ \E p \in Problems : \E v \in Verdicts(p) :
          IF resolveTicketId(c) /\ Allowed(p, v) THEN Goes(c, "store") ELSE Ends(c)
    /\ UNCHANGED <<row, stored, urls, setting, bounds, history>>

(* MUTANT: the upload is not awaited, and fails unnoticed. *)
StoreLoosely(c) ==
    /\ At(c) = "store"
    /\ \/ stored' = stored \cup {File(c)}
       \/ UNCHANGED stored
    /\ Goes(c, "save")
    /\ UNCHANGED <<row, urls, setting, bounds, history>>

(* upload of the storage provider. *)
upload(a) == stored' = stored \cup {a}

Store(c) ==
    /\ At(c) = "store"
    /\ upload(File(c))
    /\ Goes(c, "save")
    /\ UNCHANGED <<row, urls, setting, bounds, history>>

(* The row; its foreign key is violated when the comment was deleted in    *)
(* the meantime, and the file stays without a row.                         *)
SaveRow(c) ==
    /\ At(c) = "save"
    /\ IF ~resolveTicketId(c)
       THEN /\ stranded' = stranded \cup {File(c)}
            /\ Ends(c)
            /\ UNCHANGED row
       ELSE /\ row' = [row EXCEPT ![File(c)] =
                 [state |-> "row", by |-> call[c].by, linked |-> call[c].via # "none",
                  status |-> IF Scanner THEN "CLEAN" ELSE "PENDING"]]
            /\ IF call[c].via = "comment" THEN Goes(c, "check") ELSE Ends(c)
            /\ UNCHANGED stranded
    /\ UNCHANGED <<stored, urls, setting, bounds, orphaned>>

(* An upload linked through a comment only is checked now: the answer is   *)
(* 201 or 403, and the row stays either way.                               *)
CheckAfter(c) ==
    /\ At(c) = "check"
    /\ Ends(c)
    /\ UNCHANGED <<row, stored, urls, setting, bounds, history>>

(***************************************************************************)
(* Reading and deleting                                                    *)
(***************************************************************************)
(* MUTANT: an uploader keeps the files that he has attached. *)
MayReadOwn(u, a) ==
    u = row[a].by \/ u = "manager" \/ (row[a].linked /\ u \in Viewers)

(* assertCanReadAttachment *)
MayRead(u, a) ==
    IF row[a].linked THEN u \in Viewers ELSE u = row[a].by \/ u = "manager"

(* getAttachment *)
Found(a) == row[a].state = "row"

Admit(c, next) ==
    /\ At(c) = "rest"
    /\ \E u \in Users, a \in Uploads :
          /\ Found(a) /\ MayRead(u, a)
          /\ call' = [call EXCEPT ![c] = [pc |-> next, by |-> u, att |-> a, via |-> "none"]]
    /\ UNCHANGED <<row, stored, urls, setting, bounds, history>>

AskForUrl(c)   == Admit(c, "sign")
AskToDelete(c) == Admit(c, "unlink")

(* getSignedUrl of the storage provider: nothing is stored, the URL is the *)
(* credential.                                                             *)
getSignedUrl(u, a) == urls' = urls \cup {<<u, a>>}

(* getDownloadUrl reads the row again, and signs whatever the user's       *)
(* access has become.                                                      *)
Sign(c) ==
    /\ At(c) = "sign"
    /\ IF Found(File(c)) /\ (row[File(c)].status = "CLEAN" \/ ~required)
       THEN getSignedUrl(call[c].by, File(c)) ELSE UNCHANGED urls
    /\ Ends(c)
    /\ UNCHANGED <<row, stored, setting, bounds, history>>

(* expires is past: verifySignedUrl, and S3, refuse the URL. *)
UrlLapses(u, a) ==
    /\ <<u, a>> \in urls
    /\ urls' = urls \ {<<u, a>>}
    /\ UNCHANGED <<row, stored, call, setting, bounds, history>>

(* downloadSignedFile answers with the file, or 404 when it is gone. *)
Serves(x) == x \in urls /\ x[2] \in stored

(* deleteAttachment is for the uploader and for managers. *)
MayDelete(c) == Found(File(c)) /\ call[c].by \in {row[File(c)].by, "manager"}

(* The file goes first. *)
Unlink(c) ==
    /\ At(c) = "unlink"
    /\ IF MayDelete(c)
       THEN stored' = stored \ {File(c)} /\ Goes(c, "remove")
       ELSE UNCHANGED stored /\ Ends(c)
    /\ UNCHANGED <<row, urls, setting, bounds, history>>

(* An error of storage.delete is only logged. *)
UnlinkFails(c) ==
    /\ mishaps < MaxMishaps /\ mishaps' = mishaps + 1
    /\ At(c) = "unlink" /\ File(c) \in stored /\ MayDelete(c)
    /\ stranded' = stranded \cup {File(c)}
    /\ Goes(c, "remove")
    /\ UNCHANGED <<row, stored, urls, setting, moves, orphaned>>

(* The row; when another call has removed it, the statement throws. *)
RemoveRow(c) ==
    /\ At(c) = "remove"
    /\ row' = IF Found(File(c))
              THEN [row EXCEPT ![File(c)] = [NoAttachment EXCEPT !.state = "gone"]] ELSE row
    /\ orphaned' = orphaned \ {File(c)}
    /\ Ends(c)
    /\ UNCHANGED <<stored, urls, setting, bounds, stranded>>

(***************************************************************************)
(* Failures and the other parts of the system                              *)
(***************************************************************************)
(* A statement or the upload throws, or the process dies. *)
CallDies(c) ==
    /\ mishaps < MaxMishaps /\ mishaps' = mishaps + 1
    /\ At(c) # "rest"
    /\ stranded' = IF At(c) = "save" THEN stranded \cup {File(c)} ELSE stranded
    /\ orphaned' = IF At(c) = "remove" /\ Found(File(c))
                   THEN orphaned \cup {File(c)} ELSE orphaned
    /\ Ends(c)
    /\ UNCHANGED <<row, stored, urls, setting, moves>>

(* The ticket is assigned to the agent, or away from him. *)
Reassign ==
    /\ moves < MaxMoves /\ moves' = moves + 1
    /\ assigned' = ~assigned
    /\ UNCHANGED <<row, stored, call, urls, comment, required, mishaps, history>>

(* commentRepo.delete; the attachments keep their ticket.  Who may delete  *)
(* it, and that the ticket is active, is left out: any comment may go.     *)
DeleteComment ==
    /\ comment
    /\ comment' = FALSE
    /\ UNCHANGED <<row, stored, call, urls, assigned, required, bounds, history>>

(* A deployment with another REQUIRE_AV_SCAN. *)
Redeploy ==
    /\ moves < MaxMoves /\ moves' = moves + 1
    /\ \A c \in Calls : At(c) = "rest"
    /\ required' = ~required
    /\ UNCHANGED <<row, stored, call, urls, assigned, comment, mishaps, history>>

Proceed(c) ==
    \/ ResolveAndValidate(c) \/ Store(c) \/ SaveRow(c) \/ CheckAfter(c)
    \/ Sign(c) \/ Unlink(c) \/ RemoveRow(c)

AttNext ==
    \/ \E c \in Calls :
          \/ ReceiveFile(c) \/ AskForUrl(c) \/ AskToDelete(c) \/ Proceed(c)
          \/ UnlinkFails(c) \/ CallDies(c)
    \/ \E u \in Users, a \in Uploads : UrlLapses(u, a)
    \/ Reassign \/ DeleteComment \/ Redeploy

(***************************************************************************)
(* Properties                                                              *)
(***************************************************************************)
InSave == {File(c) : c \in {d \in Calls : At(d) = "save"}}
InRemove == {File(c) : c \in {d \in Calls : At(d) = "remove"}}
WithRow == {a \in Uploads : Found(a)}

(* Rows and files agree, whatever uploads and deletions of one attachment  *)
(* meet: a row's file is there unless a deletion is between its two steps  *)
(* or has died there, and a file has its row unless an upload is between   *)
(* its two steps, or a failure left it behind.                             *)
RowsAndFilesAgree ==
    /\ WithRow \subseteq stored \cup InRemove \cup orphaned
    /\ stored \subseteq WithRow \cup InSave \cup stranded

(* Whoever loses the ticket for good loses its files: a URL that was asked *)
(* for in time may still be signed afterwards, but lapses, and no new one  *)
(* is given.                                                               *)
AccessEnds ==
    \A u \in Users :
        <>[](u \notin Viewers) => <>[](\A a \in WithRow : row[a].linked => ~Serves(<<u, a>>))
============================================================================
