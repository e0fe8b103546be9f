----------------------------- MODULE WebhookTypes -----------------------------
(***************************************************************************)
(* The types of the rows, of the processes' bookkeeping and of the emails, *)
(* shared by the proofs of Cinch, where an email is recorded for any       *)
(* candidate, and of Tracking, where the matching says which: one lemma    *)
(* per statement on the rows, then one per step of an email.               *)
(***************************************************************************)
EXTENDS EmailWebhook, TLAPS

(* The statements on the rows and the bookkeeping of the processes.        *)

(* set_status leaves every row a row.                                      *)
LEMMA SetStatusTypes ==
    ASSUME RowsOK, NEW a \in App, NEW s \in ApplicationStatus, SetStatus(a, s)
    PROVE  RowsOK'
BY DEF RowsOK, SetStatus, Touch, Row

(* So does a flush that may have nothing to write.                         *)
LEMMA FlushStatusTypes ==
    ASSUME RowsOK, NEW a \in App, NEW loaded, NEW s \in ApplicationStatus,
           FlushStatus(a, loaded, s)
    PROVE  RowsOK'
BY SetStatusTypes DEF FlushStatus, RowsOK, rowVars

(* So does record_submission.                                              *)
LEMMA RecordSubmissionTypes ==
    ASSUME RowsOK, NEW a \in App, NEW loaded, NEW new \in Row,
           RecordSubmission(a, loaded, new)
    PROVE  RowsOK'
BY DEF RowsOK, RecordSubmission, Touch, Row

(* So does record_email_update.                                            *)
LEMMA RecordEmailUpdateTypes ==
    ASSUME RowsOK, NEW a \in App, NEW loaded, NEW s \in ApplicationStatus,
           RecordEmailUpdate(a, loaded, s)
    PROVE  RowsOK'
BY DEF RowsOK, RecordEmailUpdate, Touch, Row

(* Taking a request, or being done with one.                               *)
LEMMA TakeTypes ==
    ASSUME DeploymentOK, NEW i \in Instance, NEW r \in Request, Take(i, r)
    PROVE  DeploymentOK'
BY DEF DeploymentOK, Take

(* A request that is answered is served no more.                           *)
LEMMA FinishTypes ==
    ASSUME DeploymentOK, NEW r, Finish(r)
    PROVE  DeploymentOK'
BY DEF DeploymentOK, Finish, Release

(* The failure count stays within its bound.                               *)
LEMMA FaultTypes ==
    ASSUME DeploymentOK, Fault
    PROVE  faults' \in 0..MaxFaults
BY DeploymentAssumption DEF DeploymentOK, Fault
-----------------------------------------------------------------------------
(* Emails.                                                                 *)

(* An email that is handed back is an email again.                         *)
LEMMA RequeuedTypes ==
    ASSUME EmailOK, NEW m \in Mail
    PROVE  Requeued(m) \in MailState /\ Requeued(m).pc = "queued"
<1>1. mail[m].owner \in User
    BY DEF EmailOK, MailState
<1>2. "rejected" \in EmailStatus
    <2>1. ClassificationToStatus("rejection") = "rejected"
        BY DEF ClassificationToStatus
    <2> QED  BY <2>1 DEF EmailStatus, EmailClassification, Informational
<1> QED
    BY <1>1, <1>2 DEF Requeued, QueuedMail, MailState, MailPc, ApplicationStatus

(* Every status an email can ask for is one.                               *)
LEMMA EmailStatusTypes == EmailStatus \subseteq ApplicationStatus
<1>1. \A c \in EmailClassification \ Informational :
          ClassificationToStatus(c) \in ApplicationStatus
    BY DEF EmailClassification, Informational, ClassificationToStatus, ApplicationStatus
<1> QED  BY <1>1 DEF EmailStatus

(* A refused email is over.                                                *)
LEMMA EmailRefusedTypes ==
    ASSUME RowsOK, DeploymentOK, EmailOK, NEW m \in Mail, EmailRefused(m)
    PROVE  RowsOK' /\ DeploymentOK' /\ EmailOK'
BY DEF RowsOK, DeploymentOK, EmailOK, MailState, MailPc, EmailRefused, rowVars, deployVars

(* The candidates of an email are applications.                            *)
LEMMA ReceiveEmailTypes ==
    ASSUME RowsOK, DeploymentOK, EmailOK, NEW m \in Mail,
           NEW i \in Instance, ReceiveEmail(m, i)
    PROVE  RowsOK' /\ DeploymentOK' /\ EmailOK'
<1> DEFINE next == [mail[m] EXCEPT
                      !.pc = "classify",
                      !.candidates = ListCandidatesForEmailMatch(mail[m].owner)]
<1>1. next \in MailState /\ next.pc = "classify"
    BY DEF EmailOK, MailState, MailPc, ListCandidatesForEmailMatch
<1>2. mail' = [mail EXCEPT ![m] = next]
    BY DEF ReceiveEmail
<1>3. RowsOK' /\ DeploymentOK'
    BY MailAssumption, TakeTypes DEF RowsOK, ReceiveEmail, rowVars
<1> QED  BY <1>1, <1>2, <1>3 DEF EmailOK, ReceiveEmail

(* An email about nothing is only answered.                                *)
LEMMA ClassifyNoActionTypes ==
    ASSUME RowsOK, DeploymentOK, EmailOK, NEW m \in Mail, ClassifyNoAction(m)
    PROVE  RowsOK' /\ DeploymentOK' /\ EmailOK'
<1> DEFINE next == [mail[m] EXCEPT !.pc = "respond", !.candidates = {}]
<1>1. next \in MailState /\ next.pc = "respond"
    BY DEF EmailOK, MailState, MailPc
<1>2. mail' = [mail EXCEPT ![m] = next]
    BY DEF ClassifyNoAction
<1>3. RowsOK' /\ DeploymentOK'
    BY DEF RowsOK, DeploymentOK, ClassifyNoAction, rowVars, deployVars
<1> QED  BY <1>1, <1>2, <1>3 DEF EmailOK, ClassifyNoAction

(* A matched email has a candidate and a status to record.                 *)
LEMMA ClassifyMatchedTypes ==
    ASSUME RowsOK, DeploymentOK, EmailOK, NEW m \in Mail,
           NEW a \in App, NEW c \in EmailClassification \ Informational,
           ClassifyMatched(m, a, c)
    PROVE  RowsOK' /\ DeploymentOK' /\ EmailOK'
<1> DEFINE next == [mail[m] EXCEPT !.pc = "record", !.candidates = {}, !.app = a,
                                   !.status = ClassificationToStatus(c)]
<1>1. ClassificationToStatus(c) \in EmailStatus
    BY DEF EmailStatus
<1>2. next \in MailState /\ next.app = a
    BY <1>1 DEF EmailOK, MailState, MailPc
<1>3. mail' = [mail EXCEPT ![m] = next]
    BY DEF ClassifyMatched
<1>4. RowsOK' /\ DeploymentOK'
    BY DEF RowsOK, DeploymentOK, ClassifyMatched, rowVars, deployVars
<1> QED  BY <1>2, <1>3, <1>4 DEF EmailOK, ClassifyMatched

(* What record_email_update loads is a status.                             *)
LEMMA EmailLoadTypes ==
    ASSUME RowsOK, DeploymentOK, EmailOK, NEW m \in Mail, EmailLoad(m)
    PROVE  RowsOK' /\ DeploymentOK' /\ EmailOK'
<1> DEFINE next == [mail[m] EXCEPT !.pc = "write", !.loaded = row[mail[m].app].status]
<1>1. mail[m].app \in App
    BY DEF EmailOK, EmailLoad
<1>2. next \in MailState /\ next.app = mail[m].app
    BY <1>1 DEF RowsOK, Row, EmailOK, MailState, MailPc
<1>3. mail' = [mail EXCEPT ![m] = next]
    BY DEF EmailLoad
<1>4. RowsOK' /\ DeploymentOK'
    BY DEF RowsOK, DeploymentOK, EmailLoad, rowVars, deployVars
<1> QED  BY <1>1, <1>2, <1>3, <1>4 DEF EmailOK, EmailLoad

(* Recording an email writes a status and notes an offer.                  *)
LEMMA EmailCommitTypes ==
    ASSUME RowsOK, DeploymentOK, EmailOK, NEW m \in Mail, EmailCommit(m)
    PROVE  RowsOK' /\ DeploymentOK' /\ EmailOK'
<1> DEFINE next == [mail[m] EXCEPT !.pc = "respond", !.app = None,
                                   !.status = "rejected", !.loaded = "discovered"]
<1>1. mail[m].app \in App /\ mail[m].status \in ApplicationStatus
    BY EmailStatusTypes DEF EmailOK, MailState, EmailCommit
<1>2. "rejected" \in EmailStatus
    BY RequeuedTypes DEF Requeued, QueuedMail, MailState
<1>3. next \in MailState /\ next.pc = "respond"
    BY <1>2 DEF EmailOK, MailState, MailPc, ApplicationStatus
<1>4. mail' = [mail EXCEPT ![m] = next]
    BY DEF EmailCommit
<1>5. RowsOK' /\ DeploymentOK'
    BY <1>1, RecordEmailUpdateTypes DEF DeploymentOK, EmailCommit, deployVars
<1>6. offers' \subseteq App
    BY <1>1 DEF EmailOK, EmailCommit
<1> QED  BY <1>3, <1>4, <1>5, <1>6 DEF EmailOK

(* An answered email is over.                                              *)
LEMMA RespondTypes ==
    ASSUME RowsOK, DeploymentOK, EmailOK, NEW m \in Mail, Respond(m)
    PROVE  RowsOK' /\ DeploymentOK' /\ EmailOK'
BY FinishTypes DEF RowsOK, EmailOK, MailState, MailPc, Respond, rowVars

(* A failed email is queued again.                                         *)
LEMMA EmailFailsTypes ==
    ASSUME RowsOK, DeploymentOK, EmailOK, NEW m \in Mail, EmailFails(m)
    PROVE  RowsOK' /\ DeploymentOK' /\ EmailOK'
<1>1. RowsOK' /\ DeploymentOK'
    BY FaultTypes DEF RowsOK, DeploymentOK, EmailFails, Release, rowVars
<1> QED  BY <1>1, RequeuedTypes DEF EmailOK, EmailFails
=============================================================================
