---------------------------- MODULE EmailWebhook ----------------------------
(***************************************************************************)
(* POST /webhook/email: api/email_webhook.py receive_email and             *)
(* services/email_classifier.py.  The candidates are read in one session,  *)
(* the LLM is asked with no session open, and the verdict is written in    *)
(* another session, on whatever the row has become.                        *)
(*                                                                         *)
(* What the LLM answers and which company it hints at are free here: any   *)
(* classification and any candidate may result.                            *)
(***************************************************************************)
EXTENDS Deployment

CONSTANT Mail         (* the emails Zapier may forward: a bound            *)

ASSUME MailAssumption == Mail \subseteq Request

VARIABLES mail,       (* the progress of each                              *)
          offers      (* history: rows some offer email was recorded for   *)

emailVars == <<mail, offers>>

EmailClassification == {"interview_invited", "interview_scheduled", "offer",
                        "rejection", "acknowledgement", "other"}

(* _CLASSIFICATION_TO_STATUS: the last two change nothing.                 *)
Informational == {"acknowledgement", "other"}

ClassificationToStatusBugRaw(c) == c

ClassificationToStatusBugAccepts(c) ==
    CASE c = "offer" -> "accepted"
      [] c = "rejection" -> "rejected"
      [] OTHER -> c

ClassificationToStatus(c) ==
    CASE c = "offer" -> "offered"
      [] c = "rejection" -> "rejected"
      [] OTHER -> c

EmailStatus ==
    {ClassificationToStatus(c) : c \in EmailClassification \ Informational}

MailPc == {"queued", "classify", "record", "write", "respond", "done"}

MailState == [pc: MailPc, owner: User, candidates: SUBSET App,
              app: App \cup {None}, status: EmailStatus,
              loaded: ApplicationStatus]

EmailOK == /\ mail \in [Mail -> MailState]
           /\ \A m \in Mail : mail[m].pc \in {"record", "write"}
                                 => mail[m].app \in App
           /\ offers \subseteq App

(* Waiting to be delivered with this owner's webhook token.                *)
QueuedMail(u) == [pc |-> "queued", owner |-> u, candidates |-> {}, app |-> None,
                  status |-> "rejected", loaded |-> "discovered"]

EmailInit == /\ mail \in [Mail -> {QueuedMail(u) : u \in User}]
             /\ offers = {}
-----------------------------------------------------------------------------
(* The token has been replaced since it was given to Zapier: 401.          *)
EmailRefused(m) ==
    /\ mail[m].pc = "queued"
    /\ mail' = [mail EXCEPT ![m].pc = "done"]
    /\ UNCHANGED <<rowVars, deployVars, offers>>

ReceiveEmail(m, i) ==
    /\ mail[m].pc = "queued"
    /\ mail' = [mail EXCEPT
                  ![m].pc = "classify",
                  ![m].candidates = ListCandidatesForEmailMatch(mail[m].owner)]
    /\ Take(i, m)
    /\ UNCHANGED <<rowVars, offers>>

(* classify finds nothing to do: noise, an unusable or an informational    *)
(* answer, or no candidate whose company is close enough to the hint.      *)
ClassifyNoAction(m) ==
    /\ mail[m].pc = "classify"
    /\ mail' = [mail EXCEPT ![m].pc = "respond", ![m].candidates = {}]
    /\ UNCHANGED <<rowVars, deployVars, offers>>

ClassifyMatched(m, a, c) ==
    /\ mail[m].pc = "classify"
    /\ a \in mail[m].candidates
    /\ mail' = [mail EXCEPT ![m].pc = "record", ![m].candidates = {},
                            ![m].app = a,
                            ![m].status = ClassificationToStatus(c)]
    /\ UNCHANGED <<rowVars, deployVars, offers>>

EmailLoad(m) ==
    /\ mail[m].pc = "record"
    /\ mail' = [mail EXCEPT ![m].pc = "write",
                            ![m].loaded = row[mail[m].app].status]
    /\ UNCHANGED <<rowVars, deployVars, offers>>

(* record_email_update, unconditionally.                                   *)
EmailCommit(m) ==
    LET a == mail[m].app
        s == mail[m].status
    IN /\ mail[m].pc = "write"
       /\ RecordEmailUpdate(a, mail[m].loaded, s)
       /\ offers' = IF s = "offered" THEN offers \cup {a} ELSE offers
       /\ mail' = [mail EXCEPT ![m].pc = "respond", ![m].app = None,
                               ![m].status = "rejected",
                               ![m].loaded = "discovered"]
       /\ UNCHANGED deployVars

RespondBugRaises(m) ==
    /\ mail[m].pc = "respond"
    /\ mail' = [mail EXCEPT ![m].pc = "queued"]
    /\ Finish(m)
    /\ UNCHANGED <<rowVars, offers>>

(* The message to the user, whose failure is swallowed, and the 200.  A    *)
(* crash before it makes Zapier forward an email already recorded.         *)
Respond(m) ==
    /\ mail[m].pc = "respond"
    /\ mail' = [mail EXCEPT ![m].pc = "done"]
    /\ Finish(m)
    /\ UNCHANGED <<rowVars, offers>>

Requeued(m) == QueuedMail(mail[m].owner)

(* A session raises: the answer is a 500, and the email is forwarded again.*)
EmailFails(m) ==
    /\ mail[m].pc \in {"classify", "record", "write"}
    /\ mail' = [mail EXCEPT ![m] = Requeued(m)]
    /\ Release(m)
    /\ Fault
    /\ UNCHANGED <<rowVars, offers>>

EmailsLost(i) ==
    mail' = [m \in Mail |-> IF m \in serving[i] THEN Requeued(m) ELSE mail[m]]

EmailProgress(m) ==
    \/ ClassifyNoAction(m)
    \/ \E a \in App, c \in EmailClassification \ Informational :
          ClassifyMatched(m, a, c)
    \/ EmailLoad(m) \/ EmailCommit(m) \/ Respond(m)

EmailStep == \E m \in Mail : \/ EmailRefused(m)
                             \/ \E i \in Instance : ReceiveEmail(m, i)
                             \/ EmailProgress(m)
                             \/ EmailFails(m)
=============================================================================
