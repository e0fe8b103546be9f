-------------------------------- MODULE Cinch --------------------------------
(***************************************************************************)
(* The server as a whole: button presses, submission cycles, inbound       *)
(* emails and ghosted sweeps, interleaved over the same rows, on one or    *)
(* more processes that may crash between any two steps.                    *)
(***************************************************************************)
EXTENDS Workflow, Submission, EmailWebhook, GhostSweep

(* Button presses and emails are different requests.                       *)
ASSUME RequestAssumption == Tap \cap Mail = {}

vars == <<rowVars, deployVars, workflowVars, submissionVars, emailVars, sweep>>

Init == /\ RowsInit
        /\ DeploymentInit
        /\ WorkflowInit
        /\ SubmissionInit
        /\ EmailInit
        /\ SweepInit

(* A process is killed and started again: what it held in memory is lost,  *)
(* its open transaction rolled back, its requests delivered again.         *)
Crash(i) ==
    /\ Fault
    /\ TapsLost(i)
    /\ EmailsLost(i)
    /\ CycleLost(i)
    /\ SweepLost(i)
    /\ serving' = [serving EXCEPT ![i] = {}]
    /\ UNCHANGED <<keyboard, offerCard, approvals, skips, claims, sent, offers>>

Next ==
    \/ WorkflowStep /\ UNCHANGED <<submissionVars, emailVars, sweep>>
    \/ SubmissionStep /\ UNCHANGED <<workflowVars, emailVars, sweep>>
    \/ EmailStep /\ UNCHANGED <<workflowVars, submissionVars, sweep>>
    \/ SweepStep /\ UNCHANGED <<workflowVars, submissionVars, emailVars>>
    \/ \E i \in Instance : Crash(i)

Spec == Init /\ [][Next]_vars

(* A process that is up runs its handlers and its schedulers; browser and  *)
(* LLM calls return (they have timeouts).  Nobody has to press a button,   *)
(* write an email or crash.                                                *)
Fairness ==
    /\ \A t \in Tap :
          WF_vars(Handle(t) /\ UNCHANGED <<submissionVars, emailVars, sweep>>)
    /\ \A i \in Instance :
          /\ WF_vars(WorkerProgress(i) /\ UNCHANGED <<workflowVars, emailVars, sweep>>)
          /\ WF_vars(SweepProgress(i)
                        /\ UNCHANGED <<workflowVars, submissionVars, emailVars>>)
    /\ \A m \in Mail :
          WF_vars(EmailProgress(m) /\ UNCHANGED <<workflowVars, submissionVars, sweep>>)

FairSpec == Spec /\ Fairness
-----------------------------------------------------------------------------
(* Every variable holds a value of its kind.                               *)
TypeOK == /\ RowsOK
          /\ DeploymentOK
          /\ WorkflowOK
          /\ SubmissionOK
          /\ EmailOK
          /\ SweepOK

(* No process clicks submit more often than the owner has approved:        *)
(* whatever crashes, is delivered again or fails half-way, an attempt that *)
(* was claimed is not repeated without a new Approve (submission.py:8-14). *)
OneClickPerApproval ==
    \A i \in Instance, a \in App : sent[i][a] <= approvals[a]

(* Why: an approval is a licence for one claim per process, which it still *)
(* has while the row is APPROVED or while it has read it so; and a claim   *)
(* is a licence for one click, which it has until the click.               *)
MayClaim(i, a) == \/ row[a].status = "approved"
                  \/ worker[i].pc = "claim" /\ worker[i].app = a

MayClick(i, a) ==
    worker[i].pc = "submit" /\ ~ worker[i].clicked /\ worker[i].app = a

Licensed ==
    \A i \in Instance, a \in App :
       /\ claims[i][a] + (IF MayClaim(i, a) THEN 1 ELSE 0) <= approvals[a]
       /\ sent[i][a] + (IF MayClick(i, a) THEN 1 ELSE 0) <= claims[i][a]

(* A row that says SUBMITTED, or GHOSTED, stands for a form that really    *)
(* was submitted: no interleaving of cycles, sweeps, emails and crashes    *)
(* reports or ghosts an application that never went out.                   *)
Clicked(a) == \E i \in Instance : sent[i][a] > 0

SubmittedWasClicked ==
    \A a \in App : row[a].status \in {"submitted", "ghosted"} => Clicked(a)

(* With one process, a SUBMITTED row carries the time of its submission,   *)
(* although status and submitted_at are written only where they changed.   *)
SubmittedHasDate ==
    \A a \in App : row[a].status = "submitted" => row[a].submittedAt # 0

(* What a card tells the user is backed by the database: "approved" and    *)
(* "skipped" by such a decision, "already handled" by some decision, even  *)
(* if the update was delivered twice or the presses raced.                 *)
RepliesAreTrue ==
    \A t \in Tap :
       LET a == tap[t].app
       IN /\ tap[t].reply = "approved" => approvals[a] > 0
          /\ tap[t].reply = "skipped" => skips[a] > 0
          /\ tap[t].reply = "already_handled" => approvals[a] + skips[a] > 0

(* ACCEPTED is only ever reached through an offer recorded for that very    *)
(* application, whatever emails, sweeps and presses come in between        *)
(* (workflow.py:100-120, repositories.py:344-357).                         *)
AcceptedWasOffered ==
    \A a \in App : row[a].status = "accepted" => a \in offers

(* Owners are kept apart: a row is moved by its owner's press, by an email *)
(* that came with its owner's token, or by the submission cycle and the    *)
(* sweep, whatever other owners do meanwhile (workflow.py:86-88,           *)
(* email_webhook.py:84-91: the owner is checked in one step and the row is *)
(* written in a later one).                                                *)
MovedByItself == {"submitted", "needs_human", "failed", "ghosted"}

MovedByItsOwner ==
    \A a \in App : row'[a].status # row[a].status =>
       \/ row'[a].status \in MovedByItself
       \/ \E t \in Tap : /\ tap[t].pc = "loaded"
                         /\ tap[t].app = a
                         /\ tap[t].by = OwnerOf[a]
       \/ \E m \in Mail : /\ mail[m].pc = "write"
                          /\ mail[m].app = a
                          /\ mail[m].owner = OwnerOf[a]

OwnersApart == [][MovedByItsOwner]_vars

(* An approved application is taken out of APPROVED: the submission cycle  *)
(* comes round to it in spite of crashes and failed claims.                *)
ApprovedIsAttempted ==
    \A a \in App : row[a].status = "approved" ~> row[a].status # "approved"

(* A button press that Telegram holds is answered or given up, never left  *)
(* hanging, also when a process dies while it handles it.                  *)
TapIsConcluded == \A t \in Tap : tap[t].pc = "queued" ~> tap[t].pc = "done"

(* A SUBMITTED application past the threshold does not stay so: the sweep  *)
(* gets to it, unless something else has moved it.                         *)
SilentIsGhosted ==
    \A a \in App : a \in ListStaleSubmitted ~> a \notin ListStaleSubmitted

(* An email that was taken from Zapier is concluded: it is answered, or    *)
(* back at Zapier to be forwarded again, and never stuck between the LLM   *)
(* and the database.                                                       *)
EmailIsConcluded ==
    \A m \in Mail : mail[m].pc = "classify" ~> mail[m].pc \in {"done", "queued"}

(* Claims made of the code that it does not keep.                          *)

(* README.md: "An application is never submitted twice."                   *)
NeverSubmittedTwice ==
    \A a \in App, i \in Instance, j \in Instance :
       (IF i = j THEN sent[i][a] ELSE sent[i][a] + sent[j][a]) <= 1

(* repositories.py mark_ghosted: "Only transitions from SUBMITTED so a     *)
(* status the sweep's snapshot missed ... is never clobbered."             *)
GhostedOnlyFromSubmitted ==
    [][\A a \in App : row'[a].status = "ghosted" /\ row[a].status # "ghosted"
                        => row[a].status = "submitted"]_vars

(* The code keeps the promise of HumanInTheLoop, process by process.       *)
Promise == INSTANCE HumanInTheLoop
              WITH Application <- App, Agent <- Instance,
                   granted <- approvals, spent <- sent

KeepsThePromise == Promise!Spec
=============================================================================
