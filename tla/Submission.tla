----------------------------- MODULE Submission -----------------------------
(***************************************************************************)
(* The assisted-submission cycle: services/submission.py, started by       *)
(* api/scheduler.py in every process (max_instances=1, so one cycle at a   *)
(* time per process), and the browser it drives, providers/submit/.        *)
(***************************************************************************)
EXTENDS Deployment

CONSTANT SubmissionEnabled      (* settings.submission_enabled             *)

ASSUME SubmissionAssumption == SubmissionEnabled \in BOOLEAN

VARIABLES worker,   (* [Instance -> the state of its submission cycle]     *)
          claims,   (* history: claims committed, per process and row      *)
          sent      (* history: submit clicks that reached the job site    *)

submissionVars == <<worker, claims, sent>>

Outcome == {"submitted", "needs_human", "failed"}     \* SubmissionOutcome

OutcomeToStatusBugRetry(o) == IF o = "failed" THEN "approved" ELSE o

(* _OUTCOME_TO_STATUS: the two enumerations use the same words.            *)
OutcomeToStatus(o) == o

WorkerPc == {"idle", "next", "claim", "submit", "record", "write"}

WorkerState == [pc: WorkerPc, todo: SUBSET App, app: App \cup {None},
                clicked: BOOLEAN, outcome: Outcome, loaded: Row]

SubmissionOK ==
    /\ worker \in [Instance -> WorkerState]
    /\ \A i \in Instance :
          worker[i].pc \in {"claim", "submit", "record", "write"}
              => worker[i].app \in App
    /\ claims \in [Instance -> [App -> Nat]]
    /\ sent \in [Instance -> [App -> Nat]]

Between(pc, todo) == [pc |-> pc, todo |-> todo, app |-> None, clicked |-> FALSE,
                      outcome |-> "failed", loaded |-> DeliveredRow]

IdleWorker == Between("idle", {})

SubmissionInit ==
    /\ worker = [i \in Instance |-> IdleWorker]
    /\ claims = [i \in Instance |-> [a \in App |-> 0]]
    /\ sent = [i \in Instance |-> [a \in App |-> 0]]

(* The application is dealt with: on to the next of the snapshot.          *)
NextApplication(i) ==
    worker' = [worker EXCEPT ![i] = Between("next", worker[i].todo)]
-----------------------------------------------------------------------------
(* run: the snapshot of APPROVED rows, in a session of its own.            *)
CycleStart(i) ==
    /\ SubmissionEnabled
    /\ worker[i].pc = "idle"
    /\ WithStatus("approved") # {}
    /\ worker' = [worker EXCEPT ![i] = Between("next", WithStatus("approved"))]
    /\ UNCHANGED <<claims, sent, rowVars, deployVars>>

CycleEndBugNeverIdle(i) ==
    /\ worker[i].pc = "next"
    /\ worker[i].todo = {}
    /\ UNCHANGED <<submissionVars, rowVars, deployVars>>

CycleEnd(i) ==
    /\ worker[i].pc = "next"
    /\ worker[i].todo = {}
    /\ worker' = [worker EXCEPT ![i] = IdleWorker]
    /\ UNCHANGED <<claims, sent, rowVars, deployVars>>

(* claim_for_submission selects the row and looks at its status ...        *)
ClaimSkipped(i, a) ==
    /\ worker[i].pc = "next"
    /\ a \in worker[i].todo
    /\ row[a].status # "approved"
    /\ worker' = [worker EXCEPT ![i].todo = @ \ {a}]
    /\ UNCHANGED <<claims, sent, rowVars, deployVars>>

ClaimRead(i, a) ==
    /\ worker[i].pc = "next"
    /\ a \in worker[i].todo
    /\ row[a].status = "approved"
    /\ worker' = [worker EXCEPT ![i].pc = "claim", ![i].app = a,
                                ![i].todo = @ \ {a}]
    /\ UNCHANGED <<claims, sent, rowVars, deployVars>>

ClaimCommitBugLater(i, usable) ==
    LET a == worker[i].app
    IN /\ worker[i].pc = "claim"
       /\ claims' = [claims EXCEPT ![i][a] = @ + 1]
       /\ worker' = [worker EXCEPT
                        ![i].pc = IF usable THEN "submit" ELSE "record",
                        ![i].outcome = IF usable THEN @ ELSE "needs_human"]
       /\ UNCHANGED <<sent, rowVars, deployVars>>

ClaimCommitBugOptimistic(i, usable) ==
    LET a == worker[i].app
    IN /\ worker[i].pc = "claim"
       /\ SetStatus(a, "submitted")
       /\ claims' = [claims EXCEPT ![i][a] = @ + 1]
       /\ worker' = [worker EXCEPT
                        ![i].pc = IF usable THEN "submit" ELSE "record",
                        ![i].outcome = IF usable THEN @ ELSE "needs_human"]
       /\ UNCHANGED <<sent, deployVars>>

(* ... and updates it to the pessimistic FAILED.  Without a usable master  *)
(* resume the application is handed back instead of submitted.             *)
ClaimCommit(i, usable) ==
    LET a == worker[i].app
    IN /\ worker[i].pc = "claim"
       /\ SetStatus(a, "failed")
       /\ claims' = [claims EXCEPT ![i][a] = @ + 1]
       /\ worker' = [worker EXCEPT
                        ![i].pc = IF usable THEN "submit" ELSE "record",
                        ![i].outcome = IF usable THEN @ ELSE "needs_human"]
       /\ UNCHANGED <<sent, deployVars>>

(* The claim's session raises: rolled back, the row is still APPROVED.     *)
ClaimFails(i) ==
    /\ worker[i].pc = "claim"
    /\ NextApplication(i)
    /\ Fault
    /\ UNCHANGED <<claims, sent, rowVars, serving>>

(* submit: the page's submit control is clicked at most once per attempt.  *)
Click(i) ==
    /\ worker[i].pc = "submit"
    /\ ~ worker[i].clicked
    /\ sent' = [sent EXCEPT ![i][worker[i].app] = @ + 1]
    /\ worker' = [worker EXCEPT ![i].clicked = TRUE]
    /\ UNCHANGED <<claims, rowVars, deployVars>>

ReportableBugNoControl(clicked) == {"failed", "submitted"}

(* SUBMITTED is reported only after the click, NEEDS_HUMAN only before it, *)
(* and FAILED (a timeout, a browser error, a close that raises) after      *)
(* either.                                                                 *)
Reportable(clicked) == {"failed", IF clicked THEN "submitted" ELSE "needs_human"}

SubmitReturns(i, o) ==
    /\ worker[i].pc = "submit"
    /\ o \in Reportable(worker[i].clicked)
    /\ worker' = [worker EXCEPT ![i].pc = "record", ![i].outcome = o,
                                ![i].clicked = FALSE]
    /\ UNCHANGED <<claims, sent, rowVars, deployVars>>

SubmitRaisesBugRetry(i) ==
    /\ worker[i].pc = "submit"
    /\ worker' = [worker EXCEPT ![i].clicked = FALSE]
    /\ Fault
    /\ UNCHANGED <<claims, sent, rowVars, serving>>

(* Any other exception reaches run, which logs it and goes on.             *)
SubmitRaises(i) ==
    /\ worker[i].pc = "submit"
    /\ NextApplication(i)
    /\ Fault
    /\ UNCHANGED <<claims, sent, rowVars, serving>>

(* _finalize: record_submission, then the notification, whose failure is   *)
(* swallowed.                                                              *)
RecordLoad(i) ==
    /\ worker[i].pc = "record"
    /\ worker' = [worker EXCEPT ![i].pc = "write",
                                ![i].loaded = row[worker[i].app]]
    /\ UNCHANGED <<claims, sent, rowVars, deployVars>>

RecordCommit(i) ==
    LET a == worker[i].app
        o == worker[i].outcome
    IN /\ worker[i].pc = "write"
       /\ RecordSubmission(a, worker[i].loaded,
             [status |-> OutcomeToStatus(o),
              submittedAt |-> IF o = "submitted" THEN claims[i][a] ELSE 0])
       /\ NextApplication(i)
       /\ UNCHANGED <<claims, sent, deployVars>>

RecordFailsBugRequeue(i) ==
    /\ worker[i].pc \in {"record", "write"}
    /\ SetStatus(worker[i].app, "approved")
    /\ NextApplication(i)
    /\ Fault
    /\ UNCHANGED <<claims, sent, serving>>

RecordFails(i) ==
    /\ worker[i].pc \in {"record", "write"}
    /\ NextApplication(i)
    /\ Fault
    /\ UNCHANGED <<claims, sent, rowVars, serving>>

CycleLost(i) == worker' = [worker EXCEPT ![i] = IdleWorker]

WorkerProgress(i) ==
    \/ CycleStart(i) \/ CycleEnd(i)
    \/ \E a \in App : ClaimSkipped(i, a) \/ ClaimRead(i, a)
    \/ \E usable \in BOOLEAN : ClaimCommit(i, usable)
    \/ Click(i) \/ \E o \in Outcome : SubmitReturns(i, o)
    \/ RecordLoad(i) \/ RecordCommit(i)

SubmissionStep ==
    \E i \in Instance : \/ WorkerProgress(i)
                        \/ ClaimFails(i) \/ SubmitRaises(i) \/ RecordFails(i)
=============================================================================
