----------------------------- MODULE CinchProofs -----------------------------
(***************************************************************************)
(* Cinch, for any owners, applications, processes, presses and emails.     *)
(* First the types: one lemma per action, for the component the action     *)
(* belongs to; statements on the rows and the steps of an email are in     *)
(* WebhookTypes.  Then: nothing is submitted without the owner's Approve,  *)
(* owners are kept apart, and the tiles of the dashboard add up.           *)
(***************************************************************************)
EXTENDS Cinch, Dashboard, WebhookTypes, FiniteSetTheorems

(* The initial states.                                                     *)
LEMMA InitTypes == Init => TypeOK
<1> SUFFICES ASSUME Init PROVE TypeOK
    OBVIOUS
<1>1. RowsOK
    BY DEF Init, RowsInit, RowsOK, DeliveredRow, Row, ApplicationStatus
<1>2. DeploymentOK
    BY DeploymentAssumption DEF Init, DeploymentInit, DeploymentOK
<1>3. WorkflowOK
    BY DEF Init, WorkflowInit, WorkflowOK, BlankTap, TapState, TapPc, Button,
           Reply, ApplicationStatus
<1>4. SubmissionOK
    BY DEF Init, SubmissionInit, SubmissionOK, IdleWorker, Between, WorkerState,
           WorkerPc, Outcome, DeliveredRow, Row, ApplicationStatus
<1>5. EmailOK
    <2>1. "rejected" \in EmailStatus
        <3>1. ClassificationToStatus("rejection") = "rejected"
            BY DEF ClassificationToStatus
        <3>2. "rejection" \in EmailClassification \ Informational
            BY DEF EmailClassification, Informational
        <3> QED  BY <3>1, <3>2 DEF EmailStatus
    <2>2. \A u \in User : QueuedMail(u) \in MailState
        BY <2>1 DEF QueuedMail, MailState, MailPc, ApplicationStatus
    <2>3. \A u \in User : QueuedMail(u).pc = "queued"
        BY DEF QueuedMail
    <2>4. /\ mail \in [Mail -> {QueuedMail(u) : u \in User}]
          /\ offers = {}
        BY DEF Init, EmailInit
    <2> QED  BY <2>2, <2>3, <2>4 DEF EmailOK
<1>6. SweepOK
    BY DEF Init, SweepInit, SweepOK, IdleSweep, SweepState
<1> QED  BY <1>1, <1>2, <1>3, <1>4, <1>5, <1>6 DEF TypeOK
-----------------------------------------------------------------------------
(* Button presses.                                                         *)

(* A reply leaves a tap a tap, provided it is on an application.           *)
LEMMA AnsweringTypes ==
    ASSUME WorkflowOK, NEW t \in Tap, tap[t].app \in App, NEW reply \in Reply,
           Answering(t, reply)
    PROVE  /\ tap' \in [Tap -> TapState]
           /\ \A r \in Tap : tap'[r].pc \notin {"unpressed", "done"}
                                 => tap'[r].app \in App
<1> DEFINE answered == [tap[t] EXCEPT !.pc = "answer", !.reply = reply,
                                      !.loaded = "discovered"]
<1>1. tap[t] \in TapState
    BY DEF WorkflowOK
<1>2. answered \in TapState /\ answered.app = tap[t].app
    BY <1>1 DEF TapState, TapPc, ApplicationStatus
<1>3. tap' = [tap EXCEPT ![t] = answered]
    BY DEF Answering
<1> QED
    BY <1>2, <1>3 DEF WorkflowOK

(* A reply moves this tap to its answer, and no other.                     *)
LEMMA OnlyAnswered ==
    ASSUME WorkflowOK, NEW t \in Tap, NEW reply, Answering(t, reply)
    PROVE  /\ tap'[t].pc = "answer"
           /\ \A r \in Tap \ {t} : tap'[r] = tap[r]
<1> DEFINE answered == [tap[t] EXCEPT !.pc = "answer", !.reply = reply,
                                      !.loaded = "discovered"]
<1>1. answered.pc = "answer"
    BY DEF WorkflowOK, TapState
<1>2. tap' = [tap EXCEPT ![t] = answered]
    BY DEF Answering
<1> HIDE DEF answered
<1> QED  BY <1>1, <1>2 DEF WorkflowOK

(* A press puts the button, its card and its owner into a blank tap.       *)
LEMMA PressTypes ==
    ASSUME TypeOK, NEW t \in Tap, NEW a \in App, NEW button \in Button,
           NEW u \in User, Press(t, a, button, u)
    PROVE  RowsOK' /\ DeploymentOK' /\ WorkflowOK'
BY DEF TypeOK, RowsOK, DeploymentOK, WorkflowOK, Press, BlankTap, TapState,
       TapPc, Button, Reply, ApplicationStatus, rowVars, deployVars

(* /accept shows cards of applications.                                    *)
LEMMA AcceptCommandTypes ==
    ASSUME TypeOK, NEW u \in User, AcceptCommand(u)
    PROVE  RowsOK' /\ DeploymentOK' /\ WorkflowOK'
BY DEF TypeOK, RowsOK, DeploymentOK, WorkflowOK, AcceptCommand, ListOffered,
       WithStatus, rowVars, deployVars

(* The steps that only take a press up and look at the row.                *)
LEMMA TakenTypes ==
    ASSUME TypeOK, NEW t \in Tap, NEW i \in Instance,
           \/ DecideRefused(t, i) \/ DecideChecked(t, i)
           \/ AcceptRefused(t, i) \/ AcceptLoad(t, i)
    PROVE  RowsOK' /\ DeploymentOK' /\ WorkflowOK'
<1> USE DEF TypeOK
<1>1. /\ tap[t].pc = "queued"
      /\ Take(i, t)
      /\ UNCHANGED <<keyboard, offerCard, approvals, skips, rowVars>>
    BY DEF DecideRefused, DecideChecked, AcceptRefused, AcceptLoad, Decides, Accepts
<1>2. tap[t].app \in App
    BY <1>1 DEF WorkflowOK
<1>3. RowsOK' /\ DeploymentOK'
    BY <1>1, TapAssumption, TakeTypes DEF RowsOK, rowVars
<1>4. /\ tap' \in [Tap -> TapState]
      /\ \A r \in Tap : tap'[r].pc \notin {"unpressed", "done"}
                            => tap'[r].app \in App
    <2>1. CASE DecideRefused(t, i)
        BY <2>1, <1>2, AnsweringTypes DEF DecideRefused, Reply
    <2>2. CASE AcceptRefused(t, i)
        BY <2>2, <1>2, AnsweringTypes DEF AcceptRefused, Reply
    <2>3. CASE DecideChecked(t, i)
        BY <2>3, <1>2 DEF DecideChecked, Advance, WorkflowOK, TapState, TapPc
    <2>4. CASE AcceptLoad(t, i)
        <3>1. tap[t] \in TapState /\ tap \in [Tap -> TapState]
            BY DEF WorkflowOK
        <3>2. tap' = [tap EXCEPT ![t] = [tap[t] EXCEPT !.pc = "loaded",
                                                       !.loaded = "offered"]]
            BY <2>4, <3>1 DEF AcceptLoad
        <3>3. /\ [tap[t] EXCEPT !.pc = "loaded", !.loaded = "offered"] \in TapState
              /\ [tap[t] EXCEPT !.pc = "loaded", !.loaded = "offered"].app
                    = tap[t].app
            BY <3>1 DEF TapState, TapPc, ApplicationStatus
        <3> QED  BY <3>2, <3>3, <1>2 DEF WorkflowOK
    <2> QED  BY <2>1, <2>2, <2>3, <2>4
<1> QED  BY <1>1, <1>3, <1>4 DEF WorkflowOK

(* What set_status loads is a status.                                      *)
LEMMA DecideLoadTypes ==
    ASSUME TypeOK, NEW t \in Tap, DecideLoad(t)
    PROVE  RowsOK' /\ DeploymentOK' /\ WorkflowOK'
<1>1. tap[t].app \in App
    BY DEF TypeOK, WorkflowOK, DecideLoad
<1>2. row[tap[t].app].status \in ApplicationStatus
    BY <1>1 DEF TypeOK, RowsOK, Row
<1>3. RowsOK' /\ DeploymentOK'
    BY DEF TypeOK, RowsOK, DeploymentOK, DecideLoad, rowVars, deployVars
<1> DEFINE loaded == [tap[t] EXCEPT !.pc = "loaded",
                                    !.loaded = row[tap[t].app].status]
<1>4. tap[t] \in TapState /\ tap \in [Tap -> TapState]
    BY DEF TypeOK, WorkflowOK
<1>5. tap' = [tap EXCEPT ![t] = loaded]
    BY <1>4 DEF DecideLoad
<1>6. loaded \in TapState /\ loaded.app = tap[t].app
    BY <1>2, <1>4 DEF TapState, TapPc
<1>7. /\ tap' \in [Tap -> TapState]
      /\ \A r \in Tap : tap'[r].pc \notin {"unpressed", "done"}
                            => tap'[r].app \in App
    <2> HIDE DEF loaded
    <2> QED  BY <1>1, <1>4, <1>5, <1>6 DEF TypeOK, WorkflowOK
<1> QED
    BY <1>3, <1>7 DEF TypeOK, WorkflowOK, DecideLoad

(* A decision writes a status and counts itself.                           *)
LEMMA DecideCommitTypes ==
    ASSUME TypeOK, NEW t \in Tap, DecideCommit(t)
    PROVE  RowsOK' /\ DeploymentOK' /\ WorkflowOK'
<1> DEFINE a == tap[t].app
           target == Target(tap[t].button)
           changed == IF tap[t].loaded = target THEN 0 ELSE 1
<1>1. a \in App /\ target \in {"approved", "skipped"} /\ changed \in Nat
    BY DEF TypeOK, WorkflowOK, DecideCommit, Target
<1>2. RowsOK'
    BY <1>1, FlushStatusTypes DEF TypeOK, DecideCommit, ApplicationStatus
<1>3. DeploymentOK'
    BY DEF TypeOK, DeploymentOK, DecideCommit, deployVars
<1>4. /\ tap' \in [Tap -> TapState]
      /\ \A r \in Tap : tap'[r].pc \notin {"unpressed", "done"}
                            => tap'[r].app \in App
    BY <1>1, AnsweringTypes DEF TypeOK, DecideCommit, Reply
<1>5. approvals' \in [App -> Nat] /\ skips' \in [App -> Nat]
    <2>1. /\ approvals' = approvals \/ approvals' = [approvals EXCEPT ![a] = @ + changed]
          /\ skips' = skips \/ skips' = [skips EXCEPT ![a] = @ + changed]
        BY DEF DecideCommit
    <2> HIDE DEF a, changed
    <2> QED  BY <1>1, <2>1 DEF TypeOK, WorkflowOK
<1> QED
    BY <1>2, <1>3, <1>4, <1>5 DEF TypeOK, WorkflowOK, DecideCommit

(* Accepting writes a status.                                              *)
LEMMA AcceptCommitTypes ==
    ASSUME TypeOK, NEW t \in Tap, AcceptCommit(t)
    PROVE  RowsOK' /\ DeploymentOK' /\ WorkflowOK'
<1>1. tap[t].app \in App
    BY DEF TypeOK, WorkflowOK, AcceptCommit
<1>2. RowsOK'
    BY <1>1, FlushStatusTypes DEF TypeOK, AcceptCommit, ApplicationStatus
<1>3. DeploymentOK'
    BY DEF TypeOK, DeploymentOK, AcceptCommit, deployVars
<1>4. /\ tap' \in [Tap -> TapState]
      /\ \A r \in Tap : tap'[r].pc \notin {"unpressed", "done"}
                            => tap'[r].app \in App
    BY <1>1, AnsweringTypes DEF TypeOK, AcceptCommit, Reply
<1> QED  BY <1>2, <1>3, <1>4 DEF TypeOK, WorkflowOK, AcceptCommit

(* The steps that end a press.                                             *)
LEMMA AnsweredTypes ==
    ASSUME TypeOK, NEW t \in Tap, Answered(t)
    PROVE  RowsOK' /\ DeploymentOK' /\ WorkflowOK'
<1>1. RowsOK' /\ DeploymentOK'
    BY FinishTypes DEF TypeOK, RowsOK, Answered, rowVars
<1>2. keyboard' \subseteq App /\ offerCard' \subseteq App
    BY DEF TypeOK, WorkflowOK, Answered
<1> QED
    BY <1>1, <1>2 DEF TypeOK, WorkflowOK, Answered, BlankTap, TapState, TapPc, Button,
                      Reply, ApplicationStatus

(* A press whose session fails is given up.                                *)
LEMMA TapFailsTypes ==
    ASSUME TypeOK, NEW t \in Tap, TapFails(t)
    PROVE  RowsOK' /\ DeploymentOK' /\ WorkflowOK'
<1>1. RowsOK' /\ DeploymentOK'
    BY FaultTypes DEF TypeOK, RowsOK, DeploymentOK, TapFails, Release, rowVars
<1> QED
    BY <1>1 DEF TypeOK, WorkflowOK, TapFails, BlankTap, TapState, TapPc, Button,
                Reply, ApplicationStatus

(* Every step of a button press.                                           *)
LEMMA WorkflowTypes ==
    ASSUME TypeOK, WorkflowStep
    PROVE  RowsOK' /\ DeploymentOK' /\ WorkflowOK'
<1>1. CASE \E t \in Tap, a \in App, button \in Button, u \in User :
               Press(t, a, button, u)
    BY <1>1, PressTypes
<1>2. CASE \E t \in Tap : Handle(t)
    BY <1>2, TakenTypes, DecideLoadTypes, DecideCommitTypes, AcceptCommitTypes,
       AnsweredTypes DEF Handle
<1>3. CASE \E t \in Tap : TapFails(t)
    BY <1>3, TapFailsTypes
<1>4. CASE \E u \in User : AcceptCommand(u)
    BY <1>4, AcceptCommandTypes
<1> QED  BY <1>1, <1>2, <1>3, <1>4 DEF WorkflowStep
-----------------------------------------------------------------------------
(* Submission cycles.                                                      *)

(* What a cycle is between two applications.                               *)
LEMMA BetweenTypes ==
    ASSUME NEW pc \in {"idle", "next"}, NEW todo \in SUBSET App
    PROVE  /\ Between(pc, todo) \in WorkerState
           /\ Between(pc, todo).pc \in {"idle", "next"}
BY DEF Between, WorkerState, WorkerPc, Outcome, DeliveredRow, Row, ApplicationStatus

(* Such a cycle in the place of another.                                   *)
LEMMA BetweenKeeps ==
    ASSUME SubmissionOK, NEW i \in Instance, NEW pc \in {"idle", "next"},
           NEW todo \in SUBSET App,
           worker' = [worker EXCEPT ![i] = Between(pc, todo)],
           UNCHANGED <<claims, sent>>
    PROVE  SubmissionOK'
BY BetweenTypes DEF SubmissionOK

(* Going on to the next application leaves the cycle well formed.          *)
LEMMA NextApplicationTypes ==
    ASSUME SubmissionOK, NEW i \in Instance, NextApplication(i),
           UNCHANGED <<claims, sent>>
    PROVE  SubmissionOK'
<1>1. worker[i].todo \in SUBSET App
    BY DEF SubmissionOK, WorkerState
<1> QED  BY <1>1, BetweenKeeps DEF NextApplication

(* A cycle starts with a set of applications to do.                        *)
LEMMA CycleStartTypes ==
    ASSUME TypeOK, NEW i \in Instance, CycleStart(i)
    PROVE  RowsOK' /\ DeploymentOK' /\ SubmissionOK'
<1>1. WithStatus("approved") \in SUBSET App
    BY DEF WithStatus
<1> QED
    BY <1>1, BetweenKeeps DEF TypeOK, RowsOK, DeploymentOK, CycleStart, rowVars, deployVars

(* A cycle that has nothing left to do is idle.                            *)
LEMMA CycleEndTypes ==
    ASSUME TypeOK, NEW i \in Instance, CycleEnd(i)
    PROVE  RowsOK' /\ DeploymentOK' /\ SubmissionOK'
BY BetweenKeeps DEF TypeOK, RowsOK, DeploymentOK, CycleEnd, IdleWorker, rowVars, deployVars

(* Looking at a row before claiming it, whether it is taken or skipped.    *)
LEMMA ClaimTypes ==
    ASSUME TypeOK, NEW i \in Instance, NEW a \in App,
           ClaimSkipped(i, a) \/ ClaimRead(i, a)
    PROVE  RowsOK' /\ DeploymentOK' /\ SubmissionOK'
<1>1. RowsOK' /\ DeploymentOK'
    BY DEF TypeOK, RowsOK, DeploymentOK, ClaimSkipped, ClaimRead, rowVars, deployVars
<1>2. worker[i] \in WorkerState /\ worker \in [Instance -> WorkerState]
    BY DEF TypeOK, SubmissionOK
<1>3. CASE ClaimSkipped(i, a)
    BY <1>1, <1>2, <1>3 DEF TypeOK, ClaimSkipped, SubmissionOK, WorkerState
<1>4. CASE ClaimRead(i, a)
    <2> DEFINE next == [worker[i] EXCEPT !.pc = "claim", !.app = a, !.todo = @ \ {a}]
    <2>1. next \in WorkerState /\ next.app = a
        BY <1>2 DEF WorkerState, WorkerPc
    <2>2. worker' = [worker EXCEPT ![i] = next]
        BY <1>4 DEF ClaimRead
    <2> QED  BY <1>1, <1>2, <1>4, <2>1, <2>2 DEF TypeOK, ClaimRead, SubmissionOK
<1> QED  BY <1>3, <1>4

(* A claim writes FAILED and counts itself.                                *)
LEMMA ClaimCommitTypes ==
    ASSUME TypeOK, NEW i \in Instance, NEW usable \in BOOLEAN,
           ClaimCommit(i, usable)
    PROVE  RowsOK' /\ DeploymentOK' /\ SubmissionOK'
<1> DEFINE next == [worker[i] EXCEPT
                       !.pc = IF usable THEN "submit" ELSE "record",
                       !.outcome = IF usable THEN @ ELSE "needs_human"]
<1>1. worker[i].app \in App
    BY DEF TypeOK, SubmissionOK, ClaimCommit
<1>2. RowsOK' /\ DeploymentOK'
    BY <1>1, SetStatusTypes DEF TypeOK, DeploymentOK, ClaimCommit, ApplicationStatus,
                                deployVars
<1>3. next \in WorkerState /\ next.app = worker[i].app
  <2>1. worker[i] \in WorkerState
      BY DEF TypeOK, SubmissionOK
  <2> QED  BY <2>1 DEF WorkerState, WorkerPc, Outcome
<1>4. worker' = [worker EXCEPT ![i] = next]
    BY DEF ClaimCommit
<1>5. claims' \in [Instance -> [App -> Nat]]
    BY <1>1 DEF TypeOK, SubmissionOK, ClaimCommit
<1> QED
    BY <1>1, <1>2, <1>3, <1>4, <1>5 DEF TypeOK, SubmissionOK, ClaimCommit

(* A click counts itself.                                                  *)
LEMMA ClickTypes ==
    ASSUME TypeOK, NEW i \in Instance, Click(i)
    PROVE  RowsOK' /\ DeploymentOK' /\ SubmissionOK'
<1>1. worker[i].app \in App
    BY DEF TypeOK, SubmissionOK, Click
<1>2. sent' \in [Instance -> [App -> Nat]]
    BY <1>1 DEF TypeOK, SubmissionOK, Click
<1>3. /\ worker' \in [Instance -> WorkerState]
      /\ \A j \in Instance : worker'[j].pc = worker[j].pc /\ worker'[j].app = worker[j].app
  <2> DEFINE next == [worker[i] EXCEPT !.clicked = TRUE]
  <2>1. worker \in [Instance -> WorkerState]
      BY DEF TypeOK, SubmissionOK
  <2>2. worker[i] \in WorkerState
      BY <2>1
  <2>3. next \in WorkerState /\ next.pc = worker[i].pc /\ next.app = worker[i].app
      BY <2>2 DEF WorkerState
  <2>4. worker' = [worker EXCEPT ![i] = next]
      BY DEF Click
  <2> HIDE DEF next
  <2> QED  BY <2>1, <2>3, <2>4
<1>4. RowsOK' /\ DeploymentOK'
    BY DEF TypeOK, RowsOK, DeploymentOK, Click, rowVars, deployVars
<1> QED
    BY <1>2, <1>3, <1>4 DEF TypeOK, SubmissionOK, Click

(* What the browser reports is an outcome.                                 *)
LEMMA SubmitReturnsTypes ==
    ASSUME TypeOK, NEW i \in Instance, NEW o \in Outcome, SubmitReturns(i, o)
    PROVE  RowsOK' /\ DeploymentOK' /\ SubmissionOK'
<1> DEFINE next == [worker[i] EXCEPT !.pc = "record", !.outcome = o,
                                     !.clicked = FALSE]
<1>1. worker[i].app \in App
    BY DEF TypeOK, SubmissionOK, SubmitReturns
<1>2. next \in WorkerState /\ next.app = worker[i].app
    BY DEF TypeOK, SubmissionOK, WorkerState, WorkerPc
<1>3. worker' = [worker EXCEPT ![i] = next]
    BY DEF SubmitReturns
<1> QED
    BY <1>1, <1>2, <1>3 DEF TypeOK, RowsOK, DeploymentOK, SubmissionOK, SubmitReturns,
                            rowVars, deployVars

(* What record_submission loads is a row.                                  *)
LEMMA RecordLoadTypes ==
    ASSUME TypeOK, NEW i \in Instance, RecordLoad(i)
    PROVE  RowsOK' /\ DeploymentOK' /\ SubmissionOK'
<1> DEFINE next == [worker[i] EXCEPT !.pc = "write", !.loaded = row[worker[i].app]]
<1>1. worker[i].app \in App
    BY DEF TypeOK, SubmissionOK, RecordLoad
<1>2. next \in WorkerState /\ next.app = worker[i].app
    BY <1>1 DEF TypeOK, RowsOK, SubmissionOK, WorkerState, WorkerPc
<1>3. worker' = [worker EXCEPT ![i] = next]
    BY DEF RecordLoad
<1> QED
    BY <1>1, <1>2, <1>3 DEF TypeOK, RowsOK, DeploymentOK, SubmissionOK, RecordLoad,
                            rowVars, deployVars

(* record_submission writes a row; an outcome is a status.                 *)
LEMMA RecordCommitTypes ==
    ASSUME TypeOK, NEW i \in Instance, RecordCommit(i)
    PROVE  RowsOK' /\ DeploymentOK' /\ SubmissionOK'
<1> DEFINE a == worker[i].app
           o == worker[i].outcome
           new == [status |-> OutcomeToStatus(o),
                   submittedAt |-> IF o = "submitted" THEN claims[i][a] ELSE 0]
<1>1. a \in App /\ o \in Outcome /\ claims[i][a] \in Nat
    BY DEF TypeOK, SubmissionOK, WorkerState, RecordCommit
<1>2. new \in Row
    BY <1>1 DEF Row, Outcome, OutcomeToStatus, ApplicationStatus
<1>3. RowsOK'
    BY <1>1, <1>2, RecordSubmissionTypes DEF TypeOK, RecordCommit
<1>4. DeploymentOK' /\ SubmissionOK'
    BY NextApplicationTypes DEF TypeOK, DeploymentOK, RecordCommit, deployVars
<1> QED  BY <1>3, <1>4

(* The steps in which something fails.                                     *)
LEMMA SubmissionFailsTypes ==
    ASSUME TypeOK, NEW i \in Instance,
           ClaimFails(i) \/ SubmitRaises(i) \/ RecordFails(i)
    PROVE  RowsOK' /\ DeploymentOK' /\ SubmissionOK'
<1>1. NextApplication(i) /\ Fault /\ UNCHANGED <<claims, sent, rowVars, serving>>
    BY DEF ClaimFails, SubmitRaises, RecordFails
<1> QED
    BY <1>1, NextApplicationTypes, FaultTypes
    DEF TypeOK, RowsOK, DeploymentOK, rowVars

(* Every step of a submission cycle.                                       *)
LEMMA SubmissionTypes ==
    ASSUME TypeOK, SubmissionStep
    PROVE  RowsOK' /\ DeploymentOK' /\ SubmissionOK'
<1>1. PICK i \in Instance : \/ WorkerProgress(i)
                            \/ ClaimFails(i) \/ SubmitRaises(i) \/ RecordFails(i)
    BY DEF SubmissionStep
<1>2. CASE WorkerProgress(i)
    BY <1>2, CycleStartTypes, CycleEndTypes, ClaimTypes, ClaimCommitTypes, ClickTypes,
       SubmitReturnsTypes, RecordLoadTypes, RecordCommitTypes DEF WorkerProgress
<1> QED  BY <1>1, <1>2, SubmissionFailsTypes
-----------------------------------------------------------------------------
(* Every step of an inbound email.                                         *)
LEMMA EmailTypes ==
    ASSUME TypeOK, EmailStep
    PROVE  RowsOK' /\ DeploymentOK' /\ EmailOK'
BY EmailRefusedTypes, ReceiveEmailTypes, ClassifyNoActionTypes, ClassifyMatchedTypes,
   EmailLoadTypes, EmailCommitTypes, RespondTypes, EmailFailsTypes
   DEF TypeOK, EmailStep, EmailProgress
-----------------------------------------------------------------------------
(* Ghosted sweeps.                                                         *)
LEMMA IdleSweepTypes == IdleSweep \in SweepState /\ IdleSweep.pc = "idle"
BY DEF IdleSweep, SweepState

(* A sweep starts with a set of applications to do.                        *)
LEMMA SweepStartTypes ==
    ASSUME TypeOK, NEW i \in Instance, SweepStart(i)
    PROVE  RowsOK' /\ DeploymentOK' /\ SweepOK'
<1> DEFINE next == [sweep[i] EXCEPT !.pc = "next", !.todo = ListStaleSubmitted]
<1>1. next \in SweepState /\ next.pc = "next"
    BY DEF TypeOK, SweepOK, SweepState, ListStaleSubmitted, WithStatus
<1>2. sweep' = [sweep EXCEPT ![i] = next]
    BY DEF SweepStart
<1> QED
    BY <1>1, <1>2 DEF TypeOK, RowsOK, DeploymentOK, SweepOK, SweepStart, rowVars,
                      deployVars

(* Looking at a row before marking it, whether it is taken or skipped.     *)
LEMMA GhostReadTypes ==
    ASSUME TypeOK, NEW i \in Instance, NEW a \in App,
           GhostSkipped(i, a) \/ GhostRead(i, a)
    PROVE  RowsOK' /\ DeploymentOK' /\ SweepOK'
<1>1. RowsOK' /\ DeploymentOK'
    BY DEF TypeOK, RowsOK, DeploymentOK, GhostSkipped, GhostRead, rowVars, deployVars
<1>2. CASE GhostSkipped(i, a)
    BY <1>1, <1>2 DEF TypeOK, GhostSkipped, SweepOK, SweepState
<1>3. CASE GhostRead(i, a)
    <2> DEFINE next == [sweep[i] EXCEPT !.pc = "mark", !.app = a, !.todo = @ \ {a}]
    <2>1. next \in SweepState /\ next.app = a
        BY DEF TypeOK, SweepOK, SweepState
    <2>2. sweep' = [sweep EXCEPT ![i] = next]
        BY <1>3 DEF GhostRead
    <2> QED  BY <1>1, <2>1, <2>2 DEF TypeOK, SweepOK
<1> QED  BY <1>2, <1>3

(* Marking a row locks it and changes no row yet.                          *)
LEMMA GhostMarkTypes ==
    ASSUME TypeOK, NEW i \in Instance, GhostMark(i)
    PROVE  RowsOK' /\ DeploymentOK' /\ SweepOK'
<1> DEFINE a == sweep[i].app
           next == [sweep[i] EXCEPT !.pc = "next", !.app = None, !.marked = @ \cup {a}]
<1>1. a \in App
    BY DEF TypeOK, SweepOK, GhostMark
<1>2. next \in SweepState /\ next.pc = "next"
    BY <1>1 DEF TypeOK, SweepOK, SweepState
<1>3. sweep' = [sweep EXCEPT ![i] = next]
    BY DEF GhostMark
<1>4. RowsOK' /\ DeploymentOK'
    BY <1>1 DEF TypeOK, RowsOK, DeploymentOK, GhostMark, deployVars
<1> QED  BY <1>2, <1>3, <1>4 DEF TypeOK, SweepOK

(* A sweep that commits writes a status into the rows it marked.           *)
LEMMA SweepCommitTypes ==
    ASSUME TypeOK, NEW i \in Instance, SweepCommit(i)
    PROVE  RowsOK' /\ DeploymentOK' /\ SweepOK'
<1>1. \A a \in App : [row[a] EXCEPT !.status = "ghosted"] \in Row
    BY DEF TypeOK, RowsOK, Row, ApplicationStatus
<1>2. row' \in [App -> Row]
    BY <1>1 DEF TypeOK, RowsOK, SweepCommit
<1>3. RowsOK' /\ DeploymentOK'
    BY <1>2 DEF TypeOK, RowsOK, DeploymentOK, SweepCommit, deployVars
<1> QED  BY <1>3, IdleSweepTypes DEF TypeOK, SweepOK, SweepCommit

(* A sweep that is rolled back, by a failure or by a crash.                *)
LEMMA SweepLostTypes ==
    ASSUME TypeOK, NEW i \in Instance, SweepLost(i)
    PROVE  RowsOK' /\ SweepOK'
BY IdleSweepTypes DEF TypeOK, RowsOK, SweepOK, SweepLost

(* Every step of a ghosted sweep.                                          *)
LEMMA SweepTypes ==
    ASSUME TypeOK, SweepStep
    PROVE  RowsOK' /\ DeploymentOK' /\ SweepOK'
<1>1. CASE \E i \in Instance : SweepProgress(i)
    BY <1>1, SweepStartTypes, GhostReadTypes, GhostMarkTypes, SweepCommitTypes
    DEF SweepProgress
<1>2. CASE \E i \in Instance : SweepFails(i)
    BY <1>2, SweepLostTypes, FaultTypes DEF TypeOK, DeploymentOK, SweepFails
<1>3. CASE \E a \in App : GrowQuiet(a) /\ UNCHANGED <<sweep, deployVars>>
    BY <1>3 DEF TypeOK, RowsOK, DeploymentOK, SweepOK, GrowQuiet, deployVars
<1> QED  BY <1>1, <1>2, <1>3 DEF SweepStep
-----------------------------------------------------------------------------
(* A crash hands the requests a process serves back to their senders, so   *)
(* TypeOK by itself is not inductive: a press that is over, or was never   *)
(* made, would come back without an application.  It is not served.        *)
Served == \A i \in Instance, t \in Tap :
             t \in serving[i] => tap[t].pc \notin {"unpressed", "done"}

TypeInv == TypeOK /\ Served

(* A crash keeps the types of the presses ...                              *)
LEMMA TapsLostTypes ==
    ASSUME TypeInv, NEW i \in Instance, TapsLost(i),
           UNCHANGED <<keyboard, offerCard, approvals, skips>>
    PROVE  WorkflowOK'
<1> DEFINE requeued(t) == [tap[t] EXCEPT !.pc = "queued", !.loaded = "discovered",
                                         !.reply = "none"]
<1>1. \A t \in Tap : tap[t] \in TapState
    BY DEF TypeInv, TypeOK, WorkflowOK
<1>2. \A t \in Tap : /\ requeued(t) \in TapState
                      /\ requeued(t).app = tap[t].app
    BY <1>1 DEF TapState, TapPc, Reply, ApplicationStatus
<1>3. \A t \in Tap : tap'[t] = IF t \in serving[i] THEN requeued(t) ELSE tap[t]
    BY DEF TapsLost
<1>4. \A t \in Tap : t \in serving[i] => tap[t].app \in App
    BY DEF TypeInv, TypeOK, WorkflowOK, Served
<1>5. tap' \in [Tap -> TapState]
    BY <1>1, <1>2 DEF TapsLost
<1> HIDE DEF requeued
<1> QED  BY <1>2, <1>3, <1>4, <1>5 DEF TypeInv, TypeOK, WorkflowOK

(* ... and of everything else.                                             *)
LEMMA CrashTypes ==
    ASSUME TypeInv, NEW i \in Instance, Crash(i)
    PROVE  TypeOK'
<1>1. RowsOK' /\ SweepOK'
    BY SweepLostTypes DEF TypeInv, Crash
<1>2. DeploymentOK'
    BY FaultTypes DEF TypeInv, TypeOK, DeploymentOK, Crash
<1>3. WorkflowOK'
    BY TapsLostTypes DEF Crash
<1>4. SubmissionOK'
    <2>1. "idle" \in {"idle", "next"} /\ {} \in SUBSET App
        OBVIOUS
    <2>2. /\ worker' = [worker EXCEPT ![i] = Between("idle", {})]
          /\ UNCHANGED <<claims, sent>>
        BY DEF Crash, CycleLost, IdleWorker
    <2> QED  BY <2>1, <2>2, BetweenKeeps DEF TypeInv, TypeOK
<1>5. EmailOK'
    <2>1. mail' \in [Mail -> MailState]
        BY RequeuedTypes DEF TypeInv, TypeOK, EmailOK, Crash, EmailsLost
    <2>2. \A m \in Mail : mail'[m] = mail[m] \/ mail'[m].pc = "queued"
        BY RequeuedTypes DEF TypeInv, TypeOK, EmailOK, Crash, EmailsLost
    <2> QED  BY <2>1, <2>2 DEF TypeInv, TypeOK, EmailOK, Crash
<1> QED  BY <1>1, <1>2, <1>3, <1>4, <1>5 DEF TypeOK

(* Taking up and ending presses, and the other components' requests, keep  *)
(* Served.                                                                 *)
LEMMA ServedTypes ==
    ASSUME TypeInv, Next
    PROVE  Served'
<1> USE DEF TypeInv
<1>1. ASSUME WorkflowStep PROVE Served'
    <2>1. CASE \E t \in Tap, a \in App, button \in Button, u \in User :
                   Press(t, a, button, u)
        BY <2>1 DEF Press, BlankTap, Served, deployVars, TypeOK, WorkflowOK
    <2>2. CASE \E t \in Tap, i \in Instance :
                   \/ DecideRefused(t, i) \/ DecideChecked(t, i)
                   \/ AcceptRefused(t, i) \/ AcceptLoad(t, i)
        <3>1. PICK t \in Tap, i \in Instance :
                   \/ DecideRefused(t, i) \/ DecideChecked(t, i)
                   \/ AcceptRefused(t, i) \/ AcceptLoad(t, i)
            BY <2>2
        <3>2. Take(i, t)
            BY <3>1 DEF DecideRefused, DecideChecked, AcceptRefused, AcceptLoad
        <3>3. /\ tap'[t].pc \in {"answer", "checked", "loaded"}
              /\ \A r \in Tap \ {t} : tap'[r] = tap[r]
            <4>1. CASE DecideRefused(t, i)
                BY <4>1, OnlyAnswered DEF DecideRefused, TypeOK
            <4>2. CASE AcceptRefused(t, i)
                BY <4>2, OnlyAnswered DEF AcceptRefused, TypeOK
            <4>3. CASE DecideChecked(t, i)
                BY <4>3 DEF DecideChecked, Advance, TypeOK, WorkflowOK, TapState
            <4>4. CASE AcceptLoad(t, i)
                BY <4>4 DEF AcceptLoad, TypeOK, WorkflowOK, TapState
            <4> QED  BY <3>1, <4>1, <4>2, <4>3, <4>4
        <3> QED  BY <3>2, <3>3 DEF Take, Served, TypeOK, DeploymentOK
    <2>3. CASE \E t \in Tap : DecideLoad(t) \/ DecideCommit(t) \/ AcceptCommit(t)
        <3>1. PICK t \in Tap : DecideLoad(t) \/ DecideCommit(t) \/ AcceptCommit(t)
            BY <2>3
        <3>2. UNCHANGED serving
            BY <3>1 DEF DecideLoad, DecideCommit, AcceptCommit, deployVars
        <3>3. /\ tap'[t].pc \in {"loaded", "answer"}
              /\ \A r \in Tap \ {t} : tap'[r] = tap[r]
            <4>1. CASE DecideLoad(t)
                BY <4>1 DEF DecideLoad, TypeOK, WorkflowOK, TapState
            <4>2. CASE DecideCommit(t)
                BY <4>2, OnlyAnswered DEF DecideCommit, TypeOK
            <4>3. CASE AcceptCommit(t)
                BY <4>3, OnlyAnswered DEF AcceptCommit, TypeOK
            <4> QED  BY <3>1, <4>1, <4>2, <4>3
        <3> QED  BY <3>2, <3>3 DEF Served
    <2>4. CASE \E t \in Tap : Answered(t) \/ TapFails(t)
        <3>1. PICK t \in Tap : Answered(t) \/ TapFails(t)
            BY <2>4
        <3>2. Release(t) /\ \A r \in Tap \ {t} : tap'[r] = tap[r]
            BY <3>1 DEF Answered, TapFails, Finish, TypeOK, WorkflowOK
        <3> QED  BY <3>2 DEF Release, Served
    <2>5. CASE \E u \in User : AcceptCommand(u)
        BY <2>5 DEF AcceptCommand, Served, deployVars
    <2> QED  BY <1>1, <2>1, <2>2, <2>3, <2>4, <2>5 DEF WorkflowStep, Handle
<1>2. ASSUME UNCHANGED tap, \A i \in Instance : serving'[i] \cap Tap \subseteq serving[i]
      PROVE  Served'
    BY <1>2 DEF Served
<1>3. ASSUME SubmissionStep, UNCHANGED workflowVars PROVE Served'
    <2>1. UNCHANGED serving
        BY <1>3 DEF SubmissionStep, WorkerProgress, CycleStart, CycleEnd, ClaimSkipped,
            ClaimRead, ClaimCommit, Click, SubmitReturns, RecordLoad, RecordCommit,
            ClaimFails, SubmitRaises, RecordFails, deployVars
    <2> QED  BY <1>2, <1>3, <2>1 DEF workflowVars
<1>4. ASSUME EmailStep, UNCHANGED workflowVars PROVE Served'
    <2>1. PICK m \in Mail : \/ \E i \in Instance : ReceiveEmail(m, i)
                            \/ EmailRefused(m) \/ EmailProgress(m) \/ EmailFails(m)
        BY <1>4 DEF EmailStep
    <2>2. \/ \E i \in Instance : Take(i, m)
          \/ Release(m)
          \/ UNCHANGED serving
        BY <2>1 DEF EmailProgress, EmailRefused, ReceiveEmail, ClassifyNoAction, ClassifyMatched,
            EmailLoad, EmailCommit, Respond, EmailFails, Finish, deployVars
    <2>3. m \notin Tap
        BY RequestAssumption
    <2> QED
        BY <1>2, <1>4, <2>2, <2>3 DEF Take, Release, workflowVars, TypeOK, DeploymentOK
<1>5. ASSUME SweepStep, UNCHANGED workflowVars PROVE Served'
    <2>1. UNCHANGED serving
        BY <1>5 DEF SweepStep, SweepProgress, SweepStart, GhostSkipped, GhostRead,
            GhostMark, SweepCommit, SweepFails, deployVars
    <2> QED  BY <1>2, <1>5, <2>1 DEF workflowVars
<1>6. ASSUME NEW i \in Instance, Crash(i) PROVE Served'
    <2>1. \A t \in Tap : \/ tap'[t] = tap[t]
                          \/ tap'[t].pc = "queued"
        BY <1>6 DEF Crash, TapsLost, TypeOK, WorkflowOK, TapState
    <2>2. \A j \in Instance : serving'[j] \subseteq serving[j]
        BY <1>6 DEF Crash, TypeOK, DeploymentOK
    <2> QED  BY <2>1, <2>2 DEF Served
<1> QED  BY <1>1, <1>3, <1>4, <1>5, <1>6 DEF Next

(* Every step keeps the invariant.                                         *)
LEMMA NextTypes == TypeInv /\ [Next]_vars => TypeInv'
<1> SUFFICES ASSUME TypeInv, [Next]_vars PROVE TypeInv'
    OBVIOUS
<1> USE DEF TypeInv
<1>1. CASE WorkflowStep /\ UNCHANGED <<submissionVars, emailVars, sweep>>
    BY <1>1, WorkflowTypes, ServedTypes
    DEF Next, TypeOK, SubmissionOK, EmailOK, SweepOK, submissionVars, emailVars
<1>2. CASE SubmissionStep /\ UNCHANGED <<workflowVars, emailVars, sweep>>
    BY <1>2, SubmissionTypes, ServedTypes
    DEF Next, TypeOK, WorkflowOK, EmailOK, SweepOK, workflowVars, emailVars
<1>3. CASE EmailStep /\ UNCHANGED <<workflowVars, submissionVars, sweep>>
    BY <1>3, EmailTypes, ServedTypes
    DEF Next, TypeOK, WorkflowOK, SubmissionOK, SweepOK, workflowVars, submissionVars
<1>4. CASE SweepStep /\ UNCHANGED <<workflowVars, submissionVars, emailVars>>
    BY <1>4, SweepTypes, ServedTypes
    DEF Next, TypeOK, WorkflowOK, SubmissionOK, EmailOK, workflowVars, submissionVars,
        emailVars
<1>5. CASE \E i \in Instance : Crash(i)
    BY <1>5, CrashTypes, ServedTypes DEF Next
<1>6. CASE UNCHANGED vars
    BY <1>6 DEF vars, rowVars, deployVars, workflowVars, submissionVars, emailVars,
        TypeOK, RowsOK, DeploymentOK, WorkflowOK, SubmissionOK, EmailOK, SweepOK, Served
<1> QED  BY <1>1, <1>2, <1>3, <1>4, <1>5, <1>6 DEF Next

(* Every state of every behaviour is well typed, whatever the number of    *)
(* owners, applications, processes, presses and emails, and no process     *)
(* serves a press that is not in progress.                                 *)
THEOREM TypesInvariant == Spec => []TypeInv
<1>1. Init => TypeInv
    BY InitTypes DEF Init, TypeInv, Served, DeploymentInit
<1> QED  BY <1>1, NextTypes, PTL DEF Spec

(* In particular, TypeOK is an invariant.                                  *)
THEOREM TypeCorrect == Spec => []TypeOK
<1>1. TypeInv => TypeOK
    BY DEF TypeInv
<1> QED  BY <1>1, TypesInvariant, PTL
-----------------------------------------------------------------------------
(***************************************************************************)
(* Nothing is submitted without the owner's Approve: Licensed is           *)
(* inductive, and with it Cinch implements HumanInTheLoop.                 *)
(*                                                                         *)
(* OneClickPerApproval by itself is not inductive: a worker about to click *)
(* must be known to have a claim, and a row that says APPROVED an approval *)
(* that no claim of this worker has used.  Licensed counts both.           *)
(***************************************************************************)

(* No row becomes APPROVED. *)
NoneApproved == \A a \in App : row'[a].status = "approved" => row[a].status = "approved"

(* The two halves of Licensed, for one process and row.                    *)
ClaimLicence(i, a) == claims[i][a] + (IF MayClaim(i, a) THEN 1 ELSE 0) <= approvals[a]
ClickLicence(i, a) == sent[i][a] + (IF MayClick(i, a) THEN 1 ELSE 0) <= claims[i][a]

(* Licensed, one process and one application at a time.                    *)
LEMMA LicensedSplit ==
    Licensed <=> \A i \in Instance, a \in App : ClaimLicence(i, a) /\ ClickLicence(i, a)
BY DEF Licensed, ClaimLicence, ClickLicence

(* The counters are numbers. *)
LEMMA CounterTypes ==
    ASSUME TypeOK
    PROVE  \A i \in Instance, a \in App :
              claims[i][a] \in Nat /\ sent[i][a] \in Nat /\ approvals[a] \in Nat
BY DEF TypeOK, SubmissionOK, WorkflowOK

(* Steps that leave the workers alone and grant an approval for every row  *)
(* they make APPROVED.                                                     *)
LEMMA LicensedByOthers ==
    ASSUME TypeOK, TypeOK', Licensed, UNCHANGED submissionVars,
           \A a \in App : \/ approvals'[a] >= approvals[a] + 1
                          \/ /\ approvals'[a] >= approvals[a]
                             /\ row'[a].status = "approved"
                                   => row[a].status = "approved"
    PROVE  Licensed'
<1> SUFFICES ASSUME NEW i \in Instance, NEW a \in App
             PROVE  ClaimLicence(i, a)' /\ ClickLicence(i, a)'
    BY DEF Licensed, ClaimLicence, ClickLicence
<1>1. ClaimLicence(i, a) /\ ClickLicence(i, a)
    BY LicensedSplit
<1>2. /\ claims[i][a] \in Nat /\ sent[i][a] \in Nat
      /\ approvals[a] \in Nat /\ approvals'[a] \in Nat
    BY CounterTypes DEF TypeOK, WorkflowOK
<1>3. ClickLicence(i, a)'
    BY <1>1 DEF ClickLicence, MayClick, submissionVars
<1>4. ClaimLicence(i, a)'
    BY <1>1, <1>2 DEF ClaimLicence, MayClaim, submissionVars
<1> QED  BY <1>3, <1>4

(* Steps of one worker, which makes no row APPROVED.                       *)
LEMMA LicensedByWorker ==
    ASSUME TypeOK, Licensed, NEW i \in Instance, NoneApproved, UNCHANGED approvals,
           \A j \in Instance \ {i} : /\ worker'[j] = worker[j]
                                     /\ claims'[j] = claims[j]
                                     /\ sent'[j] = sent[j],
           \A a \in App : ClaimLicence(i, a)' /\ ClickLicence(i, a)'
    PROVE  Licensed'
<1> SUFFICES ASSUME NEW j \in Instance, j # i, NEW a \in App
             PROVE  ClaimLicence(j, a)' /\ ClickLicence(j, a)'
    BY DEF Licensed, ClaimLicence, ClickLicence
<1>1. ClaimLicence(j, a) /\ ClickLicence(j, a)
    BY LicensedSplit
<1>2. claims[j][a] \in Nat /\ approvals[a] \in Nat
    BY CounterTypes
<1>3. ClickLicence(j, a)'
    BY <1>1 DEF ClickLicence, MayClick
<1>4. ClaimLicence(j, a)'
    BY <1>1, <1>2 DEF ClaimLicence, MayClaim, NoneApproved
<1> QED  BY <1>3, <1>4

(* Statements that set another status make no row APPROVED.                *)
LEMMA SetStatusApproves ==
    ASSUME RowsOK, NEW b \in App, NEW s, s # "approved", SetStatus(b, s)
    PROVE  NoneApproved
BY DEF RowsOK, Row, SetStatus, NoneApproved
-----------------------------------------------------------------------------
(* Button presses.                                                         *)
LEMMA DecideCommitLicensed ==
    ASSUME TypeOK, TypeOK', Licensed, NEW t \in Tap, DecideCommit(t),
           UNCHANGED submissionVars
    PROVE  Licensed'
<1> DEFINE b == tap[t].app
           target == Target(tap[t].button)
<1>1. b \in App /\ target \in {"approved", "skipped"}
    BY DEF TypeOK, WorkflowOK, DecideCommit, Target
<1>2. approvals \in [App -> Nat] /\ row \in [App -> Row]
    BY DEF TypeOK, WorkflowOK, RowsOK
<1>3. CASE tap[t].loaded = target
    <2>1. UNCHANGED row
        BY <1>3 DEF DecideCommit, FlushStatus, rowVars
    <2>2. \A a \in App : approvals'[a] >= approvals[a]
        BY <1>2, <1>3 DEF DecideCommit
    <2> QED  BY <2>1, <2>2, LicensedByOthers
<1>4. CASE tap[t].loaded # target /\ target = "skipped"
    <2>1. SetStatus(b, "skipped") /\ UNCHANGED approvals
        BY <1>4 DEF DecideCommit, FlushStatus
    <2>2. NoneApproved
        BY <1>1, <2>1, SetStatusApproves DEF TypeOK
    <2> QED  BY <1>2, <2>1, <2>2, LicensedByOthers DEF NoneApproved
<1>5. CASE tap[t].loaded # target /\ target = "approved"
    <2>1. /\ row' = [row EXCEPT ![b].status = "approved"]
          /\ approvals' = [approvals EXCEPT ![b] = @ + 1]
        BY <1>5 DEF DecideCommit, FlushStatus, SetStatus
    <2>2. \A a \in App \ {b} : row'[a] = row[a] /\ approvals'[a] = approvals[a]
        BY <1>2, <2>1
    <2>3. approvals'[b] >= approvals[b] + 1
        BY <1>1, <1>2, <2>1
    <2> QED  BY <1>2, <2>2, <2>3, LicensedByOthers
<1> QED  BY <1>1, <1>3, <1>4, <1>5

(* A button press keeps Licensed: what it approves, it counts.             *)
LEMMA WorkflowLicensed ==
    ASSUME TypeOK, TypeOK', Licensed, WorkflowStep, UNCHANGED submissionVars
    PROVE  Licensed'
<1>1. CASE \E t \in Tap : DecideCommit(t)
    BY <1>1, DecideCommitLicensed
<1>2. CASE \E t \in Tap : AcceptCommit(t)
    <2>1. PICK t \in Tap : AcceptCommit(t)
        BY <1>2
    <2>2. tap[t].app \in App
        BY <2>1 DEF TypeOK, WorkflowOK, AcceptCommit
    <2>3. NoneApproved
        BY <2>1, <2>2, SetStatusApproves
        DEF TypeOK, AcceptCommit, FlushStatus, NoneApproved, rowVars
    <2>4. UNCHANGED approvals
        BY <2>1 DEF AcceptCommit
    <2> QED
        BY <2>3, <2>4, CounterTypes, LicensedByOthers
        DEF NoneApproved, TypeOK, WorkflowOK
<1>3. CASE UNCHANGED <<row, approvals>>
    BY <1>3, LicensedByOthers DEF TypeOK, WorkflowOK
<1> QED
    BY <1>1, <1>2, <1>3 DEF WorkflowStep, Handle, Press, DecideRefused, DecideChecked,
        AcceptRefused, AcceptLoad, DecideLoad, Answered, TapFails, AcceptCommand, rowVars
-----------------------------------------------------------------------------
(* Submission cycles.  Claiming uses the licence the APPROVED row gave,    *)
(* clicking the one the claim gave.                                        *)

(* The worker has no licence that it had not before.                       *)
NoNewLicence(i) == \A a \in App : /\ MayClaim(i, a)' => MayClaim(i, a)
                                  /\ MayClick(i, a)' => MayClick(i, a)

(* A worker that neither claims nor clicks, and has no licence it had not. *)
LEMMA LicensedByIdling ==
    ASSUME TypeOK, Licensed, NEW i \in Instance, NoneApproved,
           UNCHANGED <<approvals, claims, sent>>,
           \A j \in Instance \ {i} : worker'[j] = worker[j],
           NoNewLicence(i)
    PROVE  Licensed'
<1>1. ASSUME NEW a \in App PROVE ClaimLicence(i, a)' /\ ClickLicence(i, a)'
    <2>1. ClaimLicence(i, a) /\ ClickLicence(i, a)
        BY LicensedSplit
    <2>2. claims[i][a] \in Nat /\ sent[i][a] \in Nat /\ approvals[a] \in Nat
        BY CounterTypes
    <2>3. (MayClaim(i, a)' => MayClaim(i, a)) /\ (MayClick(i, a)' => MayClick(i, a))
        BY DEF NoNewLicence
    <2>4. ClaimLicence(i, a)'
        BY <2>1, <2>2, <2>3 DEF ClaimLicence
    <2>5. ClickLicence(i, a)'
        BY <2>1, <2>2, <2>3 DEF ClickLicence
    <2> QED  BY <2>4, <2>5
<1> QED  BY <1>1, LicensedByWorker

(* A claim uses up the licence of the approval it read, and is one to click. *)
LEMMA ClaimCommitLicensed ==
    ASSUME TypeOK, Licensed, NEW i \in Instance, NEW usable \in BOOLEAN,
           ClaimCommit(i, usable), UNCHANGED approvals
    PROVE  Licensed'
<1> DEFINE b == worker[i].app
<1>1. b \in App /\ worker[i] \in WorkerState /\ worker \in [Instance -> WorkerState]
    BY DEF TypeOK, SubmissionOK, ClaimCommit
<1>2. row \in [App -> Row] /\ claims \in [Instance -> [App -> Nat]]
    BY DEF TypeOK, RowsOK, SubmissionOK
<1>3. NoneApproved
    BY <1>1, SetStatusApproves DEF TypeOK, ClaimCommit
<1>4. /\ row'[b].status # "approved"
      /\ claims'[i][b] = claims[i][b] + 1
      /\ \A a \in App \ {b} : row'[a] = row[a] /\ claims'[i][a] = claims[i][a]
      /\ UNCHANGED sent
    BY <1>1, <1>2 DEF ClaimCommit, SetStatus, Row
<1>5. /\ worker'[i].pc \in {"submit", "record"}
      /\ worker'[i].app = b
      /\ worker[i].pc = "claim"
    BY <1>1 DEF ClaimCommit, WorkerState
<1>6. \A j \in Instance \ {i} : worker'[j] = worker[j] /\ claims'[j] = claims[j]
    BY <1>1, <1>2 DEF ClaimCommit
<1>7. ASSUME NEW a \in App PROVE ClaimLicence(i, a)' /\ ClickLicence(i, a)'
    <2>1. ClaimLicence(i, a) /\ ClickLicence(i, a)
        BY LicensedSplit
    <2>2. claims[i][a] \in Nat /\ sent[i][a] \in Nat /\ approvals[a] \in Nat
        BY CounterTypes
    <2>3. CASE a = b
        <3>1. ~ MayClaim(i, a)' /\ MayClaim(i, a) /\ ~ MayClick(i, a)
            BY <1>4, <1>5, <2>3 DEF MayClaim, MayClick
        <3>2. ClaimLicence(i, a)'
            BY <1>4, <2>1, <2>2, <2>3, <3>1 DEF ClaimLicence
        <3>3. ClickLicence(i, a)'
            BY <1>4, <2>1, <2>2, <2>3, <3>1 DEF ClickLicence
        <3> QED  BY <3>2, <3>3
    <2>4. CASE a # b
        <3>1. (MayClaim(i, a)' => MayClaim(i, a)) /\ ~ MayClick(i, a)'
            BY <1>4, <1>5, <2>4 DEF MayClaim, MayClick
        <3>2. ClaimLicence(i, a)'
            BY <1>4, <2>1, <2>2, <2>4, <3>1 DEF ClaimLicence
        <3>3. ClickLicence(i, a)'
            BY <1>4, <2>1, <2>2, <2>4, <3>1 DEF ClickLicence
        <3> QED  BY <3>2, <3>3
    <2> QED  BY <2>3, <2>4
<1> QED  BY <1>3, <1>4, <1>6, <1>7, LicensedByWorker

(* A click uses up the licence of its claim.                               *)
LEMMA ClickLicensed ==
    ASSUME TypeOK, Licensed, NEW i \in Instance, Click(i), UNCHANGED approvals
    PROVE  Licensed'
<1> DEFINE b == worker[i].app
<1>1. b \in App /\ worker[i] \in WorkerState /\ worker \in [Instance -> WorkerState]
    BY DEF TypeOK, SubmissionOK, Click
<1>2. sent \in [Instance -> [App -> Nat]]
    BY DEF TypeOK, SubmissionOK
<1>3. UNCHANGED <<row, claims>> /\ NoneApproved
    BY DEF Click, rowVars, NoneApproved
<1>4. /\ sent'[i][b] = sent[i][b] + 1
      /\ \A a \in App \ {b} : sent'[i][a] = sent[i][a]
    BY <1>1, <1>2 DEF Click
<1>5. /\ worker'[i].clicked
      /\ worker'[i].pc = "submit"
    BY <1>1 DEF Click, WorkerState
<1>6. \A j \in Instance \ {i} : worker'[j] = worker[j] /\ sent'[j] = sent[j]
    BY <1>1, <1>2 DEF Click
<1>7. ASSUME NEW a \in App PROVE ClaimLicence(i, a)' /\ ClickLicence(i, a)'
    <2>1. ClaimLicence(i, a) /\ ClickLicence(i, a)
        BY LicensedSplit
    <2>2. claims[i][a] \in Nat /\ sent[i][a] \in Nat /\ approvals[a] \in Nat
        BY CounterTypes
    <2>3. MayClaim(i, a)' => MayClaim(i, a)
        BY <1>3, <1>5 DEF MayClaim
    <2>4. ClaimLicence(i, a)'
        BY <1>3, <2>1, <2>2, <2>3 DEF ClaimLicence
    <2>5. ~ MayClick(i, a)'
        BY <1>5 DEF MayClick
    <2>6. a = b => MayClick(i, a)
        BY DEF MayClick, Click
    <2>7. ClickLicence(i, a)'
        BY <1>3, <1>4, <2>1, <2>2, <2>5, <2>6 DEF ClickLicence
    <2> QED  BY <2>4, <2>7
<1> QED  BY <1>3, <1>6, <1>7, LicensedByWorker

(* What a cycle is between two applications gives no licence.              *)
LEMMA BetweenLicensed ==
    ASSUME TypeOK, Licensed, NEW i \in Instance, NEW pc \in {"idle", "next"}, NEW todo,
           worker' = [worker EXCEPT ![i] = Between(pc, todo)],
           UNCHANGED <<row, approvals, claims, sent>>
    PROVE  Licensed'
<1>1. worker \in [Instance -> WorkerState]
    BY DEF TypeOK, SubmissionOK
<1>2. worker'[i].pc = pc /\ \A j \in Instance \ {i} : worker'[j] = worker[j]
    BY <1>1 DEF Between
<1>3. NoNewLicence(i)
    BY <1>2 DEF NoNewLicence, MayClaim, MayClick
<1>4. NoneApproved
    BY DEF NoneApproved
<1> QED  BY <1>2, <1>3, <1>4, LicensedByIdling

(* Reading a row APPROVED takes no licence that the row did not give.      *)
LEMMA ClaimReadLicensed ==
    ASSUME TypeOK, Licensed, NEW i \in Instance, NEW b \in App,
           ClaimSkipped(i, b) \/ ClaimRead(i, b), UNCHANGED approvals
    PROVE  Licensed'
<1>1. worker[i] \in WorkerState /\ worker \in [Instance -> WorkerState]
    BY DEF TypeOK, SubmissionOK
<1>2. UNCHANGED <<row, claims, sent>> /\ NoneApproved
    BY DEF ClaimSkipped, ClaimRead, rowVars, NoneApproved
<1>3. \A j \in Instance \ {i} : worker'[j] = worker[j]
    BY <1>1 DEF ClaimSkipped, ClaimRead
<1>4. CASE ClaimSkipped(i, b)
    <2>1. worker'[i].pc = "next"
        BY <1>1, <1>4 DEF ClaimSkipped, WorkerState
    <2>2. NoNewLicence(i)
        BY <1>2, <2>1 DEF NoNewLicence, MayClaim, MayClick
    <2> QED  BY <1>2, <1>3, <2>2, LicensedByIdling
<1>5. CASE ClaimRead(i, b)
    <2>1. worker'[i].pc = "claim" /\ worker'[i].app = b /\ row[b].status = "approved"
        <3> DEFINE next == [worker[i] EXCEPT !.pc = "claim", !.app = b,
                                             !.todo = @ \ {b}]
        <3>1. next.pc = "claim" /\ next.app = b
            BY <1>1 DEF WorkerState
        <3>2. worker' = [worker EXCEPT ![i] = next] /\ row[b].status = "approved"
            BY <1>5 DEF ClaimRead
        <3> HIDE DEF next
        <3> QED  BY <1>1, <3>1, <3>2
    <2>2. NoNewLicence(i)
        BY <1>2, <2>1 DEF NoNewLicence, MayClaim, MayClick
    <2> QED  BY <1>2, <1>3, <2>2, LicensedByIdling
<1> QED  BY <1>4, <1>5

(* The steps after the claim, but for the click.                           *)
LEMMA RecordingLicensed ==
    ASSUME TypeOK, Licensed, NEW i \in Instance,
           (\E o \in Outcome : SubmitReturns(i, o)) \/ RecordLoad(i),
           UNCHANGED approvals
    PROVE  Licensed'
<1>1. worker[i] \in WorkerState /\ worker \in [Instance -> WorkerState]
    BY DEF TypeOK, SubmissionOK
<1>2. UNCHANGED <<row, claims, sent>> /\ NoneApproved
    BY DEF SubmitReturns, RecordLoad, rowVars, NoneApproved
<1>3. worker'[i].pc \in {"record", "write"}
    <2>1. ASSUME NEW o \in Outcome, SubmitReturns(i, o) PROVE worker'[i].pc = "record"
        <3> DEFINE next == [worker[i] EXCEPT !.pc = "record", !.outcome = o,
                                             !.clicked = FALSE]
        <3>1. next.pc = "record" /\ worker' = [worker EXCEPT ![i] = next]
            BY <1>1, <2>1 DEF SubmitReturns, WorkerState
        <3> HIDE DEF next
        <3> QED  BY <1>1, <3>1
    <2>2. ASSUME RecordLoad(i) PROVE worker'[i].pc = "write"
        BY <1>1, <2>2 DEF RecordLoad, WorkerState
    <2> QED  BY <2>1, <2>2
<1>4. \A j \in Instance \ {i} : worker'[j] = worker[j]
    BY <1>1 DEF SubmitReturns, RecordLoad
<1>5. NoNewLicence(i)
    BY <1>2, <1>3 DEF NoNewLicence, MayClaim, MayClick
<1> QED  BY <1>2, <1>4, <1>5, LicensedByIdling

(* Recording an outcome gives no licence: no outcome is APPROVED.          *)
LEMMA RecordCommitLicensed ==
    ASSUME TypeOK, Licensed, NEW i \in Instance, RecordCommit(i), UNCHANGED approvals
    PROVE  Licensed'
<1>1. /\ worker \in [Instance -> WorkerState]
      /\ row \in [App -> Row]
      /\ worker[i].app \in App
      /\ OutcomeToStatus(worker[i].outcome) # "approved"
    BY DEF TypeOK, SubmissionOK, RowsOK, RecordCommit, WorkerState, Outcome,
           OutcomeToStatus
<1>2. NoneApproved
    BY <1>1 DEF RecordCommit, RecordSubmission, NoneApproved, Row
<1>3. worker'[i].pc = "next" /\ \A j \in Instance \ {i} : worker'[j] = worker[j]
    BY <1>1 DEF RecordCommit, NextApplication, Between
<1>4. NoNewLicence(i)
    BY <1>2, <1>3 DEF NoNewLicence, MayClaim, MayClick, NoneApproved
<1>5. UNCHANGED <<claims, sent>>
    BY DEF RecordCommit
<1> QED  BY <1>2, <1>3, <1>4, <1>5, LicensedByIdling

(* Every step of a submission cycle keeps Licensed.                        *)
LEMMA SubmissionLicensed ==
    ASSUME TypeOK, Licensed, SubmissionStep, UNCHANGED workflowVars
    PROVE  Licensed'
<1>1. UNCHANGED approvals
    BY DEF workflowVars
<1>2. PICK i \in Instance : \/ WorkerProgress(i)
                            \/ ClaimFails(i) \/ SubmitRaises(i) \/ RecordFails(i)
    BY DEF SubmissionStep
<1>3. CASE CycleStart(i) \/ CycleEnd(i)
    BY <1>1, <1>3, BetweenLicensed DEF CycleStart, CycleEnd, IdleWorker, rowVars
<1>4. CASE ClaimFails(i) \/ SubmitRaises(i) \/ RecordFails(i)
    BY <1>1, <1>4, BetweenLicensed
    DEF ClaimFails, SubmitRaises, RecordFails, NextApplication, rowVars
<1> QED
    BY <1>1, <1>2, <1>3, <1>4, ClaimReadLicensed, ClaimCommitLicensed, ClickLicensed,
       RecordingLicensed, RecordCommitLicensed DEF WorkerProgress
-----------------------------------------------------------------------------
(* Emails, sweeps and crashes grant nothing and use nothing.               *)
LEMMA EmailLicensed ==
    ASSUME TypeOK, TypeOK', Licensed, EmailStep,
           UNCHANGED <<workflowVars, submissionVars>>
    PROVE  Licensed'
<1>1. NoneApproved
    <2>1. CASE \E m \in Mail : EmailCommit(m)
        <3>1. PICK m \in Mail : EmailCommit(m)
            BY <2>1
        <3>2. mail[m].status # "approved"
            BY <3>1 DEF TypeOK, EmailOK, MailState, EmailStatus, EmailClassification,
                Informational, ClassificationToStatus
        <3>3. mail[m].app \in App /\ row \in [App -> Row]
            BY <3>1 DEF TypeOK, EmailOK, RowsOK, EmailCommit
        <3> QED
            BY <3>1, <3>2, <3>3 DEF EmailCommit, RecordEmailUpdate, NoneApproved, Row
    <2>2. CASE UNCHANGED row
        BY <2>2 DEF NoneApproved
    <2> QED
        BY <2>1, <2>2 DEF EmailStep, EmailProgress, EmailRefused, ReceiveEmail, ClassifyNoAction,
            ClassifyMatched, EmailLoad, Respond, EmailFails, rowVars
<1> QED
    BY <1>1, LicensedByOthers
    DEF NoneApproved, TypeOK, WorkflowOK, workflowVars

(* A sweep keeps Licensed: it never writes APPROVED.                       *)
LEMMA SweepLicensed ==
    ASSUME TypeOK, TypeOK', Licensed, SweepStep,
           UNCHANGED <<workflowVars, submissionVars>>
    PROVE  Licensed'
<1>1. NoneApproved
    <2>1. CASE \E i \in Instance : SweepCommit(i)
        BY <2>1 DEF TypeOK, RowsOK, Row, SweepCommit, NoneApproved
    <2>2. CASE UNCHANGED row
        BY <2>2 DEF NoneApproved
    <2> QED
        BY <2>1, <2>2 DEF SweepStep, SweepProgress, SweepStart, GhostSkipped, GhostRead,
            GhostMark, SweepFails, SweepLost, GrowQuiet, rowVars
<1> QED
    BY <1>1, LicensedByOthers
    DEF NoneApproved, TypeOK, WorkflowOK, workflowVars

(* A crash keeps Licensed: licences are lost, none is won.                 *)
LEMMA CrashLicensed ==
    ASSUME TypeOK, Licensed, NEW i \in Instance, Crash(i)
    PROVE  Licensed'
<1>1. worker' = [worker EXCEPT ![i] = Between("idle", {})]
    BY DEF Crash, CycleLost, IdleWorker
<1>2. UNCHANGED <<row, approvals, claims, sent>>
    BY DEF Crash, SweepLost
<1> QED  BY <1>1, <1>2, BetweenLicensed
-----------------------------------------------------------------------------
(* Initially nobody holds a licence.                                       *)
LEMMA InitLicensed == Init => Licensed
<1> SUFFICES ASSUME Init PROVE Licensed
    OBVIOUS
<1>1. \A i \in Instance, a \in App :
          /\ approvals[a] = 0 /\ claims[i][a] = 0 /\ sent[i][a] = 0
          /\ row[a].status # "approved"
          /\ worker[i].pc = "idle"
    BY DEF Init, RowsInit, DeliveredRow, WorkflowInit, SubmissionInit, IdleWorker,
           Between
<1> QED  BY <1>1 DEF Licensed, MayClaim, MayClick

(* Licensed is inductive, given the types.                                 *)
LEMMA NextLicensed == TypeOK /\ TypeOK' /\ Licensed /\ [Next]_vars => Licensed'
<1> SUFFICES ASSUME TypeOK, TypeOK', Licensed, [Next]_vars PROVE Licensed'
    OBVIOUS
<1>1. CASE WorkflowStep /\ UNCHANGED <<submissionVars, emailVars, sweep>>
    BY <1>1, WorkflowLicensed
<1>2. CASE SubmissionStep /\ UNCHANGED <<workflowVars, emailVars, sweep>>
    BY <1>2, SubmissionLicensed
<1>3. CASE EmailStep /\ UNCHANGED <<workflowVars, submissionVars, sweep>>
    BY <1>3, EmailLicensed
<1>4. CASE SweepStep /\ UNCHANGED <<workflowVars, submissionVars, emailVars>>
    BY <1>4, SweepLicensed
<1>5. CASE \E i \in Instance : Crash(i)
    BY <1>5, CrashLicensed
<1>6. CASE UNCHANGED vars
    BY <1>6 DEF vars, rowVars, workflowVars, submissionVars, Licensed, MayClaim, MayClick
<1> QED  BY <1>1, <1>2, <1>3, <1>4, <1>5, <1>6 DEF Next

(* Every claim is covered by an approval, and every click by a claim, in   *)
(* every interleaving of presses, cycles, emails, sweeps and crashes.      *)
THEOREM LicensedInvariant == Spec => []Licensed
<1> QED  BY InitLicensed, NextLicensed, TypeCorrect, PTL DEF Spec

(* So no process clicks submit more often than the owner has approved.     *)
THEOREM ClicksAreApproved == Spec => []OneClickPerApproval
<1>1. TypeOK /\ Licensed => OneClickPerApproval
    <2> SUFFICES ASSUME TypeOK, Licensed, NEW i \in Instance, NEW a \in App
                 PROVE  sent[i][a] <= approvals[a]
        BY DEF OneClickPerApproval
    <2>1. ClaimLicence(i, a) /\ ClickLicence(i, a)
        BY LicensedSplit
    <2>2. claims[i][a] \in Nat /\ sent[i][a] \in Nat /\ approvals[a] \in Nat
        BY CounterTypes
    <2> QED  BY <2>1, <2>2 DEF ClaimLicence, ClickLicence
<1> QED  BY <1>1, TypeCorrect, LicensedInvariant, PTL
-----------------------------------------------------------------------------
(* The refinement: Approve decisions are grants, clicks are submissions,   *)
(* and no other step touches either count.                                 *)
Untouched == UNCHANGED <<approvals, sent>>

(* Initially nothing is granted and nothing spent.                         *)
LEMMA InitPromises == Init => Promise!Init
BY DEF Init, WorkflowInit, SubmissionInit, Promise!Init

(* A decision is a Grant, or a stutter.                                    *)
LEMMA DecideCommitPromises ==
    ASSUME TypeOK, NEW t \in Tap, DecideCommit(t), UNCHANGED sent
    PROVE  Untouched \/ Promise!Next
<1> DEFINE b == tap[t].app
<1>1. b \in App /\ approvals \in [App -> Nat]
    BY DEF TypeOK, WorkflowOK, DecideCommit
<1>2. CASE Target(tap[t].button) # "approved"
    BY <1>2 DEF DecideCommit, Untouched
<1>3. CASE Target(tap[t].button) = "approved" /\ tap[t].loaded = "approved"
    <2>1. approvals' = [approvals EXCEPT ![b] = @ + 0]
        BY <1>3 DEF DecideCommit
    <2>2. approvals' = approvals
        BY <1>1, <2>1
    <2> QED  BY <2>2 DEF Untouched
<1>4. CASE Target(tap[t].button) = "approved" /\ tap[t].loaded # "approved"
    <2>1. Promise!Grant(b)
        BY <1>4 DEF DecideCommit, Promise!Grant
    <2> QED  BY <1>1, <2>1 DEF Promise!Next
<1> QED  BY <1>2, <1>3, <1>4

(* A click is a Submit: the licence is there.                              *)
LEMMA ClickPromises ==
    ASSUME TypeOK, Licensed, NEW i \in Instance, Click(i), UNCHANGED approvals
    PROVE  Promise!Next
<1> DEFINE b == worker[i].app
<1>1. b \in App
    BY DEF TypeOK, SubmissionOK, Click
<1>2. ClaimLicence(i, b) /\ ClickLicence(i, b)
    BY <1>1, LicensedSplit
<1>3. MayClick(i, b)
    BY DEF MayClick, Click
<1>4. claims[i][b] \in Nat /\ sent[i][b] \in Nat /\ approvals[b] \in Nat
    BY <1>1, CounterTypes
<1>5. sent[i][b] < approvals[b]
    BY <1>2, <1>3, <1>4 DEF ClaimLicence, ClickLicence
<1>6. Promise!Submit(i, b)
    BY <1>5 DEF Promise!Submit, Click
<1> QED  BY <1>1, <1>6 DEF Promise!Next

(* Every step of Cinch is a step of HumanInTheLoop, or a stutter.          *)
LEMMA NextPromises ==
    TypeOK /\ Licensed /\ [Next]_vars => [Promise!Next]_<<approvals, sent>>
<1> SUFFICES ASSUME TypeOK, Licensed, [Next]_vars PROVE Untouched \/ Promise!Next
    BY DEF Untouched
<1>1. CASE WorkflowStep /\ UNCHANGED <<submissionVars, emailVars, sweep>>
    <2>1. CASE \E t \in Tap : DecideCommit(t)
        BY <1>1, <2>1, DecideCommitPromises DEF submissionVars
    <2>2. CASE UNCHANGED approvals
        BY <1>1, <2>2 DEF Untouched, submissionVars
    <2> QED
        BY <1>1, <2>1, <2>2 DEF WorkflowStep, Handle, Press, DecideRefused,
            DecideChecked, AcceptRefused, AcceptLoad, DecideLoad, AcceptCommit,
            Answered, TapFails, AcceptCommand
<1>2. CASE SubmissionStep /\ UNCHANGED <<workflowVars, emailVars, sweep>>
    <2>1. UNCHANGED approvals
        BY <1>2 DEF workflowVars
    <2>2. CASE \E i \in Instance : Click(i)
        BY <2>1, <2>2, ClickPromises
    <2>3. CASE UNCHANGED sent
        BY <2>1, <2>3 DEF Untouched
    <2> QED
        BY <1>2, <2>2, <2>3 DEF SubmissionStep, WorkerProgress, CycleStart, CycleEnd,
            ClaimSkipped, ClaimRead, ClaimCommit, SubmitReturns, RecordLoad,
            RecordCommit, ClaimFails, SubmitRaises, RecordFails
<1>3. CASE UNCHANGED <<workflowVars, submissionVars>>
    BY <1>3 DEF Untouched, workflowVars, submissionVars
<1>4. CASE \E i \in Instance : Crash(i)
    BY <1>4 DEF Crash, Untouched
<1> QED  BY <1>1, <1>2, <1>3, <1>4 DEF Next, vars

(* Cinch, on any number of processes that crash when they like, implements *)
(* the promise: every click of a process is paid for by an Approve that    *)
(* came before it.                                                         *)
THEOREM CinchKeepsThePromise == Spec => KeepsThePromise
<1> QED
    BY InitPromises, NextPromises, TypeCorrect, LicensedInvariant, PTL
    DEF Spec, KeepsThePromise, Promise!Spec
-----------------------------------------------------------------------------
(***************************************************************************)
(* Owners are kept apart.  Whose a row is, is looked at when a press is    *)
(* taken up and when an email's candidates are read; the row is written    *)
(* several steps later, and nothing looks again.  OwnerInv is what is      *)
(* carried along.  And what a sweep has announced, it keeps.               *)
(***************************************************************************)

PressOwned(t) == tap[t].pc \in {"checked", "loaded"} => Owned(t)

EmailOwned(m) ==
    /\ \A a \in mail[m].candidates : OwnerOf[a] = mail[m].owner
    /\ mail[m].pc \in {"record", "write"} => OwnerOf[mail[m].app] = mail[m].owner

OwnerInv == /\ \A t \in Tap : PressOwned(t)
            /\ \A m \in Mail : EmailOwned(m)

(* One press moves on; it is the owner's where it has passed the check.    *)
LEMMA OwnerByPress ==
    ASSUME TypeOK, OwnerInv, NEW t \in Tap, NEW next, tap' = [tap EXCEPT ![t] = next],
           next.pc \in {"checked", "loaded"} => next.by = OwnerOf[next.app],
           UNCHANGED mail
    PROVE  OwnerInv'
<1>1. tap'[t] = next /\ \A r \in Tap \ {t} : tap'[r] = tap[r]
    BY DEF TypeOK, WorkflowOK
<1>2. PressOwned(t)'
    BY <1>1 DEF PressOwned, Owned
<1>3. ASSUME NEW r \in Tap \ {t} PROVE PressOwned(r)'
    BY <1>1 DEF OwnerInv, PressOwned, Owned
<1>4. ASSUME NEW m \in Mail PROVE EmailOwned(m)'
    BY DEF OwnerInv, EmailOwned
<1> QED  BY <1>2, <1>3, <1>4 DEF OwnerInv

(* One email moves on, with candidates and a match of its owner.           *)
LEMMA OwnerByEmail ==
    ASSUME TypeOK, OwnerInv, NEW m \in Mail, NEW next, mail' = [mail EXCEPT ![m] = next],
           \A a \in next.candidates : OwnerOf[a] = next.owner,
           next.pc \in {"record", "write"} => OwnerOf[next.app] = next.owner,
           UNCHANGED tap
    PROVE  OwnerInv'
<1>1. mail'[m] = next /\ \A n \in Mail \ {m} : mail'[n] = mail[n]
    BY DEF TypeOK, EmailOK
<1>2. EmailOwned(m)'
    BY <1>1 DEF EmailOwned
<1>3. ASSUME NEW n \in Mail \ {m} PROVE EmailOwned(n)'
    BY <1>1 DEF OwnerInv, EmailOwned
<1>4. ASSUME NEW t \in Tap PROVE PressOwned(t)'
    BY DEF OwnerInv, PressOwned, Owned
<1> QED  BY <1>2, <1>3, <1>4 DEF OwnerInv

(* Nothing that leaves presses and emails alone matters.                   *)
LEMMA OwnerByOthers ==
    ASSUME OwnerInv, UNCHANGED <<tap, mail>>
    PROVE  OwnerInv'
BY DEF OwnerInv, PressOwned, EmailOwned, Owned
-----------------------------------------------------------------------------
(* Only the owner's press passes the check, and it stays the owner's.      *)
LEMMA WorkflowOwner ==
    ASSUME TypeOK, OwnerInv, WorkflowStep, UNCHANGED mail
    PROVE  OwnerInv'
<1>1. \A t \in Tap : tap[t] \in TapState
    BY DEF TypeOK, WorkflowOK
<1>2. ASSUME NEW t \in Tap, NEW reply, Answering(t, reply) PROVE OwnerInv'
    <2> DEFINE next == [tap[t] EXCEPT !.pc = "answer", !.reply = reply,
                                      !.loaded = "discovered"]
    <2>1. next.pc = "answer" /\ tap' = [tap EXCEPT ![t] = next]
        BY <1>1, <1>2 DEF Answering, TapState
    <2> HIDE DEF next
    <2> QED  BY <2>1, OwnerByPress
<1>3. ASSUME NEW t \in Tap, NEW a \in App, NEW button \in Button, NEW u \in User,
             Press(t, a, button, u)
      PROVE  OwnerInv'
    <2> DEFINE next == [BlankTap("queued") EXCEPT !.app = a, !.button = button, !.by = u]
    <2>1. next.pc = "queued" /\ tap' = [tap EXCEPT ![t] = next]
        BY <1>3 DEF Press, BlankTap
    <2> HIDE DEF next
    <2> QED  BY <2>1, OwnerByPress
<1>4. ASSUME NEW t \in Tap, NEW i \in Instance, DecideChecked(t, i) PROVE OwnerInv'
    <2> DEFINE next == [tap[t] EXCEPT !.pc = "checked"]
    <2>1. next.by = tap[t].by /\ next.app = tap[t].app
        BY <1>1 DEF TapState
    <2>2. tap' = [tap EXCEPT ![t] = next] /\ Owned(t)
        BY <1>4 DEF DecideChecked, Advance
    <2> HIDE DEF next
    <2> QED  BY <2>1, <2>2, OwnerByPress DEF Owned
<1>5. ASSUME NEW t \in Tap, DecideLoad(t) PROVE OwnerInv'
    <2> DEFINE next == [tap[t] EXCEPT !.pc = "loaded",
                                      !.loaded = row[tap[t].app].status]
    <2>1. next.by = tap[t].by /\ next.app = tap[t].app
        BY <1>1 DEF TapState
    <2>2. tap' = [tap EXCEPT ![t] = next] /\ Owned(t)
        BY <1>5 DEF DecideLoad, OwnerInv, PressOwned
    <2> HIDE DEF next
    <2> QED  BY <2>1, <2>2, OwnerByPress DEF Owned
<1>6. ASSUME NEW t \in Tap, NEW i \in Instance, AcceptLoad(t, i) PROVE OwnerInv'
    <2> DEFINE next == [tap[t] EXCEPT !.pc = "loaded", !.loaded = "offered"]
    <2>1. next.by = tap[t].by /\ next.app = tap[t].app
        BY <1>1 DEF TapState
    <2>2. tap' = [tap EXCEPT ![t] = next] /\ Owned(t)
        BY <1>6 DEF AcceptLoad
    <2> HIDE DEF next
    <2> QED  BY <2>1, <2>2, OwnerByPress DEF Owned
<1>7. ASSUME NEW t \in Tap, Answered(t) \/ TapFails(t) PROVE OwnerInv'
    <2>1. tap' = [tap EXCEPT ![t] = BlankTap("done")] /\ BlankTap("done").pc = "done"
        BY <1>7 DEF Answered, TapFails, BlankTap
    <2> QED  BY <2>1, OwnerByPress
<1>8. ASSUME NEW t \in Tap, NEW i \in Instance, DecideRefused(t, i) \/ AcceptRefused(t, i)
      PROVE  OwnerInv'
    BY <1>2, <1>8 DEF DecideRefused, AcceptRefused
<1>9. ASSUME NEW t \in Tap, DecideCommit(t) \/ AcceptCommit(t) PROVE OwnerInv'
    BY <1>2, <1>9 DEF DecideCommit, AcceptCommit
<1>10. ASSUME NEW u \in User, AcceptCommand(u) PROVE OwnerInv'
    BY <1>10, OwnerByOthers DEF AcceptCommand
<1> QED
    BY <1>3, <1>4, <1>5, <1>6, <1>7, <1>8, <1>9, <1>10 DEF WorkflowStep, Handle

(* The candidates of an email are its owner's, and so is the match.        *)
LEMMA EmailOwner ==
    ASSUME TypeOK, OwnerInv, EmailStep, UNCHANGED tap
    PROVE  OwnerInv'
<1>1. \A m \in Mail : mail[m] \in MailState /\ EmailOwned(m)
    BY DEF TypeOK, EmailOK, OwnerInv
<1>2. ASSUME NEW m \in Mail, NEW i \in Instance, ReceiveEmail(m, i) PROVE OwnerInv'
    <2> DEFINE found == ListCandidatesForEmailMatch(mail[m].owner)
               next == [mail[m] EXCEPT !.pc = "classify", !.candidates = found]
    <2>1. /\ next.pc = "classify" /\ next.candidates = found
          /\ next.owner = mail[m].owner
        BY <1>1 DEF MailState
    <2>2. \A a \in found : OwnerOf[a] = mail[m].owner
        BY DEF ListCandidatesForEmailMatch
    <2>3. mail' = [mail EXCEPT ![m] = next]
        BY <1>2 DEF ReceiveEmail
    <2> HIDE DEF next
    <2> QED  BY <2>1, <2>2, <2>3, OwnerByEmail
<1>3. ASSUME NEW m \in Mail, ClassifyNoAction(m) PROVE OwnerInv'
    <2> DEFINE next == [mail[m] EXCEPT !.pc = "respond", !.candidates = {}]
    <2>1. next.pc = "respond" /\ next.candidates = {}
        BY <1>1 DEF MailState
    <2>2. mail' = [mail EXCEPT ![m] = next]
        BY <1>3 DEF ClassifyNoAction
    <2> HIDE DEF next
    <2> QED  BY <2>1, <2>2, OwnerByEmail
<1>4. ASSUME NEW m \in Mail, NEW a \in App,
             NEW c \in EmailClassification \ Informational, ClassifyMatched(m, a, c)
      PROVE  OwnerInv'
    <2> DEFINE next == [mail[m] EXCEPT !.pc = "record", !.candidates = {}, !.app = a,
                                       !.status = ClassificationToStatus(c)]
    <2>1. /\ next.pc = "record" /\ next.candidates = {} /\ next.app = a
          /\ next.owner = mail[m].owner
        BY <1>1 DEF MailState
    <2>2. OwnerOf[a] = mail[m].owner
        BY <1>1, <1>4 DEF ClassifyMatched, EmailOwned
    <2>3. mail' = [mail EXCEPT ![m] = next]
        BY <1>4 DEF ClassifyMatched
    <2> HIDE DEF next
    <2> QED  BY <2>1, <2>2, <2>3, OwnerByEmail
<1>5. ASSUME NEW m \in Mail, EmailLoad(m) PROVE OwnerInv'
    <2> DEFINE next == [mail[m] EXCEPT !.pc = "write",
                                       !.loaded = row[mail[m].app].status]
    <2>1. /\ next.candidates = mail[m].candidates /\ next.app = mail[m].app
          /\ next.owner = mail[m].owner
        BY <1>1 DEF MailState
    <2>2. mail' = [mail EXCEPT ![m] = next] /\ mail[m].pc = "record"
        BY <1>5 DEF EmailLoad
    <2> HIDE DEF next
    <2> QED  BY <1>1, <2>1, <2>2, OwnerByEmail DEF EmailOwned
<1>6. ASSUME NEW m \in Mail, EmailCommit(m) PROVE OwnerInv'
    <2> DEFINE next == [mail[m] EXCEPT !.pc = "respond", !.app = None,
                                       !.status = "rejected", !.loaded = "discovered"]
    <2>1. /\ next.pc = "respond" /\ next.candidates = mail[m].candidates
          /\ next.owner = mail[m].owner
        BY <1>1 DEF MailState
    <2>2. mail' = [mail EXCEPT ![m] = next]
        BY <1>6 DEF EmailCommit
    <2> HIDE DEF next
    <2> QED  BY <1>1, <2>1, <2>2, OwnerByEmail DEF EmailOwned
<1>7. ASSUME NEW m \in Mail, Respond(m) PROVE OwnerInv'
    <2> DEFINE next == [mail[m] EXCEPT !.pc = "done"]
    <2>1. /\ next.pc = "done" /\ next.candidates = mail[m].candidates
          /\ next.owner = mail[m].owner
        BY <1>1 DEF MailState
    <2>2. mail' = [mail EXCEPT ![m] = next]
        BY <1>7 DEF Respond
    <2> HIDE DEF next
    <2> QED  BY <1>1, <2>1, <2>2, OwnerByEmail DEF EmailOwned
<1>8. ASSUME NEW m \in Mail, EmailFails(m) PROVE OwnerInv'
    <2>1. Requeued(m).pc = "queued" /\ Requeued(m).candidates = {}
        BY DEF Requeued, QueuedMail
    <2>2. mail' = [mail EXCEPT ![m] = Requeued(m)]
        BY <1>8 DEF EmailFails
    <2> QED  BY <2>1, <2>2, OwnerByEmail
<1>9. ASSUME NEW m \in Mail, EmailRefused(m) PROVE OwnerInv'
    <2> DEFINE next == [mail[m] EXCEPT !.pc = "done"]
    <2>1. /\ next.pc = "done" /\ next.candidates = mail[m].candidates
          /\ next.owner = mail[m].owner
        BY <1>1 DEF MailState
    <2>2. mail' = [mail EXCEPT ![m] = next]
        BY <1>9 DEF EmailRefused
    <2> HIDE DEF next
    <2> QED  BY <1>1, <2>1, <2>2, OwnerByEmail DEF EmailOwned
<1> QED
    BY <1>2, <1>3, <1>4, <1>5, <1>6, <1>7, <1>8, <1>9 DEF EmailStep, EmailProgress

(* OwnerInv is inductive, given the types.                                 *)
LEMMA NextOwner == TypeOK /\ OwnerInv /\ [Next]_vars => OwnerInv'
<1> SUFFICES ASSUME TypeOK, OwnerInv, [Next]_vars PROVE OwnerInv'
    OBVIOUS
<1>1. CASE WorkflowStep /\ UNCHANGED <<submissionVars, emailVars, sweep>>
    BY <1>1, WorkflowOwner DEF emailVars
<1>2. CASE EmailStep /\ UNCHANGED <<workflowVars, submissionVars, sweep>>
    BY <1>2, EmailOwner DEF workflowVars
<1>3. CASE \E i \in Instance : Crash(i)
    <2>1. PICK i \in Instance : Crash(i)
        BY <1>3
    <2>2. \A t \in Tap : tap'[t] = tap[t] \/ tap'[t].pc = "queued"
        BY <2>1 DEF TypeOK, WorkflowOK, TapState, Crash, TapsLost
    <2>3. \A m \in Mail : mail'[m] = mail[m] \/ mail'[m] = Requeued(m)
        BY <2>1 DEF TypeOK, EmailOK, Crash, EmailsLost
    <2>4. \A m \in Mail : Requeued(m).pc = "queued" /\ Requeued(m).candidates = {}
        BY DEF Requeued, QueuedMail
    <2>5. \A t \in Tap : PressOwned(t)'
        BY <2>2 DEF OwnerInv, PressOwned, Owned
    <2>6. \A m \in Mail : EmailOwned(m)'
        BY <2>3, <2>4 DEF OwnerInv, EmailOwned
    <2> QED  BY <2>5, <2>6 DEF OwnerInv
<1>4. CASE UNCHANGED <<workflowVars, emailVars>>
    BY <1>4, OwnerByOthers DEF workflowVars, emailVars
<1> QED  BY <1>1, <1>2, <1>3, <1>4 DEF Next, vars
-----------------------------------------------------------------------------
(* Every step that changes a status is its owner's press or email, or the  *)
(* service itself.                                                         *)
LEMMA NextMoves == TypeOK /\ OwnerInv /\ [Next]_vars => [MovedByItsOwner]_vars
<1> SUFFICES ASSUME TypeOK, OwnerInv, [Next]_vars PROVE MovedByItsOwner
    OBVIOUS
<1>1. row \in [App -> Row]
    BY DEF TypeOK, RowsOK
<1>2. CASE UNCHANGED row
    BY <1>2 DEF MovedByItsOwner
<1>3. ASSUME NEW t \in Tap, DecideCommit(t) \/ AcceptCommit(t) PROVE MovedByItsOwner
    <2>1. tap[t].pc = "loaded" /\ tap[t].by = OwnerOf[tap[t].app]
        BY <1>3 DEF DecideCommit, AcceptCommit, OwnerInv, PressOwned, Owned
    <2>2. \A a \in App : a # tap[t].app => row'[a] = row[a]
        BY <1>1, <1>3 DEF DecideCommit, AcceptCommit, FlushStatus, SetStatus, rowVars
    <2> QED  BY <2>1, <2>2 DEF MovedByItsOwner
<1>4. ASSUME NEW m \in Mail, EmailCommit(m) PROVE MovedByItsOwner
    <2>1. mail[m].pc = "write" /\ OwnerOf[mail[m].app] = mail[m].owner
        BY <1>4 DEF EmailCommit, OwnerInv, EmailOwned
    <2>2. \A a \in App : a # mail[m].app => row'[a] = row[a]
        BY <1>1, <1>4 DEF EmailCommit, RecordEmailUpdate
    <2> QED  BY <2>1, <2>2 DEF MovedByItsOwner
<1>5. ASSUME NEW i \in Instance, NEW usable \in BOOLEAN, ClaimCommit(i, usable)
      PROVE  MovedByItsOwner
    BY <1>1, <1>5 DEF ClaimCommit, SetStatus, Row, MovedByItsOwner, MovedByItself
<1>6. ASSUME NEW i \in Instance, RecordCommit(i) PROVE MovedByItsOwner
    <2>1. worker[i].app \in App /\ worker[i].outcome \in Outcome
        BY <1>6 DEF TypeOK, SubmissionOK, WorkerState, RecordCommit
    <2>2. \A a \in App : row'[a].status \in {row[a].status, worker[i].outcome}
        BY <1>1, <1>6, <2>1 DEF RecordCommit, RecordSubmission, OutcomeToStatus
    <2> QED  BY <2>1, <2>2 DEF Outcome, MovedByItsOwner, MovedByItself
<1>7. ASSUME NEW i \in Instance, SweepCommit(i) PROVE MovedByItsOwner
    BY <1>1, <1>7 DEF SweepCommit, Row, MovedByItsOwner, MovedByItself
<1>8. CASE WorkflowStep
    BY <1>2, <1>3, <1>8 DEF WorkflowStep, Handle, Press, DecideRefused, DecideChecked,
        DecideLoad, AcceptRefused, AcceptLoad, Answered, TapFails, AcceptCommand, rowVars
<1>9. CASE SubmissionStep
    BY <1>2, <1>5, <1>6, <1>9 DEF SubmissionStep, WorkerProgress, CycleStart, CycleEnd,
        ClaimSkipped, ClaimRead, Click, SubmitReturns, RecordLoad, ClaimFails,
        SubmitRaises, RecordFails, rowVars
<1>10. CASE EmailStep
    BY <1>2, <1>4, <1>10 DEF EmailStep, EmailProgress, EmailRefused, ReceiveEmail, ClassifyNoAction,
        ClassifyMatched, EmailLoad, Respond, EmailFails, rowVars
<1>11. CASE SweepStep
    BY <1>2, <1>7, <1>11 DEF SweepStep, SweepProgress, SweepStart, GhostSkipped,
        GhostRead, GhostMark, SweepFails, SweepLost, GrowQuiet, rowVars
<1>12. CASE (\E i \in Instance : Crash(i)) \/ UNCHANGED vars
    BY <1>2, <1>12 DEF Crash, SweepLost, vars, rowVars
<1> QED  BY <1>8, <1>9, <1>10, <1>11, <1>12 DEF Next

(* For any owners, rows, processes, presses and emails: only its owner's   *)
(* press, an email sent with its owner's token, or the service itself      *)
(* moves a row.                                                            *)
THEOREM OwnersStayApart == Spec => OwnersApart
<1>1. Init => OwnerInv
    <2>1. ASSUME Init, NEW t \in Tap PROVE PressOwned(t)
        BY <2>1 DEF Init, WorkflowInit, BlankTap, PressOwned
    <2>2. ASSUME Init, NEW m \in Mail PROVE EmailOwned(m)
        BY <2>2 DEF Init, EmailInit, QueuedMail, EmailOwned
    <2> QED  BY <2>1, <2>2 DEF OwnerInv
<1> QED  BY <1>1, NextOwner, NextMoves, TypeCorrect, PTL DEF Spec, OwnersApart
-----------------------------------------------------------------------------
(***************************************************************************)
(* The dashboard.  TAILORED has no tile, and no step writes it: Discovery  *)
(* leaves a row there only before its card is out.  The other statuses     *)
(* have one tile each, so that each application is counted once.           *)
(***************************************************************************)

HasTile == \A a \in App : row[a].status # "tailored"

(* No statement of any component sets TAILORED.                            *)
LEMMA NextHasTile == TypeOK /\ HasTile /\ [Next]_vars => HasTile'
<1> SUFFICES ASSUME TypeOK, HasTile, [Next]_vars PROVE HasTile'
    OBVIOUS
<1>1. row \in [App -> Row]
    BY DEF TypeOK, RowsOK
<1>2. CASE UNCHANGED row
    BY <1>2 DEF HasTile
<1>3. ASSUME NEW t \in Tap, DecideCommit(t) \/ AcceptCommit(t) PROVE HasTile'
    <2>1. ASSUME NEW s \in {"approved", "skipped", "accepted"},
                 SetStatus(tap[t].app, s)
          PROVE  HasTile'
        BY <1>1, <2>1 DEF SetStatus, Row, HasTile
    <2>2. Target(tap[t].button) \in {"approved", "skipped"}
        BY DEF Target
    <2> QED
        BY <1>2, <1>3, <2>1, <2>2 DEF DecideCommit, AcceptCommit, FlushStatus, rowVars
<1>4. ASSUME NEW m \in Mail, EmailCommit(m) PROVE HasTile'
    <2>1. mail[m].status \in EmailStatus
        BY DEF TypeOK, EmailOK, MailState
    <2>2. "tailored" \notin EmailStatus
        BY DEF EmailStatus, EmailClassification, Informational, ClassificationToStatus
    <2>3. \A a \in App : row'[a].status \in {row[a].status, mail[m].status}
        BY <1>1, <1>4 DEF EmailCommit, RecordEmailUpdate, Row
    <2> QED  BY <2>1, <2>2, <2>3 DEF HasTile
<1>5. ASSUME NEW i \in Instance, NEW usable \in BOOLEAN, ClaimCommit(i, usable)
      PROVE  HasTile'
    BY <1>1, <1>5 DEF ClaimCommit, SetStatus, Row, HasTile
<1>6. ASSUME NEW i \in Instance, RecordCommit(i) PROVE HasTile'
    <2>1. worker[i].app \in App /\ worker[i].outcome \in Outcome
        BY <1>6 DEF TypeOK, SubmissionOK, WorkerState, RecordCommit
    <2>2. \A a \in App : row'[a].status \in {row[a].status, worker[i].outcome}
        BY <1>1, <1>6, <2>1 DEF RecordCommit, RecordSubmission, OutcomeToStatus
    <2> QED  BY <2>1, <2>2 DEF Outcome, HasTile
<1>7. ASSUME NEW i \in Instance, SweepCommit(i) PROVE HasTile'
    BY <1>1, <1>7 DEF SweepCommit, Row, HasTile
<1>8. CASE WorkflowStep
    BY <1>2, <1>3, <1>8 DEF WorkflowStep, Handle, Press, DecideRefused, DecideChecked,
        DecideLoad, AcceptRefused, AcceptLoad, Answered, TapFails, AcceptCommand, rowVars
<1>9. CASE SubmissionStep
    BY <1>2, <1>5, <1>6, <1>9 DEF SubmissionStep, WorkerProgress, CycleStart, CycleEnd,
        ClaimSkipped, ClaimRead, Click, SubmitReturns, RecordLoad, ClaimFails,
        SubmitRaises, RecordFails, rowVars
<1>10. CASE EmailStep
    BY <1>2, <1>4, <1>10 DEF EmailStep, EmailProgress, EmailRefused, ReceiveEmail, ClassifyNoAction,
        ClassifyMatched, EmailLoad, Respond, EmailFails, rowVars
<1>11. CASE SweepStep
    BY <1>2, <1>7, <1>11 DEF SweepStep, SweepProgress, SweepStart, GhostSkipped,
        GhostRead, GhostMark, SweepFails, SweepLost, GrowQuiet, rowVars
<1>12. CASE (\E i \in Instance : Crash(i)) \/ UNCHANGED vars
    BY <1>2, <1>12 DEF Crash, SweepLost, vars, rowVars
<1> QED  BY <1>8, <1>9, <1>10, <1>11, <1>12 DEF Next

(* The rows of S that the first n tiles count.                             *)
Shown(S, n) == {a \in S : \E k \in 1..n : row[a].status = StatusOrder[k]}

(* One more tile counts rows that no earlier one has.                      *)
LEMMA ShownGrows ==
    ASSUME NEW S, IsFiniteSet(S), S \subseteq App, NEW n \in 1..13
    PROVE  /\ Cardinality(Shown(S, n)) \in Nat
           /\ Cardinality(Shown(S, n))
                 = Cardinality(Shown(S, n - 1))
                      + Cardinality(S \cap WithStatus(StatusOrder[n]))
<1> DEFINE old == Shown(S, n - 1)
           new == S \cap WithStatus(StatusOrder[n])
<1>1. IsFiniteSet(old) /\ IsFiniteSet(new)
    BY FS_Subset DEF Shown
<1>2. Shown(S, n) = old \cup new
    BY DEF Shown, WithStatus
<1>3. old \cap new = {}
    BY DEF Shown, WithStatus, StatusOrder
<1> HIDE DEF old, new
<1>4. Cardinality(old \cup new) = Cardinality(old) + Cardinality(new) - Cardinality(old \cap new)
    BY <1>1, FS_Union
<1>5. Cardinality({}) = 0
    BY FS_EmptySet
<1>6. Cardinality(old) \in Nat /\ Cardinality(new) \in Nat
    BY <1>1, FS_CardinalityType
<1>7. /\ Cardinality(old \cup new) = Cardinality(old) + Cardinality(new)
      /\ Cardinality(old \cup new) \in Nat
  <2>1. Cardinality(old \cap new) = 0
      BY <1>3, <1>5
  <2> QED  BY <2>1, <1>4, <1>6
<1> QED  BY <1>2, <1>7 DEF old, new

SumTo(tiles, sum, n) == IF n = 0 THEN 0 ELSE sum[n - 1] + tiles[n]

Tiles(S, tiles) ==
    \A n \in 1..13 : tiles[n] = Cardinality(S \cap WithStatus(StatusOrder[n]))

(* So the number of rows shown is the sum of the tiles so far.             *)
LEMMA ShownIsSum ==
    ASSUME NEW S, S \subseteq App, IsFiniteSet(S),
           NEW tiles, Tiles(S, tiles),
           NEW count, \A n \in 0..13 : count[n] = Cardinality(Shown(S, n))
    PROVE  /\ count[0] = 0
           /\ \A n \in 1..13 : count[n] = count[n - 1] + tiles[n]
<1>1. Shown(S, 0) = {}
    BY DEF Shown
<1>2. count[0] = 0
  <2>1. count[0] = Cardinality(Shown(S, 0))
      OBVIOUS
  <2> QED  BY <2>1, <1>1, FS_EmptySet
<1>3. ASSUME NEW n \in 1..13 PROVE count[n] = count[n - 1] + tiles[n]
  <2>1. n \in 0..13 /\ n - 1 \in 0..13
      OBVIOUS
  <2>2. /\ count[n] = Cardinality(Shown(S, n))
        /\ count[n - 1] = Cardinality(Shown(S, n - 1))
      BY <2>1
  <2>3. tiles[n] = Cardinality(S \cap WithStatus(StatusOrder[n]))
      BY DEF Tiles
  <2> QED  BY ONLY <2>2, <2>3, n \in 1..13, S \subseteq App, IsFiniteSet(S), ShownGrows
<1> QED  BY <1>2, <1>3

(* With all the tiles, every row of S is shown.                            *)
LEMMA SumOfTiles ==
    ASSUME TypeOK, HasTile, NEW S, S \subseteq App, IsFiniteSet(S),
           NEW tiles, Tiles(S, tiles),
           NEW sum, \A n \in 0..13 : sum[n] = SumTo(tiles, sum, n)
    PROVE  sum[13] = Cardinality(S)
<1> DEFINE count == [n \in 0..13 |-> Cardinality(Shown(S, n))]
<1>1. \A n \in 0..13 : count[n] = Cardinality(Shown(S, n))
    OBVIOUS
<1> HIDE DEF count
<1>2. count[0] = 0 /\ \A n \in 1..13 : count[n] = count[n - 1] + tiles[n]
    BY <1>1, ShownIsSum
<1>3. sum[0] = 0 /\ \A n \in 1..13 : sum[n] = sum[n - 1] + tiles[n]
    BY DEF SumTo
<1>4. \A n \in 1..13 : sum[n - 1] = count[n - 1] => sum[n] = count[n]
    BY <1>2, <1>3
<1>5. sum[13] = count[13]
    BY <1>2, <1>3, <1>4
<1>6. Shown(S, 13) = S
  <2>1. ASSUME NEW a \in S PROVE \E k \in 1..13 : row[a].status = StatusOrder[k]
    <3>1. row[a].status \in ApplicationStatus \ {"tailored"}
        BY DEF TypeOK, RowsOK, Row, HasTile
    <3> QED  BY <3>1 DEF ApplicationStatus, StatusOrder
  <2> QED  BY <2>1 DEF Shown
<1> QED  BY <1>1, <1>5, <1>6

(* The tiles add up to the total, for any number of applications           *)
(* (dashboard_stats.py:22-37).                                             *)
THEOREM TilesAlwaysAddUp == Spec => []TilesAddUp
<1>1. TypeOK /\ HasTile => TilesAddUp
  <2> SUFFICES ASSUME TypeOK, HasTile, NEW u \in User
               PROVE  LET stats == ComputeDashboardStats(u)
                          sum == CHOOSE sum :
                                   sum = [n \in 0..13 |-> SumTo(stats.byStatus, sum, n)]
                      IN sum[13] = stats.total
    <3>1. Len(StatusOrder) = 13
        BY DEF StatusOrder
    <3> QED  BY <3>1 DEF TilesAddUp, SumTo
  <2> DEFINE mine == {a \in App : OwnerOf[a] = u}
             tiles == ComputeDashboardStats(u).byStatus
             sum == CHOOSE sum : sum = [n \in 0..13 |-> SumTo(tiles, sum, n)]
             count == [n \in 0..13 |-> Cardinality(Shown(mine, n))]
  <2>1. mine \subseteq App /\ IsFiniteSet(mine)
      BY TableAssumption, FS_Subset
  <2>2. Tiles(mine, tiles) /\ ComputeDashboardStats(u).total = Cardinality(mine)
    <3>1. DOMAIN StatusOrder = 1..13
        BY DEF StatusOrder
    <3>2. ComputeDashboardStats(u)
             = [total |-> Cardinality(mine),
                byStatus |-> [n \in 1..13 |-> Cardinality(mine \cap WithStatus(StatusOrder[n]))]]
        BY <3>1 DEF ComputeDashboardStats
    <3>3. tiles = [n \in 1..13 |-> Cardinality(mine \cap WithStatus(StatusOrder[n]))]
        BY <3>2
    <3> QED  BY <3>2, <3>3 DEF Tiles
  <2> HIDE DEF mine, tiles
  <2>3. count = [n \in 0..13 |-> SumTo(tiles, count, n)]
    <3>1. /\ DOMAIN count = 0..13 /\ count = [n \in 0..13 |-> count[n]]
          /\ \A n \in 0..13 : count[n] = Cardinality(Shown(mine, n))
        OBVIOUS
    <3> HIDE DEF count
    <3>2. count[0] = 0 /\ \A n \in 1..13 : count[n] = count[n - 1] + tiles[n]
        BY <2>1, <2>2, <3>1, ShownIsSum
    <3>3. \A n \in 0..13 : count[n] = SumTo(tiles, count, n)
        BY <3>2 DEF SumTo
    <3> QED  BY <3>1, <3>3
  <2> HIDE DEF count
  <2>4. sum = [n \in 0..13 |-> SumTo(tiles, sum, n)]
      BY <2>3
  <2> HIDE DEF sum
  <2>5. sum[13] = Cardinality(mine)
      BY ONLY TypeOK, HasTile, <2>1, <2>2, <2>4, SumOfTiles
  <2> QED  BY <2>2, <2>5 DEF sum, tiles
<1>2. Init => HasTile
    BY DEF Init, RowsInit, DeliveredRow, HasTile
<1> QED  BY <1>1, <1>2, NextHasTile, TypeCorrect, PTL DEF Spec
=============================================================================
