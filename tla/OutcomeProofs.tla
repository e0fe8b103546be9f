---------------------------- MODULE OutcomeProofs ----------------------------
(***************************************************************************)
(* What a status says has happened: SUBMITTED and GHOSTED rows went out,   *)
(* ACCEPTED ones had an offer, what the user was told was decided was, and *)
(* with one process SUBMITTED rows carry a date.                           *)
(*                                                                         *)
(* None is inductive by itself.  A status is written several steps         *)
(* after what it says was found out, so the invariant also speaks of what  *)
(* cycles, sweeps and presses carry from the one step to the other.        *)
(***************************************************************************)
EXTENDS CinchProofs

WentOut == {"submitted", "ghosted"}

(* A cycle that has clicked, or is about to report SUBMITTED, did click    *)
(* for the application it is at; what a sweep has marked or is about to    *)
(* mark went out.                                                          *)
CycleClicked(i) ==
    /\ worker[i].clicked => /\ worker[i].pc = "submit"
                            /\ sent[i][worker[i].app] > 0
    /\ worker[i].pc \in {"record", "write"} /\ worker[i].outcome = "submitted"
          => sent[i][worker[i].app] > 0

SweepClicked(i) ==
    /\ sweep[i].pc = "mark" => Clicked(sweep[i].app)
    /\ \A a \in sweep[i].marked : Clicked(a)

OutcomeInv == /\ SubmittedWasClicked
              /\ \A i \in Instance : CycleClicked(i) /\ SweepClicked(i)

(* An OFFERED row had an offer, and so had the row of a press of Accept    *)
(* that has passed its check.                                              *)
AcceptPending(t) == tap[t].pc \in {"checked", "loaded"} /\ tap[t].button = "accept"

OfferInv == /\ \A a \in App : row[a].status \in {"offered", "accepted"} => a \in offers
            /\ \A t \in Tap : AcceptPending(t) => tap[t].app \in offers
-----------------------------------------------------------------------------
(* No row comes to say that it went out unless it did.                     *)
NoneInvented ==
    \A a \in App : row'[a].status \in WentOut => row[a].status \in WentOut \/ Clicked(a)

(* Statements that write a status of another kind invent nothing.          *)
LEMMA SetStatusInvents ==
    ASSUME RowsOK, NEW b \in App, NEW s, s \notin WentOut, SetStatus(b, s)
    PROVE  NoneInvented
BY DEF RowsOK, Row, SetStatus, NoneInvented

(* What was clicked stays so.                                              *)
LEMMA RowsStayTrue ==
    ASSUME OutcomeInv, NoneInvented, UNCHANGED sent
    PROVE  SubmittedWasClicked'
BY DEF OutcomeInv, NoneInvented, SubmittedWasClicked, WentOut, Clicked

(* Steps of one cycle.                                                     *)
LEMMA OutcomeByWorker ==
    ASSUME OutcomeInv, NEW i \in Instance, NoneInvented, UNCHANGED <<sent, sweep>>,
           \A j \in Instance \ {i} : worker'[j] = worker[j],
           CycleClicked(i)'
    PROVE  OutcomeInv'
<1>1. SubmittedWasClicked'
    BY RowsStayTrue
<1>2. ASSUME NEW j \in Instance PROVE CycleClicked(j)'
    BY DEF OutcomeInv, CycleClicked
<1>3. ASSUME NEW j \in Instance PROVE SweepClicked(j)'
    BY DEF OutcomeInv, SweepClicked, Clicked
<1> QED  BY <1>1, <1>2, <1>3 DEF OutcomeInv

(* Steps of one sweep.                                                     *)
LEMMA OutcomeBySweep ==
    ASSUME OutcomeInv, NEW i \in Instance, NoneInvented, UNCHANGED submissionVars,
           \A j \in Instance \ {i} : sweep'[j] = sweep[j],
           SweepClicked(i)'
    PROVE  OutcomeInv'
<1>1. SubmittedWasClicked'
    BY RowsStayTrue DEF submissionVars
<1>2. ASSUME NEW j \in Instance PROVE CycleClicked(j)'
    BY DEF OutcomeInv, CycleClicked, submissionVars
<1>3. ASSUME NEW j \in Instance PROVE SweepClicked(j)'
    BY DEF OutcomeInv, SweepClicked, Clicked, submissionVars
<1> QED  BY <1>1, <1>2, <1>3 DEF OutcomeInv

(* Steps of presses and emails.                                            *)
LEMMA OutcomeByOthers ==
    ASSUME OutcomeInv, NoneInvented, UNCHANGED submissionVars, UNCHANGED sweep
    PROVE  OutcomeInv'
<1>1. SubmittedWasClicked'
    BY RowsStayTrue DEF submissionVars
<1>2. ASSUME NEW j \in Instance PROVE CycleClicked(j)' /\ SweepClicked(j)'
    BY DEF OutcomeInv, CycleClicked, SweepClicked, Clicked, submissionVars
<1> QED  BY <1>1, <1>2 DEF OutcomeInv
-----------------------------------------------------------------------------
(* A press writes APPROVED, SKIPPED or ACCEPTED.                           *)
LEMMA WorkflowOutcome ==
    ASSUME TypeOK, OutcomeInv, WorkflowStep, UNCHANGED submissionVars, UNCHANGED sweep
    PROVE  OutcomeInv'
<1>1. CASE \E t \in Tap : DecideCommit(t) \/ AcceptCommit(t)
    <2>1. PICK t \in Tap : DecideCommit(t) \/ AcceptCommit(t)
        BY <1>1
    <2>2. tap[t].app \in App
        BY <2>1 DEF TypeOK, WorkflowOK, DecideCommit, AcceptCommit
    <2>3. PICK s \in {"approved", "skipped", "accepted"} :
             UNCHANGED row \/ SetStatus(tap[t].app, s)
        BY <2>1 DEF DecideCommit, AcceptCommit, FlushStatus, Target, rowVars
    <2>4. CASE UNCHANGED row
        BY <2>4, OutcomeByOthers DEF NoneInvented
    <2>5. CASE SetStatus(tap[t].app, s)
        <3>1. s \notin WentOut
            BY DEF WentOut
        <3> QED  BY <2>2, <2>5, <3>1, SetStatusInvents, OutcomeByOthers DEF TypeOK
    <2> QED  BY <2>3, <2>4, <2>5
<1>2. CASE UNCHANGED row
    BY <1>2, OutcomeByOthers DEF NoneInvented
<1> QED
    BY <1>1, <1>2 DEF WorkflowStep, Handle, Press, DecideRefused, DecideChecked,
        AcceptRefused, AcceptLoad, DecideLoad, Answered, TapFails, AcceptCommand, rowVars

(* An email writes what its classification says, which is no submission.   *)
LEMMA EmailOutcome ==
    ASSUME TypeOK, OutcomeInv, EmailStep, UNCHANGED submissionVars, UNCHANGED sweep
    PROVE  OutcomeInv'
<1>1. CASE \E m \in Mail : EmailCommit(m)
    <2>1. PICK m \in Mail : EmailCommit(m)
        BY <1>1
    <2>2. mail[m].status \notin WentOut
        BY <2>1 DEF TypeOK, EmailOK, MailState, EmailStatus, EmailClassification,
            Informational, ClassificationToStatus, WentOut
    <2>3. mail[m].app \in App /\ row \in [App -> Row]
        BY <2>1 DEF TypeOK, EmailOK, RowsOK, EmailCommit
    <2>4. NoneInvented
        BY <2>1, <2>2, <2>3 DEF EmailCommit, RecordEmailUpdate, NoneInvented, Row
    <2> QED  BY <2>4, OutcomeByOthers
<1>2. CASE UNCHANGED row
    BY <1>2, OutcomeByOthers DEF NoneInvented
<1> QED
    BY <1>1, <1>2 DEF EmailStep, EmailProgress, EmailRefused, ReceiveEmail, ClassifyNoAction,
        ClassifyMatched, EmailLoad, Respond, EmailFails, rowVars
-----------------------------------------------------------------------------
(* A cycle between two applications reports nothing.                       *)
LEMMA BetweenOutcome ==
    ASSUME TypeOK, OutcomeInv, NEW i \in Instance, NEW pc \in {"idle", "next"}, NEW todo,
           worker' = [worker EXCEPT ![i] = Between(pc, todo)],
           NoneInvented, UNCHANGED <<sent, sweep>>
    PROVE  OutcomeInv'
<1>1. worker \in [Instance -> WorkerState]
    BY DEF TypeOK, SubmissionOK
<1>2. /\ ~ worker'[i].clicked /\ worker'[i].pc = pc
      /\ \A j \in Instance \ {i} : worker'[j] = worker[j]
    BY <1>1 DEF Between
<1>3. CycleClicked(i)'
    BY <1>2 DEF CycleClicked
<1> QED  BY <1>2, <1>3, OutcomeByWorker

(* A claim reports FAILED, and later at most NEEDS_HUMAN.                  *)
LEMMA ClaimOutcome ==
    ASSUME TypeOK, OutcomeInv, NEW i \in Instance, UNCHANGED sweep,
           \/ \E a \in App : ClaimSkipped(i, a) \/ ClaimRead(i, a)
           \/ \E usable \in BOOLEAN : ClaimCommit(i, usable)
    PROVE  OutcomeInv'
<1>1. worker[i] \in WorkerState /\ worker \in [Instance -> WorkerState]
    BY DEF TypeOK, SubmissionOK
<1>2. \A j \in Instance \ {i} : worker'[j] = worker[j]
    BY <1>1 DEF ClaimSkipped, ClaimRead, ClaimCommit
<1>3. UNCHANGED sent
    BY DEF ClaimSkipped, ClaimRead, ClaimCommit
<1>4. NoneInvented
    <2>1. CASE UNCHANGED row
        BY <2>1 DEF NoneInvented
    <2>2. CASE \E usable \in BOOLEAN : ClaimCommit(i, usable)
        <3>1. worker[i].app \in App /\ SetStatus(worker[i].app, "failed")
            BY <2>2 DEF TypeOK, SubmissionOK, ClaimCommit
        <3>2. "failed" \notin WentOut
            BY DEF WentOut
        <3> QED  BY <3>1, <3>2, SetStatusInvents DEF TypeOK
    <2> QED  BY <2>1, <2>2 DEF ClaimSkipped, ClaimRead, rowVars
<1>5. ~ worker[i].clicked
    BY DEF OutcomeInv, CycleClicked, ClaimSkipped, ClaimRead, ClaimCommit
<1>6. /\ ~ worker'[i].clicked
      /\ worker'[i].pc \in {"record", "write"} => worker'[i].outcome # "submitted"
    <2>1. CASE \E a \in App : ClaimSkipped(i, a)
        BY <1>1, <1>5, <2>1 DEF ClaimSkipped, WorkerState
    <2>2. CASE \E a \in App : ClaimRead(i, a)
        <3>1. PICK a \in App : ClaimRead(i, a)
            BY <2>2
        <3> DEFINE next == [worker[i] EXCEPT !.pc = "claim", !.app = a,
                                             !.todo = @ \ {a}]
        <3>2. next.pc = "claim" /\ next.clicked = worker[i].clicked
            BY <1>1 DEF WorkerState
        <3>3. worker' = [worker EXCEPT ![i] = next]
            BY <3>1 DEF ClaimRead
        <3> HIDE DEF next
        <3> QED  BY <1>1, <1>5, <3>2, <3>3
    <2>3. CASE \E usable \in BOOLEAN : ClaimCommit(i, usable)
        <3>1. PICK usable \in BOOLEAN : ClaimCommit(i, usable)
            BY <2>3
        <3> DEFINE next == [worker[i] EXCEPT
                               !.pc = IF usable THEN "submit" ELSE "record",
                               !.outcome = IF usable THEN @ ELSE "needs_human"]
        <3>2. /\ next.pc = IF usable THEN "submit" ELSE "record"
              /\ next.outcome = IF usable THEN worker[i].outcome ELSE "needs_human"
              /\ next.clicked = worker[i].clicked
            BY <1>1 DEF WorkerState
        <3>3. worker' = [worker EXCEPT ![i] = next]
            BY <3>1 DEF ClaimCommit
        <3> HIDE DEF next
        <3> QED  BY <1>1, <1>5, <3>2, <3>3
    <2> QED  BY <2>1, <2>2, <2>3
<1>7. CycleClicked(i)'
    BY <1>6 DEF CycleClicked
<1> QED  BY <1>2, <1>3, <1>4, <1>7, OutcomeByWorker

(* A click is counted for the application the cycle is at.                 *)
LEMMA ClickOutcome ==
    ASSUME TypeOK, OutcomeInv, NEW i \in Instance, Click(i), UNCHANGED sweep
    PROVE  OutcomeInv'
<1> DEFINE b == worker[i].app
<1>1. b \in App /\ worker[i] \in WorkerState /\ worker \in [Instance -> WorkerState]
    BY DEF TypeOK, SubmissionOK, Click
<1>2. sent \in [Instance -> [App -> Nat]]
    BY DEF TypeOK, SubmissionOK
<1>3. /\ sent'[i][b] = sent[i][b] + 1
      /\ \A a \in App \ {b} : sent'[i][a] = sent[i][a]
      /\ \A j \in Instance \ {i} : sent'[j] = sent[j] /\ worker'[j] = worker[j]
    BY <1>1, <1>2 DEF Click
<1>4. worker'[i].pc = "submit" /\ worker'[i].app = b
    BY <1>1 DEF Click, WorkerState
<1>5. \A a \in App : Clicked(a) => Clicked(a)'
    <2> SUFFICES ASSUME NEW a \in App, NEW j \in Instance, sent[j][a] > 0
                 PROVE  sent'[j][a] > 0
        BY DEF Clicked
    <2> QED  BY <1>1, <1>2, <1>3
<1>6. SubmittedWasClicked'
    BY <1>5 DEF OutcomeInv, SubmittedWasClicked, Click, rowVars
<1>7. ASSUME NEW j \in Instance PROVE SweepClicked(j)'
    <2>1. sweep[j] \in SweepState /\ (sweep[j].pc = "mark" => sweep[j].app \in App)
        BY DEF TypeOK, SweepOK
    <2>2. sweep[j].marked \subseteq App
        BY <2>1 DEF SweepState
    <2> QED  BY <1>5, <2>1, <2>2 DEF OutcomeInv, SweepClicked
<1>8. ASSUME NEW j \in Instance PROVE CycleClicked(j)'
    <2>1. CASE j = i
        BY <1>1, <1>2, <1>3, <1>4, <2>1 DEF CycleClicked
    <2>2. CASE j # i
        BY <1>3, <2>2 DEF OutcomeInv, CycleClicked
    <2> QED  BY <2>1, <2>2
<1> QED  BY <1>6, <1>7, <1>8 DEF OutcomeInv

(* SUBMITTED is reported of a form whose submit control was clicked.       *)
LEMMA ReportOutcome ==
    ASSUME TypeOK, OutcomeInv, NEW i \in Instance, UNCHANGED sweep,
           (\E o \in Outcome : SubmitReturns(i, o)) \/ RecordLoad(i)
    PROVE  OutcomeInv'
<1>1. worker[i] \in WorkerState /\ worker \in [Instance -> WorkerState]
    BY DEF TypeOK, SubmissionOK
<1>2. /\ UNCHANGED <<sent, row>>
      /\ \A j \in Instance \ {i} : worker'[j] = worker[j]
    BY <1>1 DEF SubmitReturns, RecordLoad, rowVars
<1>3. CycleClicked(i)
    BY DEF OutcomeInv
<1>4. CycleClicked(i)'
    <2>1. CASE \E o \in Outcome : SubmitReturns(i, o)
        <3>1. PICK o \in Outcome : SubmitReturns(i, o)
            BY <2>1
        <3> DEFINE next == [worker[i] EXCEPT !.pc = "record", !.outcome = o,
                                             !.clicked = FALSE]
        <3>2. /\ next.pc = "record" /\ next.outcome = o /\ ~ next.clicked
              /\ next.app = worker[i].app
            BY <1>1 DEF WorkerState
        <3>3. worker' = [worker EXCEPT ![i] = next]
            BY <3>1 DEF SubmitReturns
        <3>4. o = "submitted" => worker[i].clicked
            BY <3>1 DEF SubmitReturns, Reportable
        <3> HIDE DEF next
        <3>5. worker'[i] = next
            BY <1>1, <3>3
        <3> QED  BY <1>2, <1>3, <3>2, <3>4, <3>5 DEF CycleClicked
    <2>2. CASE RecordLoad(i)
        <3> DEFINE next == [worker[i] EXCEPT !.pc = "write",
                                             !.loaded = row[worker[i].app]]
        <3>1. /\ next.pc = "write" /\ next.outcome = worker[i].outcome
              /\ next.app = worker[i].app /\ next.clicked = worker[i].clicked
            BY <1>1 DEF WorkerState
        <3>2. worker' = [worker EXCEPT ![i] = next] /\ worker[i].pc = "record"
            BY <2>2 DEF RecordLoad
        <3> HIDE DEF next
        <3>3. worker'[i] = next
            BY <1>1, <3>2
        <3> QED  BY <1>2, <1>3, <3>1, <3>2, <3>3 DEF CycleClicked
    <2> QED  BY <2>1, <2>2
<1>5. NoneInvented
    BY <1>2 DEF NoneInvented
<1> QED  BY <1>2, <1>4, <1>5, OutcomeByWorker

(* What is recorded as SUBMITTED was reported so.                          *)
LEMMA RecordOutcome ==
    ASSUME TypeOK, OutcomeInv, NEW i \in Instance, RecordCommit(i), UNCHANGED sweep
    PROVE  OutcomeInv'
<1> DEFINE b == worker[i].app
<1>1. b \in App /\ worker[i].outcome \in Outcome /\ row \in [App -> Row]
    BY DEF TypeOK, SubmissionOK, RowsOK, RecordCommit, WorkerState
<1>2. worker[i].outcome = "submitted" => Clicked(b)
    BY DEF OutcomeInv, CycleClicked, Clicked, RecordCommit
<1>3. /\ row'[b].status \in {row[b].status, worker[i].outcome}
      /\ \A a \in App \ {b} : row'[a] = row[a]
    BY <1>1 DEF RecordCommit, RecordSubmission, OutcomeToStatus
<1>4. NoneInvented
    BY <1>1, <1>2, <1>3 DEF NoneInvented, WentOut, Outcome
<1>5. /\ worker' = [worker EXCEPT ![i] = Between("next", worker[i].todo)]
      /\ UNCHANGED sent
    BY DEF RecordCommit, NextApplication
<1> QED  BY <1>4, <1>5, BetweenOutcome

(* Every step of a submission cycle.                                       *)
LEMMA SubmissionOutcome ==
    ASSUME TypeOK, OutcomeInv, SubmissionStep, UNCHANGED sweep
    PROVE  OutcomeInv'
<1>1. PICK i \in Instance : \/ WorkerProgress(i)
                            \/ ClaimFails(i) \/ SubmitRaises(i) \/ RecordFails(i)
    BY DEF SubmissionStep
<1>2. CASE CycleStart(i) \/ CycleEnd(i)
    BY <1>2, BetweenOutcome DEF CycleStart, CycleEnd, IdleWorker, rowVars, NoneInvented
<1>3. CASE ClaimFails(i) \/ SubmitRaises(i) \/ RecordFails(i)
    BY <1>3, BetweenOutcome
    DEF ClaimFails, SubmitRaises, RecordFails, NextApplication, rowVars, NoneInvented
<1> QED
    BY <1>1, <1>2, <1>3, ClaimOutcome, ClickOutcome, ReportOutcome, RecordOutcome
    DEF WorkerProgress
-----------------------------------------------------------------------------
(* A sweep ghosts rows it has read SUBMITTED: they went out.               *)
LEMMA SweepOutcome ==
    ASSUME TypeOK, OutcomeInv, SweepStep, UNCHANGED submissionVars
    PROVE  OutcomeInv'
<1>1. sweep \in [Instance -> SweepState]
    BY DEF TypeOK, SweepOK
<1>2. ASSUME NEW i \in Instance, sweep' = [sweep EXCEPT ![i] = IdleSweep], NoneInvented
      PROVE  OutcomeInv'
    <2>1. sweep'[i] = IdleSweep /\ \A j \in Instance \ {i} : sweep'[j] = sweep[j]
        BY <1>1, <1>2
    <2>2. SweepClicked(i)'
        BY <2>1 DEF SweepClicked, IdleSweep
    <2> QED  BY <1>2, <2>1, <2>2, OutcomeBySweep
<1>3. CASE \E i \in Instance : SweepCommit(i)
    <2>1. PICK i \in Instance : SweepCommit(i)
        BY <1>3
    <2>2. \A a \in sweep[i].marked : Clicked(a)
        BY DEF OutcomeInv, SweepClicked
    <2>3. NoneInvented
        BY <2>1, <2>2 DEF SweepCommit, NoneInvented, WentOut
    <2> QED  BY <1>2, <2>1, <2>3 DEF SweepCommit
<1>4. CASE \E i \in Instance : SweepFails(i)
    BY <1>2, <1>4 DEF SweepFails, SweepLost, NoneInvented
<1>5. CASE \E i \in Instance : \/ SweepStart(i) \/ GhostMark(i)
                               \/ \E a \in App : GhostSkipped(i, a) \/ GhostRead(i, a)
    <2>1. PICK i \in Instance : \/ SweepStart(i) \/ GhostMark(i)
                                \/ \E a \in App : GhostSkipped(i, a) \/ GhostRead(i, a)
        BY <1>5
    <2>2. /\ NoneInvented
          /\ \A j \in Instance \ {i} : sweep'[j] = sweep[j]
        BY <1>1, <2>1 DEF SweepStart, GhostMark, GhostSkipped, GhostRead, rowVars,
            NoneInvented
    <2>3. UNCHANGED sent /\ SweepClicked(i)
        BY DEF submissionVars, OutcomeInv
    <2>4. CASE SweepStart(i)
        <3>1. sweep'[i].pc = "next" /\ sweep'[i].marked = sweep[i].marked
            BY <1>1, <2>4 DEF SweepStart, SweepState
        <3> QED  BY <2>2, <2>3, <3>1, OutcomeBySweep DEF SweepClicked, Clicked
    <2>5. CASE GhostMark(i)
        <3>1. /\ sweep'[i].pc = "next"
              /\ sweep'[i].marked = sweep[i].marked \cup {sweep[i].app}
              /\ Clicked(sweep[i].app)
            BY <1>1, <2>3, <2>5 DEF GhostMark, SweepState, SweepClicked
        <3> QED  BY <2>2, <2>3, <3>1, OutcomeBySweep DEF SweepClicked, Clicked
    <2>6. CASE \E a \in App : GhostSkipped(i, a)
        <3>1. sweep'[i].pc = "next" /\ sweep'[i].marked = sweep[i].marked
            BY <1>1, <2>6 DEF GhostSkipped, SweepState
        <3> QED  BY <2>2, <2>3, <3>1, OutcomeBySweep DEF SweepClicked, Clicked
    <2>7. CASE \E a \in App : GhostRead(i, a)
        <3>1. PICK a \in App : GhostRead(i, a)
            BY <2>7
        <3>2. /\ sweep'[i].app = a /\ sweep'[i].marked = sweep[i].marked
              /\ Clicked(a)
            BY <1>1, <3>1 DEF GhostRead, SweepState, OutcomeInv, SubmittedWasClicked
        <3> QED  BY <2>2, <2>3, <3>2, OutcomeBySweep DEF SweepClicked, Clicked
    <2> QED  BY <2>1, <2>4, <2>5, <2>6, <2>7
<1>6. CASE \E a \in App : GrowQuiet(a) /\ UNCHANGED <<sweep, deployVars>>
    BY <1>6, OutcomeByOthers DEF GrowQuiet, NoneInvented
<1> QED  BY <1>3, <1>4, <1>5, <1>6 DEF SweepStep, SweepProgress

(* A crash forgets what was being reported and marked, and no click.       *)
LEMMA CrashOutcome ==
    ASSUME TypeOK, OutcomeInv, NEW i \in Instance, Crash(i)
    PROVE  OutcomeInv'
<1>1. worker \in [Instance -> WorkerState] /\ sweep \in [Instance -> SweepState]
    BY DEF TypeOK, SubmissionOK, SweepOK
<1>2. /\ worker'[i] = IdleWorker /\ sweep'[i] = IdleSweep
      /\ \A j \in Instance \ {i} : worker'[j] = worker[j] /\ sweep'[j] = sweep[j]
      /\ UNCHANGED <<row, sent>>
    BY <1>1 DEF Crash, CycleLost, SweepLost
<1>3. SubmittedWasClicked'
    BY <1>2, RowsStayTrue DEF NoneInvented
<1>4. CycleClicked(i)' /\ SweepClicked(i)'
    BY <1>2 DEF CycleClicked, SweepClicked, IdleWorker, Between, IdleSweep
<1>5. ASSUME NEW j \in Instance \ {i} PROVE CycleClicked(j)' /\ SweepClicked(j)'
    BY <1>2 DEF OutcomeInv, CycleClicked, SweepClicked, Clicked
<1> QED  BY <1>3, <1>4, <1>5 DEF OutcomeInv

(* Initially nothing says that it went out.                                *)
LEMMA InitOutcome == Init => OutcomeInv
<1> SUFFICES ASSUME Init PROVE OutcomeInv
    OBVIOUS
<1>1. SubmittedWasClicked
    BY DEF Init, RowsInit, DeliveredRow, SubmittedWasClicked
<1>2. ASSUME NEW i \in Instance PROVE CycleClicked(i) /\ SweepClicked(i)
    BY DEF Init, SubmissionInit, SweepInit, IdleWorker, Between, IdleSweep,
           CycleClicked, SweepClicked
<1> QED  BY <1>1, <1>2 DEF OutcomeInv

(* OutcomeInv is inductive, given the types.                               *)
LEMMA NextOutcome == TypeOK /\ OutcomeInv /\ [Next]_vars => OutcomeInv'
<1> SUFFICES ASSUME TypeOK, OutcomeInv, [Next]_vars PROVE OutcomeInv'
    OBVIOUS
<1>1. CASE WorkflowStep /\ UNCHANGED <<submissionVars, emailVars, sweep>>
    BY <1>1, WorkflowOutcome
<1>2. CASE SubmissionStep /\ UNCHANGED <<workflowVars, emailVars, sweep>>
    BY <1>2, SubmissionOutcome
<1>3. CASE EmailStep /\ UNCHANGED <<workflowVars, submissionVars, sweep>>
    BY <1>3, EmailOutcome
<1>4. CASE SweepStep /\ UNCHANGED <<workflowVars, submissionVars, emailVars>>
    BY <1>4, SweepOutcome
<1>5. CASE \E i \in Instance : Crash(i)
    BY <1>5, CrashOutcome
<1>6. CASE UNCHANGED vars
    BY <1>6, OutcomeByOthers DEF vars, rowVars, NoneInvented
<1> QED  BY <1>1, <1>2, <1>3, <1>4, <1>5, <1>6 DEF Next

(* No interleaving of cycles, sweeps, presses, emails and crashes, on any  *)
(* number of processes, reports or ghosts an application that was not      *)
(* submitted.                                                              *)
THEOREM SubmittedWentOut == Spec => []SubmittedWasClicked
<1>1. OutcomeInv => SubmittedWasClicked
    BY DEF OutcomeInv
<1> QED  BY <1>1, InitOutcome, NextOutcome, TypeCorrect, PTL DEF Spec
-----------------------------------------------------------------------------
(* Offers.  A row is OFFERED only by an email that says so, and stays on   *)
(* record; AcceptLoad reads it OFFERED; AcceptCommit writes several steps  *)
(* later, whatever the row is then.                                        *)

(* No row becomes OFFERED or ACCEPTED without an offer.                    *)
NoneAccepted ==
    \A a \in App : row'[a].status \in {"offered", "accepted"}
                      => row[a].status \in {"offered", "accepted"} \/ a \in offers'

(* Steps that do not touch the presses.                                    *)
LEMMA OfferByOthers ==
    ASSUME OfferInv, NoneAccepted, offers \subseteq offers', UNCHANGED tap
    PROVE  OfferInv'
BY DEF OfferInv, NoneAccepted, AcceptPending

(* Steps that take no press to the point of writing ACCEPTED.              *)
LEMMA OfferByPresses ==
    ASSUME OfferInv, NoneAccepted, UNCHANGED offers,
           \A t \in Tap : AcceptPending(t)' => /\ AcceptPending(t)
                                               /\ tap'[t].app = tap[t].app
    PROVE  OfferInv'
BY DEF OfferInv, NoneAccepted

(* A press accepts what it has found OFFERED.                              *)
LEMMA WorkflowOffer ==
    ASSUME TypeOK, OfferInv, WorkflowStep, UNCHANGED offers
    PROVE  OfferInv'
<1>1. /\ tap \in [Tap -> TapState] /\ row \in [App -> Row]
      /\ \A t \in Tap : tap[t].pc \notin {"unpressed", "done"} => tap[t].app \in App
    BY DEF TypeOK, WorkflowOK, RowsOK
<1>2. ASSUME NEW t \in Tap, NEW next, tap' = [tap EXCEPT ![t] = next],
             next.pc \notin {"checked", "loaded"} \/ next.button # "accept", NoneAccepted
      PROVE  OfferInv'
    <2>1. tap'[t] = next /\ \A r \in Tap \ {t} : tap'[r] = tap[r]
        BY <1>1, <1>2
    <2> QED  BY <1>2, <2>1, OfferByPresses DEF AcceptPending
<1>3. ASSUME NEW t \in Tap, NEW reply, Answering(t, reply), NoneAccepted
      PROVE  OfferInv'
    <2> DEFINE next == [tap[t] EXCEPT !.pc = "answer", !.reply = reply,
                                      !.loaded = "discovered"]
    <2>1. next.pc = "answer" /\ tap' = [tap EXCEPT ![t] = next]
        BY <1>1, <1>3 DEF Answering, TapState
    <2> HIDE DEF next
    <2> QED  BY <1>2, <1>3, <2>1
<1>4. CASE \E t \in Tap, a \in App, button \in Button, u \in User : Press(t, a, button, u)
    <2>1. PICK t \in Tap, a \in App, button \in Button, u \in User :
             Press(t, a, button, u)
        BY <1>4
    <2> DEFINE next == [BlankTap("queued") EXCEPT !.app = a, !.button = button, !.by = u]
    <2>2. next.pc = "queued"
        BY DEF BlankTap
    <2>3. tap' = [tap EXCEPT ![t] = next] /\ NoneAccepted
        BY <2>1 DEF Press, rowVars, NoneAccepted
    <2> HIDE DEF next
    <2> QED  BY <1>2, <2>2, <2>3
<1>5. CASE \E t \in Tap, i \in Instance : DecideRefused(t, i) \/ AcceptRefused(t, i)
    BY <1>3, <1>5 DEF DecideRefused, AcceptRefused, rowVars, NoneAccepted
<1>6. CASE \E t \in Tap, i \in Instance : DecideChecked(t, i)
    <2>1. PICK t \in Tap, i \in Instance : DecideChecked(t, i)
        BY <1>6
    <2>2. tap'[t].button # "accept" /\ \A r \in Tap \ {t} : tap'[r] = tap[r]
        BY <1>1, <2>1 DEF DecideChecked, Decides, Advance, TapState
    <2>3. NoneAccepted
        BY <2>1 DEF DecideChecked, rowVars, NoneAccepted
    <2> QED  BY <2>2, <2>3, OfferByPresses DEF AcceptPending
<1>7. CASE \E t \in Tap : DecideLoad(t)
    <2>1. PICK t \in Tap : DecideLoad(t)
        BY <1>7
    <2> DEFINE next == [tap[t] EXCEPT !.pc = "loaded",
                                      !.loaded = row[tap[t].app].status]
    <2>2. next.button = tap[t].button /\ next.app = tap[t].app
        BY <1>1 DEF TapState
    <2>3. tap' = [tap EXCEPT ![t] = next] /\ NoneAccepted /\ tap[t].pc = "checked"
        BY <2>1 DEF DecideLoad, rowVars, NoneAccepted
    <2> HIDE DEF next
    <2>4. tap'[t] = next /\ \A r \in Tap \ {t} : tap'[r] = tap[r]
        BY <1>1, <2>3
    <2> QED  BY <2>2, <2>3, <2>4, OfferByPresses DEF AcceptPending
<1>8. CASE \E t \in Tap : DecideCommit(t)
    <2>1. PICK t \in Tap : DecideCommit(t)
        BY <1>8
    <2>2. PICK s \in {"approved", "skipped"} : UNCHANGED row \/ SetStatus(tap[t].app, s)
        BY <2>1 DEF DecideCommit, FlushStatus, Target, rowVars
    <2>3. NoneAccepted
        BY <1>1, <2>2 DEF SetStatus, NoneAccepted, Row
    <2> QED  BY <1>3, <2>1, <2>3 DEF DecideCommit
<1>9. CASE \E t \in Tap, i \in Instance : AcceptLoad(t, i)
    <2>1. PICK t \in Tap, i \in Instance : AcceptLoad(t, i)
        BY <1>9
    <2>2. /\ tap[t].app \in App /\ tap'[t].app = tap[t].app
          /\ \A r \in Tap \ {t} : tap'[r] = tap[r]
        BY <1>1, <2>1 DEF AcceptLoad, Accepts, TapState
    <2>3. tap[t].app \in offers
        BY <2>1, <2>2 DEF AcceptLoad, OfferInv
    <2>4. UNCHANGED row
        BY <2>1 DEF AcceptLoad, rowVars
    <2> QED  BY <2>2, <2>3, <2>4 DEF OfferInv, AcceptPending
<1>10. CASE \E t \in Tap : AcceptCommit(t)
    <2>1. PICK t \in Tap : AcceptCommit(t)
        BY <1>10
    <2>2. tap[t].app \in offers
        BY <2>1 DEF AcceptCommit, OfferInv, AcceptPending
    <2>3. UNCHANGED row \/ SetStatus(tap[t].app, "accepted")
        BY <2>1 DEF AcceptCommit, FlushStatus, rowVars
    <2>4. NoneAccepted
        BY <1>1, <2>2, <2>3 DEF SetStatus, NoneAccepted
    <2> QED  BY <1>3, <2>1, <2>4 DEF AcceptCommit
<1>11. CASE \E t \in Tap : Answered(t) \/ TapFails(t)
    <2>1. PICK t \in Tap : Answered(t) \/ TapFails(t)
        BY <1>11
    <2>2. tap' = [tap EXCEPT ![t] = BlankTap("done")] /\ NoneAccepted
        BY <2>1 DEF Answered, TapFails, rowVars, NoneAccepted
    <2>3. BlankTap("done").pc = "done"
        BY DEF BlankTap
    <2> QED  BY <1>2, <2>2, <2>3
<1>12. CASE \E u \in User : AcceptCommand(u)
    BY <1>12, OfferByOthers DEF AcceptCommand, rowVars, NoneAccepted
<1> QED
    BY <1>4, <1>5, <1>6, <1>7, <1>8, <1>9, <1>10, <1>11, <1>12 DEF WorkflowStep, Handle

(* An email that makes a row OFFERED is an offer.                          *)
LEMMA EmailOffer ==
    ASSUME TypeOK, OfferInv, EmailStep, UNCHANGED tap
    PROVE  OfferInv'
<1>1. CASE \E m \in Mail : EmailCommit(m)
    <2>1. PICK m \in Mail : EmailCommit(m)
        BY <1>1
    <2>2. mail[m].status # "accepted" /\ mail[m].app \in App /\ row \in [App -> Row]
        BY <2>1 DEF TypeOK, RowsOK, EmailOK, MailState, EmailStatus,
            EmailClassification, Informational, ClassificationToStatus, EmailCommit
    <2>3. NoneAccepted /\ offers \subseteq offers'
        BY <2>1, <2>2 DEF EmailCommit, RecordEmailUpdate, NoneAccepted, Row
    <2> QED  BY <2>3, OfferByOthers
<1>2. CASE UNCHANGED <<row, offers>>
    BY <1>2, OfferByOthers DEF NoneAccepted
<1> QED
    BY <1>1, <1>2 DEF EmailStep, EmailProgress, EmailRefused, ReceiveEmail, ClassifyNoAction,
        ClassifyMatched, EmailLoad, Respond, EmailFails, rowVars

(* No outcome of a submission, and no sweep, is an offer.                  *)
LEMMA CycleOffer ==
    ASSUME TypeOK, OfferInv, SubmissionStep \/ SweepStep, UNCHANGED <<tap, offers>>
    PROVE  OfferInv'
<1>1. row \in [App -> Row]
    BY DEF TypeOK, RowsOK
<1>2. CASE \E i \in Instance, usable \in BOOLEAN : ClaimCommit(i, usable)
    BY <1>1, <1>2, OfferByOthers DEF ClaimCommit, SetStatus, NoneAccepted, Row
<1>3. CASE \E i \in Instance : RecordCommit(i)
    <2>1. PICK i \in Instance : RecordCommit(i)
        BY <1>3
    <2>2. worker[i].app \in App /\ worker[i].outcome \in Outcome
        BY <2>1 DEF TypeOK, SubmissionOK, WorkerState, RecordCommit
    <2>3. \A a \in App : row'[a].status \in {row[a].status, worker[i].outcome}
        BY <1>1, <2>1, <2>2 DEF RecordCommit, RecordSubmission, OutcomeToStatus
    <2>4. NoneAccepted
        BY <2>2, <2>3 DEF NoneAccepted, Outcome
    <2> QED  BY <2>4, OfferByOthers
<1>4. CASE \E i \in Instance : SweepCommit(i)
    BY <1>1, <1>4, OfferByOthers DEF SweepCommit, NoneAccepted, Row
<1>5. CASE UNCHANGED row
    BY <1>5, OfferByOthers DEF NoneAccepted
<1>6. CASE SubmissionStep
    BY <1>2, <1>3, <1>5, <1>6 DEF SubmissionStep, WorkerProgress, CycleStart, CycleEnd,
        ClaimSkipped, ClaimRead, Click, SubmitReturns, RecordLoad, ClaimFails,
        SubmitRaises, RecordFails, rowVars
<1>7. CASE SweepStep
    BY <1>4, <1>5, <1>7 DEF SweepStep, SweepProgress, SweepStart, GhostSkipped,
        GhostRead, GhostMark, SweepFails, SweepLost, GrowQuiet, rowVars
<1> QED  BY <1>6, <1>7

(* A crash takes a press back to where it has to look at the row again.    *)
LEMMA CrashOffer ==
    ASSUME TypeOK, OfferInv, NEW i \in Instance, Crash(i)
    PROVE  OfferInv'
<1>1. \A t \in Tap : tap'[t] = tap[t] \/ tap'[t].pc = "queued"
    BY DEF TypeOK, WorkflowOK, TapState, Crash, TapsLost
<1>2. UNCHANGED <<row, offers>>
    BY DEF Crash, SweepLost
<1> QED  BY <1>1, <1>2, OfferByPresses DEF AcceptPending, NoneAccepted

(* OfferInv is inductive, given the types.                                 *)
LEMMA NextOffer == TypeOK /\ OfferInv /\ [Next]_vars => OfferInv'
<1> SUFFICES ASSUME TypeOK, OfferInv, [Next]_vars PROVE OfferInv'
    OBVIOUS
<1>1. CASE WorkflowStep /\ UNCHANGED <<submissionVars, emailVars, sweep>>
    BY <1>1, WorkflowOffer DEF emailVars
<1>2. CASE EmailStep /\ UNCHANGED <<workflowVars, submissionVars, sweep>>
    BY <1>2, EmailOffer DEF workflowVars
<1>3. CASE (SubmissionStep \/ SweepStep) /\ UNCHANGED <<workflowVars, emailVars>>
    BY <1>3, CycleOffer DEF workflowVars, emailVars
<1>4. CASE \E i \in Instance : Crash(i)
    BY <1>4, CrashOffer
<1>5. CASE UNCHANGED vars
    BY <1>5, OfferByOthers DEF vars, rowVars, workflowVars, emailVars, NoneAccepted
<1> QED  BY <1>1, <1>2, <1>3, <1>4, <1>5 DEF Next

(* An application is ACCEPTED only if an offer was recorded for it, even   *)
(* where the row is overwritten between the press's look at it and its     *)
(* UPDATE.                                                                 *)
THEOREM AcceptedHadOffer == Spec => []AcceptedWasOffered
<1>1. Init => OfferInv
    BY DEF Init, RowsInit, DeliveredRow, WorkflowInit, BlankTap, OfferInv, AcceptPending
<1>2. OfferInv => AcceptedWasOffered
    BY DEF OfferInv, AcceptedWasOffered
<1> QED  BY <1>1, <1>2, NextOffer, TypeCorrect, PTL DEF Spec
-----------------------------------------------------------------------------
(* Replies.  A press answers for the row it read; a cycle works on what was *)
(* approved, so SUBMITTED is backed by the approval that put it there.     *)

(* A status that only a decision leads to, and the decision behind it.     *)
Decision == {"approved", "skipped", "submitted"}

Backed(status, a) ==
    /\ status \in {"approved", "submitted"} => approvals[a] > 0
    /\ status = "skipped" => skips[a] > 0

(* What cycles are at was approved, and what presses have read was decided.*)
AtWork(i) == worker[i].pc \in {"claim", "submit", "record", "write"}

RowsBacked == \A a \in App : Backed(row[a].status, a)

CyclesBacked == \A i \in Instance : AtWork(i) => approvals[worker[i].app] > 0

TapsBacked ==
    \A t \in Tap : /\ tap[t].pc = "loaded" => Backed(tap[t].loaded, tap[t].app)
                   /\ tap[t].reply # "none" => tap[t].app \in App

DecisionInv == RowsBacked /\ CyclesBacked /\ TapsBacked /\ RepliesAreTrue

(* No row comes to say that it was decided on.                             *)
NoneDecided ==
    \A a \in App : row'[a].status \in Decision => row'[a].status = row[a].status

(* Initially nothing was decided, and nobody says so.                      *)
LEMMA InitDecision == Init => DecisionInv
<1> SUFFICES ASSUME Init PROVE DecisionInv
    OBVIOUS
<1>1. RowsBacked
    BY DEF Init, RowsInit, DeliveredRow, RowsBacked, Backed
<1>2. CyclesBacked
    BY DEF Init, SubmissionInit, IdleWorker, Between, CyclesBacked, AtWork
<1>3. TapsBacked /\ RepliesAreTrue
    BY DEF Init, WorkflowInit, BlankTap, TapsBacked, RepliesAreTrue
<1> QED  BY <1>1, <1>2, <1>3 DEF DecisionInv

(* Steps of one press that count no decision.                              *)
LEMMA QuietDecision ==
    ASSUME TypeOK, DecisionInv, NEW t \in Tap, NEW new, tap' = [tap EXCEPT ![t] = new],
           UNCHANGED <<approvals, skips, worker>>, NoneDecided,
           new.pc = "loaded" => Backed(new.loaded, new.app),
           new.reply # "none" => new.app \in App,
           new.reply = "approved" => approvals[new.app] > 0,
           new.reply = "skipped" => skips[new.app] > 0,
           new.reply = "already_handled" => approvals[new.app] + skips[new.app] > 0
    PROVE  DecisionInv'
<1>1. /\ tap'[t] = new
      /\ \A u \in Tap \ {t} : tap'[u] = tap[u]
    BY DEF TypeOK, WorkflowOK
<1>2. RowsBacked'
    BY DEF DecisionInv, RowsBacked, Backed, NoneDecided, Decision
<1>3. CyclesBacked'
    BY DEF DecisionInv, CyclesBacked, AtWork
<1>4. TapsBacked'
    BY <1>1 DEF DecisionInv, TapsBacked, Backed
<1>5. RepliesAreTrue'
    BY <1>1 DEF DecisionInv, RepliesAreTrue
<1> QED  BY <1>2, <1>3, <1>4, <1>5 DEF DecisionInv

(* A decision is counted for the row and the reply; counts only grow.      *)
LEMMA CommitDecision ==
    ASSUME TypeOK, DecisionInv, NEW t \in Tap, DecideCommit(t), UNCHANGED worker
    PROVE  DecisionInv'
<1>1. PICK b \in App : b = tap[t].app
    BY DEF TypeOK, WorkflowOK, DecideCommit
<1>2. PICK target \in {"approved", "skipped"} : target = Target(tap[t].button)
    BY DEF Target
<1>3. /\ tap \in [Tap -> TapState] /\ row \in [App -> Row]
      /\ approvals \in [App -> Nat] /\ skips \in [App -> Nat]
    BY DEF TypeOK, WorkflowOK, RowsOK
<1>4. \A a \in App : /\ approvals[a] \in Nat /\ approvals'[a] \in Nat
                     /\ approvals'[a] >= approvals[a]
                     /\ skips[a] \in Nat /\ skips'[a] \in Nat
                     /\ skips'[a] >= skips[a]
    BY <1>3 DEF DecideCommit
<1>5. Backed(target, b)'
    <2>1. Backed(tap[t].loaded, b)
        BY <1>1 DEF DecisionInv, TapsBacked, DecideCommit
    <2>2. target = "approved" =>
             approvals'[b] = approvals[b] + (IF tap[t].loaded = target THEN 0 ELSE 1)
        BY <1>1, <1>2, <1>3 DEF DecideCommit
    <2>3. target # "approved" =>
             skips'[b] = skips[b] + (IF tap[t].loaded = target THEN 0 ELSE 1)
        BY <1>1, <1>2, <1>3 DEF DecideCommit
    <2> QED  BY <1>2, <1>4, <2>1, <2>2, <2>3 DEF Backed
<1>6. \A a \in App : \/ row'[a].status = row[a].status
                     \/ a = b /\ row'[a].status = target
    BY <1>1, <1>2, <1>3 DEF DecideCommit, FlushStatus, SetStatus, rowVars, Row
<1>7. RowsBacked'
    BY <1>4, <1>5, <1>6 DEF DecisionInv, RowsBacked, Backed
<1>8. CyclesBacked'
    <2>1. \A i \in Instance : AtWork(i) => worker[i].app \in App
        BY DEF TypeOK, SubmissionOK, AtWork
    <2> QED  BY <1>4, <2>1 DEF DecisionInv, CyclesBacked, AtWork
<1> DEFINE new == [tap[t] EXCEPT !.pc = "answer", !.reply = target, !.loaded = "discovered"]
<1>9. /\ tap'[t] = new
      /\ \A u \in Tap \ {t} : tap'[u] = tap[u]
    BY <1>2, <1>3 DEF DecideCommit, Answering
<1>10. new.pc = "answer" /\ new.reply = target /\ new.app = b
    BY <1>1, <1>3 DEF TapState
<1> HIDE DEF new
<1>11. \A u \in Tap : tap[u].pc = "loaded" => tap[u].app \in App
    BY DEF TypeOK, WorkflowOK
<1>12. TapsBacked'
    BY <1>4, <1>9, <1>10, <1>11 DEF DecisionInv, TapsBacked, Backed
<1>13. RepliesAreTrue'
    <2> SUFFICES ASSUME NEW u \in Tap
                 PROVE  /\ tap'[u].reply = "approved" => approvals'[tap'[u].app] > 0
                        /\ tap'[u].reply = "skipped" => skips'[tap'[u].app] > 0
                        /\ tap'[u].reply = "already_handled"
                              => approvals'[tap'[u].app] + skips'[tap'[u].app] > 0
        BY DEF RepliesAreTrue
    <2>1. CASE u = t
        BY <1>2, <1>5, <1>9, <1>10, <2>1 DEF Backed
    <2>2. CASE u # t
        <3>1. tap'[u] = tap[u] /\ (tap[u].reply # "none" => tap[u].app \in App)
            BY <1>9, <2>2 DEF DecisionInv, TapsBacked
        <3>2. /\ tap[u].reply = "approved" => approvals[tap[u].app] > 0
              /\ tap[u].reply = "skipped" => skips[tap[u].app] > 0
              /\ tap[u].reply = "already_handled"
                    => approvals[tap[u].app] + skips[tap[u].app] > 0
            BY DEF DecisionInv, RepliesAreTrue
        <3> QED  BY <1>4, <3>1, <3>2
    <2> QED  BY <2>1, <2>2
<1> QED  BY <1>7, <1>8, <1>12, <1>13 DEF DecisionInv

(* A press writes APPROVED or SKIPPED with the decision it counts.         *)
LEMMA WorkflowDecision ==
    ASSUME TypeOK, DecisionInv, WorkflowStep, UNCHANGED worker
    PROVE  DecisionInv'
<1>1. /\ tap \in [Tap -> TapState] /\ row \in [App -> Row]
      /\ approvals \in [App -> Nat] /\ skips \in [App -> Nat]
      /\ \A t \in Tap : tap[t].pc \notin {"unpressed", "done"} => tap[t].app \in App
    BY DEF TypeOK, WorkflowOK, RowsOK
<1>2. ASSUME NEW t \in Tap, NEW reply, Answering(t, reply),
             tap[t].app \in App, NoneDecided, UNCHANGED <<approvals, skips>>,
             reply = "already_handled" => row[tap[t].app].status \in Terminal,
             reply \notin {"approved", "skipped"}
      PROVE  DecisionInv'
    <2> DEFINE new == [tap[t] EXCEPT !.pc = "answer", !.reply = reply,
                                     !.loaded = "discovered"]
    <2>1. new.pc = "answer" /\ new.reply = reply /\ new.app = tap[t].app
        BY <1>1 DEF TapState
    <2>2. tap' = [tap EXCEPT ![t] = new]
        BY <1>2 DEF Answering
    <2>3. reply = "already_handled" => approvals[tap[t].app] + skips[tap[t].app] > 0
        BY <1>1, <1>2 DEF DecisionInv, RowsBacked, Backed, Terminal
    <2> HIDE DEF new
    <2> QED  BY <1>2, <2>1, <2>2, <2>3, QuietDecision
<1>3. ASSUME NEW t \in Tap, NEW new, tap' = [tap EXCEPT ![t] = new],
             new.pc # "loaded", new.reply = "none", UNCHANGED <<row, approvals, skips>>
      PROVE  DecisionInv'
    BY <1>3, QuietDecision DEF NoneDecided
<1>4. ASSUME NEW pc
      PROVE  BlankTap(pc).pc = pc /\ BlankTap(pc).reply = "none"
    BY DEF BlankTap
<1>5. ASSUME NEW t \in Tap, tap[t].pc \in {"queued", "checked"}
      PROVE  tap[t].app \in App
    BY <1>1, <1>5
<1>6. CASE \E t \in Tap, a \in App, button \in Button, u \in User : Press(t, a, button, u)
    <2>1. PICK t \in Tap, a \in App, button \in Button, u \in User :
             Press(t, a, button, u)
        BY <1>6
    <2> DEFINE new == [BlankTap("queued") EXCEPT !.app = a, !.button = button, !.by = u]
    <2>2. new.pc = "queued" /\ new.reply = "none"
        BY DEF BlankTap
    <2>3. tap' = [tap EXCEPT ![t] = new] /\ UNCHANGED <<row, approvals, skips>>
        BY <2>1 DEF Press, rowVars
    <2> HIDE DEF new
    <2> QED  BY <1>3, <2>2, <2>3
<1>7. CASE \E t \in Tap, i \in Instance : DecideRefused(t, i) \/ AcceptRefused(t, i)
    <2>1. PICK t \in Tap, i \in Instance : DecideRefused(t, i) \/ AcceptRefused(t, i)
        BY <1>7
    <2>2. tap[t].app \in App /\ NoneDecided /\ UNCHANGED <<approvals, skips>>
        BY <1>1, <2>1 DEF DecideRefused, AcceptRefused, Decides, Accepts, NoneDecided, rowVars
    <2> QED  BY <1>2, <2>1, <2>2 DEF DecideRefused, AcceptRefused
<1>8. CASE \E t \in Tap, i \in Instance : DecideChecked(t, i) \/ AcceptLoad(t, i)
    <2>1. PICK t \in Tap, i \in Instance : DecideChecked(t, i) \/ AcceptLoad(t, i)
        BY <1>8
    <2>2. tap[t].pc = "queued" /\ UNCHANGED <<row, approvals, skips>>
        BY <2>1 DEF DecideChecked, AcceptLoad, Decides, Accepts, rowVars
    <2> DEFINE checked == [tap[t] EXCEPT !.pc = "checked"]
               loaded == [tap[t] EXCEPT !.pc = "loaded", !.loaded = "offered"]
    <2>4. /\ checked.pc = "checked" /\ checked.reply = tap[t].reply /\ checked.app = tap[t].app
          /\ loaded.pc = "loaded" /\ loaded.reply = tap[t].reply /\ loaded.app = tap[t].app
          /\ loaded.loaded = "offered"
        BY <1>1 DEF TapState
    <2>5. tap' = [tap EXCEPT ![t] = checked] \/ tap' = [tap EXCEPT ![t] = loaded]
        BY <2>1 DEF DecideChecked, AcceptLoad, Advance
    <2>6. NoneDecided /\ Backed("offered", tap[t].app)
        BY <2>2 DEF NoneDecided, Backed
    <2>7. /\ tap[t].reply # "none" => tap[t].app \in App
          /\ tap[t].reply = "approved" => approvals[tap[t].app] > 0
          /\ tap[t].reply = "skipped" => skips[tap[t].app] > 0
          /\ tap[t].reply = "already_handled" => approvals[tap[t].app] + skips[tap[t].app] > 0
        BY DEF DecisionInv, TapsBacked, RepliesAreTrue
    <2> HIDE DEF checked, loaded
    <2> QED  BY <2>2, <2>4, <2>5, <2>6, <2>7, QuietDecision
<1>9. CASE \E t \in Tap : DecideLoad(t)
    <2>1. PICK t \in Tap : DecideLoad(t)
        BY <1>9
    <2> DEFINE new == [tap[t] EXCEPT !.pc = "loaded", !.loaded = row[tap[t].app].status]
    <2>2. /\ new.pc = "loaded" /\ new.reply = tap[t].reply /\ new.app = tap[t].app
          /\ new.loaded = row[tap[t].app].status
        BY <1>1 DEF TapState
    <2>3. /\ tap' = [tap EXCEPT ![t] = new] /\ tap[t].app \in App
          /\ UNCHANGED <<row, approvals, skips>>
        BY <1>1, <2>1 DEF DecideLoad, rowVars
    <2>4. NoneDecided /\ Backed(row[tap[t].app].status, tap[t].app)
        BY <2>3 DEF NoneDecided, DecisionInv, RowsBacked
    <2>5. /\ tap[t].reply = "approved" => approvals[tap[t].app] > 0
          /\ tap[t].reply = "skipped" => skips[tap[t].app] > 0
          /\ tap[t].reply = "already_handled" => approvals[tap[t].app] + skips[tap[t].app] > 0
        BY DEF DecisionInv, RepliesAreTrue
    <2> HIDE DEF new
    <2> QED  BY <2>2, <2>3, <2>4, <2>5, QuietDecision
<1>10. CASE \E t \in Tap : AcceptCommit(t)
    <2>1. PICK t \in Tap : AcceptCommit(t)
        BY <1>10
    <2>2. tap[t].app \in App
        BY <1>1, <2>1 DEF AcceptCommit
    <2>3. NoneDecided /\ UNCHANGED <<approvals, skips>>
        BY <1>1, <2>1, <2>2
        DEF AcceptCommit, FlushStatus, SetStatus, rowVars, NoneDecided, Decision, Row
    <2> QED  BY <1>2, <2>1, <2>2, <2>3 DEF AcceptCommit
<1>11. CASE \E t \in Tap : Answered(t) \/ TapFails(t)
    <2>1. PICK t \in Tap : tap' = [tap EXCEPT ![t] = BlankTap("done")]
                           /\ UNCHANGED <<row, approvals, skips>>
        BY <1>11 DEF Answered, TapFails, rowVars
    <2> QED  BY <1>3, <1>4, <2>1
<1>12. CASE \E u \in User : AcceptCommand(u)
    BY <1>12
    DEF AcceptCommand, rowVars, DecisionInv, RowsBacked, CyclesBacked, TapsBacked, AtWork,
        Backed, RepliesAreTrue
<1> QED
    BY <1>6, <1>7, <1>8, <1>9, <1>10, <1>11, <1>12, CommitDecision DEF WorkflowStep, Handle

(* Steps that leave presses and counts alone.                              *)
LEMMA DecisionByOthers ==
    ASSUME DecisionInv, RowsBacked', CyclesBacked', UNCHANGED <<tap, approvals, skips>>
    PROVE  DecisionInv'
BY DEF DecisionInv, TapsBacked, Backed, RepliesAreTrue

(* Rows stay backed while no row claims a decision of its own.             *)
LEMMA RowsStayBacked ==
    ASSUME DecisionInv, NoneDecided, UNCHANGED <<approvals, skips>>
    PROVE  RowsBacked'
BY DEF DecisionInv, NoneDecided, RowsBacked, Backed, Decision

(* A cycle goes to work on a row it has read APPROVED, and reports         *)
(* SUBMITTED of no other.                                                  *)
LEMMA SubmissionDecision ==
    ASSUME TypeOK, DecisionInv, SubmissionStep, UNCHANGED <<tap, approvals, skips>>
    PROVE  DecisionInv'
<1>1. PICK i \in Instance : \/ WorkerProgress(i)
                            \/ ClaimFails(i) \/ SubmitRaises(i) \/ RecordFails(i)
    BY DEF SubmissionStep
<1>2. /\ worker \in [Instance -> WorkerState] /\ row \in [App -> Row]
      /\ worker[i] \in WorkerState
      /\ AtWork(i) => worker[i].app \in App
    BY DEF TypeOK, SubmissionOK, RowsOK, AtWork
<1>3. ASSUME NEW new, worker' = [worker EXCEPT ![i] = new],
             new.pc \in {"claim", "submit", "record", "write"} => approvals[new.app] > 0,
             RowsBacked'
      PROVE  DecisionInv'
    <2>1. worker'[i] = new /\ \A j \in Instance \ {i} : worker'[j] = worker[j]
        BY <1>2, <1>3
    <2>2. CyclesBacked'
        BY <1>3, <2>1 DEF DecisionInv, CyclesBacked, AtWork
    <2> QED  BY <1>3, <2>2, DecisionByOthers
<1>4. UNCHANGED row => RowsBacked'
    BY DEF DecisionInv, RowsBacked, Backed
<1>5. AtWork(i) => approvals[worker[i].app] > 0
    BY DEF DecisionInv, CyclesBacked
<1>6. ASSUME NEW pc \in {"idle", "next"}, NEW todo,
             worker' = [worker EXCEPT ![i] = Between(pc, todo)], RowsBacked'
      PROVE  DecisionInv'
    BY <1>3, <1>6 DEF Between
<1>7. CASE CycleStart(i) \/ CycleEnd(i) \/ ClaimFails(i) \/ SubmitRaises(i) \/ RecordFails(i)
    BY <1>4, <1>6, <1>7
    DEF CycleStart, CycleEnd, IdleWorker, ClaimFails, SubmitRaises, RecordFails,
        NextApplication, rowVars
<1>8. CASE \E a \in App : ClaimSkipped(i, a)
    <2>1. PICK a \in App : ClaimSkipped(i, a)
        BY <1>8
    <2> DEFINE new == [worker[i] EXCEPT !.todo = @ \ {a}]
    <2>2. new.pc = "next"
        BY <1>2, <2>1 DEF WorkerState, ClaimSkipped
    <2>3. worker' = [worker EXCEPT ![i] = new]
        BY <2>1 DEF ClaimSkipped
    <2> HIDE DEF new
    <2> QED  BY <1>3, <1>4, <2>1, <2>2, <2>3 DEF ClaimSkipped, rowVars
<1>9. CASE \E a \in App : ClaimRead(i, a)
    <2>1. PICK a \in App : ClaimRead(i, a)
        BY <1>9
    <2> DEFINE new == [worker[i] EXCEPT !.pc = "claim", !.app = a, !.todo = @ \ {a}]
    <2>2. new.app = a
        BY <1>2 DEF WorkerState
    <2>3. worker' = [worker EXCEPT ![i] = new]
        BY <2>1 DEF ClaimRead
    <2>4. approvals[a] > 0
        BY <2>1 DEF ClaimRead, DecisionInv, RowsBacked, Backed
    <2> HIDE DEF new
    <2> QED  BY <1>3, <1>4, <2>1, <2>2, <2>3, <2>4 DEF ClaimRead, rowVars
<1>10. CASE \E usable \in BOOLEAN : ClaimCommit(i, usable)
    <2>1. PICK usable \in BOOLEAN : ClaimCommit(i, usable)
        BY <1>10
    <2> DEFINE new == [worker[i] EXCEPT !.pc = IF usable THEN "submit" ELSE "record",
                                        !.outcome = IF usable THEN @ ELSE "needs_human"]
    <2>2. new.app = worker[i].app
        BY <1>2 DEF WorkerState
    <2>3. worker' = [worker EXCEPT ![i] = new] /\ AtWork(i) /\ SetStatus(worker[i].app, "failed")
        BY <2>1 DEF ClaimCommit, AtWork
    <2>4. NoneDecided
        BY <1>2, <2>3 DEF SetStatus, NoneDecided, Decision, Row
    <2> HIDE DEF new
    <2> QED  BY <1>3, <1>5, <2>2, <2>3, <2>4, RowsStayBacked
<1>11. CASE Click(i) \/ (\E o \in Outcome : SubmitReturns(i, o)) \/ RecordLoad(i)
    <2>1. PICK new : /\ worker' = [worker EXCEPT ![i] = new]
                     /\ new.app = worker[i].app
        <3>1. CASE Click(i)
            <4> DEFINE new == [worker[i] EXCEPT !.clicked = TRUE]
            <4>1. new.app = worker[i].app /\ worker' = [worker EXCEPT ![i] = new]
                BY <1>2, <3>1 DEF Click, WorkerState
            <4> HIDE DEF new
            <4> QED  BY <4>1
        <3>2. ASSUME NEW o \in Outcome, SubmitReturns(i, o)
              PROVE  \E new : /\ worker' = [worker EXCEPT ![i] = new]
                              /\ new.app = worker[i].app
            <4> DEFINE new == [worker[i] EXCEPT !.pc = "record", !.outcome = o,
                                                !.clicked = FALSE]
            <4>1. new.app = worker[i].app /\ worker' = [worker EXCEPT ![i] = new]
                BY <1>2, <3>2 DEF SubmitReturns, WorkerState
            <4> HIDE DEF new
            <4> QED  BY <4>1
        <3>3. CASE RecordLoad(i)
            <4> DEFINE new == [worker[i] EXCEPT !.pc = "write",
                                                !.loaded = row[worker[i].app]]
            <4>1. new.app = worker[i].app /\ worker' = [worker EXCEPT ![i] = new]
                BY <1>2, <3>3 DEF RecordLoad, WorkerState
            <4> HIDE DEF new
            <4> QED  BY <4>1
        <3> QED  BY <1>11, <3>1, <3>2, <3>3
    <2>2. AtWork(i) /\ UNCHANGED row
        BY <1>11 DEF Click, SubmitReturns, RecordLoad, AtWork, rowVars
    <2> QED  BY <1>3, <1>4, <1>5, <2>1, <2>2
<1>12. CASE RecordCommit(i)
    <2>1. PICK b \in App : b = worker[i].app /\ approvals[b] > 0
        BY <1>2, <1>5, <1>12 DEF RecordCommit, AtWork
    <2>2. /\ row'[b].status \in {row[b].status, worker[i].outcome}
          /\ worker[i].outcome \in Outcome
          /\ \A a \in App \ {b} : row'[a] = row[a]
        BY <1>2, <1>12, <2>1 DEF RecordCommit, RecordSubmission, OutcomeToStatus, WorkerState
    <2>3. RowsBacked'
        BY <2>1, <2>2 DEF DecisionInv, RowsBacked, Backed, Outcome
    <2> QED  BY <1>6, <1>12, <2>3 DEF RecordCommit, NextApplication
<1> QED
    BY <1>1, <1>7, <1>8, <1>9, <1>10, <1>11, <1>12 DEF WorkerProgress

(* Emails decide nothing.                                                  *)
LEMMA EmailDecision ==
    ASSUME TypeOK, DecisionInv, EmailStep, UNCHANGED <<tap, approvals, skips, worker>>
    PROVE  DecisionInv'
<1>1. NoneDecided
    <2>1. CASE \E m \in Mail : EmailCommit(m)
        <3>1. PICK m \in Mail : EmailCommit(m)
            BY <2>1
        <3>2. mail[m].status \notin Decision
            BY <3>1 DEF TypeOK, EmailOK, MailState, EmailStatus, EmailClassification,
                Informational, ClassificationToStatus, Decision
        <3>3. mail[m].app \in App /\ row \in [App -> Row]
            BY <3>1 DEF TypeOK, EmailOK, RowsOK, EmailCommit
        <3> QED
            BY <3>1, <3>2, <3>3 DEF EmailCommit, RecordEmailUpdate, NoneDecided, Row
    <2>2. CASE UNCHANGED row
        BY <2>2 DEF NoneDecided
    <2> QED
        BY <2>1, <2>2 DEF EmailStep, EmailProgress, EmailRefused, ReceiveEmail, ClassifyNoAction,
            ClassifyMatched, EmailLoad, Respond, EmailFails, rowVars
<1>2. CyclesBacked'
    BY DEF DecisionInv, CyclesBacked, AtWork
<1> QED  BY <1>1, <1>2, RowsStayBacked, DecisionByOthers

(* A sweep writes GHOSTED, which is no decision.                           *)
LEMMA SweepDecision ==
    ASSUME TypeOK, DecisionInv, SweepStep, UNCHANGED <<tap, approvals, skips, worker>>
    PROVE  DecisionInv'
<1>1. NoneDecided
    <2>1. CASE \E i \in Instance : SweepCommit(i)
        <3>1. PICK i \in Instance : SweepCommit(i)
            BY <2>1
        <3>2. \A a \in App : row'[a].status \in {"ghosted", row[a].status}
            BY <3>1 DEF SweepCommit, TypeOK, RowsOK, Row
        <3> QED  BY <3>2 DEF NoneDecided, Decision
    <2>2. CASE UNCHANGED row
        BY <2>2 DEF NoneDecided
    <2> QED
        BY <2>1, <2>2 DEF SweepStep, SweepProgress, SweepStart, GhostSkipped, GhostRead,
            GhostMark, SweepFails, SweepLost, GrowQuiet, rowVars
<1>2. CyclesBacked'
    BY DEF DecisionInv, CyclesBacked, AtWork
<1> QED  BY <1>1, <1>2, RowsStayBacked, DecisionByOthers

(* A crash takes replies back.                                             *)
LEMMA CrashDecision ==
    ASSUME TypeOK, DecisionInv, NEW i \in Instance, Crash(i)
    PROVE  DecisionInv'
<1>1. /\ worker' = [worker EXCEPT ![i] = IdleWorker]
      /\ UNCHANGED <<row, approvals, skips>>
    BY DEF Crash, CycleLost, SweepLost
<1>2. CyclesBacked'
    <2>1. worker'[i].pc = "idle" /\ \A j \in Instance \ {i} : worker'[j] = worker[j]
        BY <1>1 DEF IdleWorker, Between, TypeOK, SubmissionOK
    <2> QED  BY <1>1, <2>1 DEF DecisionInv, CyclesBacked, AtWork
<1>3. \A t \in Tap : \/ tap'[t] = tap[t]
                     \/ tap'[t].pc = "queued" /\ tap'[t].reply = "none"
    <2> TAKE t \in Tap
    <2> DEFINE again == [tap[t] EXCEPT !.pc = "queued", !.loaded = "discovered",
                                       !.reply = "none"]
    <2>1. again.pc = "queued" /\ again.reply = "none"
        BY DEF TypeOK, WorkflowOK, TapState
    <2>2. tap'[t] \in {again, tap[t]}
        BY DEF Crash, TapsLost
    <2> HIDE DEF again
    <2> QED  BY <2>1, <2>2
<1>4. TapsBacked' /\ RepliesAreTrue'
    BY <1>1, <1>3 DEF DecisionInv, TapsBacked, Backed, RepliesAreTrue
<1>5. RowsBacked'
    BY <1>1 DEF DecisionInv, RowsBacked, Backed
<1> QED  BY <1>2, <1>4, <1>5 DEF DecisionInv

(* DecisionInv is inductive, given the types.                              *)
LEMMA NextDecision == TypeOK /\ DecisionInv /\ [Next]_vars => DecisionInv'
<1> SUFFICES ASSUME TypeOK, DecisionInv, [Next]_vars PROVE DecisionInv'
    OBVIOUS
<1>1. CASE UNCHANGED vars
    BY <1>1
    DEF vars, rowVars, workflowVars, submissionVars, DecisionInv, RowsBacked, CyclesBacked,
        TapsBacked, AtWork, Backed, RepliesAreTrue
<1> QED
    BY <1>1, WorkflowDecision, SubmissionDecision, EmailDecision, SweepDecision, CrashDecision
    DEF Next, workflowVars, submissionVars

(* RepliesAreTrue: "approved", "skipped" and "already handled" are backed  *)
(* by decisions, whatever else happens to the row in between.              *)
THEOREM RepliesStandForDecisions == Spec => []RepliesAreTrue
<1>1. DecisionInv => RepliesAreTrue
    BY DEF DecisionInv
<1> QED  BY <1>1, InitDecision, NextDecision, TypeCorrect, PTL DEF Spec
-----------------------------------------------------------------------------
(* Dates.  An UPDATE writes the columns that differ from what was loaded,  *)
(* so status and submitted_at agree only as long as nobody else writes     *)
(* either between record_submission's SELECT and its UPDATE: one process.  *)
OneProcess == \A i, j \in Instance : i = j

(* What record_submission has loaded is still there, except that a row may *)
(* have left SUBMITTED.                                                    *)
CycleDated(i) ==
    /\ worker[i].pc \in {"submit", "record", "write"} => claims[i][worker[i].app] > 0
    /\ worker[i].pc = "write"
          => /\ worker[i].loaded.submittedAt = row[worker[i].app].submittedAt
             /\ row[worker[i].app].status = "submitted"
                   => worker[i].loaded.status = "submitted"

DateInv == SubmittedHasDate /\ \A i \in Instance : CycleDated(i)

(* No date changes and no row becomes SUBMITTED.                           *)
NoneDated ==
    \A a \in App : /\ row'[a].submittedAt = row[a].submittedAt
                   /\ row'[a].status = "submitted" => row[a].status = "submitted"

(* A statement that writes another status writes no date.                  *)
LEMMA SetStatusDates ==
    ASSUME RowsOK, NEW b \in App, NEW s, s # "submitted", SetStatus(b, s)
    PROVE  NoneDated
BY DEF RowsOK, Row, SetStatus, NoneDated

(* SUBMITTED rows keep their dates.                                        *)
LEMMA RowsStayDated ==
    ASSUME DateInv, NoneDated
    PROVE  SubmittedHasDate'
BY DEF DateInv, NoneDated, SubmittedHasDate

(* Steps of presses, emails and sweeps.                                    *)
LEMMA DateByOthers ==
    ASSUME TypeOK, DateInv, NoneDated, UNCHANGED submissionVars
    PROVE  DateInv'
<1>1. SubmittedHasDate'
    BY RowsStayDated
<1>2. ASSUME NEW i \in Instance PROVE CycleDated(i)'
    BY DEF TypeOK, SubmissionOK, DateInv, CycleDated, NoneDated, submissionVars
<1> QED  BY <1>1, <1>2 DEF DateInv

(* Steps of the one cycle.                                                 *)
LEMMA DateByWorker ==
    ASSUME OneProcess, DateInv, NEW i \in Instance, NoneDated, CycleDated(i)'
    PROVE  DateInv'
<1>1. SubmittedHasDate'
    BY RowsStayDated
<1> QED  BY <1>1 DEF OneProcess, DateInv
-----------------------------------------------------------------------------
(* A press writes APPROVED, SKIPPED or ACCEPTED.                           *)
LEMMA WorkflowDate ==
    ASSUME TypeOK, DateInv, WorkflowStep, UNCHANGED submissionVars
    PROVE  DateInv'
<1>1. CASE \E t \in Tap : DecideCommit(t) \/ AcceptCommit(t)
    <2>1. PICK t \in Tap : DecideCommit(t) \/ AcceptCommit(t)
        BY <1>1
    <2>2. tap[t].app \in App
        BY <2>1 DEF TypeOK, WorkflowOK, DecideCommit, AcceptCommit
    <2>3. PICK s \in {"approved", "skipped", "accepted"} :
             UNCHANGED row \/ SetStatus(tap[t].app, s)
        BY <2>1 DEF DecideCommit, AcceptCommit, FlushStatus, Target, rowVars
    <2>4. CASE UNCHANGED row
        BY <2>4, DateByOthers DEF NoneDated
    <2>5. CASE SetStatus(tap[t].app, s)
        BY <2>2, <2>5, SetStatusDates, DateByOthers DEF TypeOK
    <2> QED  BY <2>3, <2>4, <2>5
<1>2. CASE UNCHANGED row
    BY <1>2, DateByOthers DEF NoneDated
<1> QED
    BY <1>1, <1>2 DEF WorkflowStep, Handle, Press, DecideRefused, DecideChecked,
        AcceptRefused, AcceptLoad, DecideLoad, Answered, TapFails, AcceptCommand, rowVars

(* An email reports no submission.                                         *)
LEMMA EmailDate ==
    ASSUME TypeOK, DateInv, EmailStep, UNCHANGED submissionVars
    PROVE  DateInv'
<1>1. CASE \E m \in Mail : EmailCommit(m)
    <2>1. PICK m \in Mail : EmailCommit(m)
        BY <1>1
    <2>2. mail[m].status # "submitted"
        BY <2>1 DEF TypeOK, EmailOK, MailState, EmailStatus, EmailClassification,
            Informational, ClassificationToStatus
    <2>3. mail[m].app \in App /\ row \in [App -> Row]
        BY <2>1 DEF TypeOK, EmailOK, RowsOK, EmailCommit
    <2>4. NoneDated
        BY <2>1, <2>2, <2>3 DEF EmailCommit, RecordEmailUpdate, NoneDated, Row
    <2> QED  BY <2>4, DateByOthers
<1>2. CASE UNCHANGED row
    BY <1>2, DateByOthers DEF NoneDated
<1> QED
    BY <1>1, <1>2 DEF EmailStep, EmailProgress, EmailRefused, ReceiveEmail, ClassifyNoAction,
        ClassifyMatched, EmailLoad, Respond, EmailFails, rowVars

(* A sweep writes GHOSTED.                                                 *)
LEMMA SweepDate ==
    ASSUME TypeOK, DateInv, SweepStep, UNCHANGED submissionVars
    PROVE  DateInv'
<1>1. CASE \E i \in Instance : SweepCommit(i)
    <2>1. PICK i \in Instance : SweepCommit(i)
        BY <1>1
    <2>2. NoneDated
        BY <2>1 DEF SweepCommit, TypeOK, RowsOK, Row, NoneDated
    <2> QED  BY <2>2, DateByOthers
<1>2. CASE UNCHANGED row
    BY <1>2, DateByOthers DEF NoneDated
<1> QED
    BY <1>1, <1>2 DEF SweepStep, SweepProgress, SweepStart, GhostSkipped, GhostRead,
        GhostMark, SweepFails, SweepLost, GrowQuiet, rowVars
-----------------------------------------------------------------------------
(* record_submission writes a date with every SUBMITTED it leaves.         *)
LEMMA RecordDate ==
    ASSUME OneProcess, TypeOK, DateInv, NEW i \in Instance, RecordCommit(i)
    PROVE  DateInv'
<1>1. worker[i] \in WorkerState /\ worker \in [Instance -> WorkerState]
    BY DEF TypeOK, SubmissionOK
<1>2. PICK b \in App : b = worker[i].app
    BY DEF RecordCommit, TypeOK, SubmissionOK
<1> DEFINE s == worker[i].outcome
           d == IF s = "submitted" THEN claims[i][b] ELSE 0
           l == worker[i].loaded
<1>3. /\ row'[b].status = IF s = l.status THEN row[b].status ELSE s
      /\ row'[b].submittedAt = IF d = l.submittedAt THEN row[b].submittedAt ELSE d
      /\ \A a \in App \ {b} : row'[a] = row[a]
    BY <1>2 DEF RecordCommit, RecordSubmission, OutcomeToStatus, TypeOK, RowsOK
<1>4. /\ l.submittedAt = row[b].submittedAt
      /\ row[b].status = "submitted" => l.status = "submitted"
      /\ claims[i][b] > 0
    BY <1>2 DEF RecordCommit, DateInv, CycleDated
<1>5. claims[i][b] \in Nat
    BY <1>2 DEF TypeOK, SubmissionOK
<1>6. row'[b].status = "submitted" => row'[b].submittedAt # 0
    <2> SUFFICES ASSUME row'[b].status = "submitted" PROVE row'[b].submittedAt # 0
        OBVIOUS
    <2>1. s = "submitted"
        BY <1>3, <1>4
    <2>2. d = claims[i][b]
        BY <2>1
    <2> QED  BY <1>3, <1>4, <1>5, <2>2
<1>7. SubmittedHasDate'
    BY <1>3, <1>6 DEF DateInv, SubmittedHasDate
<1>8. worker'[i].pc = "next"
    BY <1>1 DEF RecordCommit, NextApplication, Between
<1> QED  BY <1>7, <1>8 DEF OneProcess, DateInv, CycleDated

(* Every step of the cycle.                                                *)
LEMMA SubmissionDate ==
    ASSUME OneProcess, TypeOK, DateInv, SubmissionStep
    PROVE  DateInv'
<1>1. PICK i \in Instance : \/ WorkerProgress(i)
                            \/ ClaimFails(i) \/ SubmitRaises(i) \/ RecordFails(i)
    BY DEF SubmissionStep
<1>2. worker[i] \in WorkerState /\ worker \in [Instance -> WorkerState]
    BY DEF TypeOK, SubmissionOK
<1>3. worker[i].pc \in {"claim", "submit", "record", "write"} => worker[i].app \in App
    BY DEF TypeOK, SubmissionOK
<1>4. CASE CycleStart(i) \/ CycleEnd(i) \/ ClaimFails(i) \/ SubmitRaises(i) \/ RecordFails(i)
    <2>1. /\ worker'[i].pc \notin {"submit", "record", "write"}
          /\ NoneDated
        BY <1>2, <1>4 DEF CycleStart, CycleEnd, ClaimFails, SubmitRaises, RecordFails,
            NextApplication, IdleWorker, Between, rowVars, NoneDated
    <2> QED  BY <2>1, DateByWorker DEF CycleDated
<1>5. CASE \E a \in App : ClaimSkipped(i, a) \/ ClaimRead(i, a)
    <2>1. /\ worker'[i].pc \notin {"submit", "record", "write"}
          /\ NoneDated
        BY <1>2, <1>5 DEF ClaimSkipped, ClaimRead, WorkerState, rowVars, NoneDated
    <2> QED  BY <2>1, DateByWorker DEF CycleDated
<1>6. CASE \E usable \in BOOLEAN : ClaimCommit(i, usable)
    <2>1. PICK usable \in BOOLEAN : ClaimCommit(i, usable)
        BY <1>6
    <2>2. PICK b \in App : b = worker[i].app
        BY <1>3, <2>1 DEF ClaimCommit
    <2>3. NoneDated
        BY <2>1, <2>2, SetStatusDates DEF ClaimCommit, TypeOK
    <2>4. claims'[i][b] > 0
        BY <2>1, <2>2 DEF ClaimCommit, TypeOK, SubmissionOK
    <2>5. worker'[i].pc \in {"submit", "record"} /\ worker'[i].app = b
        BY <1>2, <2>1, <2>2 DEF ClaimCommit, WorkerState
    <2> QED  BY <2>3, <2>4, <2>5, DateByWorker DEF CycleDated
<1>7. CASE Click(i) \/ \E o \in Outcome : SubmitReturns(i, o)
    <2>1. /\ worker'[i].pc \in {"submit", "record"} /\ worker'[i].app = worker[i].app
          /\ worker[i].pc = "submit" /\ UNCHANGED <<row, claims>>
        <3>1. CASE Click(i)
            BY <1>2, <3>1 DEF Click, WorkerState, rowVars
        <3>2. CASE \E o \in Outcome : SubmitReturns(i, o)
            BY <1>2, <3>2 DEF SubmitReturns, WorkerState, rowVars
        <3> QED  BY <1>7, <3>1, <3>2
    <2>2. NoneDated
        BY <2>1 DEF NoneDated
    <2> QED  BY <2>1, <2>2, DateByWorker DEF DateInv, CycleDated
<1>8. CASE RecordLoad(i)
    <2>1. /\ worker'[i].pc = "write" /\ worker'[i].app = worker[i].app
          /\ worker'[i].loaded = row[worker[i].app]
          /\ worker[i].pc = "record" /\ UNCHANGED <<row, claims>>
        BY <1>2, <1>8 DEF RecordLoad, WorkerState, rowVars
    <2>2. NoneDated
        BY <2>1 DEF NoneDated
    <2> QED  BY <2>1, <2>2, DateByWorker DEF DateInv, CycleDated
<1> QED
    BY <1>1, <1>4, <1>5, <1>6, <1>7, <1>8, RecordDate DEF WorkerProgress

(* A crash loses the cycle and writes nothing.                             *)
LEMMA CrashDate ==
    ASSUME OneProcess, TypeOK, DateInv, NEW i \in Instance, Crash(i)
    PROVE  DateInv'
<1>1. worker'[i].pc = "idle" /\ UNCHANGED row
    BY DEF Crash, CycleLost, SweepLost, IdleWorker, Between, TypeOK, SubmissionOK
<1> QED  BY <1>1, DateByWorker DEF NoneDated, CycleDated

(* Initially nothing is SUBMITTED.                                         *)
LEMMA InitDate == Init => DateInv
BY DEF Init, RowsInit, DeliveredRow, SubmissionInit, IdleWorker, Between, DateInv,
    SubmittedHasDate, CycleDated

(* DateInv is inductive, given the types and one process.                  *)
LEMMA NextDate ==
    ASSUME OneProcess
    PROVE  TypeOK /\ DateInv /\ [Next]_vars => DateInv'
<1> SUFFICES ASSUME TypeOK, DateInv, [Next]_vars PROVE DateInv'
    OBVIOUS
<1>1. CASE UNCHANGED vars
    BY <1>1, DateByOthers DEF vars, rowVars, NoneDated
<1> QED
    BY <1>1, WorkflowDate, SubmissionDate, EmailDate, SweepDate, CrashDate DEF Next

(* SubmittedHasDate: as long as one process runs, every SUBMITTED row says *)
(* when, whatever presses, emails, sweeps and failures come in between.    *)
THEOREM SubmissionsAreDated ==
    ASSUME OneProcess
    PROVE  Spec => []SubmittedHasDate
<1>1. DateInv => SubmittedHasDate
    BY DEF DateInv
<1> QED  BY <1>1, InitDate, NextDate, TypeCorrect, PTL DEF Spec
=============================================================================
