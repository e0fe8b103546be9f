------------------------------ MODULE Workflow ------------------------------
(***************************************************************************)
(* Inline-button presses: Approve, Skip and Accept offer.                  *)
(* bot/handlers.py callback_handler, _handle_accept and accept_command;    *)
(* services/workflow.py ApprovalService; bot/keyboards.py.                 *)
(*                                                                         *)
(* A button can be pressed while its card still shows it.  The update      *)
(* waits at Telegram ("queued") until a process takes it; process_update   *)
(* is awaited per request, so taps are handled concurrently.               *)
(***************************************************************************)
EXTENDS Deployment

CONSTANT Tap          (* the button presses that may happen: a bound       *)

ASSUME TapAssumption == Tap \subseteq Request

VARIABLES tap,        (* the progress of each press                        *)
          keyboard,   (* applications whose Approve/Skip card has buttons  *)
          offerCard,  (* applications whose Accept card has buttons        *)
          approvals,  (* history: Approve decisions committed, per row     *)
          skips       (* history: Skip decisions committed, per row        *)

workflowVars == <<tap, keyboard, offerCard, approvals, skips>>

Button == {"approve", "skip", "accept"}

Reply == {"none", "approved", "skipped", "already_handled", "accepted",
          "not_offered", "unauthorized"}

TapPc == {"unpressed", "queued", "checked", "loaded", "answer", "done"}

TapState == [pc: TapPc, app: App \cup {None}, button: Button,
             by: User \cup {None}, loaded: ApplicationStatus, reply: Reply]

(* A tap nobody has pressed, or one that is over, says nothing.            *)
BlankTap(pc) == [pc |-> pc, app |-> None, button |-> "approve", by |-> None,
                 loaded |-> "discovered", reply |-> "none"]

WorkflowOK == /\ tap \in [Tap -> TapState]
              /\ \A t \in Tap : tap[t].pc \notin {"unpressed", "done"}
                                    => tap[t].app \in App
              /\ keyboard \subseteq App
              /\ offerCard \subseteq App
              /\ approvals \in [App -> Nat]
              /\ skips \in [App -> Nat]

WorkflowInit ==
    /\ tap = [t \in Tap |-> BlankTap("unpressed")]
    /\ keyboard = App
    /\ offerCard = {}
    /\ approvals = [a \in App |-> 0]
    /\ skips = [a \in App |-> 0]

TerminalBugPending == {"approved", "skipped", "submitted", "pending_approval"}

Terminal == {"approved", "skipped", "submitted"}                 \* _TERMINAL

TargetBugDecision(button) == button

Target(button) == IF button = "approve" THEN "approved" ELSE "skipped"

Owned(t) == tap[t].by = OwnerOf[tap[t].app]

Advance(t, pc) == tap' = [tap EXCEPT ![t].pc = pc]

Answering(t, reply) ==
    tap' = [tap EXCEPT ![t] = [@ EXCEPT !.pc = "answer", !.reply = reply,
                                        !.loaded = "discovered"]]
-----------------------------------------------------------------------------
Press(t, a, button, u) ==
    /\ tap[t].pc = "unpressed"
    /\ a \in IF button = "accept" THEN offerCard ELSE keyboard
    /\ tap' = [tap EXCEPT ![t] = [BlankTap("queued") EXCEPT
                                     !.app = a, !.button = button, !.by = u]]
    /\ UNCHANGED <<keyboard, offerCard, approvals, skips, rowVars, deployVars>>

(* /accept: one Accept card for each of the caller's open offers.          *)
AcceptCommand(u) ==
    /\ ~ ListOffered(u) \subseteq offerCard
    /\ offerCard' = offerCard \cup ListOffered(u)
    /\ UNCHANGED <<tap, keyboard, approvals, skips, rowVars, deployVars>>

(* decide: the checks that precede set_status, in their order.             *)
Decides(t) == tap[t].pc = "queued" /\ tap[t].button # "accept"

DecideRefusedBugNotHandled(t, i) ==
    /\ Decides(t)
    /\ ~ Owned(t) /\ Answering(t, "unauthorized")
    /\ Take(i, t)
    /\ UNCHANGED <<keyboard, offerCard, approvals, skips, rowVars>>

DecideRefused(t, i) ==
    /\ Decides(t)
    /\ \/ ~ Owned(t) /\ Answering(t, "unauthorized")
       \/ /\ Owned(t)
          /\ row[tap[t].app].status \in Terminal
          /\ Answering(t, "already_handled")
    /\ Take(i, t)
    /\ UNCHANGED <<keyboard, offerCard, approvals, skips, rowVars>>

DecideChecked(t, i) ==
    /\ Decides(t)
    /\ Owned(t)
    /\ row[tap[t].app].status \notin Terminal
    /\ Advance(t, "checked")
    /\ Take(i, t)
    /\ UNCHANGED <<keyboard, offerCard, approvals, skips, rowVars>>

(* set_status: the row is selected again, and not checked again.           *)
DecideLoad(t) ==
    /\ tap[t].pc = "checked"
    /\ tap' = [tap EXCEPT ![t].pc = "loaded",
                          ![t].loaded = row[tap[t].app].status]
    /\ UNCHANGED <<keyboard, offerCard, approvals, skips, rowVars, deployVars>>

DecideCommit(t) ==
    LET a == tap[t].app
        target == Target(tap[t].button)
        changed == IF tap[t].loaded = target THEN 0 ELSE 1
    IN /\ tap[t].pc = "loaded"
       /\ tap[t].button # "accept"
       /\ FlushStatus(a, tap[t].loaded, target)
       /\ IF target = "approved"
          THEN /\ approvals' = [approvals EXCEPT ![a] = @ + changed]
               /\ UNCHANGED skips
          ELSE /\ skips' = [skips EXCEPT ![a] = @ + changed]
               /\ UNCHANGED approvals
       /\ Answering(t, target)
       /\ UNCHANGED <<keyboard, offerCard, deployVars>>

(* accept, then accept_offer: only an OFFERED row is accepted.             *)
Accepts(t) == tap[t].pc = "queued" /\ tap[t].button = "accept"

AcceptRefused(t, i) ==
    /\ Accepts(t)
    /\ \/ ~ Owned(t) /\ Answering(t, "unauthorized")
       \/ /\ Owned(t)
          /\ row[tap[t].app].status # "offered"
          /\ Answering(t, "not_offered")
    /\ Take(i, t)
    /\ UNCHANGED <<keyboard, offerCard, approvals, skips, rowVars>>

AcceptLoad(t, i) ==
    /\ Accepts(t)
    /\ Owned(t)
    /\ row[tap[t].app].status = "offered"
    /\ tap' = [tap EXCEPT ![t].pc = "loaded", ![t].loaded = "offered"]
    /\ Take(i, t)
    /\ UNCHANGED <<keyboard, offerCard, approvals, skips, rowVars>>

AcceptCommit(t) ==
    /\ tap[t].pc = "loaded"
    /\ tap[t].button = "accept"
    /\ FlushStatus(tap[t].app, tap[t].loaded, "accepted")
    /\ Answering(t, "accepted")
    /\ UNCHANGED <<keyboard, offerCard, approvals, skips, deployVars>>

(* The toast, then the buttons go; either call may raise, and then the     *)
(* buttons stay although the decision is committed.  Telegram gets a 200   *)
(* all the same.  A stranger's press leaves the card alone.                *)
Answered(t) ==
    /\ tap[t].pc = "answer"
    /\ tap' = [tap EXCEPT ![t] = BlankTap("done")]
    /\ \/ /\ tap[t].reply # "unauthorized"
          /\ IF tap[t].button = "accept"
             THEN offerCard' = offerCard \ {tap[t].app} /\ UNCHANGED keyboard
             ELSE keyboard' = keyboard \ {tap[t].app} /\ UNCHANGED offerCard
       \/ UNCHANGED <<keyboard, offerCard>>
    /\ Finish(t)
    /\ UNCHANGED <<approvals, skips, rowVars>>

(* The session raises: rollback, and the webhook answers 200 (webhook.py), *)
(* so the update is not delivered again.                                   *)
TapFails(t) ==
    /\ tap[t].pc \in {"checked", "loaded"}
    /\ tap' = [tap EXCEPT ![t] = BlankTap("done")]
    /\ Release(t)
    /\ Fault
    /\ UNCHANGED <<keyboard, offerCard, approvals, skips, rowVars>>

(* The process dies: whatever it was serving is delivered again.           *)
TapsLost(i) ==
    tap' = [t \in Tap |->
              IF t \in serving[i]
              THEN [tap[t] EXCEPT !.pc = "queued", !.loaded = "discovered",
                                  !.reply = "none"]
              ELSE tap[t]]

Handle(t) ==
    \/ \E i \in Instance : \/ DecideRefused(t, i) \/ DecideChecked(t, i)
                           \/ AcceptRefused(t, i) \/ AcceptLoad(t, i)
    \/ DecideLoad(t) \/ DecideCommit(t) \/ AcceptCommit(t) \/ Answered(t)

WorkflowStep ==
    \/ \E t \in Tap, a \in App, button \in Button, u \in User :
          Press(t, a, button, u)
    \/ \E t \in Tap : Handle(t) \/ TapFails(t)
    \/ \E u \in User : AcceptCommand(u)
=============================================================================
