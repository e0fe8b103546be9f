------------------------------ MODULE Tracking ------------------------------
(***************************************************************************)
(* Offer tracking: forwarded emails, the applications they move, and the   *)
(* dashboard that shows where each of them stands and why.                 *)
(***************************************************************************)
EXTENDS Inbox, Dashboard

vars == <<rowVars, deployVars, emailVars, inboxVars>>

Init == InboxInit

Next == InboxStep

Spec == Init /\ [][Next]_vars
-----------------------------------------------------------------------------
(* Every variable holds a value of its kind.                               *)
InboxOK ==
    /\ company \in Companies
    /\ letter \in [Mail -> Letter]
    /\ Orders(newer, App \cup Writing)
    /\ reading \in [Mail -> [newer: SUBSET (App \X App), closed: SUBSET App]]
    /\ \A m \in Mail : Orders(reading[m].newer, mail[m].candidates)
    /\ evidence \in [App -> EmailStatus \cup {None}]
    /\ overtaken \subseteq App
    /\ recorded \subseteq Mail \X App

TypeOK == RowsOK /\ DeploymentOK /\ EmailOK /\ InboxOK

(* An application to the very company an email names is not passed over:   *)
(* the email goes to an application to that company, of several to the one *)
(* most recently updated (email_classifier.py:128-131).                    *)
NamedCompanyWins ==
    \A m \in Mail, answer \in Answer :
       mail[m].pc = "classify" =>
          \A a \in Proposed(m, answer), b \in mail[m].candidates :
             NameOf(b) = Needle(letter[m], answer)
                => /\ NameOf(a) = Needle(letter[m], answer)
                   /\ a = b \/ <<a, b>> \in reading[m].newer

(* An unrelated email stays out: what it names has a letter in common with *)
(* the company of the application it is recorded for -- unless that name   *)
(* has no letters at all, which makes it a part of every other.            *)
UnrelatedStayOut ==
    \A m \in Mail, answer \in Answer :
       mail[m].pc = "classify" =>
          \A a \in Proposed(m, answer) :
             \/ NameOf(a) = <<>>
             \/ SharedCharacter(NameOf(a), Needle(letter[m], answer))

(* email_classifier.py:128-131 makes no such exception: "so unrelated      *)
(* emails don't accidentally attach to a random application".              *)
UnrelatedNeverAttach ==
    \A m \in Mail, answer \in Answer :
       mail[m].pc = "classify" =>
          \A a \in Proposed(m, answer) :
             SharedCharacter(NameOf(a), Needle(letter[m], answer))

(* A hiring email is not lost: an email about an interview that is no job  *)
(* digest and no newsletter, from whatever mailbox, and in which the LLM   *)
(* recognises a company with an open application, is recorded              *)
(* (email_filter.py:8-12).                                                 *)
HiringMail(l) == /\ l.subject = {"interview"}
                 /\ "board" \notin l.body
                 /\ Cardinality(l.body) <= 1

HiringMailIsMatched ==
    \A m \in Mail, answer \in Answer :
       /\ mail[m].pc = "classify"
       /\ HiringMail(letter[m])
       /\ answer.classification \notin Informational
       /\ \E a \in mail[m].candidates : /\ NameOf(a) = Normalise(answer.hint)
                                        /\ NameOf(a) # <<>>
       => Proposed(m, answer) # {}

(* An application that was closed when an email arrived is not moved by    *)
(* it: only an email already being read may overwrite ACCEPTED or REJECTED *)
(* (repositories.py:295-342).                                              *)
ClosedStaysClosed ==
    [][\A a \in App :
          row[a].status \in Closed /\ row'[a].status # row[a].status
             => \E m \in Mail : /\ mail[m].pc = "write"
                                /\ mail[m].app = a
                                /\ a \notin reading[m].closed]_vars

(* An interview, an offer or a rejection on the dashboard is explained by  *)
(* the evidence beside it (dashboard_stats.py:54-55), unless another email *)
(* came between the SELECT and the UPDATE of one: an email that repeats    *)
(* the status it has loaded does not write it again, only the evidence.    *)
EvidenceExplains ==
    \A a \in App \ overtaken :
       row[a].status \in EmailStatus => evidence[a] = row[a].status

(* One email is recorded for one application.  Forwarded again, after a    *)
(* crash or an error, it may go to another one, since its first visit has  *)
(* reordered the candidates or closed the row; without failures never.     *)
OneEmailOneApplication ==
    \A m \in Mail : Cardinality({a \in App : <<m, a>> \in recorded}) <= 1 + faults
=============================================================================
