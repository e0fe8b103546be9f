--------------------------- MODULE HumanInTheLoop ---------------------------
(***************************************************************************)
(* What Cinch promises about applying on someone's behalf (README.md,      *)
(* services/submission.py): the owner's Approve is a licence for one       *)
(* submission, and nothing is submitted without one.  Each submitting      *)
(* process keeps its own account, because nothing in the code keeps a      *)
(* common one; with the single process DEPLOY.md asks for they are the     *)
(* same.                                                                   *)
(***************************************************************************)
EXTENDS Naturals

CONSTANTS Application, Agent

VARIABLES granted,    (* [Application -> number of approvals]              *)
          spent       (* [Agent -> [Application -> number of submissions]] *)

Init == /\ granted = [a \in Application |-> 0]
        /\ spent = [i \in Agent |-> [a \in Application |-> 0]]

Grant(a) == /\ granted' = [granted EXCEPT ![a] = @ + 1]
            /\ UNCHANGED spent

Submit(i, a) == /\ spent[i][a] < granted[a]
                /\ spent' = [spent EXCEPT ![i][a] = @ + 1]
                /\ UNCHANGED granted

Next == \E a \in Application : Grant(a) \/ \E i \in Agent : Submit(i, a)

Spec == Init /\ [][Next]_<<granted, spent>>
=============================================================================
