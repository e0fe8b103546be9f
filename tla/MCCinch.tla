------------------------------- MODULE MCCinch -------------------------------
(* Small instances of Cinch, and of the dashboard's view of it, for TLC.   *)
EXTENDS Cinch, Dashboard, TLC

CONSTANTS u1, u2, a1, a2, i1, i2, t1, t2, t3, m1, m2

OneApp == {a1}
TwoApps == {a1, a2}
OwnedByU1 == [a \in {a1} |-> u1]
EachOwnsOne == [a \in {a1, a2} |-> IF a = a1 THEN u1 ELSE u2]
Requests == Tap \cup Mail
ProcessSymmetry == Permutations(Tap) \cup Permutations(Instance)
RequestSymmetry == Permutations(Tap) \cup Permutations(Mail)

(* The part of the state space to look at: all of it as long as a second  *)
(* process has nothing to do, and that of two processes at work while      *)
(* nothing fails and one press is still to come.                           *)
OneOrTwoProcesses ==
    \/ \E i \in Instance : /\ worker[i] = IdleWorker
                           /\ serving[i] = {}
                           /\ claims[i] = [a \in App |-> 0]
    \/ faults = 0 /\ \E t \in Tap : tap[t].pc = "unpressed"
=============================================================================
