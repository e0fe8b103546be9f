----------------------------- MODULE GhostSweep -----------------------------
(***************************************************************************)
(* The ghosted sweep: services/lifecycle.py, run by api/scheduler.py in    *)
(* ONE transaction.  Each row it marks stays locked, and the mark          *)
(* invisible to others, until the whole sweep commits; the messages to the *)
(* users are sent meanwhile.                                               *)
(***************************************************************************)
EXTENDS Deployment

CONSTANT GhostedSweepEnabled    (* settings.ghosted_sweep_enabled          *)

ASSUME SweepAssumption == GhostedSweepEnabled \in BOOLEAN

VARIABLE sweep        (* [Instance -> the state of its sweep]              *)

SweepState == [pc: {"idle", "next", "mark"}, todo: SUBSET App,
               app: App \cup {None}, marked: SUBSET App]

SweepOK ==
    /\ sweep \in [Instance -> SweepState]
    /\ \A i \in Instance : sweep[i].pc = "mark" => sweep[i].app \in App

IdleSweep == [pc |-> "idle", todo |-> {}, app |-> None, marked |-> {}]

SweepInit == sweep = [i \in Instance |-> IdleSweep]
-----------------------------------------------------------------------------
SweepStart(i) ==
    /\ GhostedSweepEnabled
    /\ sweep[i].pc = "idle"
    /\ ListStaleSubmitted # {}
    /\ sweep' = [sweep EXCEPT ![i].pc = "next", ![i].todo = ListStaleSubmitted]
    /\ UNCHANGED <<rowVars, deployVars>>

(* mark_ghosted selects the row and leaves one that has moved on alone ... *)
GhostSkipped(i, a) ==
    /\ sweep[i].pc = "next"
    /\ a \in sweep[i].todo
    /\ row[a].status # "submitted"
    /\ sweep' = [sweep EXCEPT ![i].todo = @ \ {a}]
    /\ UNCHANGED <<rowVars, deployVars>>

GhostRead(i, a) ==
    /\ sweep[i].pc = "next"
    /\ a \in sweep[i].todo
    /\ row[a].status = "submitted"
    /\ sweep' = [sweep EXCEPT ![i].pc = "mark", ![i].app = a,
                              ![i].todo = @ \ {a}]
    /\ UNCHANGED <<rowVars, deployVars>>

GhostMarkBugNoUpdate(i) ==
    /\ sweep[i].pc = "mark"
    /\ sweep' = [sweep EXCEPT ![i].pc = "next", ![i].app = None]
    /\ UNCHANGED <<rowVars, deployVars>>

(* ... and updates the others, whatever they have become since.  The       *)
(* message follows, and its failure is swallowed.                          *)
GhostMark(i) ==
    LET a == sweep[i].app
    IN /\ sweep[i].pc = "mark"
       /\ a \notin locked
       /\ locked' = locked \cup {a}
       /\ sweep' = [sweep EXCEPT ![i].pc = "next", ![i].app = None,
                                 ![i].marked = @ \cup {a}]
       /\ UNCHANGED <<row, quiet, deployVars>>

SweepCommit(i) ==
    LET marked == sweep[i].marked
    IN /\ sweep[i].pc = "next"
       /\ sweep[i].todo = {}
       /\ row' = [a \in App |-> IF a \in marked
                                THEN [row[a] EXCEPT !.status = "ghosted"]
                                ELSE row[a]]
       /\ quiet' = quiet \ marked
       /\ locked' = locked \ marked
       /\ sweep' = [sweep EXCEPT ![i] = IdleSweep]
       /\ UNCHANGED deployVars

(* The sweep's transaction is rolled back.                                 *)
SweepLost(i) ==
    /\ sweep' = [sweep EXCEPT ![i] = IdleSweep]
    /\ locked' = locked \ sweep[i].marked
    /\ UNCHANGED <<row, quiet>>

SweepFailsBugNoRollback(i) ==
    /\ sweep[i].pc # "idle"
    /\ sweep' = [sweep EXCEPT ![i] = IdleSweep]
    /\ Fault
    /\ UNCHANGED <<rowVars, serving>>

SweepFails(i) ==
    /\ sweep[i].pc # "idle"
    /\ SweepLost(i)
    /\ Fault
    /\ UNCHANGED serving

SweepProgress(i) ==
    \/ SweepStart(i) \/ \E a \in App : GhostSkipped(i, a) \/ GhostRead(i, a)
    \/ GhostMark(i) \/ SweepCommit(i)

SweepStep == \/ \E i \in Instance : SweepProgress(i) \/ SweepFails(i)
             \/ \E a \in App : /\ GhostedSweepEnabled      \* else nobody looks
                               /\ GrowQuiet(a)
                               /\ UNCHANGED <<sweep, deployVars>>
=============================================================================
