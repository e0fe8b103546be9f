------------------------------ MODULE Discovery ------------------------------
(***************************************************************************)
(* The discovery cycle: services/discovery.py, started by api/scheduler.py *)
(* on an interval and by the /discover command for ALL users (nothing      *)
(* keeps the two apart), and the card it sends, bot/notify.py.             *)
(*                                                                         *)
(* A whole cycle is ONE transaction: the jobs and applications it inserts  *)
(* are invisible to everybody else, and the rows it updates are locked,    *)
(* until it commits -- while its cards are on the users' screens at once.  *)
(* Inserting a key that another open transaction has inserted waits for    *)
(* that transaction; if it commits, the savepoint fails on the unique      *)
(* constraint and the row is fetched again.                                *)
(*                                                                         *)
(* The owner's press is one step here; its own interleavings are           *)
(* Workflow's.                                                             *)
(***************************************************************************)
EXTENDS Naturals, FiniteSets

CONSTANTS User, Posting,   (* who is searched for, and what may be found   *)
          Cycle,           (* the cycles that can be under way at once     *)
          Left,            (* postings whose rows were left DISCOVERED     *)
          None,            (* "no application": not a pair                 *)
          MaxFaults,       (* bound on failures and crashes                *)
          MaxCards         (* bound: announced so often, a posting ends    *)

Pair == User \X Posting

ASSUME DiscoveryAssumption ==
    /\ None \notin Pair
    /\ Left \subseteq Posting
    /\ MaxFaults \in Nat
    /\ MaxCards \in Nat \ {0}

VARIABLES jobs,            (* committed rows of `jobs`                     *)
          application,     (* committed rows of `applications`             *)
          cycle,           (* [Cycle -> the state of the cycle]            *)
          lastId,          (* the last id given to a row, per pair         *)
          cards,           (* Approve/Skip cards that still have buttons   *)
          delivered,       (* history: the ids each pair's cards carried   *)
          notified,        (* history: cards sent, per pair                *)
          faults

discoveryVars == <<jobs, application, cycle, lastId, cards, delivered, notified,
                   faults>>

Status == {"absent", "discovered", "pending_approval", "approved", "skipped"}

Pc == {"idle", "next", "job", "lookup", "create", "tailor", "send", "attach",
       "load", "write", "doomed"}

CycleState == [pc: Pc, todo: SUBSET Pair, at: Pair \cup {None},
               newJobs: SUBSET Posting, inserted: SUBSET Pair,
               marked: SUBSET Pair, loaded: Status]

IdleCycle == [pc |-> "idle", todo |-> {}, at |-> None, newJobs |-> {},
              inserted |-> {}, marked |-> {}, loaded |-> "absent"]

Absent == [status |-> "absent", id |-> 0]

(* An earlier cycle knew some of the jobs, and failed to deliver Left.     *)
Init == /\ jobs \in {known \in SUBSET Posting : Left \subseteq known}
        /\ application = [k \in Pair |->
              IF k[2] \in Left THEN [status |-> "discovered", id |-> 1] ELSE Absent]
        /\ lastId = [k \in Pair |-> application[k].id]
        /\ cycle = [c \in Cycle |-> IdleCycle]
        /\ cards = {}
        /\ delivered = [k \in Pair |-> {}]
        /\ notified = [k \in Pair |-> 0]
        /\ faults = 0
-----------------------------------------------------------------------------
(* What cycle c sees: committed rows and its own writes.                   *)
StatusIn(c, k) == IF k \in cycle[c].marked THEN "pending_approval"
                  ELSE IF k \in cycle[c].inserted THEN "discovered"
                  ELSE application[k].status

IdIn(c, k) == IF k \in cycle[c].inserted THEN lastId[k] ELSE application[k].id

(* The lock or unique key that c is waiting for is held by d.              *)
Waits(c, d) ==
    LET k == cycle[c].at
    IN /\ c # d
       /\ \/ cycle[c].pc = "job" /\ k[2] \in cycle[d].newJobs
          \/ cycle[c].pc = "create" /\ k \in cycle[d].inserted
          \/ cycle[c].pc = "write" /\ k \in cycle[d].marked

Free(c) == \A d \in Cycle : ~ Waits(c, d)

Goto(c, pc) == cycle' = [cycle EXCEPT ![c].pc = pc]

NextPosting(c) ==
    cycle' = [cycle EXCEPT ![c] = [@ EXCEPT !.pc = "next", !.at = None,
                                            !.loaded = "absent"]]

Fault == faults < MaxFaults /\ faults' = faults + 1

(* The search finds some postings for some users.                          *)
Start(c, found) ==
    /\ cycle[c].pc = "idle"
    /\ found # {}
    /\ \A k \in found : notified[k] < MaxCards
    /\ cycle' = [cycle EXCEPT ![c].pc = "next", ![c].todo = found]
    /\ UNCHANGED <<jobs, application, lastId, cards, delivered, notified, faults>>

Take(c, k) ==
    /\ cycle[c].pc = "next"
    /\ k \in cycle[c].todo
    /\ cycle' = [cycle EXCEPT ![c].pc = "job", ![c].at = k,
                              ![c].todo = @ \ {k}]
    /\ UNCHANGED <<jobs, application, lastId, cards, delivered, notified, faults>>

(* JobRepository.get_or_create.                                            *)
JobGetOrCreate(c) ==
    LET p == cycle[c].at[2]
    IN /\ cycle[c].pc = "job"
       /\ Free(c)
       /\ cycle' = [cycle EXCEPT
                      ![c].pc = "lookup",
                      ![c].newJobs = IF p \in jobs THEN @ ELSE @ \cup {p}]
       /\ UNCHANGED <<jobs, application, lastId, cards, delivered, notified,
                      faults>>

LookupBugAlways(c) ==
    /\ cycle[c].pc = "lookup"
    /\ Goto(c, "create")
    /\ UNCHANGED <<jobs, application, lastId, cards, delivered, notified, faults>>

LookupBugNewOnly(c) ==
    /\ cycle[c].pc = "lookup"
    /\ IF StatusIn(c, cycle[c].at) = "absent"
       THEN Goto(c, "create")
       ELSE NextPosting(c)
    /\ UNCHANGED <<jobs, application, lastId, cards, delivered, notified, faults>>

(* get_by_user_job: only an application that is DISCOVERED, or does not    *)
(* exist yet, is delivered.                                                *)
Lookup(c) ==
    /\ cycle[c].pc = "lookup"
    /\ IF StatusIn(c, cycle[c].at) \in {"absent", "discovered"}
       THEN Goto(c, "create")
       ELSE NextPosting(c)
    /\ UNCHANGED <<jobs, application, lastId, cards, delivered, notified, faults>>

(* ApplicationRepository.get_or_create: whatever row there is by now is    *)
(* taken as it is.                                                         *)
ApplicationGetOrCreate(c) ==
    LET k == cycle[c].at
    IN /\ cycle[c].pc = "create"
       /\ Free(c)
       /\ IF StatusIn(c, k) = "absent"
          THEN /\ lastId' = [lastId EXCEPT ![k] = @ + 1]
               /\ cycle' = [cycle EXCEPT ![c].pc = "tailor",
                                         ![c].inserted = @ \cup {k}]
          ELSE Goto(c, "tailor") /\ UNCHANGED lastId
       /\ UNCHANGED <<jobs, application, cards, delivered, notified, faults>>

TailoredBugNoCard(c) ==
    /\ cycle[c].pc = "tailor"
    /\ Goto(c, "load")
    /\ UNCHANGED <<jobs, application, lastId, cards, delivered, notified, faults>>

Tailored(c) ==
    /\ cycle[c].pc = "tailor"
    /\ Goto(c, "send")
    /\ UNCHANGED <<jobs, application, lastId, cards, delivered, notified, faults>>

(* send_application: the card ...                                          *)
SendCard(c) ==
    LET k == cycle[c].at
    IN /\ cycle[c].pc = "send"
       /\ notified' = [notified EXCEPT ![k] = @ + 1]
       /\ cards' = cards \cup {[pair |-> k, id |-> IdIn(c, k),
                                serial |-> notified[k] + 1]}
       /\ delivered' = [delivered EXCEPT ![k] = @ \cup {IdIn(c, k)}]
       /\ Goto(c, "attach")
       /\ UNCHANGED <<jobs, application, lastId, faults>>

(* ... then the resume, if one was rendered.                               *)
Attached(c) ==
    /\ cycle[c].pc = "attach"
    /\ Goto(c, "load")
    /\ UNCHANGED <<jobs, application, lastId, cards, delivered, notified, faults>>

PostingFailsBugMarks(c) ==
    /\ cycle[c].pc \in {"tailor", "send", "attach"}
    /\ Goto(c, "load")
    /\ Fault
    /\ UNCHANGED <<jobs, application, lastId, cards, delivered, notified>>

PostingFailsBugForgets(c) ==
    /\ cycle[c].pc \in {"tailor", "send", "attach"}
    /\ cycle' = [cycle EXCEPT ![c].at = None]
    /\ Fault
    /\ UNCHANGED <<jobs, application, lastId, cards, delivered, notified>>

(* Tailoring, the card or the attachment raises: the posting is given up   *)
(* for this cycle, and its row stays DISCOVERED.                           *)
PostingFails(c) ==
    /\ cycle[c].pc \in {"tailor", "send", "attach"}
    /\ NextPosting(c)
    /\ Fault
    /\ UNCHANGED <<jobs, application, lastId, cards, delivered, notified>>

(* set_status(PENDING_APPROVAL): select, then update if it differs.        *)
MarkLoad(c) ==
    /\ cycle[c].pc = "load"
    /\ cycle' = [cycle EXCEPT ![c].pc = "write",
                              ![c].loaded = StatusIn(c, cycle[c].at)]
    /\ UNCHANGED <<jobs, application, lastId, cards, delivered, notified, faults>>

MarkWrite(c) ==
    LET k == cycle[c].at
    IN /\ cycle[c].pc = "write"
       /\ \/ cycle[c].loaded = "pending_approval" /\ NextPosting(c)
          \/ /\ cycle[c].loaded # "pending_approval"
             /\ Free(c)
             /\ cycle' = [cycle EXCEPT ![c].pc = "next", ![c].at = None,
                                       ![c].loaded = "absent",
                                       ![c].marked = @ \cup {k}]
       /\ UNCHANGED <<jobs, application, lastId, cards, delivered, notified,
                      faults>>

CommitBugMarksOnly(c) ==
    /\ cycle[c].pc = "next"
    /\ cycle[c].todo = {}
    /\ jobs' = jobs \cup cycle[c].newJobs
    /\ application' = [k \in Pair |-> IF k \in cycle[c].marked \ cycle[c].inserted
                                      THEN [application[k] EXCEPT
                                              !.status = "pending_approval"]
                                      ELSE application[k]]
    /\ cycle' = [cycle EXCEPT ![c] = IdleCycle]
    /\ UNCHANGED <<lastId, cards, delivered, notified, faults>>

Commit(c) ==
    /\ cycle[c].pc = "next"
    /\ cycle[c].todo = {}
    /\ jobs' = jobs \cup cycle[c].newJobs
    /\ application' =
          [k \in Pair |->
             IF k \in cycle[c].inserted \cup cycle[c].marked
             THEN [status |-> StatusIn(c, k), id |-> IdIn(c, k)]
             ELSE application[k]]
    /\ cycle' = [cycle EXCEPT ![c] = IdleCycle]
    /\ UNCHANGED <<lastId, cards, delivered, notified, faults>>

(* PostgreSQL makes one of two cycles that wait for each other fail.  The  *)
(* failed insert undoes its savepoint and gives the posting up; a failed   *)
(* update undoes the whole cycle.                                          *)
DeadlockVictim(c) ==
    /\ \E d \in Cycle : Waits(c, d) /\ Waits(d, c)
    /\ IF cycle[c].pc = "write" THEN Goto(c, "doomed") ELSE NextPosting(c)
    /\ UNCHANGED <<jobs, application, lastId, cards, delivered, notified, faults>>

RollBackBugLeftOpen(c) ==
    /\ cycle' = [cycle EXCEPT ![c] = [IdleCycle EXCEPT
                    !.newJobs = cycle[c].newJobs, !.inserted = cycle[c].inserted,
                    !.marked = cycle[c].marked]]
    /\ UNCHANGED <<jobs, application, lastId, cards, delivered, notified>>

RollBack(c) ==
    /\ cycle' = [cycle EXCEPT ![c] = IdleCycle]
    /\ UNCHANGED <<jobs, application, lastId, cards, delivered, notified>>

Doomed(c) == cycle[c].pc = "doomed" /\ RollBack(c) /\ UNCHANGED faults

(* The process dies, or the connection does.                               *)
CycleLost(c) == cycle[c].pc # "idle" /\ RollBack(c) /\ Fault

(* The owner presses a button of a card.  An id no committed row has is    *)
(* answered with "no longer exists" and changes nothing.                   *)
Decided == {"approved", "skipped"}

Decide(card, decision) ==
    LET k == card.pair
    IN /\ card \in cards
       /\ application[k].id = card.id
       /\ \A c \in Cycle : k \notin cycle[c].marked
       /\ application' = IF application[k].status \in Decided THEN application
                         ELSE [application EXCEPT ![k].status = decision]
       /\ cards' = cards \ {card}
       /\ UNCHANGED <<jobs, cycle, lastId, delivered, notified, faults>>

Progress(c) ==
    \/ \E k \in Pair : Take(c, k)
    \/ JobGetOrCreate(c) \/ Lookup(c) \/ ApplicationGetOrCreate(c)
    \/ Tailored(c) \/ SendCard(c) \/ Attached(c) \/ MarkLoad(c) \/ MarkWrite(c)
    \/ Commit(c) \/ DeadlockVictim(c) \/ Doomed(c)

Next ==
    \/ \E c \in Cycle : \/ \E found \in SUBSET Pair : Start(c, found)
                        \/ Progress(c) \/ PostingFails(c) \/ CycleLost(c)
    \/ \E card \in cards, decision \in Decided : Decide(card, decision)

Spec == Init /\ [][Next]_discoveryVars

(* A cycle under way goes on, and a posting that stays listed is found     *)
(* again and again.                                                        *)
Fairness ==
    /\ \A c \in Cycle : WF_discoveryVars(Progress(c))
    /\ \E c \in Cycle : \A k \in Pair :
          SF_discoveryVars(\E found \in SUBSET Pair : k \in found /\ Start(c, found))

FairSpec == Spec /\ Fairness
-----------------------------------------------------------------------------
(* Every variable holds a value of its kind.                               *)
TypeOK ==
    /\ jobs \subseteq Posting
    /\ application \in [Pair -> [status: Status, id: Nat]]
    /\ cycle \in [Cycle -> CycleState]
    /\ \A c \in Cycle : cycle[c].pc \notin {"idle", "next"} => cycle[c].at \in Pair
    /\ lastId \in [Pair -> Nat]
    /\ cards \subseteq [pair: Pair, id: Nat, serial: Nat]
    /\ delivered \in [Pair -> SUBSET Nat]
    /\ notified \in [Pair -> Nat]
    /\ faults \in 0..MaxFaults

(* "Mark delivered only after a successful send": a row that awaits a      *)
(* decision has had a card delivered that names this very row, whatever    *)
(* was rolled back, inserted again or raced before.                        *)
PendingWasDelivered ==
    \A k \in Pair : application[k].status \notin {"absent", "discovered"}
                       => application[k].id \in delivered[k]

(* A card whose row does not exist is the trace of a cycle still under way *)
(* or of one that was rolled back (with one cycle at a time: by a failure).*)
DeadCardsHaveACause ==
    \A card \in cards :
       \/ application[card.pair].id = card.id
       \/ \E c \in Cycle : card.pair \in cycle[c].inserted
       \/ faults > 0

(* discovery.py:8-13 for one cycle at a time: an application is announced  *)
(* once more at most for every failure.                                    *)
RepeatsHaveACause == \A k \in Pair : notified[k] <= 1 + faults

(* discovery.py:10-11: once it reaches a decided state, later cycles skip  *)
(* it -- a cycle never takes a decision back.                              *)
DecisionsStand ==
    [][\A k \in Pair : application[k].status \in Decided
                          => application'[k].status = application[k].status]_discoveryVars

(* At-least-once delivery with retry: a posting that stays listed reaches  *)
(* the user, and every cycle ends, whatever waits for what.                *)
EventuallyDelivered == \A k \in Pair : <>(delivered[k] # {})

EveryCycleEnds == \A c \in Cycle : cycle[c].pc # "idle" ~> cycle[c].pc = "idle"
=============================================================================
