--------------------------- MODULE DiscoveryProofs ---------------------------
(***************************************************************************)
(* A row awaits a decision only after a card that names it was delivered:  *)
(* for any number of users, postings and cycles at once.                   *)
(*                                                                         *)
(* PendingWasDelivered is not inductive.  A cycle marks its rows long      *)
(* before it commits, so the invariant says it of marked rows too, under   *)
(* the id the cycle sees; and that id must not change under the cycle,     *)
(* which it does not because a row is inserted by one cycle at a time and  *)
(* only where none has been committed.                                     *)
(***************************************************************************)
EXTENDS Discovery, TLAPS

AtRow(c) == cycle[c].pc \in {"tailor", "send", "attach", "load", "write"}

AtDelivered(c) == cycle[c].pc \in {"attach", "load", "write"}

(* The row of k exists for cycle c, committed or in its own transaction.   *)
Exists(c, k) == k \in cycle[c].inserted \/ application[k].status # "absent"

(* What cycle c has inserted is nobody else's ...                          *)
InsertedAlone(c) ==
    \A k \in cycle[c].inserted :
       /\ application[k].status = "absent"
       /\ \A d \in Cycle \ {c} : k \notin cycle[d].inserted

(* ... and what it has marked, or is about to, has had its card.           *)
MarkedWasDelivered(c) ==
    \A k \in cycle[c].marked : Exists(c, k) /\ IdIn(c, k) \in delivered[k]

AtWasDelivered(c) ==
    LET k == cycle[c].at
    IN /\ AtRow(c) => Exists(c, k)
       /\ AtDelivered(c) => IdIn(c, k) \in delivered[k]

CycleInv(c) == InsertedAlone(c) /\ MarkedWasDelivered(c) /\ AtWasDelivered(c)

(* Rows have ids from 1 on, and cards carry ids that were delivered.       *)
IdsInv == /\ \A k \in Pair : application[k].status = "absent" <=> application[k].id = 0
          /\ \A c \in Cycle : \A k \in cycle[c].inserted : lastId[k] # 0

CardsInv ==
    \A card \in cards : card.id # 0 /\ card.id \in delivered[card.pair]

DeliveryInv == /\ PendingWasDelivered
               /\ IdsInv
               /\ CardsInv
               /\ \A c \in Cycle : CycleInv(c)
-----------------------------------------------------------------------------
(* TypeOK is inductive.                                                    *)
LEMMA InitTypes == ASSUME Init PROVE TypeOK
<1>1. application \in [Pair -> [status: Status, id: Nat]]
    BY DEF Init, Absent, Status
<1>2. lastId \in [Pair -> Nat] /\ delivered \in [Pair -> SUBSET Nat]
      /\ notified \in [Pair -> Nat]
    BY <1>1 DEF Init
<1>3. IdleCycle \in CycleState
    BY DEF IdleCycle, CycleState, Pc, Status
<1>4. cycle \in [Cycle -> CycleState]
      /\ \A c \in Cycle : cycle[c].pc = "idle"
    BY <1>3 DEF Init, IdleCycle
<1> QED  BY <1>1, <1>2, <1>4, DiscoveryAssumption DEF Init, TypeOK

(* The record of a cycle is one.                                           *)
LEMMA CycleIs ==
    ASSUME TypeOK, NEW c \in Cycle
    PROVE  cycle[c] \in CycleState
BY DEF TypeOK

(* A step of one cycle that leaves it well typed.                          *)
LEMMA CycleTypes ==
    ASSUME TypeOK, NEW c \in Cycle, NEW next \in CycleState,
           next.pc \notin {"idle", "next"} => next.at \in Pair,
           cycle' = [cycle EXCEPT ![c] = next]
    PROVE  /\ cycle' \in [Cycle -> CycleState]
           /\ \A d \in Cycle : cycle'[d].pc \notin {"idle", "next"} => cycle'[d].at \in Pair
BY DEF TypeOK

(* Going on to another statement or posting.                               *)
LEMMA GotoTypes ==
    ASSUME TypeOK, NEW c \in Cycle, NEW pc \in Pc, Goto(c, pc),
           cycle[c].pc \notin {"idle", "next"},
           UNCHANGED <<jobs, application>>
    PROVE  /\ cycle' \in [Cycle -> CycleState]
           /\ \A d \in Cycle : cycle'[d].pc \notin {"idle", "next"} => cycle'[d].at \in Pair
<1> DEFINE next == [cycle[c] EXCEPT !.pc = pc]
<1>1. next \in CycleState /\ next.at \in Pair
  <2>1. cycle[c].at \in Pair
      BY DEF TypeOK
  <2> QED  BY <2>1, CycleIs DEF CycleState
<1>2. cycle' = [cycle EXCEPT ![c] = next]
    BY DEF Goto
<1> QED  BY <1>1, <1>2, CycleTypes

(* A cycle between two postings is at none.                                *)
LEMMA NextPostingTypes ==
    ASSUME TypeOK, NEW c \in Cycle, NextPosting(c)
    PROVE  /\ cycle' \in [Cycle -> CycleState]
           /\ \A d \in Cycle : cycle'[d].pc \notin {"idle", "next"} => cycle'[d].at \in Pair
<1> DEFINE next == [cycle[c] EXCEPT !.pc = "next", !.at = None, !.loaded = "absent"]
<1>1. next \in CycleState /\ next.pc = "next"
    BY CycleIs DEF CycleState, Pc, Status
<1>2. cycle' = [cycle EXCEPT ![c] = next]
    BY DEF NextPosting
<1> HIDE DEF next
<1> QED  BY <1>1, <1>2, CycleTypes

(* A cycle that has ended is at none.                                      *)
LEMMA IdleTypes ==
    ASSUME TypeOK, NEW c \in Cycle, cycle' = [cycle EXCEPT ![c] = IdleCycle]
    PROVE  /\ cycle' \in [Cycle -> CycleState]
           /\ \A d \in Cycle : cycle'[d].pc \notin {"idle", "next"} => cycle'[d].at \in Pair
<1>1. IdleCycle \in CycleState /\ IdleCycle.pc = "idle"
    BY DEF IdleCycle, CycleState, Pc, Status
<1> QED  BY <1>1, CycleTypes

(* What a cycle sees of a row.                                             *)
LEMMA SeenTypes ==
    ASSUME TypeOK, NEW c \in Cycle, NEW k \in Pair
    PROVE  StatusIn(c, k) \in Status /\ IdIn(c, k) \in Nat
<1>1. application[k].status \in Status /\ application[k].id \in Nat /\ lastId[k] \in Nat
    BY DEF TypeOK
<1> QED  BY <1>1 DEF StatusIn, IdIn, Status

(* Failures are bounded.                                                   *)
LEMMA FaultTypes ==
    ASSUME TypeOK, Fault
    PROVE  faults' \in 0..MaxFaults
BY DiscoveryAssumption DEF TypeOK, Fault

(* A cycle starts with what was found.                                     *)
LEMMA StartTypes ==
    ASSUME TypeOK, NEW c \in Cycle, NEW found \in SUBSET Pair, Start(c, found)
    PROVE  TypeOK'
<1> DEFINE next == [cycle[c] EXCEPT !.pc = "next", !.todo = found]
<1>1. next \in CycleState /\ next.pc = "next"
    BY CycleIs DEF CycleState, Pc
<1>2. cycle' = [cycle EXCEPT ![c] = next]
    BY DEF Start
<1> HIDE DEF next
<1> QED  BY <1>1, <1>2, CycleTypes DEF Start, TypeOK

(* A posting is taken up.                                                  *)
LEMMA TakeTypes ==
    ASSUME TypeOK, NEW c \in Cycle, NEW k \in Pair, Take(c, k)
    PROVE  TypeOK'
<1> DEFINE next == [cycle[c] EXCEPT !.pc = "job", !.at = k, !.todo = @ \ {k}]
<1>1. next \in CycleState /\ next.at = k
    BY CycleIs DEF CycleState, Pc
<1>2. cycle' = [cycle EXCEPT ![c] = next]
    BY DEF Take
<1> HIDE DEF next
<1> QED  BY <1>1, <1>2, CycleTypes DEF Take, TypeOK

(* The row of `jobs` is found or inserted.                                 *)
LEMMA JobTypes ==
    ASSUME TypeOK, NEW c \in Cycle, JobGetOrCreate(c)
    PROVE  TypeOK'
<1> DEFINE p == cycle[c].at[2]
           next == [cycle[c] EXCEPT !.pc = "lookup",
                                    !.newJobs = IF p \in jobs THEN @ ELSE @ \cup {p}]
<1>1. cycle[c].at \in Pair /\ p \in Posting
    BY DEF TypeOK, JobGetOrCreate, Pair
<1>2. next \in CycleState /\ next.at \in Pair
    BY <1>1, CycleIs DEF CycleState, Pc
<1>3. cycle' = [cycle EXCEPT ![c] = next]
    BY DEF JobGetOrCreate
<1> HIDE DEF next
<1> QED  BY <1>2, <1>3, CycleTypes DEF JobGetOrCreate, TypeOK

(* The row of `applications` is found or inserted.                         *)
LEMMA CreateTypes ==
    ASSUME TypeOK, NEW c \in Cycle, ApplicationGetOrCreate(c)
    PROVE  TypeOK'
<1> DEFINE k == cycle[c].at
           next == [cycle[c] EXCEPT !.pc = "tailor", !.inserted = @ \cup {k}]
<1>1. k \in Pair
    BY DEF TypeOK, ApplicationGetOrCreate
<1>2. CASE StatusIn(c, k) = "absent"
    <2>1. next \in CycleState /\ next.at \in Pair
        BY <1>1, CycleIs DEF CycleState, Pc
    <2>2. cycle' = [cycle EXCEPT ![c] = next]
        BY <1>2 DEF ApplicationGetOrCreate
    <2>3. lastId' \in [Pair -> Nat]
        BY <1>1, <1>2 DEF TypeOK, ApplicationGetOrCreate
    <2> HIDE DEF next
    <2> QED  BY <2>1, <2>2, <2>3, CycleTypes DEF ApplicationGetOrCreate, TypeOK
<1>3. CASE StatusIn(c, k) # "absent"
    <2>1. Goto(c, "tailor") /\ UNCHANGED lastId
        BY <1>3 DEF ApplicationGetOrCreate
    <2> QED  BY <2>1, GotoTypes DEF ApplicationGetOrCreate, TypeOK, Pc
<1> QED  BY <1>2, <1>3

(* A card is sent for the row the cycle sees.                              *)
LEMMA SendTypes ==
    ASSUME TypeOK, NEW c \in Cycle, SendCard(c)
    PROVE  TypeOK'
<1> DEFINE k == cycle[c].at
<1>1. k \in Pair
    BY DEF TypeOK, SendCard
<1>2. IdIn(c, k) \in Nat
    BY <1>1, SeenTypes
<1>3. notified' \in [Pair -> Nat] /\ delivered' \in [Pair -> SUBSET Nat]
    BY <1>1, <1>2 DEF TypeOK, SendCard
<1>4. cards' \subseteq [pair: Pair, id: Nat, serial: Nat]
    BY <1>1, <1>2 DEF TypeOK, SendCard
<1>5. Goto(c, "attach") /\ UNCHANGED <<jobs, application, lastId, faults>>
    BY DEF SendCard
<1>6. "attach" \in Pc /\ cycle[c].pc \notin {"idle", "next"}
    BY DEF Pc, SendCard
<1>7. UNCHANGED <<jobs, application>>
    BY <1>5
<1> QED  BY <1>3, <1>4, <1>5, <1>6, <1>7, GotoTypes DEF TypeOK

(* The row is marked PENDING_APPROVAL.                                     *)
LEMMA MarkTypes ==
    ASSUME TypeOK, NEW c \in Cycle, MarkLoad(c) \/ MarkWrite(c)
    PROVE  TypeOK'
<1> DEFINE k == cycle[c].at
<1>1. k \in Pair /\ StatusIn(c, k) \in Status
    BY SeenTypes DEF TypeOK, MarkLoad, MarkWrite
<1>2. CASE MarkLoad(c)
    <2> DEFINE next == [cycle[c] EXCEPT !.pc = "write", !.loaded = StatusIn(c, k)]
    <2>1. next \in CycleState /\ next.at \in Pair
        BY <1>1, CycleIs DEF CycleState, Pc
    <2>2. cycle' = [cycle EXCEPT ![c] = next]
        BY <1>2 DEF MarkLoad
    <2> HIDE DEF next
    <2> QED  BY <1>2, <2>1, <2>2, CycleTypes DEF MarkLoad, TypeOK
<1>3. CASE MarkWrite(c) /\ NextPosting(c)
    BY <1>3, NextPostingTypes DEF MarkWrite, TypeOK
<1>4. CASE MarkWrite(c) /\ ~ NextPosting(c)
    <2> DEFINE next == [cycle[c] EXCEPT !.pc = "next", !.at = None,
                                        !.loaded = "absent", !.marked = @ \cup {k}]
    <2>1. next \in CycleState /\ next.pc = "next"
        BY <1>1, CycleIs DEF CycleState, Pc, Status
    <2>2. cycle' = [cycle EXCEPT ![c] = next]
        BY <1>4 DEF MarkWrite
    <2> HIDE DEF next
    <2> QED  BY <1>4, <2>1, <2>2, CycleTypes DEF MarkWrite, TypeOK
<1> QED  BY <1>2, <1>3, <1>4

(* The transaction becomes visible.                                        *)
LEMMA CommitTypes ==
    ASSUME TypeOK, NEW c \in Cycle, Commit(c)
    PROVE  TypeOK'
<1>1. application' \in [Pair -> [status: Status, id: Nat]]
    <2> SUFFICES ASSUME NEW k \in Pair
                 PROVE  /\ application[k] \in [status: Status, id: Nat]
                        /\ [status |-> StatusIn(c, k), id |-> IdIn(c, k)]
                              \in [status: Status, id: Nat]
        BY DEF Commit
    <2> QED  BY SeenTypes DEF TypeOK
<1>2. jobs' \subseteq Posting
    BY DEF TypeOK, CycleState, Commit
<1> QED  BY <1>1, <1>2, IdleTypes DEF Commit, TypeOK

(* A press decides on a committed row.                                     *)
LEMMA DecideTypes ==
    ASSUME TypeOK, NEW card \in cards, NEW decision \in Decided, Decide(card, decision)
    PROVE  TypeOK'
<1>1. card.pair \in Pair
    BY DEF TypeOK
<1>2. application' \in [Pair -> [status: Status, id: Nat]]
    BY <1>1 DEF TypeOK, Decide, Decided, Status
<1> QED  BY <1>2 DEF TypeOK, Decide

(* Steps that only go on to another statement or posting.                  *)
LEMMA SmallStepTypes ==
    ASSUME TypeOK, NEW c \in Cycle,
           \/ Lookup(c) \/ Tailored(c) \/ Attached(c) \/ PostingFails(c)
           \/ DeadlockVictim(c)
    PROVE  TypeOK'
<1>1. cycle[c].pc \notin {"idle", "next"} /\ UNCHANGED <<jobs, application>>
    BY DEF Lookup, Tailored, Attached, PostingFails, DeadlockVictim, Waits
<1>2. (\E pc \in Pc : Goto(c, pc)) \/ NextPosting(c)
    BY DEF Lookup, Tailored, Attached, PostingFails, DeadlockVictim, Pc
<1>3. faults' \in 0..MaxFaults
    BY FaultTypes DEF TypeOK, Lookup, Tailored, Attached, PostingFails, DeadlockVictim
<1>4. UNCHANGED <<jobs, application, lastId, cards, delivered, notified>>
    BY DEF Lookup, Tailored, Attached, PostingFails, DeadlockVictim
<1> QED  BY <1>1, <1>2, <1>3, <1>4, GotoTypes, NextPostingTypes DEF TypeOK

(* The transaction is undone.                                              *)
LEMMA RollBackTypes ==
    ASSUME TypeOK, NEW c \in Cycle, Doomed(c) \/ CycleLost(c)
    PROVE  TypeOK'
<1>1. RollBack(c) /\ faults' \in 0..MaxFaults
    BY FaultTypes DEF Doomed, CycleLost, TypeOK
<1> QED  BY <1>1, IdleTypes DEF RollBack, TypeOK

(* TypeOK is inductive.                                                    *)
LEMMA NextTypes == ASSUME TypeOK, [Next]_discoveryVars PROVE TypeOK'
<1>1. CASE UNCHANGED discoveryVars
    BY <1>1 DEF TypeOK, discoveryVars
<1>2. CASE Next
    BY <1>2, StartTypes, TakeTypes, JobTypes, CreateTypes, SendTypes, MarkTypes,
       CommitTypes, DecideTypes, SmallStepTypes, RollBackTypes DEF Next, Progress
<1> QED  BY <1>1, <1>2

(* Every reachable state of the discovery cycles is well typed.            *)
THEOREM DiscoveryTypeCorrect == Spec => []TypeOK
<1>1. Init => TypeOK
    BY InitTypes
<1>2. TypeOK /\ [Next]_discoveryVars => TypeOK'
    BY NextTypes
<1> QED  BY <1>1, <1>2, PTL DEF Spec
-----------------------------------------------------------------------------
(* DeliveryInv holds at the beginning: nothing is inserted, nothing marked, *)
(* and what rows there are were left DISCOVERED.                           *)
LEMMA InitDelivery == ASSUME Init PROVE DeliveryInv
<1>1. \A c \in Cycle : cycle[c] = IdleCycle
    BY DEF Init
<1>2. \A k \in Pair : \/ application[k] = Absent
                      \/ application[k] = [status |-> "discovered", id |-> 1]
    BY DEF Init
<1>3. PendingWasDelivered
    BY <1>2 DEF PendingWasDelivered, Absent
<1>4. IdsInv /\ CardsInv
    BY <1>1, <1>2 DEF IdsInv, CardsInv, Absent, IdleCycle, Init
<1>5. \A c \in Cycle : CycleInv(c)
    BY <1>1 DEF CycleInv, InsertedAlone, MarkedWasDelivered, AtWasDelivered,
        AtRow, AtDelivered, IdleCycle
<1> QED  BY <1>3, <1>4, <1>5 DEF DeliveryInv

(* Deliveries are not forgotten.                                           *)
DeliveriesStay == \A k \in Pair : delivered[k] \subseteq delivered'[k]

(* What cycle d sees of the rows that exist for it does not change.        *)
SeesTheSame(d) ==
    /\ \A k \in cycle[d].inserted :
          /\ lastId'[k] = lastId[k]
          /\ application'[k].status = "absent"
          /\ \A e \in Cycle \ {d} : k \notin cycle'[e].inserted
    /\ \A k \in Pair \ cycle[d].inserted :
          application[k].status # "absent" =>
             /\ application'[k].status # "absent"
             /\ application'[k].id = application[k].id

(* Then what held for it, holds on.                                        *)
LEMMA OtherCycleKeeps ==
    ASSUME TypeOK, NEW d \in Cycle, CycleInv(d), cycle'[d] = cycle[d],
           DeliveriesStay, SeesTheSame(d)
    PROVE  CycleInv(d)'
<1>1. /\ cycle[d].marked \subseteq Pair
      /\ AtRow(d) \/ AtDelivered(d) => cycle[d].at \in Pair
    BY DEF TypeOK, CycleState, AtRow, AtDelivered
<1>2. InsertedAlone(d)'
    BY DEF InsertedAlone, SeesTheSame
<1>3. ASSUME NEW k \in Pair, Exists(d, k)
      PROVE  Exists(d, k)' /\ IdIn(d, k)' = IdIn(d, k)
    BY <1>3 DEF Exists, IdIn, SeesTheSame
<1>4. MarkedWasDelivered(d)'
    BY <1>1, <1>3 DEF CycleInv, MarkedWasDelivered, DeliveriesStay
<1>5. AtWasDelivered(d)'
    <2>1. AtRow(d)' = AtRow(d) /\ AtDelivered(d)' = AtDelivered(d)
        BY DEF AtRow, AtDelivered
    <2>2. AtDelivered(d) => AtRow(d)
        BY DEF AtRow, AtDelivered
    <2> QED  BY <1>1, <1>3, <2>1, <2>2 DEF CycleInv, AtWasDelivered, DeliveriesStay
<1> QED  BY <1>2, <1>4, <1>5 DEF CycleInv

(* A step of cycle c that writes no row and inserts none.  It may mark the *)
(* row it is at once the card is out.                                      *)
LEMMA QuietStep ==
    ASSUME TypeOK, DeliveryInv, NEW c \in Cycle,
           \A d \in Cycle \ {c} : cycle'[d] = cycle[d],
           UNCHANGED <<application, lastId>>,
           cycle'[c].inserted = cycle[c].inserted,
           \A k \in cycle'[c].marked :
              k \in cycle[c].marked \/ (k = cycle[c].at /\ AtDelivered(c)),
           AtWasDelivered(c)',
           DeliveriesStay,
           CardsInv'
    PROVE  DeliveryInv'
<1>1. PendingWasDelivered'
    BY DEF DeliveryInv, PendingWasDelivered, DeliveriesStay
<1>2. IdsInv'
    BY DEF DeliveryInv, IdsInv
<1>3. \A d \in Cycle : SeesTheSame(d)
    BY DEF DeliveryInv, CycleInv, InsertedAlone, SeesTheSame
<1>4. \A d \in Cycle \ {c} : CycleInv(d)'
    BY <1>3, OtherCycleKeeps DEF DeliveryInv
<1>5. InsertedAlone(c)'
    BY DEF DeliveryInv, CycleInv, InsertedAlone
<1>6. MarkedWasDelivered(c)'
    <2> SUFFICES ASSUME NEW k \in cycle'[c].marked
                 PROVE  Exists(c, k)' /\ IdIn(c, k)' \in delivered'[k]
        BY DEF MarkedWasDelivered
    <2>1. Exists(c, k)' = Exists(c, k) /\ IdIn(c, k)' = IdIn(c, k)
        BY DEF Exists, IdIn
    <2>2. Exists(c, k) /\ IdIn(c, k) \in delivered[k] /\ k \in Pair
        BY DEF DeliveryInv, CycleInv, MarkedWasDelivered, AtWasDelivered, AtDelivered,
            AtRow, TypeOK, CycleState
    <2> QED  BY <2>1, <2>2 DEF DeliveriesStay
<1> QED  BY <1>1, <1>2, <1>4, <1>5, <1>6 DEF DeliveryInv, CycleInv

(* Where the cycle is at no row, or still without a card, there is nothing *)
(* to show of it.                                                          *)
LEMMA GotoDelivery ==
    ASSUME TypeOK, DeliveryInv, NEW c \in Cycle, NEW pc, Goto(c, pc),
           UNCHANGED <<application, lastId, cards, delivered>>,
           AtRow(c)' => AtRow(c),
           AtDelivered(c)' => AtDelivered(c)
    PROVE  DeliveryInv'
<1>1. /\ \A d \in Cycle \ {c} : cycle'[d] = cycle[d]
      /\ cycle'[c] = [cycle[c] EXCEPT !.pc = pc]
    BY DEF TypeOK, Goto
<1>2. /\ cycle'[c].inserted = cycle[c].inserted
      /\ cycle'[c].marked = cycle[c].marked
      /\ cycle'[c].at = cycle[c].at
    BY <1>1 DEF TypeOK, CycleState
<1>3. AtWasDelivered(c)'
    BY <1>2 DEF DeliveryInv, CycleInv, AtWasDelivered, Exists, IdIn
<1>4. DeliveriesStay /\ CardsInv'
    BY DEF DeliveriesStay, DeliveryInv, CardsInv
<1> QED  BY <1>1, <1>2, <1>3, <1>4, QuietStep

(* Going on to the next posting forgets nothing that was inserted or       *)
(* marked.                                                                 *)
LEMMA NextPostingDelivery ==
    ASSUME TypeOK, DeliveryInv, NEW c \in Cycle, NextPosting(c),
           UNCHANGED <<application, lastId, cards, delivered>>
    PROVE  DeliveryInv'
<1> DEFINE next == [cycle[c] EXCEPT !.pc = "next", !.at = None, !.loaded = "absent"]
<1>1. /\ \A d \in Cycle \ {c} : cycle'[d] = cycle[d]
      /\ cycle'[c] = next
    BY DEF TypeOK, NextPosting
<1>2. /\ cycle'[c].inserted = cycle[c].inserted
      /\ cycle'[c].marked = cycle[c].marked
      /\ cycle'[c].pc = "next"
    BY <1>1 DEF TypeOK, CycleState
<1>3. AtWasDelivered(c)'
    BY <1>2 DEF AtWasDelivered, AtRow, AtDelivered
<1>4. DeliveriesStay /\ CardsInv'
    BY DEF DeliveriesStay, DeliveryInv, CardsInv
<1> QED  BY <1>1, <1>2, <1>3, <1>4, QuietStep
-----------------------------------------------------------------------------
(* The steps to a row.                                                     *)
LEMMA ApproachDelivery ==
    ASSUME TypeOK, DeliveryInv, NEW c \in Cycle,
           \/ \E found \in SUBSET Pair : Start(c, found)
           \/ \E k \in Pair : Take(c, k)
           \/ JobGetOrCreate(c)
    PROVE  DeliveryInv'
<1>1. /\ \A d \in Cycle \ {c} : cycle'[d] = cycle[d]
      /\ cycle'[c].inserted = cycle[c].inserted
      /\ cycle'[c].marked = cycle[c].marked
      /\ cycle'[c].pc \in {"next", "job", "lookup"}
    <2>0. cycle \in [Cycle -> CycleState]
        BY DEF TypeOK
    <2>1. CASE \E found \in SUBSET Pair : Start(c, found)
        <3>1. PICK found \in SUBSET Pair :
                 cycle' = [cycle EXCEPT ![c].pc = "next", ![c].todo = found]
            BY <2>1 DEF Start
        <3> QED  BY <2>0, <3>1 DEF CycleState
    <2>2. CASE \E k \in Pair : Take(c, k)
        <3>1. PICK k \in Pair :
                 cycle' = [cycle EXCEPT ![c].pc = "job", ![c].at = k, ![c].todo = @ \ {k}]
            BY <2>2 DEF Take
        <3> QED  BY <2>0, <3>1 DEF CycleState
    <2>3. CASE JobGetOrCreate(c)
        BY <2>0, <2>3 DEF JobGetOrCreate, CycleState
    <2> QED  BY <2>1, <2>2, <2>3
<1>2. UNCHANGED <<application, lastId, cards, delivered>>
    BY DEF Start, Take, JobGetOrCreate
<1>3. AtWasDelivered(c)'
    BY <1>1 DEF AtWasDelivered, AtRow, AtDelivered
<1>4. DeliveriesStay /\ CardsInv'
    BY <1>2 DEF DeliveriesStay, DeliveryInv, CardsInv
<1> QED  BY <1>1, <1>2, <1>3, <1>4, QuietStep

(* A new row: no other cycle has inserted it, and none is committed, so    *)
(* nobody has marked it either.                                            *)
LEMMA CreateDelivery ==
    ASSUME TypeOK, DeliveryInv, NEW c \in Cycle, ApplicationGetOrCreate(c)
    PROVE  DeliveryInv'
<1> DEFINE k == cycle[c].at
<1>0. k \in Pair /\ cycle \in [Cycle -> CycleState] /\ lastId \in [Pair -> Nat]
    BY DEF TypeOK, ApplicationGetOrCreate
<1>1. CASE StatusIn(c, k) # "absent"
    <2>1. Goto(c, "tailor") /\ UNCHANGED <<application, lastId, cards, delivered>>
        BY <1>1 DEF ApplicationGetOrCreate
    <2>2. Exists(c, k)
        BY <1>1 DEF StatusIn, Exists, DeliveryInv, CycleInv, MarkedWasDelivered
    <2>3. /\ \A d \in Cycle \ {c} : cycle'[d] = cycle[d]
          /\ cycle'[c].inserted = cycle[c].inserted
          /\ cycle'[c].marked = cycle[c].marked
          /\ cycle'[c].at = k /\ cycle'[c].pc = "tailor"
        BY <1>0, <2>1 DEF Goto, CycleState
    <2>4. AtWasDelivered(c)'
        BY <2>1, <2>2, <2>3 DEF AtWasDelivered, AtDelivered, Exists
    <2>5. DeliveriesStay /\ CardsInv'
        BY <2>1 DEF DeliveriesStay, DeliveryInv, CardsInv
    <2> QED  BY <2>1, <2>3, <2>4, <2>5, QuietStep
<1>2. CASE StatusIn(c, k) = "absent"
    <2>1. /\ k \notin cycle[c].inserted /\ k \notin cycle[c].marked
          /\ application[k].status = "absent"
        BY <1>2 DEF StatusIn
    <2>2. /\ UNCHANGED <<application, cards, delivered>>
          /\ lastId' = [lastId EXCEPT ![k] = @ + 1]
          /\ \A d \in Cycle \ {c} : cycle'[d] = cycle[d]
          /\ cycle'[c].inserted = cycle[c].inserted \cup {k}
          /\ cycle'[c].marked = cycle[c].marked
          /\ cycle'[c].at = k /\ cycle'[c].pc = "tailor"
        BY <1>0, <1>2 DEF ApplicationGetOrCreate, CycleState
    <2>3. \A d \in Cycle \ {c} : k \notin cycle[d].inserted
        BY DEF ApplicationGetOrCreate, Free, Waits
    <2>4. /\ lastId'[k] # 0
          /\ \A j \in Pair \ {k} : lastId'[j] = lastId[j]
        BY <1>0, <2>2
    <2>5. \A d \in Cycle : cycle[d].inserted \subseteq Pair /\ cycle[d].marked \subseteq Pair
        BY DEF TypeOK, CycleState
    <2>6. PendingWasDelivered'
        BY <2>2 DEF DeliveryInv, PendingWasDelivered
    <2>7. IdsInv' /\ CardsInv'
        <3>1. ASSUME NEW d \in Cycle, NEW j \in cycle'[d].inserted PROVE lastId'[j] # 0
            BY <2>2, <2>4, <2>5 DEF DeliveryInv, IdsInv
        <3>2. CardsInv'
            BY <2>2 DEF DeliveryInv, CardsInv
        <3> QED  BY <2>2, <3>1, <3>2 DEF DeliveryInv, IdsInv
    <2>8. ASSUME NEW d \in Cycle \ {c} PROVE CycleInv(d)'
        <3>1. DeliveriesStay
            BY <2>2 DEF DeliveriesStay
        <3>2. SeesTheSame(d)
            BY <2>2, <2>3, <2>4, <2>5 DEF SeesTheSame, DeliveryInv, CycleInv, InsertedAlone
        <3> QED  BY <2>2, <3>1, <3>2, OtherCycleKeeps DEF DeliveryInv
    <2>9. CycleInv(c)'
        <3>1. InsertedAlone(c)'
            BY <2>1, <2>2, <2>3 DEF DeliveryInv, CycleInv, InsertedAlone
        <3>2. ASSUME NEW j \in cycle[c].marked
              PROVE  Exists(c, j)' /\ IdIn(c, j)' = IdIn(c, j)
            BY <2>1, <2>2, <2>4, <2>5
               DEF Exists, IdIn, DeliveryInv, CycleInv, MarkedWasDelivered
        <3>3. MarkedWasDelivered(c)'
            BY <2>2, <3>2 DEF DeliveryInv, CycleInv, MarkedWasDelivered
        <3>4. AtWasDelivered(c)'
            BY <2>2 DEF AtWasDelivered, AtDelivered, Exists
        <3> QED  BY <3>1, <3>3, <3>4 DEF CycleInv
    <2> QED  BY <2>6, <2>7, <2>8, <2>9 DEF DeliveryInv
<1> QED  BY <1>1, <1>2

(* The card carries the id that the cycle sees.                            *)
LEMMA SendDelivery ==
    ASSUME TypeOK, DeliveryInv, NEW c \in Cycle, SendCard(c)
    PROVE  DeliveryInv'
<1> DEFINE k == cycle[c].at
<1>0. k \in Pair /\ cycle \in [Cycle -> CycleState] /\ delivered \in [Pair -> SUBSET Nat]
    BY DEF TypeOK, SendCard
<1>1. /\ UNCHANGED <<application, lastId>>
      /\ \A d \in Cycle \ {c} : cycle'[d] = cycle[d]
      /\ cycle'[c].inserted = cycle[c].inserted
      /\ cycle'[c].marked = cycle[c].marked
      /\ cycle'[c].at = k /\ cycle'[c].pc = "attach"
    BY <1>0 DEF SendCard, Goto, CycleState
<1>2. Exists(c, k)
    BY DEF SendCard, DeliveryInv, CycleInv, AtWasDelivered, AtRow
<1>3. IdIn(c, k) # 0
    BY <1>0, <1>2 DEF Exists, IdIn, DeliveryInv, IdsInv
<1>4. DeliveriesStay /\ IdIn(c, k) \in delivered'[k]
    BY <1>0 DEF SendCard, DeliveriesStay
<1>5. CardsInv'
    <2>1. cards' = cards \cup {[pair |-> k, id |-> IdIn(c, k), serial |-> notified[k] + 1]}
        BY DEF SendCard
    <2>2. \A card \in cards : card.pair \in Pair
        BY DEF TypeOK
    <2> QED  BY <1>3, <1>4, <2>1, <2>2 DEF CardsInv, DeliveriesStay, DeliveryInv
<1>6. AtWasDelivered(c)'
    BY <1>1, <1>2, <1>4 DEF AtWasDelivered, Exists, IdIn
<1> QED  BY <1>1, <1>4, <1>5, <1>6, QuietStep

(* A row is marked after its card was delivered, under the same id.        *)
LEMMA MarkDelivery ==
    ASSUME TypeOK, DeliveryInv, NEW c \in Cycle, MarkLoad(c) \/ MarkWrite(c)
    PROVE  DeliveryInv'
<1>0. /\ cycle \in [Cycle -> CycleState]
      /\ AtDelivered(c)
      /\ UNCHANGED <<application, lastId, cards, delivered>>
    BY DEF TypeOK, MarkLoad, MarkWrite, AtDelivered
<1>1. /\ \A d \in Cycle \ {c} : cycle'[d] = cycle[d]
      /\ cycle'[c].inserted = cycle[c].inserted
      /\ cycle'[c].marked \subseteq cycle[c].marked \cup {cycle[c].at}
      /\ \/ cycle'[c].pc = "next"
         \/ cycle'[c].pc = "write" /\ cycle'[c].at = cycle[c].at
    <2>1. CASE MarkLoad(c)
        BY <1>0, <2>1 DEF MarkLoad, CycleState
    <2>2. CASE MarkWrite(c) /\ NextPosting(c)
        BY <1>0, <2>2 DEF NextPosting, CycleState
    <2>3. CASE MarkWrite(c) /\ ~ NextPosting(c)
        BY <1>0, <2>3 DEF MarkWrite, CycleState
    <2> QED  BY <2>1, <2>2, <2>3
<1>2. AtWasDelivered(c)'
    BY <1>0, <1>1
       DEF AtWasDelivered, AtRow, AtDelivered, Exists, IdIn, DeliveryInv, CycleInv
<1>3. DeliveriesStay /\ CardsInv'
    BY <1>0 DEF DeliveriesStay, DeliveryInv, CardsInv
<1> QED  BY <1>0, <1>1, <1>2, <1>3, QuietStep

(* What is committed was the cycle's alone, or keeps its id.               *)
LEMMA CommitDelivery ==
    ASSUME TypeOK, DeliveryInv, NEW c \in Cycle, Commit(c)
    PROVE  DeliveryInv'
<1> DEFINE written == cycle[c].inserted \cup cycle[c].marked
<1>0. /\ \A d \in Cycle \ {c} : cycle'[d] = cycle[d]
      /\ cycle'[c] = IdleCycle
      /\ UNCHANGED <<lastId, cards, delivered>>
    BY DEF TypeOK, Commit
<1>1. \A k \in Pair : application'[k] =
         IF k \in written THEN [status |-> StatusIn(c, k), id |-> IdIn(c, k)]
         ELSE application[k]
    BY DEF Commit
<1>2. ASSUME NEW k \in Pair, k \in written
      PROVE  /\ application'[k].status \in {"pending_approval", "discovered"}
             /\ application'[k].status = "pending_approval" => k \in cycle[c].marked
             /\ application'[k].id = IdIn(c, k)
             /\ IdIn(c, k) # 0
    <2>1. /\ application'[k].status = StatusIn(c, k)
          /\ application'[k].id = IdIn(c, k)
        <3>1. application'[k] = [status |-> StatusIn(c, k), id |-> IdIn(c, k)]
            BY <1>1, <1>2, Zenon
        <3> QED  BY <3>1
    <2>2. /\ StatusIn(c, k) \in {"pending_approval", "discovered"}
          /\ StatusIn(c, k) = "pending_approval" => k \in cycle[c].marked
        BY <1>2 DEF StatusIn
    <2>3. Exists(c, k)
        BY <1>2 DEF DeliveryInv, CycleInv, MarkedWasDelivered, Exists
    <2>4. IdIn(c, k) # 0
        BY <2>3 DEF Exists, IdIn, DeliveryInv, IdsInv
    <2> QED  BY <2>1, <2>2, <2>4
<1>3. PendingWasDelivered'
    <2> SUFFICES ASSUME NEW k \in Pair,
                        application'[k].status \notin {"absent", "discovered"}
                 PROVE  application'[k].id \in delivered[k]
        BY <1>0 DEF PendingWasDelivered
    <2>1. CASE k \in written
        BY <1>2, <2>1 DEF DeliveryInv, CycleInv, MarkedWasDelivered
    <2>2. CASE k \notin written
        BY <1>1, <2>2 DEF DeliveryInv, PendingWasDelivered
    <2> QED  BY <2>1, <2>2
<1>4. IdsInv'
    <2>1. ASSUME NEW k \in Pair
          PROVE  application'[k].status = "absent" <=> application'[k].id = 0
        <3>1. CASE k \in written
            BY <1>2, <3>1
        <3>2. CASE k \notin written
            BY <1>1, <3>2 DEF DeliveryInv, IdsInv
        <3> QED  BY <3>1, <3>2
    <2>2. \A d \in Cycle : cycle'[d].inserted \subseteq cycle[d].inserted
        BY <1>0 DEF IdleCycle
    <2> QED  BY <1>0, <2>1, <2>2 DEF DeliveryInv, IdsInv
<1>5. CardsInv'
    BY <1>0 DEF DeliveryInv, CardsInv
<1>6. ASSUME NEW d \in Cycle \ {c} PROVE CycleInv(d)'
    <2>1. ASSUME NEW k \in cycle[d].inserted
          PROVE  k \in Pair /\ application'[k].status = "absent"
        <3>1. k \in Pair
            BY DEF TypeOK, CycleState
        <3>2. k \notin written
            BY DEF DeliveryInv, CycleInv, InsertedAlone, MarkedWasDelivered, Exists
        <3>3. application[k].status = "absent"
            BY DEF DeliveryInv, CycleInv, InsertedAlone
        <3> QED  BY <1>1, <3>1, <3>2, <3>3
    <2>2. ASSUME NEW k \in Pair, application[k].status # "absent"
          PROVE  /\ application'[k].status # "absent"
                 /\ application'[k].id = application[k].id
        <3>1. k \notin cycle[c].inserted
            BY <2>2 DEF DeliveryInv, CycleInv, InsertedAlone
        <3>2. IdIn(c, k) = application[k].id
            BY <3>1 DEF IdIn
        <3>3. CASE k \in written
            BY <1>2, <3>2, <3>3
        <3>4. CASE k \notin written
            BY <1>1, <2>2, <3>4
        <3> QED  BY <3>3, <3>4
    <2>3. \A k \in cycle[d].inserted : \A e \in Cycle \ {d} : k \notin cycle'[e].inserted
        BY <1>0 DEF IdleCycle, DeliveryInv, CycleInv, InsertedAlone
    <2>4. SeesTheSame(d)
        BY <1>0, <2>1, <2>2, <2>3 DEF SeesTheSame
    <2>5. DeliveriesStay
        BY <1>0 DEF DeliveriesStay
    <2> QED  BY <1>0, <2>4, <2>5, OtherCycleKeeps DEF DeliveryInv
<1>7. CycleInv(c)'
    BY <1>0 DEF CycleInv, InsertedAlone, MarkedWasDelivered, AtWasDelivered,
        AtRow, AtDelivered, IdleCycle
<1> QED  BY <1>3, <1>4, <1>5, <1>6, <1>7 DEF DeliveryInv

(* A button of a card whose row is there.                                  *)
LEMMA DecideDelivery ==
    ASSUME TypeOK, DeliveryInv, NEW card \in cards, NEW decision \in Decided,
           Decide(card, decision)
    PROVE  DeliveryInv'
<1> DEFINE k == card.pair
<1>0. /\ k \in Pair
      /\ UNCHANGED <<cycle, lastId, delivered>>
      /\ cards' \subseteq cards
    BY DEF TypeOK, Decide
<1>1. /\ application[k].id = card.id
      /\ card.id # 0 /\ card.id \in delivered[k]
    BY DEF Decide, DeliveryInv, CardsInv
<1>2. /\ \A j \in Pair : application'[j].id = application[j].id
      /\ \A j \in Pair \ {k} : application'[j] = application[j]
      /\ application'[k].status \in Decided
    <2>1. CASE application[k].status \in Decided
        BY <2>1 DEF Decide
    <2>2. CASE application[k].status \notin Decided
        <3>1. application' = [application EXCEPT ![k].status = decision]
            BY <2>2 DEF Decide
        <3>2. application \in [Pair -> [status: Status, id: Nat]]
            BY DEF TypeOK
        <3> QED  BY <1>0, <3>1, <3>2
    <2> QED  BY <2>1, <2>2
<1>3. PendingWasDelivered'
    BY <1>0, <1>1, <1>2 DEF DeliveryInv, PendingWasDelivered
<1>4. IdsInv'
    BY <1>0, <1>1, <1>2 DEF DeliveryInv, IdsInv, Decided
<1>5. CardsInv'
    BY <1>0 DEF DeliveryInv, CardsInv
<1>6. ASSUME NEW d \in Cycle PROVE CycleInv(d)'
    <2>1. application[k].status # "absent"
        BY <1>0, <1>1 DEF DeliveryInv, IdsInv
    <2>2. cycle[d].inserted \subseteq Pair
        BY DEF TypeOK, CycleState
    <2>3. SeesTheSame(d)
        BY <1>0, <1>2, <2>1, <2>2
           DEF SeesTheSame, DeliveryInv, CycleInv, InsertedAlone, Decided
    <2>4. DeliveriesStay
        BY <1>0 DEF DeliveriesStay
    <2> QED  BY <1>0, <2>3, <2>4, OtherCycleKeeps DEF DeliveryInv
<1> QED  BY <1>3, <1>4, <1>5, <1>6 DEF DeliveryInv

(* A transaction that is rolled back takes along what it inserted and      *)
(* marked.                                                                 *)
LEMMA RollBackDelivery ==
    ASSUME TypeOK, DeliveryInv, NEW c \in Cycle, Doomed(c) \/ CycleLost(c)
    PROVE  DeliveryInv'
<1>1. /\ \A d \in Cycle \ {c} : cycle'[d] = cycle[d]
      /\ cycle'[c] = IdleCycle
      /\ UNCHANGED <<application, lastId, cards, delivered>>
    BY DEF TypeOK, Doomed, CycleLost, RollBack
<1>2. \A d \in Cycle : cycle'[d].inserted \subseteq cycle[d].inserted
    BY <1>1 DEF IdleCycle
<1>3. PendingWasDelivered' /\ IdsInv' /\ CardsInv' /\ DeliveriesStay
    BY <1>1, <1>2 DEF DeliveryInv, PendingWasDelivered, IdsInv, CardsInv, DeliveriesStay
<1>4. ASSUME NEW d \in Cycle \ {c} PROVE CycleInv(d)'
    <2>1. SeesTheSame(d)
        BY <1>1, <1>2 DEF SeesTheSame, DeliveryInv, CycleInv, InsertedAlone
    <2> QED  BY <1>1, <1>3, <2>1, OtherCycleKeeps DEF DeliveryInv
<1>5. CycleInv(c)'
    BY <1>1 DEF CycleInv, InsertedAlone, MarkedWasDelivered, AtWasDelivered,
        AtRow, AtDelivered, IdleCycle
<1> QED  BY <1>3, <1>4, <1>5 DEF DeliveryInv

(* Steps that write nothing the invariant speaks of.                       *)
LEMMA SmallStepDelivery ==
    ASSUME TypeOK, DeliveryInv, NEW c \in Cycle,
           \/ Lookup(c) \/ Tailored(c) \/ Attached(c) \/ PostingFails(c)
           \/ DeadlockVictim(c)
    PROVE  DeliveryInv'
<1>1. UNCHANGED <<application, lastId, cards, delivered>>
    BY DEF Lookup, Tailored, Attached, PostingFails, DeadlockVictim
<1>2. CASE NextPosting(c)
    BY <1>1, <1>2, NextPostingDelivery
<1>3. CASE ~ NextPosting(c)
    <2>1. PICK pc :
             /\ Goto(c, pc)
             /\ \/ pc \in {"create", "doomed"}
                \/ pc = "send" /\ cycle[c].pc = "tailor"
                \/ pc = "load" /\ cycle[c].pc = "attach"
        BY <1>3 DEF Lookup, Tailored, Attached, PostingFails, DeadlockVictim
    <2>2. cycle'[c].pc = pc
        BY <2>1 DEF Goto, TypeOK, CycleState
    <2>3. (AtRow(c)' => AtRow(c)) /\ (AtDelivered(c)' => AtDelivered(c))
        BY <2>1, <2>2 DEF AtRow, AtDelivered
    <2> QED  BY <1>1, <2>1, <2>3, GotoDelivery
<1> QED  BY <1>2, <1>3

(* DeliveryInv is inductive, given the types.                              *)
LEMMA NextDelivery ==
    ASSUME TypeOK, DeliveryInv, [Next]_discoveryVars
    PROVE  DeliveryInv'
<1>1. CASE UNCHANGED discoveryVars
    <2>1. \A d \in Cycle : SeesTheSame(d)
        BY <1>1 DEF discoveryVars, SeesTheSame, DeliveryInv, CycleInv, InsertedAlone
    <2>2. DeliveriesStay
        BY <1>1 DEF discoveryVars, DeliveriesStay
    <2>3. \A d \in Cycle : CycleInv(d)'
        BY <1>1, <2>1, <2>2, OtherCycleKeeps DEF DeliveryInv, discoveryVars
    <2> QED  BY <1>1, <2>3
             DEF discoveryVars, DeliveryInv, PendingWasDelivered, IdsInv, CardsInv
<1>2. CASE Next
    BY <1>2, ApproachDelivery, CreateDelivery, SendDelivery, MarkDelivery,
       CommitDelivery, DecideDelivery, RollBackDelivery, SmallStepDelivery
       DEF Next, Progress
<1> QED  BY <1>1, <1>2

(* A row that awaits a decision, or has had one, is one whose card was     *)
(* delivered, whatever cycles overlapped, failed or were rolled back.      *)
THEOREM PendingHadACard == Spec => []PendingWasDelivered
<1>1. Init => TypeOK /\ DeliveryInv
    BY InitTypes, InitDelivery
<1>2. TypeOK /\ DeliveryInv /\ [Next]_discoveryVars => (TypeOK /\ DeliveryInv)'
    BY NextTypes, NextDelivery
<1>3. DeliveryInv => PendingWasDelivered
    BY DEF DeliveryInv
<1> QED  BY <1>1, <1>2, <1>3, PTL DEF Spec
-----------------------------------------------------------------------------
(***************************************************************************)
(* How often a posting is announced, as long as one cycle runs at a time,  *)
(* which is what max_instances=1 keeps to when nobody sends /discover: a   *)
(* card is repeated only after a failure, and a card whose row does not    *)
(* exist is one of a cycle under way or of a failure.                      *)
(*                                                                         *)
(* The argument counts: a posting has been announced once for every        *)
(* failure at most, and once more if it is settled, that is, on its way    *)
(* to being skipped by later cycles.                                       *)
(***************************************************************************)

OneCycle == \A c, d \in Cycle : c = d

Undelivered == {"absent", "discovered"}

Settled(k) == \/ application[k].status \notin Undelivered
              \/ \E c \in Cycle : \/ k \in cycle[c].marked
                                  \/ cycle[c].at = k /\ AtDelivered(c)

Announcing(c) == cycle[c].pc \in {"create", "tailor", "send"}

CountInv ==
    /\ \A k \in Pair : notified[k] <= faults + (IF Settled(k) THEN 1 ELSE 0)
    /\ \A c \in Cycle :
          /\ cycle[c].pc # "doomed"
          /\ Announcing(c) => notified[cycle[c].at] <= faults
          /\ cycle[c].pc = "write" /\ cycle[c].loaded = "pending_approval"
                => \/ application[cycle[c].at].status \notin Undelivered
                   \/ cycle[c].at \in cycle[c].marked

(* A card names the committed row, or the one its cycle has inserted.      *)
TraceInv ==
    faults = 0 =>
       \A card \in cards :
          \/ application[card.pair].id = card.id
          \/ card.id = lastId[card.pair] /\ \E c \in Cycle : card.pair \in cycle[c].inserted
-----------------------------------------------------------------------------
(* Initially nothing was announced.                                        *)
LEMMA InitCount == ASSUME Init PROVE CountInv /\ TraceInv
<1>1. \A c \in Cycle : cycle[c].pc = "idle"
    BY DEF Init, IdleCycle
<1>2. \A k \in Pair : notified[k] = 0
    BY DEF Init
<1> QED  BY <1>1, <1>2 DEF Init, CountInv, TraceInv, Announcing

(* Nobody waits for itself.                                                *)
LEMMA NoDeadlock ==
    ASSUME OneCycle, NEW c \in Cycle
    PROVE  ~ DeadlockVictim(c)
BY DEF OneCycle, DeadlockVictim, Waits

(* What is counted is a natural number.                                    *)
LEMMA Counters ==
    ASSUME TypeOK
    PROVE  faults \in Nat /\ \A k \in Pair : notified[k] \in Nat
BY DiscoveryAssumption DEF TypeOK

(* Steps that announce nothing and keep settled what is settled.           *)
LEMMA CountStep ==
    ASSUME OneCycle, TypeOK, CountInv, NEW c \in Cycle,
           UNCHANGED <<notified, faults>>,
           \A k \in Pair : Settled(k) => Settled(k)',
           cycle'[c].pc # "doomed",
           Announcing(c)' => notified[cycle'[c].at] <= faults,
           cycle'[c].pc # "write"
    PROVE  CountInv'
<1>1. \A d \in Cycle : d = c
    BY DEF OneCycle
<1>2. ASSUME NEW k \in Pair
      PROVE  notified'[k] <= faults' + (IF Settled(k)' THEN 1 ELSE 0)
    BY <1>2, Counters DEF CountInv
<1> QED  BY <1>1, <1>2 DEF CountInv

(* Steps on the way to a row announce nothing.                             *)
LEMMA ApproachCount ==
    ASSUME OneCycle, TypeOK, CountInv, NEW c \in Cycle,
           \/ \E found \in SUBSET Pair : Start(c, found)
           \/ \E k \in Pair : Take(c, k)
           \/ JobGetOrCreate(c)
    PROVE  CountInv'
<1>1. /\ cycle'[c].marked = cycle[c].marked
      /\ cycle'[c].pc \in {"next", "job", "lookup"}
    <2>0. cycle \in [Cycle -> CycleState]
        BY DEF TypeOK
    <2>1. CASE \E found \in SUBSET Pair : Start(c, found)
        <3>1. PICK found \in SUBSET Pair :
                 cycle' = [cycle EXCEPT ![c].pc = "next", ![c].todo = found]
            BY <2>1 DEF Start
        <3> QED  BY <2>0, <3>1 DEF CycleState
    <2>2. CASE \E k \in Pair : Take(c, k)
        <3>1. PICK k \in Pair :
                 cycle' = [cycle EXCEPT ![c].pc = "job", ![c].at = k, ![c].todo = @ \ {k}]
            BY <2>2 DEF Take
        <3> QED  BY <2>0, <3>1 DEF CycleState
    <2>3. CASE JobGetOrCreate(c)
        BY <2>0, <2>3 DEF JobGetOrCreate, CycleState
    <2> QED  BY <2>1, <2>2, <2>3
<1>2. ~ AtDelivered(c)
    BY DEF AtDelivered, Start, Take, JobGetOrCreate
<1>3. UNCHANGED <<application, notified, faults>>
    BY DEF Start, Take, JobGetOrCreate
<1>4. \A k \in Pair : Settled(k) => Settled(k)'
    BY <1>1, <1>2, <1>3 DEF Settled, OneCycle
<1> QED  BY <1>1, <1>3, <1>4, CountStep DEF Announcing

(* The lookup lets a cycle announce only what is not settled; what was     *)
(* announced without being settled is covered by failures.                 *)
LEMMA LookupCount ==
    ASSUME OneCycle, TypeOK, DeliveryInv, CountInv, NEW c \in Cycle, Lookup(c)
    PROVE  CountInv'
<1> DEFINE k == cycle[c].at
<1>0. k \in Pair /\ cycle \in [Cycle -> CycleState]
    BY DEF TypeOK, Lookup
<1>1. /\ cycle'[c].marked = cycle[c].marked
      /\ \/ cycle'[c].pc = "next"
         \/ /\ cycle'[c].pc = "create"
            /\ cycle'[c].at = k
            /\ StatusIn(c, k) \in Undelivered
    <2>1. CASE StatusIn(c, k) \in Undelivered
        BY <1>0, <2>1 DEF Lookup, Goto, CycleState, Undelivered
    <2>2. CASE StatusIn(c, k) \notin Undelivered
        <3>1. NextPosting(c)
            BY <2>2 DEF Lookup, Undelivered
        <3> QED  BY <1>0, <3>1 DEF NextPosting, CycleState
    <2> QED  BY <2>1, <2>2
<1>2. UNCHANGED <<application, notified, faults>> /\ ~ AtDelivered(c)
    BY DEF Lookup, AtDelivered
<1>3. \A j \in Pair : Settled(j) => Settled(j)'
    BY <1>1, <1>2 DEF Settled, OneCycle
<1>4. ASSUME StatusIn(c, k) \in Undelivered PROVE notified[k] <= faults
    <2>1. k \notin cycle[c].marked
        BY <1>4 DEF StatusIn, Undelivered
    <2>2. application[k].status \in Undelivered
        BY <1>4, <2>1
           DEF StatusIn, Undelivered, DeliveryInv, CycleInv, InsertedAlone
    <2>3. ~ Settled(k)
        BY <1>2, <2>1, <2>2 DEF Settled, OneCycle
    <2> QED  BY <1>0, <2>3, Counters DEF CountInv
<1> QED  BY <1>1, <1>2, <1>3, <1>4, CountStep DEF Announcing

(* The row, and the text for it: still unannounced.                        *)
LEMMA PrepareCount ==
    ASSUME OneCycle, TypeOK, CountInv, NEW c \in Cycle,
           ApplicationGetOrCreate(c) \/ Tailored(c)
    PROVE  CountInv'
<1>0. cycle \in [Cycle -> CycleState]
    BY DEF TypeOK
<1>1. /\ cycle'[c].marked = cycle[c].marked
      /\ cycle'[c].at = cycle[c].at
      /\ cycle'[c].pc \in {"tailor", "send"}
    BY <1>0 DEF ApplicationGetOrCreate, Tailored, Goto, CycleState
<1>2. UNCHANGED <<application, notified, faults>> /\ ~ AtDelivered(c) /\ Announcing(c)
    BY DEF ApplicationGetOrCreate, Tailored, AtDelivered, Announcing
<1>3. \A j \in Pair : Settled(j) => Settled(j)'
    BY <1>1, <1>2 DEF Settled, OneCycle
<1>4. notified[cycle[c].at] <= faults
    BY <1>2 DEF CountInv
<1> QED  BY <1>1, <1>2, <1>3, <1>4, CountStep

(* Once more, and settled.                                                 *)
LEMMA SendCount ==
    ASSUME OneCycle, TypeOK, CountInv, NEW c \in Cycle, SendCard(c)
    PROVE  CountInv'
<1> DEFINE k == cycle[c].at
<1>0. /\ k \in Pair /\ cycle \in [Cycle -> CycleState]
      /\ notified \in [Pair -> Nat]
    BY DEF TypeOK, SendCard
<1>1. /\ cycle'[c].marked = cycle[c].marked
      /\ cycle'[c].at = k
      /\ cycle'[c].pc = "attach"
    BY <1>0 DEF SendCard, Goto, CycleState
<1>2. /\ UNCHANGED <<application, faults>> /\ ~ AtDelivered(c)
      /\ notified' = [notified EXCEPT ![k] = @ + 1]
      /\ notified[k] <= faults
    BY DEF SendCard, AtDelivered, CountInv, Announcing
<1>3. \A j \in Pair : Settled(j) => Settled(j)'
    BY <1>1, <1>2 DEF Settled, OneCycle
<1>4. Settled(k)'
    BY <1>1 DEF Settled, AtDelivered
<1>5. notified'[k] <= faults' + (IF Settled(k)' THEN 1 ELSE 0)
    <2>1. notified'[k] = notified[k] + 1
        BY <1>0, <1>2
    <2>2. faults' = faults /\ notified[k] \in Nat /\ faults \in Nat
        BY <1>0, <1>2, Counters
    <2>3. notified'[k] <= faults' + 1
        BY <1>2, <2>1, <2>2
    <2> HIDE DEF k
    <2> QED  BY <1>4, <2>3
<1>6. ASSUME NEW j \in Pair, j # k
      PROVE  notified'[j] <= faults' + (IF Settled(j)' THEN 1 ELSE 0)
    <2>1. notified'[j] = notified[j]
        BY <1>0, <1>2, <1>6
    <2> QED  BY <1>2, <1>3, <2>1, Counters DEF CountInv
<1>7. \A d \in Cycle : d = c
    BY DEF OneCycle
<1> QED  BY <1>1, <1>5, <1>6, <1>7 DEF CountInv, Announcing

(* The attachment was sent: the posting stays settled.                     *)
LEMMA AttachedCount ==
    ASSUME OneCycle, TypeOK, CountInv, NEW c \in Cycle, Attached(c)
    PROVE  CountInv'
<1>0. cycle \in [Cycle -> CycleState]
    BY DEF TypeOK
<1>1. /\ cycle'[c].marked = cycle[c].marked
      /\ cycle'[c].at = cycle[c].at
      /\ cycle'[c].pc = "load"
    BY <1>0 DEF Attached, Goto, CycleState
<1>2. UNCHANGED <<application, notified, faults>>
    BY DEF Attached
<1>3. \A j \in Pair : Settled(j) => Settled(j)'
    BY <1>1, <1>2 DEF Settled, OneCycle, AtDelivered
<1> QED  BY <1>1, <1>2, <1>3, CountStep DEF Announcing

(* What a failure takes back, it pays for.                                 *)
LEMMA FailureCount ==
    ASSUME OneCycle, TypeOK, CountInv, NEW c \in Cycle, Fault, UNCHANGED notified,
           cycle'[c].pc \in {"next", "idle"}
    PROVE  CountInv'
<1>1. \A d \in Cycle : d = c
    BY DEF OneCycle
<1>2. faults' = faults + 1
    BY DEF Fault
<1>3. ASSUME NEW k \in Pair
      PROVE  notified'[k] <= faults' + (IF Settled(k)' THEN 1 ELSE 0)
    BY <1>2, <1>3, Counters DEF CountInv
<1> QED  BY <1>1, <1>3 DEF CountInv, Announcing

(* A failure may unsettle postings, and pays for one announcement of each. *)
LEMMA FailuresCount ==
    ASSUME OneCycle, TypeOK, CountInv, NEW c \in Cycle,
           PostingFails(c) \/ CycleLost(c)
    PROVE  CountInv'
<1>0. cycle \in [Cycle -> CycleState]
    BY DEF TypeOK
<1>1. cycle'[c].pc \in {"next", "idle"}
  <2>1. CASE PostingFails(c)
    <3>1. NextPosting(c)
        BY <2>1 DEF PostingFails
    <3>2. cycle'[c] = [cycle[c] EXCEPT !.pc = "next", !.at = None, !.loaded = "absent"]
        BY <1>0, <3>1 DEF NextPosting
    <3>3. cycle[c] \in CycleState
        BY <1>0
    <3> QED  BY <3>2, <3>3 DEF CycleState
  <2>2. CASE CycleLost(c)
      BY <1>0, <2>2 DEF CycleLost, RollBack, IdleCycle
  <2> QED  BY <2>1, <2>2
<1> QED  BY <1>1, FailureCount DEF PostingFails, CycleLost, RollBack

(* Reading the row to be marked.                                           *)
LEMMA MarkLoadCount ==
    ASSUME OneCycle, TypeOK, CountInv, NEW c \in Cycle, MarkLoad(c)
    PROVE  CountInv'
<1> DEFINE k == cycle[c].at
<1>0. cycle \in [Cycle -> CycleState] /\ k \in Pair
    BY DEF TypeOK, MarkLoad
<1>1. /\ cycle'[c].marked = cycle[c].marked
      /\ cycle'[c].at = k
      /\ cycle'[c].pc = "write"
      /\ cycle'[c].loaded = StatusIn(c, k)
    BY <1>0 DEF MarkLoad, CycleState
<1>2. UNCHANGED <<application, notified, faults>>
    BY DEF MarkLoad
<1>3. \A j \in Pair : Settled(j) => Settled(j)'
    BY <1>1, <1>2 DEF Settled, OneCycle, AtDelivered
<1>4. StatusIn(c, k) = "pending_approval"
         => application[k].status \notin Undelivered \/ k \in cycle[c].marked
    BY DEF StatusIn, Undelivered
<1>5. ASSUME NEW j \in Pair
      PROVE  notified'[j] <= faults' + (IF Settled(j)' THEN 1 ELSE 0)
    BY <1>2, <1>3, Counters DEF CountInv
<1>6. \A d \in Cycle : d = c
    BY DEF OneCycle
<1> QED  BY <1>1, <1>2, <1>4, <1>5, <1>6 DEF CountInv, Announcing

(* Marking the row, or finding it marked, keeps it settled.                *)
LEMMA MarkWriteCount ==
    ASSUME OneCycle, TypeOK, CountInv, NEW c \in Cycle, MarkWrite(c)
    PROVE  CountInv'
<1> DEFINE k == cycle[c].at
<1>0. cycle \in [Cycle -> CycleState]
    BY DEF TypeOK
<1>1. /\ cycle'[c].pc = "next"
      /\ cycle[c].marked \subseteq cycle'[c].marked
      /\ k \in cycle'[c].marked \/ cycle[c].loaded = "pending_approval"
    <2>1. CASE NextPosting(c) /\ cycle[c].loaded = "pending_approval"
        BY <1>0, <2>1 DEF NextPosting, CycleState
    <2>2. CASE ~ (NextPosting(c) /\ cycle[c].loaded = "pending_approval")
        BY <1>0, <2>2 DEF MarkWrite, CycleState
    <2> QED  BY <2>1, <2>2
<1>2. UNCHANGED <<application, notified, faults>> /\ cycle[c].pc = "write"
    BY DEF MarkWrite
<1>3. \A j \in Pair : Settled(j) => Settled(j)'
    BY <1>1, <1>2 DEF Settled, OneCycle, CountInv
<1> QED  BY <1>1, <1>2, <1>3, CountStep DEF Announcing

(* What is marked is committed as PENDING_APPROVAL.                        *)
LEMMA CommitCount ==
    ASSUME OneCycle, TypeOK, DeliveryInv, CountInv, NEW c \in Cycle, Commit(c)
    PROVE  CountInv'
<1>0. cycle \in [Cycle -> CycleState]
    BY DEF TypeOK
<1>1. /\ cycle'[c] = IdleCycle
      /\ UNCHANGED <<notified, faults>>
      /\ ~ AtDelivered(c)
    BY <1>0 DEF Commit, AtDelivered
<1>2. ASSUME NEW k \in Pair, Settled(k)
      PROVE  application'[k].status \notin Undelivered
    <2>1. CASE k \in cycle[c].marked
        <3>1. application'[k] = [status |-> StatusIn(c, k), id |-> IdIn(c, k)]
            BY <2>1, Zenon DEF Commit
        <3>2. StatusIn(c, k) = "pending_approval"
            BY <2>1 DEF StatusIn
        <3> QED  BY <3>1, <3>2 DEF Undelivered
    <2>2. CASE k \notin cycle[c].marked
        <3>1. application[k].status \notin Undelivered
            BY <1>1, <1>2, <2>2 DEF Settled, OneCycle
        <3>2. k \notin cycle[c].inserted
            BY <3>1 DEF DeliveryInv, CycleInv, InsertedAlone, Undelivered
        <3>3. application'[k] = application[k]
            BY <2>2, <3>2 DEF Commit
        <3> QED  BY <3>1, <3>3
    <2> QED  BY <2>1, <2>2
<1>3. \A k \in Pair : Settled(k) => Settled(k)'
    BY <1>2 DEF Settled
<1>4. cycle'[c].pc = "idle"
    BY <1>1 DEF IdleCycle
<1> QED  BY <1>1, <1>3, <1>4, CountStep DEF Announcing

(* A decision keeps its posting settled.                                   *)
LEMMA DecideCount ==
    ASSUME OneCycle, TypeOK, CountInv, NEW card \in cards, NEW decision \in Decided,
           Decide(card, decision)
    PROVE  CountInv'
<1> DEFINE k == card.pair
<1>0. k \in Pair /\ application \in [Pair -> [status: Status, id: Nat]]
    BY DEF TypeOK
<1>1. UNCHANGED <<cycle, notified, faults>>
    BY DEF Decide
<1>2. \A j \in Pair : application[j].status \notin Undelivered
                         => application'[j].status \notin Undelivered
    <2>1. CASE application[k].status \in Decided
        BY <2>1 DEF Decide
    <2>2. CASE application[k].status \notin Decided
        <3>1. application' = [application EXCEPT ![k].status = decision]
            BY <2>2 DEF Decide
        <3> QED  BY <1>0, <3>1 DEF Undelivered, Decided
    <2> QED  BY <2>1, <2>2
<1>3. \A j \in Pair : Settled(j) => Settled(j)'
    BY <1>1, <1>2 DEF Settled, AtDelivered
<1>4. ASSUME NEW j \in Pair
      PROVE  notified'[j] <= faults' + (IF Settled(j)' THEN 1 ELSE 0)
    BY <1>1, <1>3, Counters DEF CountInv
<1>5. \A c \in Cycle : cycle[c].pc = "write" => cycle[c].at \in Pair
    BY DEF TypeOK
<1> QED  BY <1>1, <1>2, <1>4, <1>5 DEF CountInv, Announcing

(* CountInv is inductive, given types and deliveries.                      *)
LEMMA NextCount ==
    ASSUME OneCycle, TypeOK, DeliveryInv, CountInv, [Next]_discoveryVars
    PROVE  CountInv'
<1>1. CASE UNCHANGED discoveryVars
    BY <1>1 DEF discoveryVars, CountInv, Settled, Announcing, AtDelivered
<1>2. CASE Next
    <2>1. \A c \in Cycle : ~ Doomed(c)
        BY DEF CountInv, Doomed
    <2> QED
        BY <1>2, <2>1, NoDeadlock, ApproachCount, LookupCount, PrepareCount, SendCount,
           AttachedCount, FailuresCount, MarkLoadCount, MarkWriteCount, CommitCount,
           DecideCount
           DEF Next, Progress
<1> QED  BY <1>1, <1>2

(* discovery.py:8-13: with one cycle at a time, a posting is announced     *)
(* once, and once more at most for every failure, however the cycle's rows *)
(* are lost, left over or decided on meanwhile.                            *)
THEOREM RepeatsAreFailures ==
    ASSUME OneCycle
    PROVE  Spec => []RepeatsHaveACause
<1>1. Init => TypeOK /\ DeliveryInv /\ CountInv
    BY InitTypes, InitDelivery, InitCount
<1>2. TypeOK /\ DeliveryInv /\ CountInv /\ [Next]_discoveryVars
         => (TypeOK /\ DeliveryInv /\ CountInv)'
    BY OneCycle, NextTypes, NextDelivery, NextCount
<1>3. TypeOK /\ CountInv => RepeatsHaveACause
    BY Counters DEF CountInv, RepeatsHaveACause
<1> QED  BY <1>1, <1>2, <1>3, PTL DEF Spec
-----------------------------------------------------------------------------
(* Steps that leave the rows alone, and what is inserted, and send nothing *)
(* -- or fail.                                                             *)
LEMMA TraceStep ==
    ASSUME OneCycle, TypeOK, TraceInv, NEW c \in Cycle,
           \/ /\ UNCHANGED <<application, lastId, faults>>
              /\ cards' \subseteq cards
              /\ cycle'[c].inserted = cycle[c].inserted
           \/ Fault
    PROVE  TraceInv'
<1>1. faults \in Nat
    BY Counters
<1>2. CASE Fault
    BY <1>1, <1>2 DEF TraceInv, Fault
<1>3. CASE ~ Fault
    BY <1>3 DEF TraceInv, OneCycle
<1> QED  BY <1>2, <1>3

(* Steps that send no card and end no transaction.                         *)
LEMMA ApproachTrace ==
    ASSUME OneCycle, TypeOK, TraceInv, NEW c \in Cycle,
           \/ \E found \in SUBSET Pair : Start(c, found)
           \/ \E k \in Pair : Take(c, k)
           \/ JobGetOrCreate(c) \/ Lookup(c) \/ Tailored(c) \/ Attached(c)
    PROVE  TraceInv'
<1>0. cycle \in [Cycle -> CycleState]
    BY DEF TypeOK
<1>1. CASE \E found \in SUBSET Pair : Start(c, found)
    <2>1. PICK found \in SUBSET Pair : Start(c, found)
        BY <1>1
    <2>2. cycle'[c].inserted = cycle[c].inserted
        BY <1>0, <2>1 DEF Start, CycleState
    <2> QED  BY <2>1, <2>2, TraceStep DEF Start
<1>2. CASE \E k \in Pair : Take(c, k)
    <2>1. PICK k \in Pair : Take(c, k)
        BY <1>2
    <2>2. cycle'[c].inserted = cycle[c].inserted
        BY <1>0, <2>1 DEF Take, CycleState
    <2> QED  BY <2>1, <2>2, TraceStep DEF Take
<1>3. CASE JobGetOrCreate(c)
    <2>1. cycle'[c].inserted = cycle[c].inserted
        BY <1>0, <1>3 DEF JobGetOrCreate, CycleState
    <2> QED  BY <1>3, <2>1, TraceStep DEF JobGetOrCreate
<1>4. CASE Lookup(c) \/ Tailored(c) \/ Attached(c)
    <2>1. NextPosting(c) \/ \E pc : Goto(c, pc)
        BY <1>4 DEF Lookup, Tailored, Attached
    <2>2. cycle'[c].inserted = cycle[c].inserted
        BY <1>0, <2>1 DEF NextPosting, Goto, CycleState
    <2> QED  BY <1>4, <2>2, TraceStep DEF Lookup, Tailored, Attached
<1> QED  BY <1>1, <1>2, <1>3, <1>4

(* Marks change no ids.                                                    *)
LEMMA MarkTrace ==
    ASSUME OneCycle, TypeOK, TraceInv, NEW c \in Cycle, MarkLoad(c) \/ MarkWrite(c)
    PROVE  TraceInv'
<1>0. cycle \in [Cycle -> CycleState]
    BY DEF TypeOK
<1>1. cycle'[c].inserted = cycle[c].inserted
    <2>1. CASE MarkLoad(c)
        BY <1>0, <2>1 DEF MarkLoad, CycleState
    <2>2. CASE MarkWrite(c) /\ NextPosting(c)
        BY <1>0, <2>2 DEF NextPosting, CycleState
    <2>3. CASE MarkWrite(c) /\ ~ NextPosting(c)
        BY <1>0, <2>3 DEF MarkWrite, CycleState
    <2> QED  BY <2>1, <2>2, <2>3
<1> QED  BY <1>1, TraceStep DEF MarkLoad, MarkWrite

(* A row is inserted where no card names one.                              *)
LEMMA CreateTrace ==
    ASSUME OneCycle, TypeOK, DeliveryInv, TraceInv, NEW c \in Cycle,
           ApplicationGetOrCreate(c)
    PROVE  TraceInv'
<1> DEFINE k == cycle[c].at
<1>0. /\ k \in Pair /\ cycle \in [Cycle -> CycleState] /\ lastId \in [Pair -> Nat]
      /\ \A card \in cards : card.pair \in Pair
    BY DEF TypeOK, ApplicationGetOrCreate
<1>1. UNCHANGED <<application, cards, faults>>
    BY DEF ApplicationGetOrCreate
<1>2. CASE StatusIn(c, k) # "absent"
    <2>1. UNCHANGED lastId /\ cycle'[c].inserted = cycle[c].inserted
        BY <1>0, <1>2 DEF ApplicationGetOrCreate, Goto, CycleState
    <2> QED  BY <1>1, <2>1, TraceStep
<1>3. CASE StatusIn(c, k) = "absent"
    <2>1. k \notin cycle[c].inserted /\ application[k].status = "absent"
        BY <1>3 DEF StatusIn
    <2>2. /\ \A j \in Pair \ {k} : lastId'[j] = lastId[j]
          /\ cycle'[c].inserted = cycle[c].inserted \cup {k}
        BY <1>0, <1>3 DEF ApplicationGetOrCreate, CycleState
    <2>3. ASSUME faults = 0, NEW card \in cards PROVE card.pair # k
        BY <1>0, <2>1, <2>3 DEF TraceInv, OneCycle, DeliveryInv, IdsInv, CardsInv
    <2> QED  BY <1>0, <1>1, <2>2, <2>3 DEF TraceInv, OneCycle
<1> QED  BY <1>2, <1>3

(* A card names the row as its cycle sees it.                              *)
LEMMA SendTrace ==
    ASSUME OneCycle, TypeOK, TraceInv, NEW c \in Cycle, SendCard(c)
    PROVE  TraceInv'
<1> DEFINE k == cycle[c].at
<1>0. cycle \in [Cycle -> CycleState]
    BY DEF TypeOK
<1>1. /\ cards' = cards \cup {[pair |-> k, id |-> IdIn(c, k), serial |-> notified[k] + 1]}
      /\ UNCHANGED <<application, lastId, faults>>
      /\ cycle'[c].inserted = cycle[c].inserted
    BY <1>0 DEF SendCard, Goto, CycleState
<1>2. IdIn(c, k) = application[k].id \/ (IdIn(c, k) = lastId[k] /\ k \in cycle[c].inserted)
    BY DEF IdIn
<1> QED  BY <1>1, <1>2 DEF TraceInv, OneCycle

(* The commit turns inserted rows into committed ones, with their ids.     *)
LEMMA CommitTrace ==
    ASSUME OneCycle, TypeOK, DeliveryInv, TraceInv, NEW c \in Cycle, Commit(c)
    PROVE  TraceInv'
<1>1. UNCHANGED <<lastId, cards, faults>> /\ \A card \in cards : card.pair \in Pair
    BY DEF Commit, TypeOK
<1>2. SUFFICES ASSUME faults = 0, NEW card \in cards
               PROVE  application'[card.pair].id = card.id
    BY <1>1 DEF TraceInv
<1> DEFINE k == card.pair
<1>3. k \in Pair
    BY <1>1
<1>4. CASE k \in cycle[c].inserted
    <2>1. application'[k] = [status |-> StatusIn(c, k), id |-> IdIn(c, k)]
        BY <1>3, <1>4, Zenon DEF Commit
    <2>2. IdIn(c, k) = lastId[k]
        BY <1>4 DEF IdIn
    <2>3. card.id = lastId[k]
        BY <1>2, <1>3, <1>4
           DEF TraceInv, DeliveryInv, CycleInv, InsertedAlone, IdsInv, CardsInv
    <2> QED  BY <2>1, <2>2, <2>3
<1>5. CASE k \notin cycle[c].inserted
    <2>1. application[k].id = card.id
        BY <1>2, <1>5 DEF TraceInv, OneCycle
    <2>2. CASE k \in cycle[c].marked
        <3>1. application'[k] = [status |-> StatusIn(c, k), id |-> IdIn(c, k)]
            BY <1>3, <2>2, Zenon DEF Commit
        <3>2. IdIn(c, k) = application[k].id
            BY <1>5 DEF IdIn
        <3> QED  BY <2>1, <3>1, <3>2
    <2>3. CASE k \notin cycle[c].marked
        BY <1>3, <1>5, <2>1, <2>3 DEF Commit
    <2> QED  BY <2>2, <2>3
<1> QED  BY <1>4, <1>5

(* A decision keeps the row, and may take the card away.                   *)
LEMMA DecideTrace ==
    ASSUME TypeOK, TraceInv, NEW card \in cards, NEW decision \in Decided,
           Decide(card, decision)
    PROVE  TraceInv'
<1>1. UNCHANGED <<cycle, lastId, faults>> /\ cards' \subseteq cards
    BY DEF Decide
<1>2. \A j \in Pair : application'[j].id = application[j].id
    <2>1. application \in [Pair -> [status: Status, id: Nat]] /\ card.pair \in Pair
        BY DEF TypeOK
    <2>2. CASE application[card.pair].status \in Decided
        BY <2>2 DEF Decide
    <2>3. CASE application[card.pair].status \notin Decided
        <3>1. application' = [application EXCEPT ![card.pair].status = decision]
            BY <2>3 DEF Decide
        <3> QED  BY <2>1, <3>1
    <2> QED  BY <2>2, <2>3
<1>3. \A x \in cards : x.pair \in Pair
    BY DEF TypeOK
<1> QED  BY <1>1, <1>2, <1>3 DEF TraceInv

(* TraceInv is inductive, given CountInv.                                  *)
LEMMA NextTrace ==
    ASSUME OneCycle, TypeOK, DeliveryInv, CountInv, TraceInv, [Next]_discoveryVars
    PROVE  TraceInv'
<1>1. CASE UNCHANGED discoveryVars
    BY <1>1 DEF discoveryVars, TraceInv
<1>2. CASE Next
    <2>1. \A c \in Cycle : ~ Doomed(c)
        BY DEF CountInv, Doomed
    <2>2. ASSUME NEW c \in Cycle, PostingFails(c) \/ CycleLost(c)
          PROVE  TraceInv'
        BY <2>2, TraceStep DEF PostingFails, CycleLost
    <2> QED
        BY <1>2, <2>1, <2>2, NoDeadlock, ApproachTrace, MarkTrace, CreateTrace,
           SendTrace, CommitTrace, DecideTrace
           DEF Next, Progress
<1> QED  BY <1>1, <1>2

(* With one cycle at a time, a button that answers "no longer exists" is   *)
(* one of a cycle that has not committed yet or the trace of a failure.    *)
THEOREM DeadCardsAreFailures ==
    ASSUME OneCycle
    PROVE  Spec => []DeadCardsHaveACause
<1>1. Init => TypeOK /\ DeliveryInv /\ CountInv /\ TraceInv
    BY InitTypes, InitDelivery, InitCount
<1>2. TypeOK /\ DeliveryInv /\ CountInv /\ TraceInv /\ [Next]_discoveryVars
         => (TypeOK /\ DeliveryInv /\ CountInv /\ TraceInv)'
    BY OneCycle, NextTypes, NextDelivery, NextCount, NextTrace
<1>3. TypeOK /\ TraceInv => DeadCardsHaveACause
    BY Counters DEF TraceInv, DeadCardsHaveACause
<1> QED  BY <1>1, <1>2, <1>3, PTL DEF Spec
=============================================================================
