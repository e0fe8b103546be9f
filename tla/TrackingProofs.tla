---------------------------- MODULE TrackingProofs ----------------------------
(***************************************************************************)
(* Offer tracking, for any applications, companies, emails and answers of  *)
(* the LLM, any number of processes and any number of failures.            *)
(*                                                                         *)
(* The types say that the rows and the transactions under way are always   *)
(* in one order, so that of equal matches one is the newest.  With that    *)
(* and what MatchingProofs says of the ratios, what the matching promises  *)
(* holds in every state.  The others are invariants of the steps: what the *)
(* evidence says, which rows an email may still move, and how many.        *)
(***************************************************************************)
EXTENDS Tracking, MatchingProofs, WebhookTypes

(* The order of the rows and of the transactions under way.                *)
OrderOK == Orders(newer, App \cup Writing)

(* A part of what is ordered is ordered.                                   *)
LEMMA AmongOrders ==
    ASSUME OrderOK, NEW S, S \subseteq App \cup Writing
    PROVE  Orders(Among(S), S)
BY DEF OrderOK, Orders, Among

(* So is what is left when some transactions are over.                     *)
LEMMA WithoutOrders ==
    ASSUME OrderOK, NEW S
    PROVE  Orders(Without(S), (App \cup Writing) \ S)
<1> DEFINE T == (App \cup Writing) \ S
<1>1. newer \subseteq (App \cup Writing) \X (App \cup Writing)
    BY DEF OrderOK, Orders
<1>2. Without(S) = Among(T)
    BY <1>1 DEF Without, Among
<1> QED  BY <1>2, AmongOrders

(* The newest comes before all others, whether it is new or moves up.      *)
LEMMA NewestOrders ==
    ASSUME OrderOK, NEW x
    PROVE  Orders(Newest(x), App \cup Writing \cup {x})
<1> DEFINE W == App \cup Writing
           old == Without({x})
           fresh == {<<x, y>> : y \in W \ {x}}
<1>1. Orders(old, W \ {x})
    BY WithoutOrders
<1>2. Newest(x) = fresh \cup old
    BY DEF Newest
<1>3. \A y : <<x, y>> \in old \cup fresh <=> y \in W \ {x}
    BY <1>1 DEF Orders
<1>4. \A y, z : y # x => (<<y, z>> \in old \cup fresh <=> <<y, z>> \in old)
    OBVIOUS
<1> HIDE DEF old
<1>5. old \cup fresh \subseteq (W \cup {x}) \X (W \cup {x})
    BY <1>1 DEF Orders
<1> HIDE DEF W, fresh
<1>6. Orders(old \cup fresh, W \cup {x})
    BY <1>1, <1>3, <1>4, <1>5 DEF Orders
<1> QED  BY <1>2, <1>6 DEF W

(* A row that takes the place of a transaction leaves the rest in order.   *)
LEMMA StampedOrders ==
    ASSUME OrderOK, NEW m \in Writing, NEW a \in App, m \notin App
    PROVE  Orders(Stamped(m, a), (App \cup Writing) \ {m})
<1> DEFINE W == App \cup Writing
           others == W \ {m}
           place(x) == IF x = a THEN m ELSE x
           stamped == Stamped(m, a)
<1>1. stamped \subseteq others \X others
    BY DEF Stamped
<1>2. \A x, y \in others : <<x, y>> \in stamped <=> <<place(x), place(y)>> \in newer
    BY DEF Stamped
<1>3. Orders(newer, W)
    BY DEF OrderOK
<1>4. \A x, y \in others : place(x) \in W /\ (x # y => place(x) # place(y))
    OBVIOUS
<1> HIDE DEF others, stamped, place, W
<1>5. /\ \A x \in W : <<x, x>> \notin newer
      /\ \A x, y \in W : x # y => <<x, y>> \in newer \/ <<y, x>> \in newer
      /\ \A x, y, z \in W : <<x, y>> \in newer /\ <<y, z>> \in newer => <<x, z>> \in newer
    BY <1>3 DEF Orders
<1>6. \A x \in others : <<x, x>> \notin stamped
    BY <1>2, <1>4, <1>5
<1>7. \A x, y \in others : x # y => <<x, y>> \in stamped \/ <<y, x>> \in stamped
    BY <1>2, <1>4, <1>5
<1>8. ASSUME NEW x \in others, NEW y \in others, NEW z \in others,
             <<x, y>> \in stamped, <<y, z>> \in stamped
      PROVE  <<x, z>> \in stamped
    BY <1>2, <1>4, <1>5, <1>8
<1>9. Orders(stamped, others)
    BY <1>1, <1>6, <1>7, <1>8 DEF Orders
<1> QED  BY <1>9 DEF stamped, others, W

(* Of finitely many candidates one is the newest: one with the fewest      *)
(* newer than itself.                                                      *)
LEMMA NewestExists ==
    ASSUME NEW R, NEW S, Orders(R, S), IsFiniteSet(S), NEW T, T \subseteq S, T # {}
    PROVE  \E x \in T : \A y \in T \ {x} : <<x, y>> \in R
<1> DEFINE before(x) == {y \in T : <<y, x>> \in R}
           number == [x \in T |-> Cardinality(before(x))]
<1>1. \A x \in T : IsFiniteSet(before(x))
    BY FS_Subset
<1>2. number \in [T -> Nat]
    BY <1>1, FS_CardinalityType
<1>3. PICK x \in T : \A y \in T : number[x] <= number[y]
    BY <1>2, LeastNumbered
<1>4. ASSUME NEW y \in T \ {x}, <<x, y>> \notin R PROVE FALSE
  <2>1. <<y, x>> \in R
      BY <1>4 DEF Orders
  <2>2. before(y) \subseteq before(x) /\ y \in before(x) /\ y \notin before(y)
      BY <2>1 DEF Orders
  <2>3. /\ Cardinality(before(y)) <= Cardinality(before(x))
        /\ Cardinality(before(y)) # Cardinality(before(x))
      BY <2>2, <1>1, FS_Subset
  <2>4. Cardinality(before(x)) <= Cardinality(before(y))
      BY <1>3
  <2> HIDE DEF before
  <2> QED  BY <2>3, <2>4, <1>1, FS_CardinalityType
<1> QED  BY <1>4
-----------------------------------------------------------------------------
(* TypeOK is inductive together with this: only an email that is being     *)
(* classified has candidates.                                              *)
IdleOK == \A m \in Mail : mail[m].pc # "classify" => mail[m].candidates = {}

TypeInv == TypeOK /\ IdleOK

Reading == [newer: SUBSET (App \X App), closed: SUBSET App]

(* Both hold initially: nothing is read, and no transaction is under way.  *)
LEMMA InitTypes == Init => TypeInv
<1> SUFFICES ASSUME Init PROVE TypeInv
    OBVIOUS
<1>1. RowsOK
    BY DEF Init, InboxInit, RowsOK, SubmittedRow, Row, ApplicationStatus
<1>2. DeploymentOK
    BY DeploymentAssumption DEF Init, InboxInit, DeploymentInit, DeploymentOK
<1>3. "rejected" \in EmailStatus
  <2>1. ClassificationToStatus("rejection") = "rejected"
      BY DEF ClassificationToStatus
  <2> QED  BY <2>1 DEF EmailStatus, EmailClassification, Informational
<1>4. ASSUME NEW m \in Mail
      PROVE  mail[m] \in MailState /\ mail[m].pc = "queued" /\ mail[m].candidates = {}
  <2>1. PICK u \in User : mail[m] = QueuedMail(u)
      BY DEF Init, InboxInit, EmailInit
  <2> QED  BY <2>1, <1>3 DEF QueuedMail, MailState, MailPc, ApplicationStatus
<1>5. EmailOK
    BY <1>4 DEF Init, InboxInit, EmailInit, EmailOK
<1>6. App \cup Writing = App
    BY <1>4 DEF Writing
<1>7. Orders(newer, App \cup Writing)
    BY <1>6, InboxAssumption DEF Init, InboxInit
<1>8. \A m \in Mail : Orders(reading[m].newer, mail[m].candidates)
    BY <1>4 DEF Init, InboxInit, NotReading, Orders
<1>9. reading \in [Mail -> Reading]
    BY DEF Init, InboxInit, NotReading, Reading
<1>10. InboxOK
    BY <1>7, <1>8, <1>9 DEF Init, InboxInit, InboxOK, Reading
<1> QED  BY <1>1, <1>2, <1>4, <1>5, <1>10 DEF TypeInv, TypeOK, IdleOK

(* One email moves on.                                                     *)
LEMMA MoveTypes ==
    ASSUME TypeInv, RowsOK', DeploymentOK', EmailOK',
           NEW m \in Mail, NEW next, mail' = [mail EXCEPT ![m] = next],
           next.pc # "classify" => next.candidates = {},
           NEW read \in Reading, reading' = [reading EXCEPT ![m] = read],
           Orders(read.newer, next.candidates),
           OrderOK', UNCHANGED <<company, letter>>,
           evidence' \in [App -> EmailStatus \cup {None}],
           overtaken' \subseteq App, recorded' \subseteq Mail \X App
    PROVE  TypeInv'
<1>1. /\ mail'[m] = next /\ \A n \in Mail \ {m} : mail'[n] = mail[n]
      /\ reading'[m] = read /\ \A n \in Mail \ {m} : reading'[n] = reading[n]
    BY DEF TypeInv, TypeOK, EmailOK, InboxOK
<1>2. reading' \in [Mail -> Reading]
    BY DEF TypeInv, TypeOK, InboxOK, Reading
<1>3. \A n \in Mail : Orders(reading'[n].newer, mail'[n].candidates)
    BY <1>1 DEF TypeInv, TypeOK, InboxOK
<1>4. InboxOK'
    BY <1>2, <1>3 DEF TypeInv, TypeOK, InboxOK, OrderOK, Reading
<1>5. IdleOK'
    BY <1>1 DEF TypeInv, IdleOK
<1> QED  BY <1>4, <1>5 DEF TypeInv, TypeOK

(* The records an email goes through, field by field.                      *)
LEMMA MailFields ==
    ASSUME EmailOK, NEW m \in Mail
    PROVE  /\ mail[m].pc \in MailPc
           /\ mail[m].owner \in User
           /\ mail[m].candidates \in SUBSET App
           /\ mail[m].status \in EmailStatus
           /\ mail[m].loaded \in ApplicationStatus
           /\ mail[m].pc \in {"record", "write"} => mail[m].app \in App
           /\ \A x : [mail EXCEPT ![m] = x][m] = x
           /\ DOMAIN mail = Mail
BY DEF EmailOK, MailState

(* Where a step leaves the set of emails being written alone.              *)
LEMMA SameWriting ==
    ASSUME EmailOK, NEW m \in Mail, NEW next, mail' = [mail EXCEPT ![m] = next],
           next.pc = "write" <=> mail[m].pc = "write",
           OrderOK, UNCHANGED newer
    PROVE  Writing' = Writing /\ OrderOK'
<1>1. \A n \in Mail : mail'[n].pc = "write" <=> mail[n].pc = "write"
    BY DEF EmailOK
<1>2. Writing' = Writing
    BY <1>1 DEF Writing
<1> QED  BY <1>2 DEF OrderOK

(* The candidates are read, and which of them is the newer.                *)
LEMMA ReceiveTypes ==
    ASSUME TypeInv, NEW m \in Mail, NEW i \in Instance, Receive(m, i)
    PROVE  TypeInv'
<1> DEFINE candidates == ListCandidatesForEmailMatch(mail[m].owner)
           next == [mail[m] EXCEPT !.pc = "classify", !.candidates = candidates]
           read == [newer |-> Among(candidates),
                    closed |-> {a \in App : row[a].status \in Closed}]
<1> USE DEF TypeInv, TypeOK
<1>1. RowsOK' /\ DeploymentOK' /\ EmailOK'
    BY ReceiveEmailTypes DEF Receive
<1>2. mail' = [mail EXCEPT ![m] = next] /\ mail[m].pc = "queued"
    BY DEF Receive, ReceiveEmail
<1>3. next.pc = "classify" /\ next.candidates = candidates
    BY DEF EmailOK, MailState
<1>4. OrderOK
    BY DEF InboxOK, OrderOK
<1>5. candidates \subseteq App
    BY DEF ListCandidatesForEmailMatch
<1>6. Orders(Among(candidates), candidates)
    BY <1>4, <1>5, AmongOrders
<1>7. read \in Reading
  <2>1. Among(candidates) \subseteq App \X App
      BY <1>5, <1>6 DEF Orders
  <2> QED  BY <2>1 DEF Reading
<1>8. reading' = [reading EXCEPT ![m] = read]
    BY DEF Receive
<1>9. UNCHANGED <<company, letter, newer, evidence, overtaken, recorded>>
    BY DEF Receive
<1> HIDE DEF next, candidates
<1>10. OrderOK'
    BY <1>2, <1>3, <1>4, <1>9, SameWriting
<1> QED  BY <1>1, <1>2, <1>3, <1>6, <1>7, <1>8, <1>9, <1>10, MoveTypes DEF InboxOK

(* A refused email is not read.                                            *)
LEMMA RefuseTypes ==
    ASSUME TypeInv, NEW m \in Mail, Refuse(m)
    PROVE  TypeInv'
<1> DEFINE next == [mail[m] EXCEPT !.pc = "done"]
<1> USE DEF TypeInv, TypeOK
<1>1. RowsOK' /\ DeploymentOK' /\ EmailOK'
    BY EmailRefusedTypes DEF Refuse
<1>2. mail' = [mail EXCEPT ![m] = next] /\ mail[m].pc = "queued"
    BY DEF Refuse, EmailRefused
<1>3. next.pc = "done" /\ next.candidates = mail[m].candidates
    BY DEF EmailOK, MailState
<1>4. OrderOK
    BY DEF InboxOK, OrderOK
<1>5. /\ reading' = [reading EXCEPT ![m] = reading[m]] /\ reading[m] \in Reading
      /\ Orders(reading[m].newer, mail[m].candidates)
    BY DEF Refuse, inboxVars, InboxOK, Reading
<1>6. mail[m].candidates = {}
    BY <1>2 DEF IdleOK
<1>7. UNCHANGED <<company, letter, newer, evidence, overtaken, recorded>>
    BY DEF Refuse, inboxVars
<1> HIDE DEF next
<1>8. OrderOK'
    BY <1>2, <1>3, <1>4, <1>7, SameWriting
<1> QED  BY <1>1, <1>2, <1>3, <1>5, <1>6, <1>7, <1>8, MoveTypes DEF InboxOK

(* What classify proposes is one of them, and no informational email.      *)
LEMMA ProposedIsCandidate ==
    ASSUME NEW m \in Mail, NEW answer \in Answer, NEW a \in Proposed(m, answer)
    PROVE  /\ a \in mail[m].candidates
           /\ answer.classification \in EmailClassification \ Informational
<1>1. answer.classification \in EmailClassification
    BY DEF Answer, EmailClassification
<1> QED  BY <1>1 DEF Proposed, Match, BestMatch

(* classify keeps a candidate or none; the order is not needed any more.   *)
LEMMA ClassifyTypes ==
    ASSUME TypeInv, NEW m \in Mail, NEW answer \in Answer, Classify(m, answer)
    PROVE  TypeInv'
<1> USE DEF TypeInv, TypeOK
<1> DEFINE read == [reading[m] EXCEPT !.newer = {}]
<1>1. read \in Reading /\ read.newer = {}
    BY DEF InboxOK, Reading
<1>2. reading' = [reading EXCEPT ![m] = read]
    BY DEF Classify
<1>3. UNCHANGED <<company, letter, newer, evidence, overtaken, recorded>>
    BY DEF Classify
<1>4. Orders({}, {})
    BY DEF Orders
<1>5. OrderOK
    BY DEF InboxOK, OrderOK
<1> HIDE DEF read
<1>6. CASE ClassifyNoAction(m)
  <2> DEFINE next == [mail[m] EXCEPT !.pc = "respond", !.candidates = {}]
  <2>1. RowsOK' /\ DeploymentOK' /\ EmailOK'
      BY <1>6, ClassifyNoActionTypes
  <2>2. mail' = [mail EXCEPT ![m] = next] /\ mail[m].pc = "classify"
      BY <1>6 DEF ClassifyNoAction
  <2>3. next.pc = "respond" /\ next.candidates = {}
      BY DEF EmailOK, MailState
  <2> HIDE DEF next
  <2>4. OrderOK'
      BY <2>2, <2>3, <1>3, <1>5, SameWriting
  <2> QED  BY <2>1, <2>2, <2>3, <2>4, <1>1, <1>2, <1>3, <1>4, MoveTypes DEF InboxOK
<1>7. ASSUME NEW a \in Proposed(m, answer), ClassifyMatched(m, a, answer.classification)
      PROVE  TypeInv'
  <2> DEFINE c == answer.classification
             next == [mail[m] EXCEPT !.pc = "record", !.candidates = {}, !.app = a,
                                     !.status = ClassificationToStatus(c)]
  <2>1. RowsOK' /\ DeploymentOK' /\ EmailOK'
    <3>1. a \in App /\ c \in EmailClassification \ Informational
        BY ProposedIsCandidate, MailFields
    <3> QED  BY <1>7, <3>1, ClassifyMatchedTypes
  <2>2. mail' = [mail EXCEPT ![m] = next] /\ mail[m].pc = "classify"
      BY <1>7 DEF ClassifyMatched
  <2>3. next.pc = "record" /\ next.candidates = {}
      BY DEF EmailOK, MailState
  <2> HIDE DEF next
  <2>4. OrderOK'
      BY <2>2, <2>3, <1>3, <1>5, SameWriting
  <2> QED  BY <2>1, <2>2, <2>3, <2>4, <1>1, <1>2, <1>3, <1>4, MoveTypes DEF InboxOK
<1> QED  BY <1>6, <1>7 DEF Classify

(* What was read of an email may stay as it is.                            *)
LEMMA SameReading ==
    ASSUME InboxOK, NEW m \in Mail
    PROVE  reading[m] \in Reading /\ reading = [reading EXCEPT ![m] = reading[m]]
BY DEF InboxOK, Reading

(* A transaction begins, and takes the newest place.                       *)
LEMMA LoadTypes ==
    ASSUME TypeInv, NEW m \in Mail, Load(m)
    PROVE  TypeInv'
<1> USE DEF TypeInv, TypeOK
<1> DEFINE next == [mail[m] EXCEPT !.pc = "write", !.loaded = row[mail[m].app].status]
<1>1. RowsOK' /\ DeploymentOK' /\ EmailOK'
    BY EmailLoadTypes DEF Load
<1>2. mail' = [mail EXCEPT ![m] = next] /\ mail[m].pc = "record"
    BY DEF Load, EmailLoad
<1>3. next.pc = "write" /\ next.candidates = mail[m].candidates
    BY DEF EmailOK, MailState
<1> HIDE DEF next
<1>4. Writing' = Writing \cup {m}
    BY <1>2, <1>3 DEF Writing, EmailOK
<1>5. OrderOK'
  <2>1. Orders(Newest(m), App \cup Writing \cup {m})
      BY NewestOrders DEF InboxOK, OrderOK
  <2>2. newer' = Newest(m) /\ App' = App
      BY DEF Load
  <2>3. App \cup Writing \cup {m} = App \cup Writing'
      BY <1>4
  <2> QED  BY <2>1, <2>2, <2>3 DEF OrderOK
<1>6. UNCHANGED <<company, letter, reading, evidence, overtaken, recorded>>
    BY DEF Load
<1>7. /\ next.candidates = {}
      /\ Orders(reading[m].newer, next.candidates)
    BY <1>2, <1>3 DEF IdleOK, InboxOK
<1> QED  BY <1>1, <1>2, <1>5, <1>6, <1>7, SameReading, MoveTypes DEF InboxOK

(* The row takes the place of its transaction, which is over.              *)
LEMMA RecordTypes ==
    ASSUME TypeInv, NEW m \in Mail, Record(m)
    PROVE  TypeInv'
<1> USE DEF TypeInv, TypeOK
<1> DEFINE a == mail[m].app
           next == [mail[m] EXCEPT !.pc = "respond", !.app = None,
                                   !.status = "rejected", !.loaded = "discovered"]
<1>1. RowsOK' /\ DeploymentOK' /\ EmailOK'
    BY EmailCommitTypes DEF Record
<1>2. mail' = [mail EXCEPT ![m] = next] /\ mail[m].pc = "write"
    BY DEF Record, EmailCommit
<1>3. next.pc = "respond" /\ next.candidates = mail[m].candidates
    BY DEF EmailOK, MailState
<1> HIDE DEF next
<1>4. a \in App /\ mail[m].status \in EmailStatus
    BY <1>2, MailFields
<1>5. m \in Writing /\ m \notin App
    BY <1>2, MailAssumption, InboxAssumption DEF Writing
<1>6. Writing' = Writing \ {m}
    BY <1>2, <1>3 DEF Writing, EmailOK
<1>7. OrderOK'
  <2>1. Orders(Stamped(m, a), (App \cup Writing) \ {m})
      BY <1>4, <1>5, StampedOrders DEF InboxOK, OrderOK
  <2>2. newer' = Stamped(m, a)
      BY DEF Record
  <2>3. (App \cup Writing) \ {m} = App \cup Writing'
      BY <1>5, <1>6
  <2> QED  BY <2>1, <2>2, <2>3 DEF OrderOK
<1>8. /\ UNCHANGED <<company, letter, reading>>
      /\ evidence' = [evidence EXCEPT ![a] = mail[m].status]
      /\ overtaken' \subseteq overtaken \cup {a}
      /\ recorded' = recorded \cup {<<m, a>>}
    BY DEF Record
<1>9. /\ evidence' \in [App -> EmailStatus \cup {None}]
      /\ overtaken' \subseteq App /\ recorded' \subseteq Mail \X App
    BY <1>4, <1>8 DEF InboxOK
<1>10. /\ next.candidates = {}
       /\ Orders(reading[m].newer, next.candidates)
    BY <1>2, <1>3 DEF IdleOK, InboxOK
<1> QED  BY <1>1, <1>2, <1>7, <1>8, <1>9, <1>10, SameReading, MoveTypes

(* An email is answered or handed back, and what was read for it forgotten. *)
LEMMA ForgetTypes ==
    ASSUME TypeInv, RowsOK', DeploymentOK', EmailOK',
           NEW m \in Mail, NEW next, mail' = [mail EXCEPT ![m] = next],
           next.pc \notin {"classify", "write"}, next.candidates = {},
           Forgotten({m})
    PROVE  TypeInv'
<1>1. EmailOK /\ InboxOK /\ OrderOK
    BY DEF TypeInv, TypeOK, InboxOK, OrderOK
<1>2. m \notin App /\ Writing' = Writing \ {m}
    BY <1>1, MailAssumption, InboxAssumption DEF Writing, EmailOK
<1>3. OrderOK'
  <2>1. Orders(Without({m}), (App \cup Writing) \ {m})
      BY <1>1, WithoutOrders
  <2>2. newer' = Without({m}) /\ App' = App
      BY DEF Forgotten
  <2>3. (App \cup Writing) \ {m} = App \cup Writing'
      BY <1>2
  <2> QED  BY <2>1, <2>2, <2>3 DEF OrderOK
<1>4. NotReading \in Reading /\ Orders(NotReading.newer, next.candidates)
    BY DEF NotReading, Reading, Orders
<1>5. reading' = [n \in Mail |-> IF n \in {m} THEN NotReading ELSE reading[n]]
    BY DEF Forgotten
<1>6. reading' = [reading EXCEPT ![m] = NotReading]
    BY <1>1, <1>5 DEF InboxOK
<1>7. /\ UNCHANGED <<company, letter>>
      /\ evidence' \in [App -> EmailStatus \cup {None}]
      /\ overtaken' \subseteq App /\ recorded' \subseteq Mail \X App
    BY <1>1 DEF Forgotten, InboxOK
<1> QED  BY <1>3, <1>4, <1>6, <1>7, MoveTypes

(* The answer ends an email's visit.                                       *)
LEMMA ConcludeTypes ==
    ASSUME TypeInv, NEW m \in Mail, Conclude(m)
    PROVE  TypeInv'
<1> DEFINE next == [mail[m] EXCEPT !.pc = "done"]
<1>1. RowsOK' /\ DeploymentOK' /\ EmailOK'
    BY RespondTypes DEF Conclude, TypeInv, TypeOK
<1>2. mail' = [mail EXCEPT ![m] = next] /\ mail[m].pc = "respond"
    BY DEF Conclude, Respond
<1>3. next.pc = "done" /\ next.candidates = mail[m].candidates
    BY DEF TypeInv, TypeOK, EmailOK, MailState
<1>4. next.candidates = {}
    BY <1>2, <1>3 DEF TypeInv, IdleOK
<1> HIDE DEF next
<1>5. Forgotten({m})
    BY DEF Conclude
<1> QED  BY <1>1, <1>2, <1>3, <1>4, <1>5, ForgetTypes

(* So does an error; a transaction under way is rolled back.               *)
LEMMA FailsTypes ==
    ASSUME TypeInv, NEW m \in Mail, Fails(m)
    PROVE  TypeInv'
<1>1. RowsOK' /\ DeploymentOK' /\ EmailOK'
    BY EmailFailsTypes DEF Fails, TypeInv, TypeOK
<1>2. mail' = [mail EXCEPT ![m] = Requeued(m)]
    BY DEF Fails, EmailFails
<1>3. Requeued(m).pc = "queued" /\ Requeued(m).candidates = {}
    BY DEF Requeued, QueuedMail
<1>4. Forgotten({m})
    BY DEF Fails
<1> QED  BY <1>1, <1>2, <1>3, <1>4, ForgetTypes

(* A crash ends several, and their transactions lose their places.         *)
LEMMA CrashTypes ==
    ASSUME TypeInv, NEW i \in Instance, Crash(i)
    PROVE  TypeInv'
<1> USE DEF TypeInv, TypeOK
<1> DEFINE lost == serving[i]
<1>1. lost \subseteq Request
    BY DEF DeploymentOK
<1>2. RowsOK' /\ DeploymentOK'
  <2>1. faults' \in 0..MaxFaults
      BY FaultTypes DEF Crash
  <2> QED  BY <2>1 DEF Crash, RowsOK, DeploymentOK, rowVars
<1>3. mail' = [m \in Mail |-> IF m \in lost THEN Requeued(m) ELSE mail[m]]
    BY DEF Crash, EmailsLost
<1>4. \A m \in Mail : /\ Requeued(m) \in MailState
                      /\ Requeued(m).pc = "queued" /\ Requeued(m).candidates = {}
    BY RequeuedTypes DEF Requeued, QueuedMail
<1>5. EmailOK' /\ IdleOK'
    BY <1>3, <1>4 DEF EmailOK, IdleOK, Crash
<1>6. /\ reading' = [m \in Mail |-> IF m \in lost THEN NotReading ELSE reading[m]]
      /\ newer' = Without(lost)
      /\ UNCHANGED <<company, letter, evidence, overtaken, recorded>>
    BY DEF Crash, Forgotten
<1>7. NotReading \in Reading /\ Orders(NotReading.newer, {})
    BY DEF NotReading, Reading, Orders
<1> HIDE DEF lost
<1>8. OrderOK'
  <2>1. Writing' = Writing \ lost
      BY <1>3, <1>4 DEF Writing
  <2>2. (App \cup Writing) \ lost = App \cup Writing'
      BY <2>1, <1>1, InboxAssumption
  <2>3. Orders(Without(lost), (App \cup Writing) \ lost)
      BY WithoutOrders DEF InboxOK, OrderOK
  <2> QED  BY <2>2, <2>3, <1>6 DEF OrderOK
<1>9. InboxOK'
  <2>1. reading' \in [Mail -> Reading]
      BY <1>6, <1>7 DEF InboxOK, Reading
  <2>2. \A m \in Mail : Orders(reading'[m].newer, mail'[m].candidates)
      BY <1>3, <1>4, <1>6, <1>7 DEF InboxOK
  <2> QED  BY <2>1, <2>2, <1>6, <1>8 DEF InboxOK, OrderOK, Reading
<1> QED  BY <1>2, <1>5, <1>9

(* An accepted application moves to the newest place.                      *)
LEMMA AcceptOfferTypes ==
    ASSUME TypeInv, NEW a \in App, AcceptOffer(a)
    PROVE  TypeInv'
<1> USE DEF TypeInv, TypeOK
<1>1. RowsOK'
    BY SetStatusTypes DEF AcceptOffer, ApplicationStatus
<1>2. /\ UNCHANGED <<serving, faults, mail, offers>>
      /\ UNCHANGED <<company, letter, reading, evidence, overtaken, recorded>>
      /\ newer' = Newest(a)
    BY DEF AcceptOffer, deployVars, emailVars
<1>3. DeploymentOK' /\ EmailOK' /\ IdleOK'
    BY <1>2 DEF DeploymentOK, EmailOK, IdleOK
<1>4. OrderOK'
  <2>1. Orders(Newest(a), App \cup Writing \cup {a})
      BY NewestOrders DEF InboxOK, OrderOK
  <2>2. App \cup Writing \cup {a} = App \cup Writing'
      BY <1>2 DEF Writing
  <2> QED  BY <2>1, <2>2, <1>2 DEF OrderOK
<1>5. InboxOK'
    BY <1>2, <1>4 DEF InboxOK, OrderOK
<1> QED  BY <1>1, <1>3, <1>5

(* Where nothing happens, nothing changes.                                 *)
LEMMA StutterTypes ==
    ASSUME TypeInv, UNCHANGED vars
    PROVE  TypeInv'
<1> USE DEF TypeInv, TypeOK, vars, rowVars, deployVars, emailVars, inboxVars
<1>1. RowsOK' /\ DeploymentOK' /\ EmailOK' /\ IdleOK'
    BY DEF RowsOK, DeploymentOK, EmailOK, IdleOK
<1>2. InboxOK'
    BY DEF InboxOK, Writing
<1> QED  BY <1>1, <1>2

(* So TypeInv is inductive.                                                *)
LEMMA NextTypes == TypeInv /\ [Next]_vars => TypeInv'
<1> SUFFICES ASSUME TypeInv, [Next]_vars PROVE TypeInv'
    OBVIOUS
<1>1. CASE Next
    BY <1>1, RefuseTypes, ReceiveTypes, ClassifyTypes, LoadTypes, RecordTypes, ConcludeTypes,
       FailsTypes, CrashTypes, AcceptOfferTypes DEF Next, InboxStep
<1>2. CASE UNCHANGED vars
    BY <1>2, StutterTypes
<1> QED  BY <1>1, <1>2

(* Whatever the companies, emails and answers of the LLM: every state is   *)
(* well typed, and only an email being classified has candidates.          *)
THEOREM TypesInvariant == Spec => []TypeInv
BY InitTypes, NextTypes, PTL DEF Spec

(* Every variable of Tracking holds a value of its kind; in particular the *)
(* rows and the transactions under way are always in one order.            *)
THEOREM TypeCorrect == Spec => []TypeOK
BY TypesInvariant, PTL DEF TypeInv
-----------------------------------------------------------------------------
(* The steps, as far as rows and records are concerned.                    *)
LEMMA RowSteps ==
    ASSUME Next
    PROVE  \/ UNCHANGED <<row, evidence, overtaken, recorded>>
           \/ \E m \in Mail : Record(m)
           \/ \E a \in App : AcceptOffer(a)
<1>1. ASSUME NEW m \in Mail, NEW i \in Instance, Receive(m, i)
      PROVE  UNCHANGED <<row, evidence, overtaken, recorded>>
    BY <1>1 DEF Receive, ReceiveEmail, rowVars
<1>2. ASSUME NEW m \in Mail, NEW answer \in Answer, Classify(m, answer)
      PROVE  UNCHANGED <<row, evidence, overtaken, recorded>>
  <2>1. UNCHANGED <<evidence, overtaken, recorded>>
      BY <1>2 DEF Classify
  <2>2. CASE ClassifyNoAction(m)
      BY <2>1, <2>2 DEF ClassifyNoAction, rowVars
  <2>3. ASSUME NEW a, ClassifyMatched(m, a, answer.classification)
        PROVE  UNCHANGED row
      BY <2>3 DEF ClassifyMatched, rowVars
  <2> QED  BY <1>2, <2>1, <2>2, <2>3 DEF Classify
<1>3. ASSUME NEW m \in Mail, Load(m) \/ Conclude(m) \/ Fails(m)
      PROVE  UNCHANGED <<row, evidence, overtaken, recorded>>
    BY <1>3 DEF Load, Conclude, Fails, EmailLoad, Respond, EmailFails, Forgotten, rowVars
<1>4. ASSUME NEW i \in Instance, Crash(i)
      PROVE  UNCHANGED <<row, evidence, overtaken, recorded>>
    BY <1>4 DEF Crash, Forgotten, rowVars
<1>5. ASSUME NEW m \in Mail, Refuse(m)
      PROVE  UNCHANGED <<row, evidence, overtaken, recorded>>
    BY <1>5 DEF Refuse, EmailRefused, inboxVars, rowVars
<1> QED  BY <1>1, <1>2, <1>3, <1>4, <1>5 DEF Next, InboxStep

(* The row that an email is recorded for, and what is put down.            *)
LEMMA RecordFacts ==
    ASSUME TypeOK, NEW m \in Mail, Record(m), NEW a, a = mail[m].app
    PROVE  /\ mail[m].pc = "write" /\ mail'[m].pc = "respond"
           /\ a \in App /\ mail[m].status \in EmailStatus
           /\ row' = [row EXCEPT ![a].status = IF mail[m].loaded = mail[m].status
                                               THEN @ ELSE mail[m].status]
           /\ \A n \in Mail \ {m} : mail'[n] = mail[n]
           /\ faults' = faults
<1>1. EmailOK
    BY DEF TypeOK
<1>2. mail[m].pc = "write" /\ faults' = faults
    BY DEF Record, EmailCommit, deployVars
<1>3. a \in App /\ mail[m].status \in EmailStatus
    BY <1>1, <1>2, MailFields
<1>4. row' = [row EXCEPT ![a].status = IF mail[m].loaded = mail[m].status
                                       THEN @ ELSE mail[m].status]
    BY DEF Record, EmailCommit, RecordEmailUpdate
<1>5. mail'[m].pc = "respond" /\ \A n \in Mail \ {m} : mail'[n] = mail[n]
    BY <1>1 DEF EmailOK, MailState, Record, EmailCommit
<1> QED  BY <1>2, <1>3, <1>4, <1>5
-----------------------------------------------------------------------------
(* The evidence.                                                           *)

(* An email never says that the owner has accepted an offer.               *)
LEMMA AcceptedIsNoEmailStatus == "accepted" \notin EmailStatus /\ "submitted" \notin EmailStatus
BY DEF EmailStatus, EmailClassification, Informational, ClassificationToStatus

(* At first no row has a status that an email has given it.                *)
LEMMA InitExplains == Init => EvidenceExplains
BY AcceptedIsNoEmailStatus DEF Init, InboxInit, SubmittedRow, EvidenceExplains

(* EvidenceExplains is inductive, given the types.                         *)
LEMMA NextExplains == TypeOK /\ EvidenceExplains /\ [Next]_vars => EvidenceExplains'
<1> SUFFICES ASSUME TypeOK, EvidenceExplains, [Next]_vars PROVE EvidenceExplains'
    OBVIOUS
<1>1. CASE UNCHANGED <<row, evidence, overtaken, recorded>>
    BY <1>1 DEF EvidenceExplains
<1>2. ASSUME NEW m \in Mail, Record(m)
      PROVE  EvidenceExplains'
  <2> DEFINE a == mail[m].app
             s == mail[m].status
  <2>1. /\ a \in App /\ s \in EmailStatus
        /\ row' = [row EXCEPT ![a].status = IF mail[m].loaded = s THEN @ ELSE s]
      BY <1>2, RecordFacts
  <2>2. /\ evidence' = [evidence EXCEPT ![a] = s]
        /\ overtaken' = IF row[a].status = mail[m].loaded
                        THEN overtaken ELSE overtaken \cup {a}
      BY <1>2 DEF Record
  <2>3. row \in [App -> Row] /\ evidence \in [App -> EmailStatus \cup {None}]
      BY DEF TypeOK, RowsOK, InboxOK
  <2> HIDE DEF a, s
  <2>4. ASSUME NEW b \in App \ overtaken', row'[b].status \in EmailStatus'
        PROVE  evidence'[b] = row'[b].status
    <3>1. CASE b = a
      <4>1. row[a].status = mail[m].loaded /\ evidence'[a] = s
          BY <3>1, <2>1, <2>2, <2>3, <2>4
      <4>2. row'[a].status = IF mail[m].loaded = s THEN row[a].status ELSE s
          BY <2>1, <2>3 DEF Row
      <4> QED  BY <3>1, <4>1, <4>2
    <3>2. CASE b # a
      <4>1. row'[b] = row[b] /\ evidence'[b] = evidence[b] /\ b \notin overtaken
          BY <3>2, <2>1, <2>2, <2>3, <2>4
      <4> QED  BY <4>1, <2>4 DEF EvidenceExplains
    <3> QED  BY <3>1, <3>2
  <2> QED  BY <2>4 DEF EvidenceExplains
<1>3. ASSUME NEW a \in App, AcceptOffer(a)
      PROVE  EvidenceExplains'
  <2>1. row' = [row EXCEPT ![a].status = "accepted"] /\ row \in [App -> Row]
      BY <1>3 DEF AcceptOffer, SetStatus, TypeOK, RowsOK
  <2>2. \A b \in App : row'[b].status = IF b = a THEN "accepted" ELSE row[b].status
      BY <2>1 DEF Row
  <2>3. UNCHANGED <<evidence, overtaken>>
      BY <1>3 DEF AcceptOffer
  <2> QED  BY <2>2, <2>3, AcceptedIsNoEmailStatus DEF EvidenceExplains
<1>4. CASE UNCHANGED vars
    BY <1>1, <1>4 DEF vars, rowVars, inboxVars
<1> QED  BY <1>1, <1>2, <1>3, <1>4, RowSteps

(* An interview, an offer or a rejection on the dashboard has its          *)
(* evidence, in a deployment of any size, unless another email came        *)
(* between the SELECT and the UPDATE of one (repositories.py:295-342).     *)
THEOREM EvidenceAlwaysExplains == Spec => []EvidenceExplains
BY InitExplains, NextExplains, TypeCorrect, PTL DEF Spec
-----------------------------------------------------------------------------
(* Closed applications.                                                    *)

(* An email is about to be matched with, or is recorded for, none of the   *)
(* applications that were closed when it arrived.                          *)
OpenWhenRead ==
    \A m \in Mail :
       /\ mail[m].pc = "classify" => mail[m].candidates \cap reading[m].closed = {}
       /\ mail[m].pc \in {"record", "write"} => mail[m].app \notin reading[m].closed

(* At first no email is being read.                                        *)
LEMMA InitOpen == Init => OpenWhenRead
BY DEF Init, InboxInit, EmailInit, QueuedMail, OpenWhenRead

(* What is read of an email holds until it is dealt with.                  *)
LEMMA NextOpen == TypeOK /\ OpenWhenRead /\ [Next]_vars => OpenWhenRead'
<1> SUFFICES ASSUME TypeOK, OpenWhenRead, [Next]_vars PROVE OpenWhenRead'
    OBVIOUS
<1> USE DEF OpenWhenRead
<1>0. mail \in [Mail -> MailState] /\ reading \in [Mail -> Reading]
    BY DEF TypeOK, EmailOK, InboxOK, Reading
<1>1. ASSUME NEW m \in Mail, NEW i \in Instance, Receive(m, i)
      PROVE  OpenWhenRead'
  <2> DEFINE candidates == ListCandidatesForEmailMatch(mail[m].owner)
             closed == {a \in App : row[a].status \in Closed}
  <2>1. candidates \cap closed = {}
      BY DEF ListCandidatesForEmailMatch, EmailMatchable, Closed
  <2>2. mail'[m].pc = "classify" /\ mail'[m].candidates = candidates
      BY <1>0, <1>1 DEF Receive, ReceiveEmail, MailState
  <2>3. reading'[m].closed = closed
      BY <1>0, <1>1 DEF Receive, Reading
  <2>4. \A n \in Mail \ {m} : mail'[n] = mail[n] /\ reading'[n] = reading[n]
      BY <1>0, <1>1 DEF Receive, ReceiveEmail
  <2> HIDE DEF candidates, closed
  <2> QED  BY <2>1, <2>2, <2>3, <2>4
<1>2. ASSUME NEW m \in Mail, NEW answer \in Answer, Classify(m, answer)
      PROVE  OpenWhenRead'
  <2>1. /\ reading'[m].closed = reading[m].closed
        /\ \A n \in Mail \ {m} : reading'[n] = reading[n]
      BY <1>0, <1>2 DEF Classify, Reading
  <2>2. CASE ClassifyNoAction(m)
    <3>1. mail'[m].pc = "respond" /\ \A n \in Mail \ {m} : mail'[n] = mail[n]
        BY <1>0, <2>2 DEF ClassifyNoAction, MailState
    <3> QED  BY <2>1, <3>1
  <2>3. ASSUME NEW a \in Proposed(m, answer), ClassifyMatched(m, a, answer.classification)
        PROVE  OpenWhenRead'
    <3>1. /\ mail[m].pc = "classify" /\ a \in mail[m].candidates
          /\ mail'[m].pc = "record" /\ mail'[m].app = a
          /\ \A n \in Mail \ {m} : mail'[n] = mail[n]
        BY <1>0, <2>3 DEF ClassifyMatched, MailState
    <3> QED  BY <2>1, <3>1
  <2> QED  BY <1>2, <2>2, <2>3 DEF Classify
<1>3. ASSUME NEW m \in Mail, Load(m)
      PROVE  OpenWhenRead'
  <2>1. /\ mail[m].pc = "record" /\ mail'[m].pc = "write" /\ mail'[m].app = mail[m].app
        /\ \A n \in Mail \ {m} : mail'[n] = mail[n]
      BY <1>0, <1>3 DEF Load, EmailLoad, MailState
  <2>2. reading' = reading
      BY <1>3 DEF Load
  <2> QED  BY <2>1, <2>2
<1>4. ASSUME NEW m \in Mail, Record(m)
      PROVE  OpenWhenRead'
  <2>1. mail'[m].pc = "respond" /\ \A n \in Mail \ {m} : mail'[n] = mail[n]
      BY <1>4, RecordFacts
  <2>2. reading' = reading
      BY <1>4 DEF Record
  <2> QED  BY <2>1, <2>2
<1>5. ASSUME NEW m \in Mail, Conclude(m) \/ Fails(m)
      PROVE  OpenWhenRead'
  <2>1. /\ mail'[m].pc \in {"queued", "done"}
        /\ \A n \in Mail \ {m} : mail'[n] = mail[n]
      BY <1>0, <1>5 DEF Conclude, Fails, Respond, EmailFails, Requeued, QueuedMail, MailState
  <2>2. \A n \in Mail \ {m} : reading'[n] = reading[n]
      BY <1>5 DEF Conclude, Fails, Forgotten
  <2> QED  BY <2>1, <2>2
<1>6. ASSUME NEW i \in Instance, Crash(i)
      PROVE  OpenWhenRead'
  <2>1. \A m \in Mail : \/ mail'[m].pc = "queued"
                        \/ mail'[m] = mail[m] /\ reading'[m] = reading[m]
      BY <1>6 DEF Crash, EmailsLost, Forgotten, Requeued, QueuedMail
  <2> QED  BY <2>1
<1>7. ASSUME NEW a \in App, AcceptOffer(a)
      PROVE  OpenWhenRead'
    BY <1>7 DEF AcceptOffer, emailVars
<1>8. CASE UNCHANGED vars
    BY <1>8 DEF vars, emailVars, inboxVars
<1>9. ASSUME NEW m \in Mail, Refuse(m)
      PROVE  OpenWhenRead'
  <2>1. mail'[m].pc = "done" /\ \A n \in Mail \ {m} : mail'[n] = mail[n]
      BY <1>0, <1>9 DEF Refuse, EmailRefused, MailState
  <2>2. reading' = reading
      BY <1>9 DEF Refuse, inboxVars
  <2> QED  BY <2>1, <2>2
<1> QED  BY <1>1, <1>2, <1>3, <1>4, <1>5, <1>6, <1>7, <1>8, <1>9 DEF Next, InboxStep

(* So it holds always.                                                     *)
LEMMA AlwaysOpenWhenRead == Spec => []OpenWhenRead
BY InitOpen, NextOpen, TypeCorrect, PTL DEF Spec

(* An application that was ACCEPTED or REJECTED when an email arrived is   *)
(* not moved by that email (repositories.py:295-342).                      *)
THEOREM ClosedIsNotReopened == Spec => ClosedStaysClosed
<1> DEFINE Untouched(a) == row[a].status \in Closed /\ row'[a].status # row[a].status
                        => \E m \in Mail : /\ mail[m].pc = "write"
                                           /\ mail[m].app = a
                                           /\ a \notin reading[m].closed
<1>1. TypeOK /\ OpenWhenRead /\ [Next]_vars => [\A a \in App : Untouched(a)]_vars
  <2> SUFFICES ASSUME TypeOK, OpenWhenRead, Next, NEW a \in App PROVE Untouched(a)
      OBVIOUS
  <2>1. row \in [App -> Row]
      BY DEF TypeOK, RowsOK
  <2>2. CASE UNCHANGED row
      BY <2>2
  <2>3. ASSUME NEW m \in Mail, Record(m)
        PROVE  Untouched(a)
    <3>1. CASE a = mail[m].app
      <4>1. mail[m].pc = "write"
          BY <2>3, RecordFacts
      <4>2. a \notin reading[m].closed
          BY <3>1, <4>1 DEF OpenWhenRead
      <4> QED  BY <3>1, <4>1, <4>2
    <3>2. CASE a # mail[m].app
      <4>1. row'[a] = row[a]
          BY <3>2, <2>1, <2>3, RecordFacts
      <4> QED  BY <4>1
    <3> QED  BY <3>1, <3>2
  <2>4. ASSUME NEW b \in App, AcceptOffer(b)
        PROVE  Untouched(a)
    <3>1. row[b].status = "offered" /\ row' = [row EXCEPT ![b].status = "accepted"]
        BY <2>4 DEF AcceptOffer, SetStatus
    <3>2. a = b => row[a].status \notin Closed
        BY <3>1 DEF Closed
    <3>3. a # b => row'[a] = row[a]
        BY <2>1, <3>1
    <3> QED  BY <3>2, <3>3
  <2> QED  BY <2>2, <2>3, <2>4, RowSteps
<1> QED  BY <1>1, TypeCorrect, AlwaysOpenWhenRead, PTL DEF Spec, ClosedStaysClosed
-----------------------------------------------------------------------------
(* One email, one application.                                             *)
RecordedFor(m) == {a \in App : <<m, a>> \in recorded}

Visits(m) == IF mail[m].pc \in {"respond", "done"} THEN 1 ELSE 0

(* One more element makes a set larger by at most one.                     *)
LEMMA OneMore ==
    ASSUME NEW S, NEW x, IsFiniteSet(S)
    PROVE  /\ Cardinality(S) \in Nat /\ Cardinality(S \cup {x}) \in Nat
           /\ Cardinality(S \cup {x}) <= Cardinality(S) + 1
<1>1. Cardinality(S) \in Nat
    BY FS_CardinalityType
<1>2. Cardinality(S \cup {x}) = IF x \in S THEN Cardinality(S) ELSE Cardinality(S) + 1
    BY FS_AddElement
<1> QED  BY <1>1, <1>2

(* For as many applications as there were failures, and for one more once  *)
(* the email has been recorded in its present visit.                       *)
RecordedOnce == \A m \in Mail : Cardinality(RecordedFor(m)) <= faults + Visits(m)

(* At first nothing is recorded.                                           *)
LEMMA InitOnce == Init => RecordedOnce
<1> SUFFICES ASSUME Init, NEW m \in Mail
             PROVE  Cardinality(RecordedFor(m)) <= faults + Visits(m)
    BY DEF RecordedOnce
<1>1. RecordedFor(m) = {} /\ faults = 0 /\ Visits(m) \in {0, 1}
    BY DEF Init, InboxInit, DeploymentInit, RecordedFor, Visits
<1> QED  BY <1>1, FS_EmptySet

(* Only Record adds to the records, and ends the visit in which it may.    *)
LEMMA NextOnce == TypeOK /\ RecordedOnce /\ [Next]_vars => RecordedOnce'
<1> SUFFICES ASSUME TypeOK, RecordedOnce, [Next]_vars, NEW m \in Mail
             PROVE  Cardinality(RecordedFor(m)') <= faults' + Visits(m)'
    BY DEF RecordedOnce
<1> DEFINE n == Cardinality(RecordedFor(m))
<1>1. /\ Cardinality(RecordedFor(m)) \in Nat /\ faults \in Nat
      /\ Cardinality(RecordedFor(m)) <= faults + Visits(m)
  <2>1. RecordedFor(m) \subseteq App
      BY DEF RecordedFor
  <2> QED  BY <2>1, TableAssumption, FS_Subset, FS_CardinalityType
         DEF TypeOK, DeploymentOK, RecordedOnce
<1>2. Visits(m) \in {0, 1} /\ Visits(m)' \in {0, 1}
    BY DEF Visits
<1>3. ASSUME recorded' = recorded,
             \/ faults' = faults + 1
             \/ faults' = faults /\ Visits(m)' >= Visits(m)
      PROVE  Cardinality(RecordedFor(m)') <= faults' + Visits(m)'
  <2>1. RecordedFor(m)' = RecordedFor(m)
      BY <1>3 DEF RecordedFor
  <2> QED  BY <2>1, <1>1, <1>2, <1>3
<1>4. ASSUME NEW k \in Mail, Record(k)
      PROVE  Cardinality(RecordedFor(m)') <= faults' + Visits(m)'
  <2>1. recorded' = recorded \cup {<<k, mail[k].app>>}
      BY <1>4 DEF Record
  <2>2. /\ faults' = faults /\ mail[k].pc = "write" /\ mail'[k].pc = "respond"
        /\ mail[k].app \in App /\ \A l \in Mail \ {k} : mail'[l] = mail[l]
      BY <1>4, RecordFacts
  <2>3. CASE m = k
    <3>1. RecordedFor(m)' = RecordedFor(m) \cup {mail[m].app}
        BY <2>1, <2>2, <2>3 DEF RecordedFor
    <3>2. IsFiniteSet(RecordedFor(m))
      <4>1. RecordedFor(m) \subseteq App
          BY DEF RecordedFor
      <4> QED  BY <4>1, TableAssumption, FS_Subset
    <3>3. /\ Cardinality(RecordedFor(m)') <= Cardinality(RecordedFor(m)) + 1
          /\ Cardinality(RecordedFor(m)') \in Nat
      <4> DEFINE S == RecordedFor(m)
                 x == mail[m].app
      <4> HIDE DEF S, x
      <4>1. Cardinality(S \cup {x}) \in Nat /\ Cardinality(S \cup {x}) <= Cardinality(S) + 1
          BY <3>2, OneMore DEF S
      <4> QED  BY <3>1, <4>1 DEF S, x
    <3>4. Visits(m) = 0 /\ Visits(m)' = 1
        BY <2>2, <2>3 DEF Visits
    <3> QED  BY <3>3, <3>4, <1>1, <2>2
  <2>4. CASE m # k
    <3>1. RecordedFor(m)' = RecordedFor(m)
        BY <2>1, <2>4 DEF RecordedFor
    <3>2. Visits(m)' = Visits(m)
        BY <2>2, <2>4 DEF Visits
    <3> QED  BY <3>1, <3>2, <2>2, <1>1
  <2> QED  BY <2>3, <2>4
<1>5. mail \in [Mail -> MailState]
    BY DEF TypeOK, EmailOK
<1>6. ASSUME NEW k \in Mail, NEW i \in Instance, Receive(k, i)
      PROVE  recorded' = recorded /\ faults' = faults /\ Visits(m)' >= Visits(m)
  <2>1. /\ mail[k].pc = "queued" /\ faults' = faults /\ recorded' = recorded
        /\ \A l \in Mail \ {k} : mail'[l] = mail[l]
      BY <1>5, <1>6 DEF Receive, ReceiveEmail, Take
  <2> QED  BY <2>1 DEF Visits
<1>7. ASSUME NEW k \in Mail, NEW answer \in Answer, Classify(k, answer)
      PROVE  recorded' = recorded /\ faults' = faults /\ Visits(m)' >= Visits(m)
  <2>1. recorded' = recorded
      BY <1>7 DEF Classify
  <2>2. CASE ClassifyNoAction(k)
    <3>1. /\ mail[k].pc = "classify" /\ faults' = faults
          /\ \A l \in Mail \ {k} : mail'[l] = mail[l]
        BY <1>5, <2>2 DEF ClassifyNoAction, deployVars
    <3> QED  BY <2>1, <3>1 DEF Visits
  <2>3. ASSUME NEW a, ClassifyMatched(k, a, answer.classification)
        PROVE  faults' = faults /\ Visits(m)' >= Visits(m)
    <3>1. /\ mail[k].pc = "classify" /\ faults' = faults
          /\ \A l \in Mail \ {k} : mail'[l] = mail[l]
        BY <1>5, <2>3 DEF ClassifyMatched, deployVars
    <3> QED  BY <3>1 DEF Visits
  <2> QED  BY <1>7, <2>1, <2>2, <2>3 DEF Classify
<1>8. ASSUME NEW k \in Mail, Load(k)
      PROVE  recorded' = recorded /\ faults' = faults /\ Visits(m)' >= Visits(m)
  <2>1. /\ mail[k].pc = "record" /\ faults' = faults /\ recorded' = recorded
        /\ \A l \in Mail \ {k} : mail'[l] = mail[l]
      BY <1>5, <1>8 DEF Load, EmailLoad, deployVars
  <2> QED  BY <2>1 DEF Visits
<1>9. ASSUME NEW k \in Mail, Conclude(k)
      PROVE  recorded' = recorded /\ faults' = faults /\ Visits(m)' >= Visits(m)
  <2>1. /\ mail'[k].pc = "done" /\ faults' = faults /\ recorded' = recorded
        /\ \A l \in Mail \ {k} : mail'[l] = mail[l]
      BY <1>5, <1>9 DEF Conclude, Respond, Finish, Forgotten, MailState
  <2> QED  BY <2>1 DEF Visits
<1>10. ASSUME NEW k \in Mail, Fails(k)
       PROVE  recorded' = recorded /\ faults' = faults + 1
    BY <1>10 DEF Fails, EmailFails, Fault, Forgotten
<1>11. ASSUME NEW i \in Instance, Crash(i)
       PROVE  recorded' = recorded /\ faults' = faults + 1
    BY <1>11 DEF Crash, Fault, Forgotten
<1>12. ASSUME NEW a \in App, AcceptOffer(a)
       PROVE  recorded' = recorded /\ faults' = faults /\ Visits(m)' >= Visits(m)
    BY <1>12 DEF AcceptOffer, deployVars, emailVars, Visits
<1>13. CASE UNCHANGED vars
  <2>1. recorded' = recorded /\ faults' = faults /\ mail' = mail
      BY <1>13 DEF vars, deployVars, emailVars, inboxVars
  <2>2. Visits(m)' = Visits(m)
      BY <2>1 DEF Visits
  <2> QED  BY <2>1, <2>2, <1>2, <1>3
<1>14. ASSUME NEW k \in Mail, Refuse(k)
       PROVE  recorded' = recorded /\ faults' = faults /\ Visits(m)' >= Visits(m)
  <2>1. /\ mail[k].pc = "queued" /\ mail'[k].pc = "done"
        /\ faults' = faults /\ recorded' = recorded
        /\ \A l \in Mail \ {k} : mail'[l] = mail[l]
      BY <1>5, <1>14 DEF Refuse, EmailRefused, deployVars, inboxVars, MailState
  <2> QED  BY <2>1 DEF Visits
<1> QED  BY <1>3, <1>4, <1>6, <1>7, <1>8, <1>9, <1>10, <1>11, <1>12, <1>13, <1>14
       DEF Next, InboxStep

(* An email is recorded for one application, and for one more for each     *)
(* failure or repeated delivery at most (email_webhook.py:101-115).        *)
THEOREM OneEmailIsForOne == Spec => []OneEmailOneApplication
<1>1. TypeOK /\ RecordedOnce => OneEmailOneApplication
  <2> SUFFICES ASSUME TypeOK, RecordedOnce, NEW m \in Mail
               PROVE  Cardinality({a \in App : <<m, a>> \in recorded}) <= 1 + faults
      BY DEF OneEmailOneApplication
  <2>1. Cardinality(RecordedFor(m)) <= faults + Visits(m) /\ faults \in Nat
      BY DEF RecordedOnce, TypeOK, DeploymentOK
  <2>2. RecordedFor(m) \subseteq App
      BY DEF RecordedFor
  <2>3. Cardinality(RecordedFor(m)) \in Nat
      BY <2>2, TableAssumption, FS_Subset, FS_CardinalityType
  <2>4. Cardinality(RecordedFor(m)) <= 1 + faults
      BY <2>1, <2>3 DEF Visits
  <2> QED  BY <2>4 DEF RecordedFor
<1>2. Spec => []RecordedOnce
    BY InitOnce, NextOnce, TypeCorrect, PTL DEF Spec
<1> QED  BY <1>1, <1>2, TypeCorrect, PTL
-----------------------------------------------------------------------------
(* What the matching promises holds in every state of the right types.     *)

(* Names are sequences of characters, and the table holds their ratios.    *)
LEMMA NamesTypes ==
    ASSUME TypeOK, NEW m \in Mail, NEW answer \in Answer, NEW a \in App,
           NEW s, s = Needle(letter[m], answer)
    PROVE  /\ s \in Seq(Character) /\ NameOf(a) \in Seq(Character)
           /\ s = <<>> => RatioOf(s, NameOf(a)) = <<0, 1>>
           /\ s # <<>> => RatioOf(s, NameOf(a)) = Ratio(s, NameOf(a))
<1>1. letter[m] \in Letter /\ company \in Companies
    BY DEF TypeOK, InboxOK
<1>2. company[a] \in Seq(Character)
    BY <1>1, InboxAssumption
<1>3. letter[m].domain \in Seq(Seq(Character)) /\ letter[m].domain # <<>>
    BY <1>1, InboxAssumption
<1>4. SenderCompanyHint(letter[m].domain) \in Seq(Character)
  <2> DEFINE d == letter[m].domain
    <2>1. d \in Seq(Seq(Character)) /\ d # <<>>
      BY <1>3
  <2> HIDE DEF d
  <2>2. PICK k \in Nat : k = Len(d) /\ k > 0
      BY <2>1
  <2> DEFINE n == IF k = 1 THEN 1 ELSE k - 1
  <2>3. n \in 1..k
      BY <2>2
  <2>4. d[n] \in Seq(Character)
      BY <2>1, <2>2, <2>3
  <2>5. <<>> \in Seq(Character)
      OBVIOUS
  <2> QED  BY <2>2, <2>4, <2>5 DEF SenderCompanyHint, d
<1>5. answer.hint \in Seq(Character)
    BY InboxAssumption DEF Answer
<1>6. s \in Seq(Character)
  <2>1. Hint(answer.hint, letter[m].domain) \in Seq(Character)
      BY <1>4, <1>5 DEF Hint
  <2> QED  BY <2>1, NormaliseIsName DEF Needle
<1>7. NameOf(a) \in Seq(Character)
    BY <1>2, NormaliseIsName DEF NameOf
<1>8. s \in Needles /\ NameOf(a) \in Names
    BY <1>1 DEF Needles, Names, NameOf
<1>9. RatioOf(s, NameOf(a)) = IF s = <<>> THEN <<0, 1>> ELSE Ratio(s, NameOf(a))
    BY <1>8 DEF RatioOf, RatioTable
<1> QED  BY <1>6, <1>7, <1>9

(* The row an email is recorded for matches well enough, as no other       *)
(* candidate does better, or as well and more recently.                    *)
LEMMA ProposedIsBest ==
    ASSUME TypeOK, NEW m \in Mail, NEW answer \in Answer, NEW a \in Proposed(m, answer),
           NEW s, s = Needle(letter[m], answer)
    PROVE  /\ a \in mail[m].candidates /\ mail[m].candidates \subseteq App
           /\ s # <<>> /\ s \in Seq(Character) /\ NameOf(a) \in Seq(Character)
           /\ Ratio(s, NameOf(a)) \in Fraction
           /\ ~ Exceeds(<<6, 10>>, Ratio(s, NameOf(a)))
           /\ \A b \in mail[m].candidates \ {a} :
                 /\ ~ Exceeds(Ratio(s, NameOf(b)), Ratio(s, NameOf(a)))
                 /\ NameOf(b) = s
                       => Exceeds(Ratio(s, NameOf(a)), Ratio(s, NameOf(b)))
                          \/ <<a, b>> \in reading[m].newer
<1> DEFINE C == mail[m].candidates
           ratio == [b \in C |-> RatioOf(s, NameOf(b))]
<1>1. C \subseteq App
    BY MailFields DEF TypeOK
<1>2. a \in BestMatch(ratio, reading[m].newer)
    BY DEF Proposed, Match
<1> HIDE DEF C
<1>3. /\ a \in C /\ ~ Exceeds(<<6, 10>>, ratio[a])
      /\ \A b \in C \ {a} : \/ Exceeds(ratio[a], ratio[b])
                            \/ ~ Exceeds(ratio[b], ratio[a]) /\ <<a, b>> \in reading[m].newer
    BY <1>2 DEF BestMatch
<1>4. s # <<>>
  <2> SUFFICES ASSUME s = <<>> PROVE FALSE
      OBVIOUS
  <2>1. ratio[a] = <<0, 1>>
      BY <1>1, <1>3, NamesTypes
  <2> QED  BY <2>1, <1>3 DEF Exceeds
<1>5. \A b \in C : /\ ratio[b] = Ratio(s, NameOf(b)) /\ NameOf(b) \in Seq(Character)
                   /\ s \in Seq(Character)
    BY <1>1, <1>4, NamesTypes
<1>6. \A b \in C : Ratio(s, NameOf(b)) \in Fraction
    BY <1>4, <1>5, OnlyTheSameIsOne
<1>7. ASSUME NEW b \in C, Exceeds(ratio[a], ratio[b])
      PROVE  ~ Exceeds(ratio[b], ratio[a])
  <2>1. ratio[a] \in Fraction /\ ratio[b] \in Fraction
      BY <1>3, <1>5, <1>6
  <2> QED  BY <2>1, <1>7 DEF Fraction, Exceeds
<1> QED  BY <1>1, <1>3, <1>4, <1>5, <1>6, <1>7 DEF C

(* An application to the company an email names is not passed over, nor a  *)
(* later one for an earlier one (email_classifier.py:128-131).             *)
THEOREM NamedCompanyAlwaysWins == Spec => []NamedCompanyWins
<1>1. TypeOK => NamedCompanyWins
  <2> SUFFICES ASSUME TypeOK, NEW m \in Mail, NEW answer \in Answer,
                      NEW a \in Proposed(m, answer), NEW b \in mail[m].candidates,
                      NameOf(b) = Needle(letter[m], answer)
               PROVE  /\ NameOf(a) = Needle(letter[m], answer)
                      /\ a = b \/ <<a, b>> \in reading[m].newer
      BY DEF NamedCompanyWins
  <2> DEFINE s == Needle(letter[m], answer)
             p == Ratio(s, NameOf(a))
             q == Ratio(s, NameOf(b))
  <2>1. CASE a = b
      BY <2>1
  <2>2. CASE a # b
    <3>1. /\ s # <<>> /\ s \in Seq(Character) /\ NameOf(a) \in Seq(Character)
          /\ p \in Fraction /\ ~ Exceeds(q, p)
          /\ Exceeds(p, q) \/ <<a, b>> \in reading[m].newer
        BY <2>2, ProposedIsBest
    <3>2. q \in Fraction /\ q[1] = q[2]
        BY <3>1, OnlyTheSameIsOne
    <3> HIDE DEF p, q
    <3>3. p[1] = p[2] /\ ~ Exceeds(p, q)
        BY <3>1, <3>2 DEF Fraction, Exceeds
    <3>4. s = NameOf(a)
        BY <3>1, <3>3, OnlyTheSameIsOne DEF p
    <3> QED  BY <3>1, <3>3, <3>4
  <2> QED  BY <2>1, <2>2
<1> QED  BY <1>1, TypeCorrect, PTL

(* An email is recorded for no application to a company whose name has     *)
(* nothing in common with the one it names (email_classifier.py:123-146).  *)
THEOREM UnrelatedAlwaysStaysOut == Spec => []UnrelatedStayOut
<1>1. TypeOK => UnrelatedStayOut
  <2> SUFFICES ASSUME TypeOK, NEW m \in Mail, NEW answer \in Answer,
                      NEW a \in Proposed(m, answer), NameOf(a) # <<>>
               PROVE  SharedCharacter(NameOf(a), Needle(letter[m], answer))
      BY DEF UnrelatedStayOut
  <2> DEFINE s == Needle(letter[m], answer)
             p == Ratio(s, NameOf(a))
  <2>1. /\ s # <<>> /\ s \in Seq(Character) /\ NameOf(a) \in Seq(Character)
        /\ p \in Fraction /\ ~ Exceeds(<<6, 10>>, p)
      BY ProposedIsBest
  <2> HIDE DEF p
  <2>2. p[1] # 0
      BY <2>1 DEF Fraction, Exceeds
  <2> QED  BY <2>1, <2>2, NothingSharedIsZero DEF p
<1> QED  BY <1>1, TypeCorrect, PTL

(* The filter lets a hiring email pass.                                    *)
LEMMA HiringMailIsNoNoise ==
    ASSUME NEW l \in Letter, HiringMail(l)
    PROVE  ~ IsNoiseEmail(l)
<1>1. l.subject = {"interview"} /\ "board" \notin l.body /\ Cardinality(l.body) <= 1
    BY DEF HiringMail
<1>2. ~ JobAlert(l) /\ ~ BulkSender(l)
    BY <1>1 DEF JobAlert, BulkSender, LooksAdvancing, Advancing
<1>3. ~ Newsletter(l)
  <2> SUFFICES ASSUME {"unsubscribe", "footer"} \subseteq l.body PROVE FALSE
      BY DEF Newsletter
  <2>1. IsFiniteSet(l.body)
    <3>1. l.body \subseteq Phrase
        BY InboxAssumption
    <3>2. IsFiniteSet(Phrase)
      <4>1. \A x : IsFiniteSet({x})
          BY FS_Singleton
      <4>2. IsFiniteSet({"board"} \cup {"interview"} \cup {"reject"} \cup {"rejected"}
                         \cup {"unsubscribe"} \cup {"footer"})
          BY <4>1, FS_Union
      <4> QED  BY <4>2 DEF Phrase
    <3> QED  BY <3>1, <3>2, FS_Subset
  <2>2. Cardinality({"unsubscribe", "footer"}) = 2
    <3>1. IsFiniteSet({"footer"}) /\ Cardinality({"footer"}) = 1
        BY FS_Singleton
    <3>2. {"unsubscribe", "footer"} = {"footer"} \cup {"unsubscribe"}
        OBVIOUS
    <3> QED  BY <3>1, <3>2, FS_AddElement
  <2>3. Cardinality({"unsubscribe", "footer"}) <= Cardinality(l.body)
      BY <2>1, FS_Subset
  <2> QED  BY <1>1, <2>1, <2>2, <2>3, FS_CardinalityType
<1> QED  BY <1>2, <1>3 DEF IsNoiseEmail

(* A hiring email that names a company with an open application is         *)
(* recorded (email_filter.py:8-12).                                        *)
THEOREM HiringMailAlwaysMatched == Spec => []HiringMailIsMatched
<1>1. TypeOK => HiringMailIsMatched
  <2> SUFFICES ASSUME TypeOK, NEW m \in Mail, NEW answer \in Answer,
                      HiringMail(letter[m]), answer.classification \notin Informational,
                      NEW c \in mail[m].candidates,
                      NameOf(c) = Normalise(answer.hint), NameOf(c) # <<>>
               PROVE  Proposed(m, answer) # {}
      BY DEF HiringMailIsMatched
  <2> DEFINE C == mail[m].candidates
             s == Needle(letter[m], answer)
             T == {b \in C : NameOf(b) = s}
             ratio == [b \in C |-> RatioOf(s, NameOf(b))]
  <2>1. s = NameOf(c)
    <3>1. answer.hint # <<>>
        BY NormaliseEmpty
    <3> QED  BY <3>1 DEF Needle, Hint
  <2>2. Proposed(m, answer) = BestMatch(ratio, reading[m].newer)
    <3>1. letter[m] \in Letter
        BY DEF TypeOK, InboxOK
    <3> QED  BY <3>1, HiringMailIsNoNoise DEF Proposed, Match
  <2>3. C \subseteq App /\ IsFiniteSet(C)
    <3>1. C \subseteq App
        BY MailFields DEF TypeOK
    <3> QED  BY <3>1, TableAssumption, FS_Subset
  <2>4. Orders(reading[m].newer, C)
      BY DEF TypeOK, InboxOK
  <2>5. \A b \in C : /\ ratio[b] \in Fraction
                     /\ ratio[b][1] = ratio[b][2] <=> b \in T
    <3> SUFFICES ASSUME NEW b \in C
                 PROVE  /\ ratio[b] \in Fraction
                        /\ ratio[b][1] = ratio[b][2] <=> s = NameOf(b)
        OBVIOUS
    <3>1. /\ s \in Seq(Character) /\ NameOf(b) \in Seq(Character)
          /\ ratio[b] = Ratio(s, NameOf(b))
        BY <2>1, <2>3, NamesTypes
    <3> QED  BY <3>1, <2>1, OnlyTheSameIsOne
  <2>6. c \in T
      BY <2>1
  <2> HIDE DEF ratio, s
  <2>7. PICK x \in T : \A y \in T \ {x} : <<x, y>> \in reading[m].newer
    <3>1. T \subseteq C /\ T # {}
        BY <2>6
    <3> HIDE DEF T, C
    <3> QED  BY <3>1, <2>3, <2>4, NewestExists
  <2>8. x \in C /\ ratio[x] \in Fraction /\ ratio[x][1] = ratio[x][2]
      BY <2>5
  <2>9. ~ Exceeds(<<6, 10>>, ratio[x])
      BY <2>8 DEF Fraction, Exceeds
  <2>10. ASSUME NEW b \in C \ {x}
         PROVE  \/ Exceeds(ratio[x], ratio[b])
                \/ ~ Exceeds(ratio[b], ratio[x]) /\ <<x, b>> \in reading[m].newer
    <3>1. ratio[b] \in Fraction
        BY <2>5
    <3>2. CASE b \in T
      <4>1. ratio[b][1] = ratio[b][2] /\ <<x, b>> \in reading[m].newer
          BY <3>2, <2>5, <2>7
      <4>2. ~ Exceeds(ratio[b], ratio[x])
          BY <3>1, <4>1, <2>8 DEF Fraction, Exceeds
      <4> QED  BY <4>1, <4>2
    <3>3. CASE b \notin T
      <4>1. ratio[b][1] < ratio[b][2]
          BY <3>1, <3>3, <2>5 DEF Fraction
      <4>2. Exceeds(ratio[x], ratio[b])
          BY <3>1, <4>1, <2>8 DEF Fraction, Exceeds
      <4> QED  BY <4>2
    <3> QED  BY <3>2, <3>3
  <2>11. x \in BestMatch(ratio, reading[m].newer)
      BY <2>8, <2>9, <2>10 DEF BestMatch, ratio
  <2> QED  BY <2>2, <2>11
<1> QED  BY <1>1, TypeCorrect, PTL
=============================================================================
