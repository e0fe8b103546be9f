-------------------------- MODULE OnboardingProofs ---------------------------
(***************************************************************************)
(* What is sent in a user's name, who is let in, and whose token it is:    *)
(* for any users, updates, files, answers of the LLM and boards.           *)
(***************************************************************************)
EXTENDS Onboarding, FiniteSetTheorems, WellFoundedInduction, TLAPS

(* A handler is in one of the states its kind of update leads through, on  *)
(* behalf of somebody, and has a resume by the time it needs one.          *)
Running == Pc \ {"idle", "done"}

Shape(state) ==
    /\ IF state.pc = "idle" THEN state = NoRequest ELSE state.who \in Person
    /\ state.pc = "parsing" => state.kind = "pdf"
    /\ state.pc = "visit" => state.kind = "visit"
    /\ state.pc = "rotate" => state.kind = "emailhook"
    /\ state.pc \in {"select", "write"} => state.kind \in {"json", "pdf"}
    /\ state.kind = "json" /\ state.pc \in Running => state.resume # None
    /\ state.kind = "pdf" /\ state.pc \in {"lookup", "insert", "select", "write"}
          => state.resume # None

Searching == cycle.pc \in {"search", "tailor"}

CycleShape == Searching => cycle.who \in Person /\ cycle.resume \in Resume

TypeInv == /\ TypeOK
           /\ \A r \in Request : Shape(request[r])
           /\ \A p \in Person : IsFiniteSet(masters[p])
           /\ CycleShape
-----------------------------------------------------------------------------
(* The last rewrite that fits: a set of positions in a list has a greatest.*)
Below == {e \in Nat \X Nat : e[1] < e[2]}

(* The order of the natural numbers is well-founded.                       *)
LEMMA BelowIsWellFounded == IsWellFoundedOn(Below, Nat)
  BY NatLessThanWellFounded, SMT DEF OpToRel, Below

(* A nonempty set of positions has a greatest one: take the least distance *)
(* from the end.                                                           *)
LEMMA Greatest ==
  ASSUME NEW n \in Nat, NEW S, S \subseteq 1..n, S # {}
  PROVE  \E i \in S : \A j \in S : j <= i
<1> DEFINE Distance == {n - i : i \in S}
<1>1. Distance \subseteq Nat /\ Distance # {}
  <2>1. \A i \in S : n - i \in Nat
    OBVIOUS
  <2>2. PICK i \in S : TRUE
    OBVIOUS
  <2>3. n - i \in Distance
    BY DEF Distance
  <2>. QED
    BY <2>1, <2>3 DEF Distance
<1>2. PICK d \in Distance : \A e \in Distance : <<e, d>> \notin Below
  <2>1. \E d \in Distance : \A e \in Distance : ~ (<<e, d>> \in Below)
    BY ONLY <1>1, BelowIsWellFounded, WFMin, Zenon
  <2>. QED
    BY <2>1
<1>3. PICK i \in S : d = n - i
  BY <1>2 DEF Distance
<1>4. \A j \in S : ~ (n - j < n - i)
  BY <1>1, <1>2, <1>3 DEF Below, Distance
<1>. QED
  BY <1>3, <1>4

(* A bullet is shown as it is, or as a rewrite the resume justifies.       *)
LEMMA DisplayedIsGrounded ==
  ASSUME NEW resume \in Resume, NEW answer \in Seq(Suggestion),
         NEW bullet \in resume.bullets
  PROVE  LET text == Displayed(resume, answer, bullet)
         IN /\ text \in Text
            /\ text = bullet \/ Justified(GroundingText(resume), answer, text)
<1> DEFINE fits == Rewrites(resume, answer, bullet)
<1>1. bullet \in Text
  BY DEF Resume
<1>2. CASE fits = {}
  BY <1>1, <1>2 DEF Displayed
<1>3. CASE fits # {}
  <2> DEFINE last == CHOOSE i \in fits : \A j \in fits : j <= i
  <2>1. Len(answer) \in Nat /\ fits \subseteq 1..Len(answer)
    BY DEF Rewrites
  <2>2. last \in fits
    <3>1. \E i \in fits : \A j \in fits : j <= i
      BY ONLY <1>3, <2>1, Greatest
    <3>. QED
      BY <3>1
  <2>3. /\ last \in DOMAIN answer
        /\ Grounded(resume, answer[last])
        /\ answer[last] \in Suggestion
    BY <2>2 DEF Rewrites
  <2>4. Displayed(resume, answer, bullet) = answer[last].text
    BY <1>3 DEF Displayed
  <2>. HIDE DEF last
  <2>5. answer[last].text \in Text
    BY <2>3 DEF Suggestion
  <2>6. Justified(GroundingText(resume), answer, answer[last].text)
    BY <2>3 DEF Grounded, Justified
  <2>. QED
    BY <2>4, <2>5, <2>6
<1>. QED
  BY <1>2, <1>3

(* A rendered resume consists of its fields and of such rewrites.          *)
LEMMA PdfIsGrounded ==
  ASSUME NEW resume \in Resume, NEW answer \in Seq(Suggestion)
  PROVE  /\ Pdf(resume, answer) \subseteq Text
         /\ \A text \in Pdf(resume, answer) :
               \/ text \in Checked(resume)
               \/ text \in resume.dates
               \/ Justified(GroundingText(resume), answer, text)
<1>1. \A bullet \in resume.bullets :
         /\ bullet \in Checked(resume)
         /\ Displayed(resume, answer, bullet) \in Text
         /\ \/ Displayed(resume, answer, bullet) = bullet
            \/ Justified(GroundingText(resume), answer, Displayed(resume, answer, bullet))
  BY DisplayedIsGrounded DEF Checked, GroundingText
<1>2. /\ resume.contact \cup resume.body \cup resume.dates \subseteq Text
      /\ resume.contact \cup resume.body \subseteq Checked(resume)
  BY DEF Resume, Checked, GroundingText
<1>. QED
  BY <1>1, <1>2 DEF Pdf

(* And a card that carries no note of such rewrites only.                  *)
LEMMA CardIsGrounded ==
  ASSUME NEW resume \in Resume, NEW answer \in Seq(Suggestion)
  PROVE  /\ Card(answer) \subseteq Text
         /\ Flagged(resume, answer) \in BOOLEAN
         /\ ~ Flagged(resume, answer)
               => \A text \in Card(answer) : Justified(GroundingText(resume), answer, text)
<1>1. \A i \in DOMAIN answer : answer[i].text \in Text
  <2>1. \A i \in DOMAIN answer : answer[i] \in Suggestion
    OBVIOUS
  <2>. QED
    BY <2>1 DEF Suggestion
<1>2. Card(answer) \subseteq Text
  BY <1>1 DEF Card
<1>3. ASSUME ~ Flagged(resume, answer), NEW text \in Card(answer)
      PROVE  Justified(GroundingText(resume), answer, text)
  BY <1>3 DEF Card, Flagged, Grounded, Justified
<1>. QED
  BY <1>2, <1>3 DEF Flagged
-----------------------------------------------------------------------------
(* TypeInv is inductive.                                                   *)
LEMMA NoRequestType == NoRequest \in RequestState /\ NoRequest.pc = "idle" /\ Shape(NoRequest)
<1>1. NoRequest \in RequestState
  BY DEF NoRequest, RequestState, Pc, Kind
<1>2. NoRequest.pc = "idle"
  BY DEF NoRequest
<1>. QED
  BY <1>1, <1>2 DEF Shape, Running

(* Initially nothing is under way.                                         *)
LEMMA InitTypes == ASSUME Init PROVE TypeInv
<1>1. \A r \in Request : request[r] = NoRequest
  BY DEF Init, AccountsInit
<1>2. request \in [Request -> RequestState]
  BY NoRequestType DEF Init, AccountsInit
<1>3. /\ token \in [Person -> Nat] /\ masters \in [Person -> SUBSET Row]
      /\ uploaded \in [Person -> SUBSET File] /\ stored \in [Person -> SUBSET Resume]
      /\ shown \in [Person -> SUBSET Nat]
      /\ \A p \in Person : masters[p] = {}
  BY DEF Init, AccountsInit
<1>4. users \subseteq Person /\ issued \in Nat /\ faults \in 0..MaxFaults
  BY AccountsAssumption DEF Init, AccountsInit
<1>5. cycle \in CycleState /\ ~ Searching /\ sent = None
  BY DEF Init, IdleCycle, CycleState, Searching
<1>6. \A r \in Request : Shape(request[r]) /\ request[r].pc = "idle"
  BY <1>1, NoRequestType
<1>. QED
  BY <1>2, <1>3, <1>4, <1>5, <1>6, FS_EmptySet DEF TypeInv, TypeOK, CycleShape

(* A handler step leaves the other handlers alone.                         *)
Becomes(r, new) == request' = [request EXCEPT ![r] = new]

(* A step of one handler keeps the types if its own state and what it      *)
(* stores have theirs.                                                     *)
LEMMA HandlerTypes ==
  ASSUME TypeInv, NEW r \in Request, NEW new \in RequestState,
         Becomes(r, new), Shape(new),
         users' \subseteq Person, token' \in [Person -> Nat],
         masters' \in [Person -> SUBSET Row], \A p \in Person : IsFiniteSet(masters'[p]),
         issued' \in Nat, uploaded' \in [Person -> SUBSET File],
         stored' \in [Person -> SUBSET Resume], shown' \in [Person -> SUBSET Nat],
           faults' \in 0..MaxFaults,
         UNCHANGED <<cycle, sent>>
  PROVE  TypeInv'
<1>1. /\ request' \in [Request -> RequestState]
      /\ request'[r] = new
      /\ \A s \in Request \ {r} : request'[s] = request[s]
  BY DEF TypeInv, TypeOK, Becomes
<1>2. \A s \in Request : Shape(request'[s])
  BY <1>1 DEF TypeInv
<1>3. \A s \in Request : request'[s].pc \in {"select", "write"}
                            => request'[s].resume # None
  BY <1>2 DEF Shape, Running, Pc
<1>. QED
  BY <1>1, <1>2, <1>3 DEF TypeInv, TypeOK, CycleShape, Searching

(* What a handler's state looks like.                                      *)
LEMMA RequestIs ==
  ASSUME TypeInv, NEW r \in Request
  PROVE  /\ request[r] \in RequestState
         /\ Shape(request[r])
  BY DEF TypeInv, TypeOK, Shape

(* A handler that is done has forgotten everything but who it was for.     *)
LEMMA DoneBecomes ==
  ASSUME TypeInv, NEW r \in Request, Done(r), ~ At(r, "idle")
  PROVE  \E new \in RequestState :
            /\ Becomes(r, new) /\ Shape(new)
            /\ new.pc = "done" /\ new.token = 0
            /\ new.kind = request[r].kind /\ new.who = request[r].who
<1> DEFINE new == [NoRequest EXCEPT !.pc = "done", !.who = Who(r), !.kind = request[r].kind]
<1>1. /\ new \in RequestState
      /\ new.pc = "done" /\ new.token = 0
      /\ new.kind = request[r].kind /\ new.who = request[r].who
  BY RequestIs, NoRequestType DEF RequestState, Pc, Kind, NoRequest, Who
<1>2. Shape(new)
  BY <1>1, RequestIs DEF Shape, At, Running, Pc
<1>3. Becomes(r, new)
  BY DEF Done, Becomes
<1>. HIDE DEF new
<1>. QED
  BY <1>1, <1>2, <1>3

(* A handler that goes on keeps all it has.                                *)
LEMMA GotoBecomes ==
  ASSUME TypeInv, NEW r \in Request, NEW pc \in Pc, Goto(r, pc)
  PROVE  \E new \in RequestState :
            /\ Becomes(r, new)
            /\ new.pc = pc /\ new.who = request[r].who /\ new.kind = request[r].kind
            /\ new.file = request[r].file /\ new.resume = request[r].resume
            /\ new.row = request[r].row /\ new.inserted = request[r].inserted
            /\ new.token = request[r].token
<1> DEFINE new == [request[r] EXCEPT !.pc = pc]
<1>1. new \in RequestState
  BY RequestIs DEF RequestState
<1>2. /\ new.pc = pc /\ new.who = request[r].who /\ new.kind = request[r].kind
      /\ new.file = request[r].file /\ new.resume = request[r].resume
      /\ new.row = request[r].row /\ new.inserted = request[r].inserted
      /\ new.token = request[r].token
  BY RequestIs DEF RequestState
<1>3. Becomes(r, new)
  BY DEF Goto, Becomes
<1>. HIDE DEF new
<1>. QED
  BY <1>1, <1>2, <1>3
(* What most steps leave alone.                                            *)
SameStores ==
    UNCHANGED <<users, token, masters, issued, uploaded, stored, shown, cycle, sent>>

(* Steps of one handler that store nothing.                                *)
LEMMA QuietTypes ==
  ASSUME TypeInv, NEW r \in Request, NEW new \in RequestState,
         Becomes(r, new), Shape(new),
         SameStores, faults' = faults \/ Fault
  PROVE  TypeInv'
<1>1. faults' \in 0..MaxFaults
  BY AccountsAssumption DEF TypeInv, TypeOK, Fault
<1>. QED
  BY <1>1, HandlerTypes DEF SameStores, TypeInv, TypeOK

(* A command arrives.                                                      *)
LEMMA CommandTypes ==
  ASSUME TypeInv, NEW r \in Request, NEW p \in Person, NEW kind \in Kind,
         SendCommand(r, p, kind), UNCHANGED <<cycle, sent>>
  PROVE  TypeInv'
<1> DEFINE new == [request[r] EXCEPT !.pc = "queued", !.who = p, !.kind = kind]
<1>1. new \in RequestState /\ Shape(new) /\ Becomes(r, new)
  BY RequestIs DEF SendCommand, RequestState, Pc, Becomes, Shape, Running
<1>. QED
  BY <1>1, QuietTypes DEF SendCommand, SameStores

(* A file arrives.                                                         *)
LEMMA UploadTypes ==
  ASSUME TypeInv, NEW r \in Request, NEW p \in Person, NEW file \in File,
         Upload(r, p, file), UNCHANGED <<cycle, sent>>
  PROVE  TypeInv'
<1> DEFINE new == [request[r] EXCEPT
                     !.pc = "queued", !.who = p, !.kind = file.kind, !.file = file,
                     !.resume = IF file.kind = "json" THEN file.content ELSE None]
<1>1. \/ file.kind = "json" /\ file.content \in Resume
      \/ file.kind = "pdf"
  BY AccountsAssumption
<1>2. new \in RequestState
  BY <1>1, RequestIs DEF RequestState, Pc, Kind
<1>3. Shape(new)
  BY <1>1, RequestIs, AccountsAssumption DEF RequestState, Shape, Running
<1>4. Becomes(r, new)
  BY DEF Upload, Becomes
<1>5. uploaded' \in [Person -> SUBSET File]
  BY DEF Upload, TypeInv, TypeOK
<1>. QED
  BY <1>2, <1>3, <1>4, <1>5, HandlerTypes DEF Upload, TypeInv, TypeOK

(* A handler ends.                                                         *)
LEMMA DoneTypes ==
  ASSUME TypeInv, NEW r \in Request, Done(r), ~ At(r, "idle"),
         SameStores, faults' = faults \/ Fault
  PROVE  TypeInv'
  BY DoneBecomes, QuietTypes

(* It is let in or refused.                                                *)
LEMMA HandleTypes ==
  ASSUME TypeInv, NEW r \in Request, Handle(r), UNCHANGED <<cycle, sent>>
  PROVE  TypeInv'
<1>1. CASE Done(r)
  BY <1>1, DoneTypes DEF Handle, At, SameStores
<1>2. CASE Goto(r, IF request[r].kind = "pdf" THEN "parsing" ELSE "lookup")
  <2> DEFINE pc == IF request[r].kind = "pdf" THEN "parsing" ELSE "lookup"
  <2>1. pc \in Pc
    BY DEF Pc
  <2>2. PICK new \in RequestState :
           /\ Becomes(r, new)
           /\ new.pc = pc /\ new.who = request[r].who /\ new.kind = request[r].kind
           /\ new.resume = request[r].resume
    BY <1>2, <2>1, GotoBecomes
  <2>3. Shape(new)
    BY <2>2, RequestIs DEF Shape, Handle, At, Running, Pc, pc
  <2>. QED
    BY <2>2, <2>3, QuietTypes DEF Handle, SameStores
<1>. QED
  BY <1>1, <1>2 DEF Handle

(* It has parsed its file, and has a resume.                               *)
LEMMA ParseTypes ==
  ASSUME TypeInv, NEW r \in Request, NEW answer \in Answer, Parse(r, answer),
         UNCHANGED <<cycle, sent>>
  PROVE  TypeInv'
<1> DEFINE new == [request[r] EXCEPT !.pc = "lookup", !.resume = answer]
<1>1. answer \in Resume /\ answer # None
  BY AccountsAssumption
<1>2. new \in RequestState /\ Shape(new) /\ Becomes(r, new)
  BY <1>1, RequestIs DEF Parse, RequestState, Pc, Becomes, Shape, Running, At
<1>. QED
  BY <1>2, QuietTypes DEF Parse, SameStores

(* It looks the user up or inserts them.                                   *)
LEMMA UserTypes ==
  ASSUME TypeInv, NEW r \in Request, UserLookup(r) \/ UserInsert(r),
         UNCHANGED <<cycle, sent>>
  PROVE  TypeInv'
<1>1. Work(r) \in Pc
  BY DEF Work, Pc
<1>2. ASSUME NEW new \in RequestState,
             new.pc \in {"insert", Work(r)}, new.who = request[r].who,
             new.kind = request[r].kind, new.resume = request[r].resume
      PROVE  Shape(new)
  BY <1>2, RequestIs DEF UserLookup, UserInsert, Work, Shape, At, Running, Pc, RequestState, Kind
<1>3. ASSUME NEW pc \in {"insert", Work(r)}, Goto(r, pc)
      PROVE  TypeInv'
  <2>1. pc \in Pc
    BY <1>1 DEF Pc
  <2>2. PICK new \in RequestState :
           /\ Becomes(r, new)
           /\ new.pc = pc /\ new.who = request[r].who /\ new.kind = request[r].kind
           /\ new.resume = request[r].resume
    BY <1>3, <2>1, GotoBecomes
  <2>. QED
    BY <1>2, <2>2, QuietTypes DEF UserLookup, UserInsert, SameStores
<1>4. CASE request' = [request EXCEPT ![r].pc = Work(r), ![r].inserted = TRUE]
  <2> DEFINE new == [request[r] EXCEPT !.pc = Work(r), !.inserted = TRUE]
  <2>1. /\ new \in RequestState
        /\ new.pc = Work(r) /\ new.who = request[r].who /\ new.kind = request[r].kind
        /\ new.resume = request[r].resume
    BY <1>1, RequestIs DEF RequestState
  <2>2. Becomes(r, new)
    BY <1>4 DEF Becomes
  <2>. HIDE DEF new
  <2>. QED
    BY <1>2, <2>1, <2>2, QuietTypes DEF UserLookup, UserInsert, SameStores
<1>. QED
  BY <1>3, <1>4 DEF UserLookup, UserInsert

(* A visit goes on to its answer.                                          *)
LEMMA VisitTypes ==
  ASSUME TypeInv, NEW r \in Request, Visit(r), UNCHANGED <<cycle, sent>>
  PROVE  TypeInv'
<1> DEFINE new == [request[r] EXCEPT !.pc = "reply", !.inserted = FALSE]
<1>1. new \in RequestState /\ Shape(new) /\ Becomes(r, new)
  BY RequestIs DEF Visit, RequestState, Pc, Becomes, Shape, Running, At
<1>2. users' \subseteq Person
  BY RequestIs DEF Visit, Committed, Who, At, Shape, TypeInv, TypeOK
<1>. QED
  BY <1>1, <1>2, HandlerTypes DEF Visit, TypeInv, TypeOK

(* It reads one of the user's master rows, or none.                        *)
LEMMA SelectTypes ==
  ASSUME TypeInv, NEW r \in Request, SelectMaster(r), UNCHANGED <<cycle, sent>>
  PROVE  TypeInv'
<1>1. request[r].who \in Person
  BY RequestIs DEF SelectMaster, At, Shape
<1>2. PICK row \in IF masters[Who(r)] = {} THEN {None} ELSE masters[Who(r)] :
         request' = [request EXCEPT ![r].pc = "write", ![r].row = row]
  BY DEF SelectMaster
<1>3. row \in Row \cup {None}
  BY <1>1, <1>2 DEF Who, TypeInv, TypeOK
<1> DEFINE new == [request[r] EXCEPT !.pc = "write", !.row = row]
<1>4. new \in RequestState /\ Shape(new) /\ Becomes(r, new)
  BY <1>2, <1>3, RequestIs DEF SelectMaster, RequestState, Pc, Becomes, Shape, Running, At
<1>. QED
  BY <1>4, QuietTypes DEF SelectMaster, SameStores

(* What the rows of a person become.                                       *)
Rewritten(rows, seen, new) ==
    CASE seen = None -> rows \cup {[id |-> Cardinality(rows) + 1, content |-> new]}
      [] seen # None /\ seen.content = new -> rows
      [] OTHER -> {row \in rows : row.id # seen.id} \cup {[id |-> seen.id, content |-> new]}

(* Rows stay finitely many rows, and new contents are the resume written.  *)
LEMMA RewrittenIs ==
  ASSUME NEW rows \in SUBSET Row, IsFiniteSet(rows), NEW seen \in Row \cup {None},
         NEW new \in Resume
  PROVE  /\ Rewritten(rows, seen, new) \in SUBSET Row
         /\ IsFiniteSet(Rewritten(rows, seen, new))
         /\ \A row \in Rewritten(rows, seen, new) : row \in rows \/ row.content = new
<1>1. CASE seen = None
  <2> DEFINE added == [id |-> Cardinality(rows) + 1, content |-> new]
  <2>1. added \in Row /\ added.content = new
    BY FS_CardinalityType DEF Row
  <2>2. Rewritten(rows, seen, new) = rows \cup {added}
    BY <1>1 DEF Rewritten
  <2>3. IsFiniteSet(rows \cup {added})
    BY FS_AddElement
  <2>. HIDE DEF added
  <2>. QED
    BY <2>1, <2>2, <2>3
<1>2. CASE seen # None /\ seen.content = new
  BY <1>2 DEF Rewritten
<1>3. CASE seen # None /\ seen.content # new
  <2> DEFINE kept == {row \in rows : row.id # seen.id}
             added == [id |-> seen.id, content |-> new]
  <2>1. Rewritten(rows, seen, new) = kept \cup {added}
    BY <1>3 DEF Rewritten
  <2>2. added \in Row /\ added.content = new
    BY <1>3 DEF Row
  <2>3. kept \subseteq rows /\ IsFiniteSet(kept)
    BY FS_Subset
  <2>4. IsFiniteSet(kept \cup {added})
    BY ONLY <2>3, FS_AddElement
  <2>. HIDE DEF kept, added
  <2>. QED
    BY <2>1, <2>2, <2>3, <2>4
<1>. QED
  BY <1>1, <1>2, <1>3

(* What an upload writes: its own resume, among its own user's rows.       *)
LEMMA WriteIs ==
  ASSUME TypeInv, NEW r \in Request, WriteMaster(r)
  PROVE  LET p == request[r].who
         IN /\ p \in Person /\ request[r].resume \in Resume
            /\ masters' = [masters EXCEPT ![p] =
                  Rewritten(masters[p], request[r].row, request[r].resume)]
            /\ request[r].row \in Row \cup {None}
  BY RequestIs DEF WriteMaster, Rewritten, Who, At, Shape, Running, Pc, RequestState

(* The resume is stored.                                                   *)
LEMMA WriteTypes ==
  ASSUME TypeInv, NEW r \in Request, WriteMaster(r), UNCHANGED <<cycle, sent>>
  PROVE  TypeInv'
<1> DEFINE p == request[r].who
           rows == Rewritten(masters[p], request[r].row, request[r].resume)
           new == [request[r] EXCEPT !.pc = "reply", !.inserted = FALSE, !.row = None]
<1>1. p \in Person /\ masters' = [masters EXCEPT ![p] = rows]
  BY WriteIs
<1>2. rows \in SUBSET Row /\ IsFiniteSet(rows)
  BY WriteIs, RewrittenIs DEF TypeInv, TypeOK
<1>3. /\ masters' \in [Person -> SUBSET Row]
      /\ \A q \in Person : IsFiniteSet(masters'[q])
  <2>. HIDE DEF rows, p
  <2>. QED
    BY <1>1, <1>2 DEF TypeInv, TypeOK
<1>4. new \in RequestState /\ Shape(new) /\ Becomes(r, new)
  BY RequestIs DEF WriteMaster, RequestState, Pc, Becomes, Shape, Running, At
<1>5. users' \subseteq Person
  BY <1>1 DEF WriteMaster, Committed, Who, TypeInv, TypeOK
<1>6. stored' \in [Person -> SUBSET Resume]
  <2>1. /\ request[r].resume \in Resume
        /\ stored' = [stored EXCEPT ![p] = @ \cup {request[r].resume}]
    BY WriteIs DEF WriteMaster, Who
  <2>. HIDE DEF p
  <2>. QED
    BY <1>1, <2>1 DEF TypeInv, TypeOK
<1>. QED
  BY <1>3, <1>4, <1>5, <1>6, HandlerTypes DEF WriteMaster, TypeInv, TypeOK

(* A token is stored.                                                      *)
LEMMA RotateTypes ==
  ASSUME TypeInv, NEW r \in Request, RotateToken(r), UNCHANGED <<cycle, sent>>
  PROVE  TypeInv'
<1> DEFINE new == [request[r] EXCEPT !.pc = "reply", !.inserted = FALSE, !.token = issued + 1]
<1>1. issued + 1 \in Nat
  BY DEF TypeInv, TypeOK
<1>2. new \in RequestState /\ Shape(new) /\ Becomes(r, new)
  BY <1>1, RequestIs DEF RotateToken, RequestState, Pc, Becomes, Shape, Running, At
<1>3. users' \subseteq Person /\ token' \in [Person -> Nat]
  BY <1>1, RequestIs DEF RotateToken, Committed, Who, At, Shape, TypeInv, TypeOK
<1>. QED
  BY <1>1, <1>2, <1>3, HandlerTypes DEF RotateToken, TypeInv, TypeOK

(* The user is answered.                                                   *)
LEMMA ReplyTypes ==
  ASSUME TypeInv, NEW r \in Request, Reply(r), UNCHANGED <<cycle, sent>>
  PROVE  TypeInv'
<1>1. PICK new \in RequestState : Becomes(r, new) /\ Shape(new)
  BY DoneBecomes DEF Reply, At
<1>2. shown' \in [Person -> SUBSET Nat]
  BY RequestIs DEF Reply, RequestState, Who, TypeInv, TypeOK
<1>. QED
  BY <1>1, <1>2, HandlerTypes DEF Reply, TypeInv, TypeOK

(* Every step of the cycle.                                                *)
LEMMA CycleTypes ==
  ASSUME TypeInv, CycleStart \/ CycleProgress
  PROVE  TypeInv'
<1>1. request' = request
      => \A r \in Request : Shape(request'[r])
  BY DEF TypeInv
<1>2. ASSUME NEW next \in CycleState, cycle' = next,
             next.pc \in {"search", "tailor"} => next.who \in Person /\ next.resume \in Resume,
             sent' \in Delivery \cup {None}, UNCHANGED accountsVars
      PROVE  TypeInv'
  BY <1>1, <1>2 DEF accountsVars, TypeInv, TypeOK, CycleShape, Searching
<1>3. CASE CycleStart
  <2> DEFINE next == [IdleCycle EXCEPT !.pc = "next", !.todo = users]
  <2>1. next \in CycleState /\ next.pc = "next"
    BY DEF IdleCycle, CycleState, TypeInv, TypeOK
  <2>. QED
    BY <1>2, <1>3, <2>1 DEF CycleStart, TypeInv, TypeOK
<1>4. ASSUME NEW p \in Person, TakeUser(p)
      PROVE  TypeInv'
  <2>1. CASE cycle' = [NextUser EXCEPT !.todo = @ \ {p}]
    <3> DEFINE next == [NextUser EXCEPT !.todo = @ \ {p}]
    <3>1. next \in CycleState /\ next.pc = "next"
      BY DEF NextUser, CycleState, TypeInv, TypeOK
    <3>. QED
      BY <1>2, <1>4, <2>1, <3>1 DEF TakeUser, TypeInv, TypeOK
  <2>2. ASSUME NEW row \in masters[p],
               cycle' = [pc |-> "search", todo |-> cycle.todo \ {p},
                         who |-> p, resume |-> row.content]
        PROVE  TypeInv'
    <3> DEFINE next == [pc |-> "search", todo |-> cycle.todo \ {p},
                        who |-> p, resume |-> row.content]
    <3>1. row.content \in Resume
      BY DEF TypeInv, TypeOK, Row
    <3>2. next \in CycleState
      BY <3>1 DEF CycleState, TypeInv, TypeOK
    <3>. QED
      BY <1>2, <1>4, <2>2, <3>1, <3>2 DEF TakeUser, TypeInv, TypeOK
  <2>. QED
    BY <1>4, <2>1, <2>2 DEF TakeUser
<1>5. NextUser \in CycleState /\ NextUser.pc = "next"
      /\ IdleCycle \in CycleState /\ IdleCycle.pc = "idle"
  BY DEF NextUser, IdleCycle, CycleState, TypeInv, TypeOK
<1>6. ASSUME NEW result \in SearchResult, Search(result)
      PROVE  TypeInv'
  <2> DEFINE next == [cycle EXCEPT !.pc = "tailor"]
  <2>1. next \in CycleState /\ next.who \in Person /\ next.resume \in Resume
    BY <1>6 DEF Search, CycleState, TypeInv, TypeOK, CycleShape, Searching
  <2>2. cycle' \in {next, NextUser, IdleCycle}
    BY <1>6 DEF Search, SearchResult
  <2>. QED
    BY <1>2, <1>5, <1>6, <2>1, <2>2 DEF Search, TypeInv, TypeOK
<1>7. ASSUME NEW answer \in Suggestions, Deliver(answer)
      PROVE  TypeInv'
  <2>1. answer \in Seq(Suggestion) /\ cycle.who \in Person /\ cycle.resume \in Resume
    BY <1>7, OnboardingAssumption DEF Deliver, TypeInv, CycleShape, Searching
  <2>2. sent' \in Delivery
    BY <1>7, <2>1, PdfIsGrounded, CardIsGrounded DEF Deliver, Delivery
  <2>. QED
    BY <1>2, <1>5, <1>7, <2>2 DEF Deliver
<1>8. CASE TailorFails \/ CycleEnd
  BY <1>2, <1>5, <1>8 DEF TailorFails, CycleEnd, TypeInv, TypeOK
<1>. QED
  BY <1>3, <1>4, <1>6, <1>7, <1>8 DEF CycleProgress

(* An update that is delivered again starts over, with what it came with.  *)
LEMMA RedeliveredIs ==
  ASSUME NEW state \in RequestState, Shape(state)
  PROVE  LET again == Redelivered(state)
         IN /\ again \in RequestState /\ Shape(again)
            /\ again.who = state.who /\ again.kind = state.kind
            /\ again.file = state.file
            /\ again.resume \in {state.resume, None}
            /\ state.pc \in {"idle", "done"} => again = state
            /\ state.pc \notin {"idle", "done"} => again.pc = "queued" /\ again.token = 0
<1>1. CASE state.pc \in {"idle", "done"}
  BY <1>1 DEF Redelivered
<1>2. CASE state.pc \notin {"idle", "done"}
  <2> DEFINE again == [state EXCEPT !.pc = "queued", !.row = None, !.inserted = FALSE,
                                    !.token = 0,
                                    !.resume = IF state.kind = "json" THEN @ ELSE None]
  <2>1. Redelivered(state) = again
    BY <1>2 DEF Redelivered
  <2>2. /\ again \in RequestState /\ again.pc = "queued" /\ again.token = 0
        /\ again.who = state.who /\ again.kind = state.kind
        /\ again.file = state.file
        /\ again.resume = IF state.kind = "json" THEN state.resume ELSE None
    BY DEF RequestState, Pc
  <2>3. state.pc \in Running
    BY <1>2 DEF Running, RequestState
  <2>. HIDE DEF again
  <2>4. Shape(again)
    BY <1>2, <2>2, <2>3 DEF Shape
  <2>. QED
    BY <1>2, <2>1, <2>2, <2>4
<1>. QED
  BY <1>1, <1>2

(* All updates under way are delivered again.                              *)
LEMMA CrashTypes == ASSUME TypeInv, Crash PROVE TypeInv'
<1>1. \A r \in Request : /\ request'[r] = Redelivered(request[r])
                         /\ request'[r] \in RequestState
                         /\ Shape(request'[r])
  BY RequestIs, RedeliveredIs DEF Crash, HandlersLost
<1>2. request' \in [Request -> RequestState]
  BY <1>1 DEF Crash, HandlersLost
<1>3. \A r \in Request : request'[r].pc \in {"select", "write"} => request'[r].resume # None
  BY <1>1 DEF Shape, Running, Pc
<1>4. faults' \in 0..MaxFaults
  BY AccountsAssumption DEF Crash, Fault, TypeInv, TypeOK
<1>5. cycle' \in CycleState /\ ~ Searching'
  BY DEF Crash, IdleCycle, CycleState, Searching
<1>. QED
  BY <1>1, <1>2, <1>3, <1>4, <1>5 DEF Crash, TypeInv, TypeOK, CycleShape

(* TypeInv is inductive.                                                   *)
LEMMA StepTypes == ASSUME TypeInv, [Next]_onboardingVars PROVE TypeInv'
<1>1. ASSUME NEW r \in Request, HandlerProgress(r), UNCHANGED <<cycle, sent>>
      PROVE  TypeInv'
  <2>1. CASE ParseRefused(r)
    BY <1>1, <2>1, DoneTypes DEF ParseRefused, At, SameStores
  <2>. QED
    BY <1>1, <2>1, HandleTypes, ParseTypes, UserTypes, VisitTypes, SelectTypes, WriteTypes,
       RotateTypes, ReplyTypes DEF HandlerProgress
<1>2. ASSUME NEW r \in Request, HandlerFails(r), UNCHANGED <<cycle, sent>>
      PROVE  TypeInv'
  BY <1>2, DoneTypes DEF HandlerFails, SameStores
<1>3. CASE UNCHANGED onboardingVars
  BY <1>3 DEF onboardingVars, accountsVars, TypeInv, TypeOK, CycleShape, Searching
<1>4. CASE AccountsStep /\ UNCHANGED <<cycle, sent>>
  BY <1>1, <1>2, <1>4, CommandTypes, UploadTypes DEF AccountsStep
<1>. QED
  BY <1>3, <1>4, CycleTypes, CrashTypes DEF Next

(* TypeOK, for any constants that keep the assumptions.                    *)
THEOREM OnboardingTypeCorrect == Spec => []TypeOK
<1>1. TypeInv => TypeOK
  BY DEF TypeInv
<1>. QED
  BY InitTypes, StepTypes, <1>1, PTL DEF Spec
-----------------------------------------------------------------------------
(* A file that states every checked field of a resume.                     *)
Supports(file, resume) == \A text \in Checked(resume) : Stated(file, text)

HasSource(resume, files) == \E file \in files : Supports(file, resume)

(* Whatever carries a resume carries one that some file of its user        *)
(* supports, and what is a master row or in the hands of the cycle has     *)
(* been stored for this user.  The LLM's answer to a PDF is compared with  *)
(* the PDF, which stays with the update until the handler is done.         *)
StoredIsGrounded ==
    \A p \in Person : /\ \A version \in stored[p] : HasSource(version, uploaded[p])
                      /\ \A row \in masters[p] : row.content \in stored[p]

HandledIsGrounded(state, sources) ==
    state.pc \in Running =>
       /\ state.kind = "pdf" => state.file \in sources[state.who] /\ state.file.kind = "pdf"
       /\ state.resume # None => HasSource(state.resume, sources[state.who])

SearchedIsGrounded == Searching => cycle.resume \in stored[cycle.who]

FactsInv == /\ StoredIsGrounded
            /\ \A r \in Request : HandledIsGrounded(request[r], uploaded)
            /\ SearchedIsGrounded
            /\ NothingFabricated
            /\ InventionsAreFlagged

(* Initially nothing is stored, carried or sent.                           *)
LEMMA InitFacts == ASSUME Init PROVE FactsInv
  BY DEF Init, AccountsInit, NoRequest, IdleCycle, Searching, Running, FactsInv,
         StoredIsGrounded, HandledIsGrounded, SearchedIsGrounded, NothingFabricated,
         InventionsAreFlagged

(* A handler step that stores nothing: what was uploaded and stored only   *)
(* grows, so what held holds.                                              *)
LEMMA HandlerFacts ==
  ASSUME TypeInv, FactsInv, NEW r \in Request, NEW new, Becomes(r, new),
         \A p \in Person : uploaded[p] \subseteq uploaded'[p] /\ stored[p] \subseteq stored'[p],
         HandledIsGrounded(new, uploaded'),
         StoredIsGrounded', UNCHANGED <<cycle, sent>>
  PROVE  FactsInv'
<1>1. \A s \in Request : request'[s] = IF s = r THEN new ELSE request[s]
  BY DEF Becomes, TypeInv, TypeOK
<1>2. \A s \in Request : HandledIsGrounded(request'[s], uploaded')
  <2>1. \A s \in Request \ {r} : Shape(request[s]) /\ HandledIsGrounded(request[s], uploaded)
    BY DEF TypeInv, FactsInv
  <2>2. \A s \in Request \ {r} : HandledIsGrounded(request[s], uploaded')
    BY <2>1 DEF HandledIsGrounded, HasSource, Shape, Running
  <2>. QED
    BY <1>1, <2>2
<1>3. SearchedIsGrounded'
  BY DEF FactsInv, SearchedIsGrounded, Searching, TypeInv, CycleShape
<1>4. sent # None => sent.to \in Person
  BY DEF TypeInv, TypeOK, Delivery
<1>5. NothingFabricated'
  <2> SUFFICES ASSUME sent # None
               PROVE  NothingFabricated'
    BY DEF NothingFabricated
  <2>1. PICK file \in uploaded[sent.to], version \in stored[sent.to] :
           \A text \in sent.pdf :
              \/ Stated(file, text)
              \/ text \in version.dates
              \/ Justified({field \in GroundingText(version) : Stated(file, field)},
                           sent.answer, text)
    BY DEF FactsInv, NothingFabricated
  <2>2. file \in uploaded'[sent.to] /\ version \in stored'[sent.to]
    BY <1>4
  <2>. QED
    BY <2>1, <2>2 DEF NothingFabricated
<1>6. InventionsAreFlagged'
  BY <1>4 DEF FactsInv, InventionsAreFlagged
<1>. QED
  BY <1>2, <1>3, <1>5, <1>6 DEF FactsInv

(* Most steps carry on with what the handler has, or with less.            *)
LEMMA CarriesOn ==
  ASSUME TypeInv, FactsInv, NEW r \in Request, NEW new \in RequestState, Becomes(r, new),
         new.pc \in Running => request[r].pc \in Running,
         new.who = request[r].who, new.kind = request[r].kind,
         new.file = request[r].file, new.resume \in {request[r].resume, None},
         UNCHANGED <<masters, uploaded, stored, cycle, sent>>
  PROVE  FactsInv'
<1>1. HandledIsGrounded(new, uploaded')
  BY DEF FactsInv, HandledIsGrounded
<1>2. StoredIsGrounded'
  BY DEF FactsInv, StoredIsGrounded
<1>. QED
  BY <1>1, <1>2, HandlerFacts

(* A handler that is done carries nothing.                                 *)
LEMMA DoneFacts ==
  ASSUME TypeInv, FactsInv, NEW r \in Request, Done(r), ~ At(r, "idle"),
         UNCHANGED <<masters, uploaded, stored, cycle, sent>>
  PROVE  FactsInv'
<1>1. PICK new \in RequestState : Becomes(r, new) /\ new.pc = "done"
  BY DoneBecomes
<1>2. HandledIsGrounded(new, uploaded')
  BY <1>1 DEF HandledIsGrounded, Running
<1>3. StoredIsGrounded'
  BY DEF FactsInv, StoredIsGrounded
<1>. QED
  BY <1>1, <1>2, <1>3, HandlerFacts

(* A handler that goes on carries what it did.                             *)
LEMMA GotoFacts ==
  ASSUME TypeInv, FactsInv, NEW r \in Request, NEW pc \in Pc, Goto(r, pc),
         request[r].pc \in Running, UNCHANGED <<masters, uploaded, stored, cycle, sent>>
  PROVE  FactsInv'
  BY GotoBecomes, CarriesOn

(* A command carries no file.                                              *)
LEMMA CommandFacts ==
  ASSUME TypeInv, FactsInv, NEW r \in Request, NEW p \in Person, NEW kind \in Kind,
         SendCommand(r, p, kind), UNCHANGED <<cycle, sent>>
  PROVE  FactsInv'
<1> DEFINE new == [request[r] EXCEPT !.pc = "queued", !.who = p, !.kind = kind]
<1>1. /\ Becomes(r, new)
      /\ request[r] = NoRequest
  BY RequestIs DEF SendCommand, Becomes, At, Shape
<1>2. new.resume = None /\ new.kind # "pdf"
  BY <1>1 DEF SendCommand, NoRequest
<1>3. HandledIsGrounded(new, uploaded')
  <2>. HIDE DEF new
  <2>. QED
    BY <1>2 DEF HandledIsGrounded
<1>4. StoredIsGrounded' /\ uploaded' = uploaded /\ stored' = stored
  BY DEF SendCommand, FactsInv, StoredIsGrounded
<1>. QED
  BY <1>1, <1>3, <1>4, HandlerFacts

(* What a file states counts as uploaded by its sender.                    *)
LEMMA UploadFacts ==
  ASSUME TypeInv, FactsInv, NEW r \in Request, NEW p \in Person, NEW file \in File,
         Upload(r, p, file), UNCHANGED <<cycle, sent>>
  PROVE  FactsInv'
<1> DEFINE new == [request[r] EXCEPT
                     !.pc = "queued", !.who = p, !.kind = file.kind, !.file = file,
                     !.resume = IF file.kind = "json" THEN file.content ELSE None]
<1>1. Becomes(r, new)
  BY DEF Upload, Becomes
<1>2. \A q \in Person : /\ uploaded'[q] = IF q = p THEN uploaded[p] \cup {file} ELSE uploaded[q]
                        /\ stored'[q] = stored[q] /\ masters'[q] = masters[q]
  BY DEF Upload, TypeInv, TypeOK
<1>3. /\ new.who = p /\ new.file = file /\ new.kind = file.kind
      /\ new.resume # None => file.kind = "json" /\ new.resume = file.content
  BY RequestIs DEF RequestState
<1>4. HandledIsGrounded(new, uploaded')
  <2>1. new.resume # None => Supports(file, new.resume)
    BY <1>3 DEF Supports, Stated, Fields
  <2>. HIDE DEF new
  <2>. QED
    BY <1>2, <1>3, <2>1 DEF HandledIsGrounded, HasSource
<1>5. StoredIsGrounded'
  <2>. HIDE DEF new
  <2>. QED
    BY <1>2 DEF FactsInv, StoredIsGrounded, HasSource
<1>. HIDE DEF new
<1>. QED
  BY <1>1, <1>2, <1>4, <1>5, HandlerFacts

(* Being let in changes no facts.                                          *)
LEMMA HandleFacts ==
  ASSUME TypeInv, FactsInv, NEW r \in Request, Handle(r), UNCHANGED <<cycle, sent>>
  PROVE  FactsInv'
<1>1. CASE Done(r)
  BY <1>1, DoneFacts DEF Handle, At
<1>2. CASE Goto(r, IF request[r].kind = "pdf" THEN "parsing" ELSE "lookup")
  BY <1>2, GotoFacts DEF Handle, At, Running, Pc
<1>. QED
  BY <1>1, <1>2 DEF Handle

(* What was taken from the LLM's answer is in the document.                *)
LEMMA ParseFacts ==
  ASSUME TypeInv, FactsInv, NEW r \in Request, NEW answer \in Answer, Parse(r, answer),
         UNCHANGED <<cycle, sent>>
  PROVE  FactsInv'
<1> DEFINE new == [request[r] EXCEPT !.pc = "lookup", !.resume = answer]
<1>1. /\ Becomes(r, new)
      /\ new.who = request[r].who /\ new.kind = request[r].kind
      /\ new.file = request[r].file /\ new.resume = answer
  BY RequestIs DEF Parse, Becomes, RequestState
<1>2. /\ request[r].kind = "pdf"
      /\ request[r].file \in uploaded[request[r].who] /\ request[r].file.kind = "pdf"
  BY RequestIs DEF Parse, At, FactsInv, HandledIsGrounded, Shape, Running, Pc
<1>3. Supports(request[r].file, answer)
  BY <1>2 DEF Parse, Ingested, Supports, Stated
<1>4. HandledIsGrounded(new, uploaded')
  BY <1>1, <1>2, <1>3 DEF Parse, HandledIsGrounded, HasSource
<1>5. StoredIsGrounded' /\ uploaded' = uploaded /\ stored' = stored
  BY DEF Parse, FactsInv, StoredIsGrounded
<1>. QED
  BY <1>1, <1>4, <1>5, HandlerFacts

(* Registration changes no facts.                                          *)
LEMMA UserFacts ==
  ASSUME TypeInv, FactsInv, NEW r \in Request, UserLookup(r) \/ UserInsert(r),
         UNCHANGED <<cycle, sent>>
  PROVE  FactsInv'
<1>1. Work(r) \in Pc /\ "insert" \in Pc /\ request[r].pc \in Running
  BY DEF Work, Pc, UserLookup, UserInsert, At, Running
<1>2. CASE request' = [request EXCEPT ![r].pc = Work(r), ![r].inserted = TRUE]
  <2> DEFINE new == [request[r] EXCEPT !.pc = Work(r), !.inserted = TRUE]
  <2>1. /\ new \in RequestState
        /\ new.who = request[r].who /\ new.kind = request[r].kind
        /\ new.file = request[r].file /\ new.resume = request[r].resume
    BY <1>1, RequestIs DEF RequestState
  <2>2. Becomes(r, new)
    BY <1>2 DEF Becomes
  <2>. HIDE DEF new
  <2>. QED
    BY <1>1, <2>1, <2>2, CarriesOn DEF UserLookup, UserInsert
<1>3. CASE Goto(r, Work(r)) \/ Goto(r, "insert")
  BY <1>1, <1>3, GotoFacts DEF UserLookup, UserInsert
<1>. QED
  BY <1>2, <1>3 DEF UserLookup, UserInsert

(* Nor do visits and tokens.                                               *)
LEMMA VisitFacts ==
  ASSUME TypeInv, FactsInv, NEW r \in Request, Visit(r) \/ RotateToken(r),
         UNCHANGED <<cycle, sent>>
  PROVE  FactsInv'
<1>1. ASSUME NEW t \in Nat,
             Becomes(r, [request[r] EXCEPT !.pc = "reply", !.inserted = FALSE, !.token = t])
      PROVE  FactsInv'
  <2> DEFINE new == [request[r] EXCEPT !.pc = "reply", !.inserted = FALSE, !.token = t]
  <2>1. /\ new \in RequestState /\ Becomes(r, new)
        /\ new.who = request[r].who /\ new.kind = request[r].kind
        /\ new.file = request[r].file /\ new.resume = request[r].resume
    BY <1>1, RequestIs DEF RequestState, Pc
  <2>. HIDE DEF new
  <2>. QED
    BY <2>1, CarriesOn DEF Visit, RotateToken, At, Running, Pc
<1>2. CASE Visit(r)
  <2>1. request[r].token \in Nat
        /\ Becomes(r, [request[r] EXCEPT !.pc = "reply", !.inserted = FALSE,
                                         !.token = request[r].token])
    BY <1>2, RequestIs DEF Visit, Becomes, RequestState
  <2>. QED
    BY <1>1, <2>1
<1>3. CASE RotateToken(r)
  <2>1. issued + 1 \in Nat
    BY DEF TypeInv, TypeOK
  <2>2. Becomes(r, [request[r] EXCEPT !.pc = "reply", !.inserted = FALSE,
                                      !.token = issued + 1])
    BY <1>3 DEF RotateToken, Becomes
  <2>. QED
    BY <1>1, <2>1, <2>2
<1>. QED
  BY <1>2, <1>3

(* Nor does reading a row.                                                 *)
LEMMA SelectFacts ==
  ASSUME TypeInv, FactsInv, NEW r \in Request, SelectMaster(r), UNCHANGED <<cycle, sent>>
  PROVE  FactsInv'
<1>1. request[r].who \in Person
  BY RequestIs DEF SelectMaster, At, Shape
<1>2. PICK row \in IF masters[Who(r)] = {} THEN {None} ELSE masters[Who(r)] :
         request' = [request EXCEPT ![r].pc = "write", ![r].row = row]
  BY DEF SelectMaster
<1>3. row \in Row \cup {None}
  BY <1>1, <1>2 DEF Who, TypeInv, TypeOK
<1> DEFINE new == [request[r] EXCEPT !.pc = "write", !.row = row]
<1>4. /\ new \in RequestState /\ Becomes(r, new)
      /\ new.who = request[r].who /\ new.kind = request[r].kind
      /\ new.file = request[r].file /\ new.resume = request[r].resume
  BY <1>2, <1>3, RequestIs DEF RequestState, Pc, Becomes
<1>. QED
  BY <1>4, CarriesOn DEF SelectMaster, At, Running, Pc

(* What is stored is what the handler carried for this user.               *)
LEMMA WriteFacts ==
  ASSUME TypeInv, FactsInv, NEW r \in Request, WriteMaster(r), UNCHANGED <<cycle, sent>>
  PROVE  FactsInv'
<1> DEFINE p == request[r].who
           rows == Rewritten(masters[p], request[r].row, request[r].resume)
           new == [request[r] EXCEPT !.pc = "reply", !.inserted = FALSE, !.row = None]
<1>1. /\ p \in Person /\ masters' = [masters EXCEPT ![p] = rows]
      /\ stored' = [stored EXCEPT ![p] = @ \cup {request[r].resume}]
      /\ uploaded' = uploaded
  BY WriteIs DEF WriteMaster, Who
<1>2. HasSource(request[r].resume, uploaded[p])
  BY WriteIs, RequestIs, AccountsAssumption
     DEF WriteMaster, At, FactsInv, HandledIsGrounded, Running, Pc
<1>3. \A row \in rows : row \in masters[p] \/ row.content = request[r].resume
  BY WriteIs, RewrittenIs DEF TypeInv, TypeOK
<1>4. StoredIsGrounded'
  <2>. HIDE DEF rows, p
  <2>. QED
    BY <1>1, <1>2, <1>3 DEF FactsInv, StoredIsGrounded, TypeInv, TypeOK
<1>5. /\ Becomes(r, new)
      /\ new.who = request[r].who /\ new.kind = request[r].kind
      /\ new.file = request[r].file /\ new.resume = request[r].resume
      /\ request[r].pc \in Running
  BY RequestIs DEF WriteMaster, Becomes, RequestState, At, Running, Pc
<1>6. HandledIsGrounded(new, uploaded')
  BY <1>1, <1>5 DEF FactsInv, HandledIsGrounded
<1>7. \A q \in Person : uploaded[q] \subseteq uploaded'[q] /\ stored[q] \subseteq stored'[q]
  <2>. HIDE DEF p
  <2>. QED
    BY <1>1 DEF TypeInv, TypeOK
<1>. QED
  BY <1>4, <1>5, <1>6, <1>7, HandlerFacts

(* The cycle takes a stored resume; what it sends is grounded in it.       *)
LEMMA CycleFacts ==
  ASSUME TypeInv, FactsInv, CycleStart \/ CycleProgress
  PROVE  FactsInv'
<1>1. ASSUME UNCHANGED accountsVars, UNCHANGED sent, SearchedIsGrounded'
      PROVE  FactsInv'
  BY <1>1 DEF accountsVars, FactsInv, StoredIsGrounded, NothingFabricated, InventionsAreFlagged
<1>2. IdleCycle.pc = "idle" /\ NextUser.pc = "next"
  BY DEF IdleCycle, NextUser, TypeInv, TypeOK, CycleState
<1>3. CASE CycleStart \/ TailorFails \/ CycleEnd
  BY <1>1, <1>2, <1>3
     DEF CycleStart, TailorFails, CycleEnd, SearchedIsGrounded, Searching, IdleCycle
<1>4. ASSUME NEW p \in Person, TakeUser(p)
      PROVE  FactsInv'
  <2>1. CASE cycle' = [NextUser EXCEPT !.todo = @ \ {p}]
    BY <1>1, <1>4, <2>1
       DEF TakeUser, SearchedIsGrounded, Searching, NextUser, TypeInv, TypeOK, CycleState
  <2>2. ASSUME NEW row \in masters[p],
               cycle' = [pc |-> "search", todo |-> cycle.todo \ {p},
                         who |-> p, resume |-> row.content]
        PROVE  FactsInv'
    <3>1. row.content \in stored[p]
      BY DEF FactsInv, StoredIsGrounded
    <3>. QED
      BY <1>1, <1>4, <2>2, <3>1 DEF TakeUser, accountsVars, SearchedIsGrounded
  <2>. QED
    BY <1>4, <2>1, <2>2 DEF TakeUser
<1>5. ASSUME NEW result \in SearchResult, Search(result)
      PROVE  FactsInv'
  <2>1. \/ ~ Searching'
        \/ cycle'.who = cycle.who /\ cycle'.resume = cycle.resume /\ Searching
    BY <1>2, <1>5 DEF Search, SearchResult, Searching, TypeInv, TypeOK, CycleState
  <2>. QED
    BY <1>1, <1>5, <2>1 DEF Search, accountsVars, FactsInv, SearchedIsGrounded
<1>6. ASSUME NEW answer \in Suggestions, Deliver(answer)
      PROVE  FactsInv'
  <2>1. answer \in Seq(Suggestion) /\ Searching /\ cycle.resume \in Resume
    BY <1>6, OnboardingAssumption DEF Deliver, TypeInv, CycleShape, Searching
  <2>2. cycle.who \in Person /\ cycle.resume \in stored[cycle.who]
    BY <2>1 DEF FactsInv, SearchedIsGrounded, TypeInv, CycleShape
  <2>3. PICK file \in uploaded[cycle.who] : Supports(file, cycle.resume)
    BY <2>2 DEF FactsInv, StoredIsGrounded, HasSource
  <2>4. /\ sent'.to = cycle.who /\ sent'.answer = answer
        /\ sent'.card = Card(answer)
        /\ sent'.flagged = Flagged(cycle.resume, answer)
        /\ sent'.pdf = Pdf(cycle.resume, answer)
        /\ UNCHANGED <<uploaded, stored>>
    BY <1>6 DEF Deliver, accountsVars
  <2>5. NothingFabricated'
    <3>1. {field \in GroundingText(cycle.resume) : Stated(file, field)}
             = GroundingText(cycle.resume)
      BY <2>3 DEF Supports, Checked
    <3>2. \A text \in Pdf(cycle.resume, answer) :
             \/ Stated(file, text)
             \/ text \in cycle.resume.dates
             \/ Justified({field \in GroundingText(cycle.resume) : Stated(file, field)},
                          answer, text)
      BY <2>1, <2>3, <3>1, PdfIsGrounded DEF Supports
    <3>. QED
      BY <2>2, <2>3, <2>4, <3>2 DEF NothingFabricated
  <2>6. InventionsAreFlagged'
    BY <2>1, <2>2, <2>4, CardIsGrounded DEF InventionsAreFlagged
  <2>7. ~ Searching'
    BY <1>2, <1>6 DEF Deliver, Searching
  <2>. QED
    BY <1>6, <2>5, <2>6, <2>7
       DEF Deliver, accountsVars, FactsInv, StoredIsGrounded, SearchedIsGrounded
<1>. QED
  BY <1>3, <1>4, <1>5, <1>6 DEF CycleProgress

(* A crash forgets the cycle; what updates come with was uploaded.         *)
LEMMA CrashFacts == ASSUME TypeInv, FactsInv, Crash PROVE FactsInv'
<1>1. ~ Searching'
  BY DEF Crash, IdleCycle, Searching
<1>2. \A r \in Request : HandledIsGrounded(request'[r], uploaded')
  <2> TAKE r \in Request
  <2>1. LET again == Redelivered(request[r])
        IN /\ request'[r] = again /\ again.who = request[r].who
           /\ again.kind = request[r].kind /\ again.file = request[r].file
           /\ again.resume \in {request[r].resume, None}
           /\ request[r].pc \in {"idle", "done"} => again = request[r]
    BY RequestIs, RedeliveredIs DEF Crash, HandlersLost
  <2>2. request[r].pc \in Pc
    BY RequestIs DEF RequestState
  <2>. QED
    BY <2>1, <2>2 DEF Crash, FactsInv, HandledIsGrounded, Running
<1>. QED
  BY <1>1, <1>2 DEF Crash, FactsInv, StoredIsGrounded, SearchedIsGrounded, NothingFabricated,
                    InventionsAreFlagged

(* FactsInv is inductive, given TypeInv.                                   *)
LEMMA StepFacts ==
  ASSUME TypeInv, FactsInv, [Next]_onboardingVars
  PROVE  FactsInv'
<1>1. ASSUME NEW r \in Request, HandlerProgress(r) \/ HandlerFails(r), UNCHANGED <<cycle, sent>>
      PROVE  FactsInv'
  <2>1. CASE ParseRefused(r) \/ Reply(r) \/ HandlerFails(r)
    BY <1>1, <2>1, DoneFacts DEF ParseRefused, Reply, HandlerFails, At
  <2>. QED
    BY <1>1, <2>1, HandleFacts, ParseFacts, UserFacts, VisitFacts, SelectFacts, WriteFacts
       DEF HandlerProgress
<1>2. CASE UNCHANGED onboardingVars
  BY <1>2 DEF onboardingVars, accountsVars, FactsInv, StoredIsGrounded, SearchedIsGrounded,
              Searching, NothingFabricated, InventionsAreFlagged
<1>3. CASE AccountsStep /\ UNCHANGED <<cycle, sent>>
  BY <1>1, <1>3, CommandFacts, UploadFacts DEF AccountsStep
<1>. QED
  BY <1>2, <1>3, CycleFacts, CrashFacts DEF Next

(* So it holds in every reachable state.                                   *)
LEMMA FactsInvariant == Spec => [](TypeInv /\ FactsInv)
  BY InitTypes, InitFacts, StepTypes, StepFacts, PTL DEF Spec

(* NothingFabricated: whatever the LLM answers and whatever is uploaded    *)
(* meanwhile, each PDF goes back to one version of its user's resume and   *)
(* one file, in which that version was found.                              *)
THEOREM OnlyUploadedIsSent == Spec => []NothingFabricated
<1>1. FactsInv => NothingFabricated
  BY DEF FactsInv
<1>. QED
  BY FactsInvariant, <1>1, PTL

(* InventionsAreFlagged: a card that carries no note shows the numbers and *)
(* proper nouns of one such version only.                                  *)
THEOREM UnflaggedCardsAreTrue == Spec => []InventionsAreFlagged
<1>1. FactsInv => InventionsAreFlagged
  BY DEF FactsInv
<1>. QED
  BY FactsInvariant, <1>1, PTL
=============================================================================
