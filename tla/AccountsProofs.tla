---------------------------- MODULE AccountsProofs ---------------------------
(***************************************************************************)
(* Who is let in and whose token it is: for any users and updates that     *)
(* arrive at once, any allowlist, and any number of failures.  And the     *)
(* cycle comes to all of them.                                             *)
(***************************************************************************)
EXTENDS OnboardingProofs

(* Once the list names somebody, no handler of a stranger gets past the    *)
(* check, which nothing repeats later.                                     *)
Gated == AllowedTelegramIds \cap Person # {}

Admitted(r) == request[r].pc \in Running \ {"queued"} => request[r].who \notin Stranger

StrangersInv == /\ StrangersCostNothing
                /\ Gated => \A r \in Request : Admitted(r)

(* A token is unused until it is generated, and then one person's: nobody  *)
(* else has it, was shown it, or is about to be.                           *)
TokenBounds ==
    /\ \A p \in Person : token[p] <= issued /\ \A n \in shown[p] : n <= issued
    /\ \A r \in Request : request[r].token <= issued
    /\ \A r \in Request : request[r].token # 0 => request[r].pc = "reply"

TokenIsPrivate ==
    \A p, q \in Person : p # q /\ token[p] # 0 =>
       /\ token[p] # token[q]
       /\ token[p] \notin shown[q]
       /\ \A r \in Request : request[r].who = q => request[r].token # token[p]

TokenInv == TokenIsKnown /\ TokenBounds /\ TokenIsPrivate

(* Whoever is about to be answered is registered, and has a token if that  *)
(* is the answer.                                                          *)
AboutToAnswer ==
    \A r \in Request : request[r].pc = "reply" =>
       /\ request[r].who \in users
       /\ request[r].kind = "emailhook" => request[r].token # 0

AnsweredInv == AnsweredIsRegistered /\ AboutToAnswer
-----------------------------------------------------------------------------
(* What a handler step makes of its update; all others stay as they are.   *)
LEMMA OthersStay ==
  ASSUME TypeInv, NEW r \in Request, NEW new, Becomes(r, new)
  PROVE  /\ request'[r] = new
         /\ \A s \in Request \ {r} : request'[s] = request[s]
  BY DEF Becomes, TypeInv, TypeOK

(* Whom the allowlist lets in is none of those it shuts out.               *)
LEMMA AllowedIsNoStranger ==
  ASSUME Gated, NEW p \in Allowed
  PROVE  p \in Person /\ p \notin Stranger
  BY DEF Gated, Allowed, AllowedTelegramIdSet, Stranger

AccountsInv == StrangersInv /\ TokenInv /\ AnsweredInv

(* Initially there are no handlers, no tokens and no strangers.            *)
LEMMA InitAccounts == ASSUME Init PROVE AccountsInv
<1>1. /\ \A r \in Request : request[r] = NoRequest
      /\ \A p \in Person : token[p] = 0 /\ shown[p] = {} /\ masters[p] = {}
      /\ issued = 0 /\ users \subseteq RegisteredBefore
  BY DEF Init, AccountsInit
<1>2. NoRequest.pc = "idle" /\ NoRequest.token = 0
  BY DEF NoRequest
<1>3. StrangersInv
  BY <1>1, <1>2, AccountsAssumption
     DEF StrangersInv, StrangersCostNothing, Admitted, Stranger, Running
<1>4. TokenInv
  BY <1>1, <1>2 DEF TokenInv, TokenIsKnown, TokenBounds, TokenIsPrivate
<1>5. AnsweredInv
  BY <1>1, <1>2 DEF AnsweredInv, AnsweredIsRegistered, AboutToAnswer
<1>. QED
  BY <1>3, <1>4, <1>5 DEF AccountsInv

SameAccounts == UNCHANGED <<users, token, masters, issued, shown>>

(* A step that stores nothing and is not an answer.  If it ends a handler, *)
(* something failed, or nothing was owed.                                  *)
LEMMA QuietAccounts ==
  ASSUME TypeInv, AccountsInv, NEW r \in Request, NEW new, Becomes(r, new), SameAccounts,
         new.token = 0, new.pc # "reply",
         faults' \in Nat, faults' >= faults,
         \/ new.pc \in {"queued", "done"}
         \/ new.who = request[r].who /\ request[r].pc \in Running \ {"queued"}
         \/ new.who \in Allowed,
         request[r].pc = "reply" => faults' > 0,
         new.pc = "done" /\ faults' = 0
            => new.kind \notin {"visit", "emailhook"} \/ new.who \notin Allowed
  PROVE  AccountsInv'
<1>1. /\ request'[r] = new
      /\ \A s \in Request \ {r} : request'[s] = request[s]
  BY OthersStay
<1>2. StrangersInv'
  <2>1. ASSUME Gated PROVE \A s \in Request : Admitted(s)'
    <3>1. new.pc \in Running \ {"queued"} => new.who \notin Stranger
      BY <2>1, AllowedIsNoStranger DEF AccountsInv, StrangersInv, Admitted, Running
    <3>. QED
      BY <1>1, <2>1, <3>1 DEF AccountsInv, StrangersInv, Admitted
  <2>. QED
    BY <2>1 DEF SameAccounts, AccountsInv, StrangersInv, StrangersCostNothing, Gated, Admitted,
               Running, Pc
<1>3. faults \in Nat
  BY AccountsAssumption DEF TypeInv, TypeOK
<1>4. TokenIsKnown'
  <2> SUFFICES ASSUME NEW p \in Person, token[p] # 0
               PROVE  /\ \/ token[p] \in shown[p]
                         \/ \E s \in Request : /\ request'[s].pc = "reply"
                                               /\ request'[s].who = p
                                               /\ request'[s].token = token[p]
                         \/ faults' > 0
                      /\ \A q \in Person \ {p} : token[p] \notin shown[q]
    BY DEF SameAccounts, TokenIsKnown
  <2>1. CASE faults' > 0
    BY <2>1 DEF AccountsInv, TokenInv, TokenIsKnown
  <2>2. CASE faults' = 0
    <3>1. faults = 0 /\ request[r].pc # "reply"
      BY <1>3, <2>2
    <3>2. \/ token[p] \in shown[p]
          \/ \E s \in Request \ {r} : /\ request[s].pc = "reply"
                                      /\ request[s].who = p
                                      /\ request[s].token = token[p]
      BY <3>1 DEF AccountsInv, TokenInv, TokenIsKnown
    <3>. QED
      BY <1>1, <3>2 DEF AccountsInv, TokenInv, TokenIsKnown
  <2>. QED
    BY <2>1, <2>2
<1>5. TokenBounds' /\ TokenIsPrivate'
  BY <1>1 DEF SameAccounts, AccountsInv, TokenInv, TokenBounds, TokenIsPrivate, TypeInv, TypeOK
<1>6. AnsweredInv'
  BY <1>1, <1>3 DEF SameAccounts, AccountsInv, AnsweredInv, AnsweredIsRegistered, AboutToAnswer
<1>. QED
  BY <1>2, <1>4, <1>5, <1>6 DEF AccountsInv, TokenInv

(* No token is carried before the reply.                                   *)
LEMMA NoTokenYet ==
  ASSUME AccountsInv, NEW r \in Request, request[r].pc # "reply"
  PROVE  request[r].token = 0
  BY DEF AccountsInv, TokenInv, TokenBounds

(* Failures are counted in natural numbers.                                *)
LEMMA FaultsAreNat == ASSUME TypeInv PROVE faults \in Nat
  BY AccountsAssumption DEF TypeInv, TypeOK

(* A new update waits, and has come past nothing yet.                      *)
LEMMA SendAccounts ==
  ASSUME TypeInv, AccountsInv, NEW r \in Request, NEW p \in Person,
         \/ \E kind \in Kind : SendCommand(r, p, kind)
         \/ \E file \in File : Upload(r, p, file)
  PROVE  AccountsInv'
<1>1. request[r] = NoRequest /\ NoRequest \in RequestState /\ NoRequest.token = 0
  BY RequestIs, NoRequestType DEF SendCommand, Upload, At, Shape, NoRequest
<1>2. \E new : Becomes(r, new) /\ new.pc = "queued" /\ new.token = 0
  <2>1. ASSUME NEW kind \in Kind, SendCommand(r, p, kind)
        PROVE  \E new : Becomes(r, new) /\ new.pc = "queued" /\ new.token = 0
    <3> DEFINE new == [request[r] EXCEPT !.pc = "queued", !.who = p, !.kind = kind]
    <3>1. Becomes(r, new) /\ new.pc = "queued" /\ new.token = 0
      BY <1>1, <2>1 DEF SendCommand, Becomes, RequestState
    <3>. QED
      BY <3>1
  <2>2. ASSUME NEW file \in File, Upload(r, p, file)
        PROVE  \E new : Becomes(r, new) /\ new.pc = "queued" /\ new.token = 0
    <3> DEFINE new == [request[r] EXCEPT
                         !.pc = "queued", !.who = p, !.kind = file.kind, !.file = file,
                         !.resume = IF file.kind = "json" THEN file.content ELSE None]
    <3>1. Becomes(r, new)
      BY <2>2 DEF Upload, Becomes
    <3>2. new.pc = "queued" /\ new.token = 0
      BY <1>1 DEF RequestState
    <3>. HIDE DEF new
    <3>. QED
      BY <3>1, <3>2
  <2>. QED
    BY <2>1, <2>2
<1>3. request[r].pc = "idle" /\ SameAccounts /\ faults' = faults /\ faults \in Nat
  BY FaultsAreNat DEF SendCommand, Upload, At, SameAccounts
<1>. QED
  BY <1>2, <1>3, QuietAccounts

(* The gate: whoever gets past it is admitted.                             *)
LEMMA HandleAccounts ==
  ASSUME TypeInv, AccountsInv, NEW r \in Request, Handle(r)
  PROVE  AccountsInv'
<1>1. /\ SameAccounts /\ faults' = faults /\ faults \in Nat
      /\ request[r].pc = "queued" /\ request[r].token = 0
  BY FaultsAreNat, NoTokenYet DEF Handle, At, SameAccounts
<1>2. CASE Goto(r, IF request[r].kind = "pdf" THEN "parsing" ELSE "lookup") /\ Who(r) \in Allowed
  <2>1. PICK new \in RequestState :
           /\ Becomes(r, new) /\ new.pc \in {"parsing", "lookup"}
           /\ new.who = request[r].who /\ new.token = request[r].token
    BY <1>2, GotoBecomes DEF Pc
  <2>. QED
    BY <1>1, <1>2, <2>1, QuietAccounts DEF Who
<1>3. CASE Done(r) /\ (Who(r) \notin Allowed \/ request[r].kind \in {"json", "pdf"})
  <2>1. PICK new \in RequestState :
           /\ Becomes(r, new) /\ new.pc = "done" /\ new.token = 0
           /\ new.kind = request[r].kind /\ new.who = request[r].who
    BY <1>1, <1>3, DoneBecomes DEF At
  <2>. QED
    BY <1>1, <1>3, <2>1, QuietAccounts DEF Who
<1>. QED
  BY <1>2, <1>3 DEF Handle

(* Only an upload that was admitted is parsed.                             *)
LEMMA ParseAccounts ==
  ASSUME TypeInv, AccountsInv, NEW r \in Request,
         ParseRefused(r) \/ \E answer \in Answer : Parse(r, answer)
  PROVE  AccountsInv'
<1>1. /\ SameAccounts /\ faults' = faults /\ faults \in Nat
      /\ request[r].pc = "parsing" /\ request[r].token = 0 /\ request[r].kind = "pdf"
      /\ request[r].pc \in Running \ {"queued"}
  BY FaultsAreNat, NoTokenYet, RequestIs
     DEF ParseRefused, Parse, At, SameAccounts, Shape, Running, Pc
<1>2. CASE ParseRefused(r)
  <2>1. PICK new \in RequestState :
           /\ Becomes(r, new) /\ new.pc = "done" /\ new.token = 0
           /\ new.kind = request[r].kind /\ new.who = request[r].who
    BY <1>1, <1>2, DoneBecomes DEF ParseRefused, At
  <2>. QED
    BY <1>1, <2>1, QuietAccounts
<1>3. ASSUME NEW answer \in Answer, Parse(r, answer)
      PROVE  AccountsInv'
  <2> DEFINE new == [request[r] EXCEPT !.pc = "lookup", !.resume = answer]
  <2>1. /\ Becomes(r, new) /\ new.pc = "lookup"
        /\ new.who = request[r].who /\ new.token = request[r].token
    BY <1>3, RequestIs DEF Parse, Becomes, RequestState
  <2>. HIDE DEF new
  <2>. QED
    BY <1>1, <2>1, QuietAccounts
<1>. QED
  BY <1>2, <1>3

(* Looking the user up and registering them; nobody is admitted on the way.*)
LEMMA UserAccounts ==
  ASSUME TypeInv, AccountsInv, NEW r \in Request,
         UserLookup(r) \/ UserInsert(r) \/ SelectMaster(r)
  PROVE  AccountsInv'
<1>1. /\ SameAccounts /\ faults' = faults /\ faults \in Nat
      /\ request[r].pc \in {"lookup", "insert", "select"} /\ request[r].token = 0
      /\ request[r].pc \in Running \ {"queued"}
  BY FaultsAreNat, NoTokenYet
     DEF UserLookup, UserInsert, SelectMaster, At, SameAccounts, Running, Pc
<1>2. Work(r) \in Pc \ {"reply", "done"}
  BY DEF Work, Pc
<1>3. ASSUME NEW pc \in Pc \ {"reply", "done"}, Goto(r, pc)
      PROVE  AccountsInv'
  <2>1. PICK new \in RequestState :
           /\ Becomes(r, new) /\ new.pc = pc
           /\ new.who = request[r].who /\ new.token = request[r].token
    BY <1>3, GotoBecomes
  <2>. QED
    BY <1>1, <2>1, QuietAccounts
<1>4. CASE request' = [request EXCEPT ![r].pc = Work(r), ![r].inserted = TRUE]
  <2> DEFINE new == [request[r] EXCEPT !.pc = Work(r), !.inserted = TRUE]
  <2>1. /\ Becomes(r, new) /\ new.pc = Work(r)
        /\ new.who = request[r].who /\ new.token = request[r].token
    BY <1>4, RequestIs DEF Becomes, RequestState
  <2>. HIDE DEF new
  <2>. QED
    BY <1>1, <1>2, <2>1, QuietAccounts
<1>5. ASSUME NEW row, request' = [request EXCEPT ![r].pc = "write", ![r].row = row]
      PROVE  AccountsInv'
  <2> DEFINE new == [request[r] EXCEPT !.pc = "write", !.row = row]
  <2>1. /\ Becomes(r, new) /\ new.pc = "write"
        /\ new.who = request[r].who /\ new.token = request[r].token
    BY <1>5, RequestIs DEF Becomes, RequestState
  <2>. HIDE DEF new
  <2>. QED
    BY <1>1, <2>1, QuietAccounts
<1>6. "insert" \in Pc \ {"reply", "done"}
  BY DEF Pc
<1>. QED
  BY <1>2, <1>3, <1>4, <1>5, <1>6 DEF UserLookup, UserInsert, SelectMaster

(* A failure loses what the user would have been shown, and is counted.    *)
LEMMA FailsAccounts ==
  ASSUME TypeInv, AccountsInv, NEW r \in Request, HandlerFails(r)
  PROVE  AccountsInv'
<1>1. PICK new \in RequestState : Becomes(r, new) /\ new.pc = "done" /\ new.token = 0
  BY DoneBecomes DEF HandlerFails
<1>2. SameAccounts /\ faults' \in Nat /\ faults' >= faults /\ faults' > 0
  BY FaultsAreNat DEF HandlerFails, Fault, SameAccounts
<1>. QED
  BY <1>1, <1>2, QuietAccounts

(* So does a crash; the updates are delivered again and meet the gate      *)
(* again.                                                                  *)
LEMMA CrashAccounts == ASSUME TypeInv, AccountsInv, Crash PROVE AccountsInv'
<1>1. /\ UNCHANGED <<users, token, masters, issued, shown>> /\ faults' > 0
  BY FaultsAreNat DEF Crash, Fault
<1>2. \A r \in Request :
         /\ request'[r].pc \in {"idle", "done"} => request'[r] = request[r]
         /\ request'[r].pc \in {"idle", "queued", "done"}
         /\ request'[r].token = 0
  <2> TAKE r \in Request
  <2>1. LET again == Redelivered(request[r])
        IN /\ request'[r] = again
           /\ request[r].pc \in {"idle", "done"} => again = request[r]
           /\ request[r].pc \notin {"idle", "done"} => again.pc = "queued" /\ again.token = 0
    BY RequestIs, RedeliveredIs DEF Crash, HandlersLost
  <2>. QED
    BY <2>1, NoTokenYet
<1>3. StrangersInv'
  BY <1>1, <1>2 DEF AccountsInv, StrangersInv, StrangersCostNothing, Gated, Admitted, Running
<1>4. TokenInv'
  BY <1>1, <1>2 DEF AccountsInv, TokenInv, TokenIsKnown, TokenBounds, TokenIsPrivate,
                    TypeInv, TypeOK
<1>5. AnsweredInv'
  BY <1>1, <1>2 DEF AnsweredInv, AnsweredIsRegistered, AboutToAnswer
<1>. QED
  BY <1>3, <1>4, <1>5 DEF AccountsInv

(* The answers: what is stored is stored for the sender of the update.     *)
LEMMA StoreStrangers ==
  ASSUME TypeInv, AccountsInv, NEW r \in Request, NEW new, Becomes(r, new),
         request[r].pc \in Running \ {"queued"}, new.who = request[r].who,
         users' \subseteq users \cup {request[r].who},
         \A p \in Person \ {request[r].who} : masters'[p] = masters[p] /\ token'[p] = token[p]
  PROVE  StrangersInv'
<1>1. Gated => request[r].who \notin Stranger
  BY DEF AccountsInv, StrangersInv, Admitted
<1>2. Gated => \A s \in Request : Admitted(s)'
  BY <1>1, OthersStay DEF AccountsInv, StrangersInv, Admitted
<1>. QED
  BY <1>1, <1>2 DEF AccountsInv, StrangersInv, StrangersCostNothing, Gated, Admitted, Stranger,
                    Running, Pc

(* Whoever is about to be answered is in the table.                        *)
LEMMA VisitAccounts ==
  ASSUME TypeInv, AccountsInv, NEW r \in Request, Visit(r) \/ WriteMaster(r)
  PROVE  AccountsInv'
<1> DEFINE p == request[r].who
<1>1. /\ request[r].pc \in {"visit", "write"} /\ p \in Person
      /\ request[r].kind # "emailhook" /\ request[r].token = 0
      /\ request[r].pc \in Running \ {"queued"}
  BY RequestIs, NoTokenYet DEF Visit, WriteMaster, At, Shape, Running, Pc
<1>2. /\ UNCHANGED <<token, issued, shown, faults>> /\ users' = users \cup {p}
      /\ \A q \in Person \ {p} : masters'[q] = masters[q]
  BY WriteIs DEF Visit, WriteMaster, Committed, Who, TypeInv, TypeOK
<1>3. PICK new : /\ Becomes(r, new) /\ new.pc = "reply" /\ new.token = 0
                 /\ new.who = p /\ new.kind = request[r].kind
  <2>1. CASE Visit(r)
    <3> DEFINE new == [request[r] EXCEPT !.pc = "reply", !.inserted = FALSE]
    <3>1. Becomes(r, new)
      BY <2>1 DEF Visit, Becomes
    <3>2. /\ new.pc = "reply" /\ new.token = 0
          /\ new.who = p /\ new.kind = request[r].kind
      BY <1>1, RequestIs DEF RequestState
    <3>. HIDE DEF new
    <3>. QED
      BY <3>1, <3>2
  <2>2. CASE WriteMaster(r)
    <3> DEFINE new == [request[r] EXCEPT !.pc = "reply", !.inserted = FALSE, !.row = None]
    <3>1. Becomes(r, new)
      BY <2>2 DEF WriteMaster, Becomes
    <3>2. /\ new.pc = "reply" /\ new.token = 0
          /\ new.who = p /\ new.kind = request[r].kind
      BY <1>1, RequestIs DEF RequestState
    <3>. HIDE DEF new
    <3>. QED
      BY <3>1, <3>2
  <2>. QED
    BY <2>1, <2>2
<1>4. /\ request'[r] = new
      /\ \A s \in Request \ {r} : request'[s] = request[s]
  BY <1>3, OthersStay
<1>5. StrangersInv'
  BY <1>1, <1>2, <1>3, StoreStrangers
<1>6. TokenInv'
  <2>1. TokenIsKnown'
    BY <1>1, <1>2, <1>3, <1>4 DEF AccountsInv, TokenInv, TokenIsKnown
  <2>2. TokenBounds' /\ TokenIsPrivate'
    BY <1>2, <1>3, <1>4 DEF AccountsInv, TokenInv, TokenBounds, TokenIsPrivate, TypeInv, TypeOK
  <2>. QED
    BY <2>1, <2>2 DEF TokenInv
<1>7. AnsweredInv'
  BY <1>1, <1>2, <1>3, <1>4 DEF AccountsInv, AnsweredInv, AnsweredIsRegistered, AboutToAnswer
<1>. QED
  BY <1>5, <1>6, <1>7 DEF AccountsInv

(* A new token is nobody else's, and its handler is about to show it.      *)
LEMMA RotateAccounts ==
  ASSUME TypeInv, AccountsInv, NEW r \in Request, RotateToken(r)
  PROVE  AccountsInv'
<1> DEFINE p == request[r].who
           n == issued + 1
           new == [request[r] EXCEPT !.pc = "reply", !.inserted = FALSE, !.token = n]
<1>1. /\ request[r].pc = "rotate" /\ p \in Person /\ request[r].kind = "emailhook"
      /\ request[r].token = 0 /\ request[r].pc \in Running \ {"queued"}
  BY RequestIs, NoTokenYet DEF RotateToken, At, Shape, Running, Pc
<1>2. n \in Nat /\ n > issued /\ n # 0 /\ issued \in Nat
  BY DEF TypeInv, TypeOK
<1>3. Becomes(r, new)
  BY DEF RotateToken, Becomes
<1>4. /\ new.pc = "reply" /\ new.token = n
      /\ new.who = p /\ new.kind = request[r].kind
  BY <1>1, RequestIs DEF RequestState
<1>5. /\ UNCHANGED <<masters, shown, faults>> /\ users' = users \cup {p} /\ issued' = n
      /\ token' = [token EXCEPT ![p] = n]
  BY DEF RotateToken, Committed, Who
<1>. HIDE DEF new, n, p
<1>6. \A q \in Person : token'[q] = IF q = p THEN n ELSE token[q]
  BY <1>5 DEF TypeInv, TypeOK
<1>7. /\ request'[r] = new
      /\ \A s \in Request \ {r} : request'[s] = request[s]
  BY <1>3, OthersStay
<1>8. StrangersInv'
  BY <1>1, <1>3, <1>4, <1>5, <1>6, StoreStrangers DEF p
<1>9. /\ TokenBounds
      /\ \A q \in Person : token[q] \in Nat /\ \A m \in shown[q] : m \in Nat
      /\ \A s \in Request : request[s].token \in Nat
  BY RequestIs DEF AccountsInv, TokenInv, TypeInv, TypeOK, RequestState
<1>10. TokenIsKnown'
  <2> SUFFICES ASSUME NEW q \in Person, token'[q] # 0
               PROVE  /\ \/ token'[q] \in shown[q]
                         \/ \E s \in Request : /\ request'[s].pc = "reply"
                                               /\ request'[s].who = q
                                               /\ request'[s].token = token'[q]
                         \/ faults > 0
                      /\ \A o \in Person \ {q} : token'[q] \notin shown[o]
    BY <1>5 DEF TokenIsKnown
  <2>1. CASE q = p
    BY <1>2, <1>4, <1>6, <1>7, <1>9, <2>1 DEF TokenBounds
  <2>2. CASE q # p
    BY <1>1, <1>6, <1>7, <2>2 DEF AccountsInv, TokenInv, TokenIsKnown
  <2>. QED
    BY <2>1, <2>2
<1>11. TokenBounds'
  <2>1. \A q \in Person : token'[q] <= issued' /\ \A m \in shown'[q] : m <= issued'
    BY <1>2, <1>5, <1>6, <1>9 DEF TokenBounds
  <2>2. \A s \in Request : /\ request'[s].token <= issued'
                           /\ request'[s].token # 0 => request'[s].pc = "reply"
    <3> TAKE s \in Request
    <3>1. CASE s = r
      BY <1>2, <1>4, <1>5, <1>7, <3>1
    <3>2. CASE s # r
      <4>1. /\ request'[s] = request[s]
            /\ request[s].token \in Nat /\ request[s].token <= issued
            /\ request[s].token # 0 => request[s].pc = "reply"
        BY <1>7, <1>9, <3>2 DEF TokenBounds
      <4>. QED
        BY <1>2, <1>5, <4>1
    <3>. QED
      BY <3>1, <3>2
  <2>. QED
    BY <2>1, <2>2 DEF TokenBounds
<1>12. TokenIsPrivate'
  BY <1>2, <1>4, <1>5, <1>6, <1>7, <1>9 DEF TokenBounds, TokenIsPrivate, AccountsInv, TokenInv
<1>13. AnsweredInv'
  BY <1>1, <1>2, <1>4, <1>5, <1>7 DEF AccountsInv, AnsweredInv, AnsweredIsRegistered, AboutToAnswer
<1>. QED
  BY <1>8, <1>10, <1>11, <1>12, <1>13 DEF AccountsInv, TokenInv

(* What is shown was on its way to this very user.                         *)
LEMMA ReplyAccounts ==
  ASSUME TypeInv, AccountsInv, NEW r \in Request, Reply(r)
  PROVE  AccountsInv'
<1> DEFINE p == request[r].who
           n == request[r].token
<1>1. /\ request[r].pc = "reply" /\ p \in Person /\ n \in Nat
      /\ request[r].pc \in Running \ {"queued"}
  BY RequestIs DEF Reply, At, Shape, Running, Pc, RequestState
<1>2. PICK new \in RequestState :
         /\ Becomes(r, new) /\ new.pc = "done" /\ new.token = 0
         /\ new.kind = request[r].kind /\ new.who = p
  BY DoneBecomes DEF Reply, At
<1>3. /\ request'[r] = new
      /\ \A s \in Request \ {r} : request'[s] = request[s]
  BY <1>2, OthersStay
<1>4. /\ UNCHANGED <<users, token, masters, issued, faults>>
      /\ \A q \in Person : shown'[q] = IF q = p /\ n # 0 THEN shown[q] \cup {n} ELSE shown[q]
  BY <1>1 DEF Reply, Who, TypeInv, TypeOK
<1>. HIDE DEF n, p
<1>5. StrangersInv'
  BY <1>1, <1>2, <1>4, StoreStrangers DEF p
<1>6. TokenIsKnown'
  <2> SUFFICES ASSUME NEW q \in Person, token[q] # 0
               PROVE  /\ \/ token[q] \in shown'[q]
                         \/ \E s \in Request : /\ request'[s].pc = "reply"
                                               /\ request'[s].who = q
                                               /\ request'[s].token = token[q]
                         \/ faults > 0
                      /\ \A o \in Person \ {q} : token[q] \notin shown'[o]
    BY <1>4 DEF TokenIsKnown
  <2>1. \A o \in Person \ {q} : token[q] \notin shown'[o]
    <3>1. \A o \in Person \ {q} : token[q] \notin shown[o]
      BY DEF AccountsInv, TokenInv, TokenIsPrivate
    <3>2. p # q => n # token[q]
      BY <1>1 DEF AccountsInv, TokenInv, TokenIsPrivate, n, p
    <3>. QED
      BY <1>4, <3>1, <3>2
  <2>2. \/ token[q] \in shown[q] \/ faults > 0
        \/ \E s \in Request \ {r} : /\ request[s].pc = "reply"
                                    /\ request[s].who = q
                                    /\ request[s].token = token[q]
        \/ q = p /\ token[q] = n
    BY DEF AccountsInv, TokenInv, TokenIsKnown, n, p
  <2>. QED
    BY <1>3, <1>4, <2>1, <2>2
<1>7. TokenBounds'
  <2>1. n <= issued
    BY DEF AccountsInv, TokenInv, TokenBounds, n
  <2>2. \A q \in Person : token'[q] <= issued' /\ \A m \in shown'[q] : m <= issued'
    BY <1>4, <2>1 DEF AccountsInv, TokenInv, TokenBounds
  <2>3. 0 <= issued'
    BY <1>4 DEF TypeInv, TypeOK
  <2>4. \A s \in Request : /\ request'[s].token <= issued'
                           /\ request'[s].token # 0 => request'[s].pc = "reply"
    BY <1>2, <1>3, <1>4, <2>3 DEF AccountsInv, TokenInv, TokenBounds
  <2>. QED
    BY <2>2, <2>4 DEF TokenBounds
<1>8. TokenIsPrivate'
  <2> SUFFICES ASSUME NEW o \in Person, NEW q \in Person, o # q, token[o] # 0
               PROVE  /\ token[o] # token[q]
                      /\ token[o] \notin shown'[q]
                      /\ \A s \in Request : request'[s].who = q => request'[s].token # token[o]
    BY <1>4 DEF TokenIsPrivate
  <2>1. /\ token[o] # token[q]
        /\ token[o] \notin shown[q]
        /\ \A s \in Request : request[s].who = q => request[s].token # token[o]
    BY DEF AccountsInv, TokenInv, TokenIsPrivate
  <2>2. q = p => n # token[o]
    BY <2>1 DEF n, p
  <2>3. token[o] \notin shown'[q]
    <3>1. shown'[q] = IF q = p /\ n # 0 THEN shown[q] \cup {n} ELSE shown[q]
      BY <1>4
    <3>. QED
      BY <2>1, <2>2, <3>1
  <2>4. \A s \in Request : request'[s].who = q => request'[s].token # token[o]
    BY <1>2, <1>3, <2>1
  <2>. QED
    BY <2>1, <2>3, <2>4
<1>9. AnsweredInv'
  <2>1. p \in users /\ (request[r].kind = "emailhook" => n # 0)
    BY <1>1 DEF AccountsInv, AnsweredInv, AboutToAnswer, n, p
  <2>2. new.kind = "emailhook" => shown'[p] # {}
    BY <1>1, <1>2, <1>4, <2>1
  <2>3. \A q \in Person : shown[q] \subseteq shown'[q]
    BY <1>4
  <2>4. AboutToAnswer'
    BY <1>2, <1>3, <1>4 DEF AccountsInv, AnsweredInv, AboutToAnswer
  <2>5. \A s \in Request : /\ request'[s].pc = "done"
                           /\ request'[s].kind \in {"visit", "emailhook"}
                           /\ request'[s].who \in Allowed
                           /\ faults = 0
                           => /\ request'[s].who \in users
                              /\ request'[s].kind = "emailhook" => shown'[request'[s].who] # {}
    <3> TAKE s \in Request
    <3>1. CASE s = r
      BY <1>2, <1>3, <2>1, <2>2, <3>1
    <3>2. CASE s # r
      <4>1. request'[s] = request[s] /\ (request[s].who \in Allowed => request[s].who \in Person)
        BY <1>3, <3>2 DEF Allowed, AllowedTelegramIdSet
      <4>. QED
        BY <2>3, <4>1 DEF AccountsInv, AnsweredInv, AnsweredIsRegistered
    <3>. QED
      BY <3>1, <3>2
  <2>. QED
    BY <1>4, <2>4, <2>5 DEF AnsweredInv, AnsweredIsRegistered
<1>. QED
  BY <1>5, <1>6, <1>7, <1>8, <1>9 DEF AccountsInv, TokenInv

(* AccountsInv is inductive, given the types.                              *)
LEMMA StepAccounts ==
  ASSUME TypeInv, AccountsInv, [Next]_onboardingVars
  PROVE  AccountsInv'
<1>1. CASE UNCHANGED accountsVars
  BY <1>1 DEF accountsVars, AccountsInv, StrangersInv, StrangersCostNothing, Gated, Admitted,
              TokenInv, TokenIsKnown, TokenBounds, TokenIsPrivate,
              AnsweredInv, AnsweredIsRegistered, AboutToAnswer
<1>2. CASE AccountsStep
  <2>1. ASSUME NEW r \in Request, HandlerProgress(r)
        PROVE  AccountsInv'
    BY <2>1, HandleAccounts, ParseAccounts, UserAccounts, VisitAccounts, RotateAccounts,
       ReplyAccounts DEF HandlerProgress
  <2>. QED
    BY <1>2, <2>1, SendAccounts, FailsAccounts DEF AccountsStep
<1>3. CASE CycleStart \/ CycleProgress
  BY <1>1, <1>3 DEF CycleStart, CycleProgress, TakeUser, Search, Deliver, TailorFails, CycleEnd
<1>. QED
  BY <1>1, <1>2, <1>3, CrashAccounts DEF Next, onboardingVars

(* So it holds in every reachable state.                                   *)
LEMMA AccountsInvariant == Spec => [](TypeInv /\ AccountsInv)
  BY InitTypes, InitAccounts, StepTypes, StepAccounts, PTL DEF Spec

(* StrangersCostNothing: the check comes before everything that costs.     *)
THEOREM StrangersStayOut == Spec => []StrangersCostNothing
<1>1. AccountsInv => StrangersCostNothing
  BY DEF AccountsInv, StrangersInv
<1>. QED
  BY AccountsInvariant, <1>1, PTL

(* TokenIsKnown: the valid token reaches its user, and nobody else.        *)
THEOREM TokensReachTheirUsers == Spec => []TokenIsKnown
<1>1. AccountsInv => TokenIsKnown
  BY DEF AccountsInv, TokenInv
<1>. QED
  BY AccountsInvariant, <1>1, PTL

(* AnsweredIsRegistered: no race of first messages loses a registration.   *)
THEOREM FirstMessagesRegister == Spec => []AnsweredIsRegistered
<1>1. AccountsInv => AnsweredIsRegistered
  BY DEF AccountsInv, AnsweredInv
<1>. QED
  BY AccountsInvariant, <1>1, PTL
-----------------------------------------------------------------------------
(* Several boards: no answer of theirs is an exception.                    *)
SeveralBoards == \E s, t \in Source : s # t

(* The composite swallows what its boards raise.                           *)
LEMMA NoException ==
    ASSUME SeveralBoards, NEW query
    PROVE  "exception" \notin JobSearch(query)
<1>1. IsFiniteSet({"adzuna", "remoteok", "arbeitnow"})
    <2>1. IsFiniteSet({"adzuna"})
        BY FS_Singleton
    <2>2. IsFiniteSet({"adzuna"} \cup {"remoteok"})
        BY <2>1, FS_AddElement
    <2>3. IsFiniteSet({"adzuna"} \cup {"remoteok"} \cup {"arbeitnow"})
        BY <2>2, FS_AddElement
    <2> QED  BY <2>3
<1>2. IsFiniteSet(Source)
    BY <1>1, SourceAssumption, FS_Subset
<1>3. Cardinality(Source) # 1
    BY <1>2, FS_Singleton DEF SeveralBoards
<1>4. ASSUME NEW results \in [Source -> SearchResult]
      PROVE  Merged(results) # "exception"
    BY <1>3 DEF Merged, Composite
<1> QED  BY <1>4 DEF JobSearch

(* CyclesAreComplete: with several boards, a cycle comes to every user     *)
(* unless its process dies, whatever the boards and the LLM answer.        *)
THEOREM CyclesComeToEveryUser ==
    ASSUME SeveralBoards
    PROVE  Spec => CyclesAreComplete
<1> DEFINE Complete == cycle.pc # "idle" /\ cycle'.pc = "idle"
                          => cycle.todo = {} \/ faults' > faults
<1>1. TypeInv /\ [Next]_onboardingVars => [Complete]_onboardingVars
    <2> SUFFICES ASSUME TypeInv, Next, cycle.pc # "idle", cycle'.pc = "idle"
                 PROVE  cycle.todo = {} \/ faults' > faults
        BY DEF onboardingVars
    <2>1. CASE UNCHANGED cycle \/ CycleStart \/ CycleEnd
        BY <2>1 DEF CycleStart, CycleEnd
    <2>2. CASE Crash
        BY <2>2 DEF Crash, Fault, TypeInv, TypeOK
    <2>3. ~ \E result \in SearchResult : Search(result)
        <3>1. \A result \in JobSearch(cycle.resume.query) : result # "exception"
            BY NoException
        <3> SUFFICES ASSUME NEW result \in SearchResult, Search(result) PROVE FALSE
            OBVIOUS
        <3>2. result \in {"jobs", "nothing", "JobSourceError"}
            BY <3>1 DEF Search, SearchResult
        <3>3. cycle' \in {[cycle EXCEPT !.pc = "tailor"], NextUser}
            BY <3>2 DEF Search
        <3> QED  BY <3>3 DEF NextUser, TypeInv, TypeOK, CycleState
    <2>4. CASE TailorFails \/ \E answer \in Suggestions : Deliver(answer)
        BY <2>4 DEF TailorFails, Deliver, NextUser, TypeInv, TypeOK, CycleState
    <2>5. CASE \E p \in Person : TakeUser(p)
        <3>1. PICK p \in Person : TakeUser(p)
            BY <2>5
        <3> DEFINE skipped == [NextUser EXCEPT !.todo = @ \ {p}]
        <3>2. cycle' = skipped \/ cycle'.pc = "search"
            BY <3>1 DEF TakeUser
        <3>3. skipped.pc = "next"
            BY DEF NextUser, TypeInv, TypeOK, CycleState
        <3> HIDE DEF skipped
        <3> QED  BY <3>2, <3>3
    <2> QED  BY <2>1, <2>2, <2>3, <2>4, <2>5 DEF Next, CycleProgress
<1> QED  BY <1>1, AccountsInvariant, PTL DEF Spec, CyclesAreComplete
=============================================================================
