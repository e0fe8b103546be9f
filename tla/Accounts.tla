------------------------------ MODULE Accounts -------------------------------
(***************************************************************************)
(* Users, master resumes and email tokens: the handlers of bot/handlers.py *)
(* that register a user or store something for one, over UserRepository    *)
(* and ResumeRepository (db/repositories.py).                              *)
(*                                                                         *)
(* Each handler opens one session: it finds or inserts the user, does its  *)
(* work and commits.  Handlers interleave at every await, so two messages  *)
(* of one person can both find no user, or no master resume.  An update is *)
(* answered with 200 whatever its handler does; Telegram delivers it again *)
(* only if the process died before that.                                   *)
(*                                                                         *)
(* An UPDATE or INSERT and the COMMIT right after it are one step.         *)
(***************************************************************************)
EXTENDS Resumes

CONSTANTS Person,          (* Telegram users                               *)
          RegisteredBefore,     (* who may have registered in earlier days *)
          AllowedTelegramIds,   (* the entries of the allowlist: people,   *)
                                (* and whatever else stands there          *)
          Request,         (* updates they send                            *)
          File, Answer,    (* what may be uploaded, and what the LLM makes *)
                           (* of a PDF                                     *)
          None,
          MaxFaults        (* bound on failed replies, sessions, crashes   *)

(* A file holds a resume, or a text from which a resume is to be made.     *)
ASSUME AccountsAssumption ==
    /\ RegisteredBefore \subseteq Person
    /\ Answer \subseteq Resume
    /\ File \subseteq [kind: {"json"}, content: Resume] \cup [kind: {"pdf"}, content: Text]
    /\ None \notin Person \cup Resume \cup File
    /\ MaxFaults \in Nat

VARIABLES users,           (* committed rows of `users`                    *)
          token,           (* [Person -> email_webhook_token, 0 for NULL]  *)
          masters,         (* [Person -> rows of `resumes`, is_master]     *)
          request,         (* [Request -> the update and its handler]      *)
          issued,          (* tokens generated so far                      *)
          uploaded,        (* history: the files each person has sent      *)
          stored,          (* history: what has ever been a master resume  *)
          shown,           (* history: the tokens each person was shown    *)
          faults

accountsVars ==
    <<users, token, masters, request, issued, uploaded, stored, shown, faults>>

Kind == {"visit", "json", "pdf", "emailhook"}

Pc == {"idle", "queued", "parsing", "lookup", "insert", "visit", "select",
       "write", "rotate", "reply", "done"}

Row == [id: Nat, content: Resume]

RequestState == [pc: Pc, who: Person \cup {None}, kind: Kind,
                 file: File \cup {None}, resume: Resume \cup {None},
                 row: Row \cup {None}, inserted: BOOLEAN, token: Nat]

NoRequest == [pc |-> "idle", who |-> None, kind |-> "visit", file |-> None,
              resume |-> None, row |-> None, inserted |-> FALSE, token |-> 0]

AccountsInit == /\ users \in SUBSET RegisteredBefore
                /\ token = [p \in Person |-> 0]
                /\ masters = [p \in Person |-> {}]
                /\ request = [r \in Request |-> NoRequest]
                /\ issued = 0
                /\ uploaded = [p \in Person |-> {}]
                /\ stored = [p \in Person |-> {}]
                /\ shown = [p \in Person |-> {}]
                /\ faults = 0
-----------------------------------------------------------------------------
AllowedTelegramIdSetBugStrict ==
    IF AllowedTelegramIds \subseteq Person THEN AllowedTelegramIds ELSE {}

(* allowed_telegram_id_set: an entry that is not a number is skipped.      *)
AllowedTelegramIdSet == AllowedTelegramIds \cap Person

(* is_telegram_id_allowed: a list that names nobody opens the bot.         *)
Allowed == IF AllowedTelegramIdSet = {} THEN Person ELSE AllowedTelegramIdSet

At(r, pc) == request[r].pc = pc

Goto(r, pc) == request' = [request EXCEPT ![r].pc = pc]

Who(r) == request[r].who

(* The handler returns, and what it held is gone.                          *)
Done(r) == request' = [request EXCEPT
              ![r] = [NoRequest EXCEPT !.pc = "done", !.who = Who(r),
                                         !.kind = request[r].kind]]

(* get_or_create has succeeded: on to the work of the handler.             *)
Work(r) == CASE request[r].kind = "visit" -> "visit"
             [] request[r].kind = "emailhook" -> "rotate"
             [] OTHER -> "select"

(* A person sends a command (/start, /discover, /dashboard: "visit";       *)
(* /emailhook in a private chat) ...                                       *)
SendCommand(r, p, kind) ==
    /\ At(r, "idle")
    /\ kind \in {"visit", "emailhook"}
    /\ request' = [request EXCEPT ![r].pc = "queued", ![r].who = p,
                                  ![r].kind = kind]
    /\ UNCHANGED <<users, token, masters, issued, uploaded, stored, shown, faults>>

(* ... or a file.                                                          *)
Upload(r, p, file) ==
    /\ At(r, "idle")
    /\ request' = [request EXCEPT
          ![r].pc = "queued", ![r].who = p, ![r].kind = file.kind, ![r].file = file,
          ![r].resume = IF file.kind = "json" THEN file.content ELSE None]
    /\ uploaded' = [uploaded EXCEPT ![p] = @ \cup {file}]
    /\ UNCHANGED <<users, token, masters, issued, stored, shown, faults>>

(* _reject_unregistered comes first, then a file is refused for its name,  *)
(* size or contents; a PDF goes to the LLM.                                *)
Handle(r) ==
    /\ At(r, "queued")
    /\ \/ /\ Who(r) \in Allowed
          /\ Goto(r, IF request[r].kind = "pdf" THEN "parsing" ELSE "lookup")
       \/ /\ Who(r) \notin Allowed \/ request[r].kind \in {"json", "pdf"}
          /\ Done(r)
    /\ UNCHANGED <<users, token, masters, issued, uploaded, stored, shown, faults>>

(* PDFIngestService.ingest: the answer is taken if it is grounded ...      *)
Parse(r, answer) ==
    /\ At(r, "parsing")
    /\ Ingested(request[r].file.content, answer)
    /\ request' = [request EXCEPT ![r].pc = "lookup", ![r].resume = answer]
    /\ UNCHANGED <<users, token, masters, issued, uploaded, stored, shown, faults>>

(* ... and the upload refused if it is not, or there is none.              *)
ParseRefused(r) ==
    /\ At(r, "parsing")
    /\ Done(r)
    /\ UNCHANGED <<users, token, masters, issued, uploaded, stored, shown, faults>>

(* UserRepository.get_or_create: the user is there, or is inserted ...     *)
UserLookup(r) ==
    /\ At(r, "lookup")
    /\ Goto(r, IF Who(r) \in users THEN Work(r) ELSE "insert")
    /\ UNCHANGED <<users, token, masters, issued, uploaded, stored, shown, faults>>

UserInsertBugRaises(r) ==
    /\ At(r, "insert")
    /\ \A s \in Request : request[s].inserted => Who(s) # Who(r)
    /\ IF Who(r) \in users THEN Done(r)
       ELSE request' = [request EXCEPT ![r].pc = Work(r), ![r].inserted = TRUE]
    /\ UNCHANGED <<users, token, masters, issued, uploaded, stored, shown, faults>>

(* ... which waits while another open session has inserted the same        *)
(* telegram_user_id, and adopts the row of a session that committed.       *)
UserInsert(r) ==
    /\ At(r, "insert")
    /\ \A s \in Request : request[s].inserted => Who(s) # Who(r)
    /\ IF Who(r) \in users THEN Goto(r, Work(r))
       ELSE request' = [request EXCEPT ![r].pc = Work(r), ![r].inserted = TRUE]
    /\ UNCHANGED <<users, token, masters, issued, uploaded, stored, shown, faults>>

(* The session commits: the user it inserted is there for everybody.       *)
Committed(r) == users' = users \cup {Who(r)}

Visit(r) ==
    /\ At(r, "visit")
    /\ Committed(r)
    /\ request' = [request EXCEPT ![r].pc = "reply", ![r].inserted = FALSE]
    /\ UNCHANGED <<token, masters, issued, uploaded, stored, shown, faults>>

(* ResumeRepository.set_master: any of the master rows, if there is one,   *)
SelectMaster(r) ==
    /\ At(r, "select")
    /\ \E row \in IF masters[Who(r)] = {} THEN {None} ELSE masters[Who(r)] :
          request' = [request EXCEPT ![r].pc = "write", ![r].row = row]
    /\ UNCHANGED <<users, token, masters, issued, uploaded, stored, shown, faults>>

(* gets new contents -- unless they are what was read, which writes        *)
(* nothing -- or the first row is added.                                   *)
WriteMaster(r) ==
    LET rows == masters[Who(r)]
        seen == request[r].row
        new == request[r].resume
    IN /\ At(r, "write")
       /\ masters' = [masters EXCEPT ![Who(r)] =
             CASE seen = None -> rows \cup {[id |-> Cardinality(rows) + 1,
                                             content |-> new]}
               [] seen # None /\ seen.content = new -> rows
               [] OTHER -> {row \in rows : row.id # seen.id}
                              \cup {[id |-> seen.id, content |-> new]}]
       /\ stored' = [stored EXCEPT ![Who(r)] = @ \cup {new}]
       /\ Committed(r)
       /\ request' = [request EXCEPT ![r].pc = "reply", ![r].inserted = FALSE,
                                     ![r].row = None]
       /\ UNCHANGED <<token, issued, uploaded, shown, faults>>

RotateTokenBugReturnsOld(r) ==
    /\ At(r, "rotate")
    /\ issued' = issued + 1
    /\ token' = [token EXCEPT ![Who(r)] = issued']
    /\ Committed(r)
    /\ request' = [request EXCEPT ![r].pc = "reply", ![r].inserted = FALSE,
                                  ![r].token = token[Who(r)]]
    /\ UNCHANGED <<masters, uploaded, stored, shown, faults>>

(* rotate_email_webhook_token: a fresh token replaces the old one.         *)
RotateToken(r) ==
    /\ At(r, "rotate")
    /\ issued' = issued + 1
    /\ token' = [token EXCEPT ![Who(r)] = issued']
    /\ Committed(r)
    /\ request' = [request EXCEPT ![r].pc = "reply", ![r].inserted = FALSE,
                                  ![r].token = issued']
    /\ UNCHANGED <<masters, uploaded, stored, shown, faults>>

(* The reply; the one to /emailhook shows the token.                       *)
Reply(r) ==
    /\ At(r, "reply")
    /\ shown' = IF request[r].token = 0 THEN shown
                ELSE [shown EXCEPT ![Who(r)] = @ \cup {request[r].token}]
    /\ Done(r)
    /\ UNCHANGED <<users, token, masters, issued, uploaded, stored, faults>>

Fault == faults < MaxFaults /\ faults' = faults + 1

(* A handler raises: its session, if it is open, is rolled back, and the   *)
(* update is not delivered again.                                          *)
HandlerFails(r) ==
    /\ ~ At(r, "idle") /\ ~ At(r, "queued") /\ ~ At(r, "done")
    /\ Done(r)
    /\ Fault
    /\ UNCHANGED <<users, token, masters, issued, uploaded, stored, shown>>

RedeliveredBugForgets(state) ==
    IF state.pc \in {"idle", "done"} THEN state
    ELSE [state EXCEPT !.pc = "queued", !.row = None, !.inserted = FALSE,
                       !.token = 0, !.resume = None]

(* What Telegram sends again: the update as it was.                        *)
Redelivered(state) ==
    IF state.pc \in {"idle", "done"} THEN state
    ELSE [state EXCEPT !.pc = "queued", !.row = None, !.inserted = FALSE,
                       !.token = 0,
                       !.resume = IF state.kind = "json" THEN @ ELSE None]

HandlersLost == request' = [r \in Request |-> Redelivered(request[r])]

HandlerProgress(r) ==
    \/ Handle(r) \/ ParseRefused(r) \/ (\E answer \in Answer : Parse(r, answer))
    \/ UserLookup(r) \/ UserInsert(r) \/ Visit(r) \/ SelectMaster(r)
    \/ WriteMaster(r) \/ RotateToken(r) \/ Reply(r)

AccountsStep ==
    \E r \in Request :
       \/ \E p \in Person : \/ \E kind \in Kind : SendCommand(r, p, kind)
                            \/ \E file \in File : Upload(r, p, file)
       \/ HandlerProgress(r)
       \/ HandlerFails(r)
=============================================================================
