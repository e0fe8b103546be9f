----------------------------- MODULE Onboarding ------------------------------
(***************************************************************************)
(* From an upload to what is sent in a user's name: Accounts composed with *)
(* the part of the discovery cycle that Discovery takes as given -- whom   *)
(* it searches for, with which resume, what the job boards answer and what *)
(* the LLM writes (services/discovery.py, services/tailoring.py).          *)
(*                                                                         *)
(* One posting stands for all: what happens to a posting's row is          *)
(* Discovery's.                                                            *)
(***************************************************************************)
EXTENDS Accounts, JobSources

CONSTANT Suggestions       (* the lists of bullets the LLM may return      *)

ASSUME OnboardingAssumption == Suggestions \subseteq Seq(Suggestion)

VARIABLES cycle,           (* the discovery cycle                          *)
          sent             (* history: the card and PDF sent last          *)

onboardingVars == <<accountsVars, cycle, sent>>

CycleState == [pc: {"idle", "next", "search", "tailor"}, todo: SUBSET Person,
               who: Person \cup {None}, resume: Resume \cup {None}]

IdleCycle == [pc |-> "idle", todo |-> {}, who |-> None, resume |-> None]

(* Of a delivery: what the LLM had answered, the texts on the card,        *)
(* whether it carries the note, and the texts in the PDF.                  *)
Delivery == [to: Person, answer: Seq(Suggestion), card: SUBSET Text,
             flagged: BOOLEAN, pdf: SUBSET Text]

Init == /\ AccountsInit
        /\ cycle = IdleCycle
        /\ sent = None
-----------------------------------------------------------------------------
(* DiscoveryService.run: all users there are at this moment.               *)
CycleStart ==
    /\ cycle.pc = "idle"
    /\ users # {}
    /\ cycle' = [IdleCycle EXCEPT !.pc = "next", !.todo = users]
    /\ UNCHANGED <<accountsVars, sent>>

NextUser == [cycle EXCEPT !.pc = "next", !.who = None, !.resume = None]

(* _run_for_user: a user with a master resume to search with is searched   *)
(* for, the others are skipped.                                            *)
TakeUser(p) ==
    /\ cycle.pc = "next"
    /\ p \in cycle.todo
    /\ \/ \E row \in masters[p] :
             cycle' = IF row.content.query = "none"
                      THEN [NextUser EXCEPT !.todo = @ \ {p}]
                      ELSE [pc |-> "search", todo |-> cycle.todo \ {p},
                            who |-> p, resume |-> row.content]
       \/ masters[p] = {} /\ cycle' = [NextUser EXCEPT !.todo = @ \ {p}]
    /\ UNCHANGED <<accountsVars, sent>>

(* A JobSourceError skips the user; another exception ends the cycle.      *)
Search(result) ==
    /\ cycle.pc = "search"
    /\ result \in JobSearch(cycle.resume.query)
    /\ cycle' = CASE result = "jobs" -> [cycle EXCEPT !.pc = "tailor"]
                  [] result \in {"nothing", "JobSourceError"} -> NextUser
                  [] result = "exception" -> IdleCycle
    /\ UNCHANGED <<accountsVars, sent>>

DeliverBugReadsAgain(answer) ==
    /\ cycle.pc = "tailor"
    /\ \E row \in masters[cycle.who] :
          sent' = [to |-> cycle.who,
                   answer |-> answer,
                   card |-> Card(answer),
                   flagged |-> Flagged(cycle.resume, answer),
                   pdf |-> row.content.contact \cup row.content.body \cup row.content.dates
                              \cup {Displayed(cycle.resume, answer, bullet) :
                                       bullet \in row.content.bullets}]
    /\ cycle' = NextUser
    /\ UNCHANGED accountsVars

(* _process_job: what the LLM makes of the resume read at the beginning is *)
(* checked against that resume, and the PDF is rendered from it; card and  *)
(* PDF go to the user's chat ...                                           *)
Deliver(answer) ==
    /\ cycle.pc = "tailor"
    /\ sent' = [to |-> cycle.who,
                answer |-> answer,
                card |-> Card(answer),
                flagged |-> Flagged(cycle.resume, answer),
                pdf |-> Pdf(cycle.resume, answer)]
    /\ cycle' = NextUser
    /\ UNCHANGED accountsVars

(* ... unless the LLM fails or its answer cannot be read.                  *)
TailorFails ==
    /\ cycle.pc = "tailor"
    /\ cycle' = NextUser
    /\ UNCHANGED <<accountsVars, sent>>

CycleEnd ==
    /\ cycle.pc = "next"
    /\ cycle.todo = {}
    /\ cycle' = IdleCycle
    /\ UNCHANGED <<accountsVars, sent>>

(* The process dies, and another one takes over.                           *)
Crash ==
    /\ HandlersLost
    /\ cycle' = IdleCycle
    /\ Fault
    /\ UNCHANGED <<users, token, masters, issued, uploaded, stored, shown, sent>>

CycleProgress ==
    \/ \E p \in Person : TakeUser(p)
    \/ \E result \in SearchResult : Search(result)
    \/ \E answer \in Suggestions : Deliver(answer)
    \/ TailorFails
    \/ CycleEnd

Next == \/ AccountsStep /\ UNCHANGED <<cycle, sent>>
        \/ CycleStart \/ CycleProgress \/ Crash

Spec == Init /\ [][Next]_onboardingVars
-----------------------------------------------------------------------------
(* Every variable holds a value of its kind, and what is about to be      *)
(* stored as a resume is one.                                              *)
TypeOK ==
    /\ users \subseteq Person
    /\ token \in [Person -> Nat]
    /\ masters \in [Person -> SUBSET Row]
    /\ request \in [Request -> RequestState]
    /\ \A r \in Request : request[r].pc \in {"select", "write"}
                              => request[r].resume # None
    /\ issued \in Nat
    /\ uploaded \in [Person -> SUBSET File]
    /\ stored \in [Person -> SUBSET Resume]
    /\ shown \in [Person -> SUBSET Nat]
    /\ faults \in 0..MaxFaults
    /\ cycle \in CycleState
    /\ sent \in Delivery \cup {None}

(* What a file states: the fields of a resume, or whatever is found in the *)
(* text of a PDF letter for letter.                                        *)
Stated(file, text) ==
    CASE file.kind = "json" -> text \in Fields(file.content)
      [] file.kind = "pdf" -> FoundIn(text, file.content)

(* A suggestion with this text whose numbers and proper nouns these texts  *)
(* contain.                                                                *)
Justified(texts, answer, text) ==
    \E i \in DOMAIN answer : answer[i].text = text /\ Supported(texts, answer[i])

(* "Only content from the user's stored master resume is emitted"          *)
(* (resume_pdf.py:6-10), which was compared with the PDF it was read from  *)
(* (pdf_ingest.py:3-8).  Whatever the LLM answered when the file was read  *)
(* and when the job was found, and whatever else its user has uploaded     *)
(* meanwhile: all of a PDF goes back to one version of the user's resume   *)
(* and one file they uploaded.  A text in it is found in the file, letter  *)
(* for letter, or is a date of the version, which nothing compares; or it  *)
(* is a rewrite, whose numbers and proper nouns are in fields of the       *)
(* version that are found in the file.                                     *)
NothingFabricated ==
    sent # None =>
       \E file \in uploaded[sent.to], version \in stored[sent.to] :
          \A text \in sent.pdf :
             \/ Stated(file, text)
             \/ text \in version.dates
             \/ Justified({field \in GroundingText(version) : Stated(file, field)},
                          sent.answer, text)

(* A card that shows numbers or proper nouns which no version of the       *)
(* user's resume contains carries the note that some suggestions are not   *)
(* grounded in it (messages.py:26-29).                                     *)
InventionsAreFlagged ==
    sent # None /\ ~ sent.flagged =>
       \E version \in stored[sent.to] :
          \A text \in sent.card : Justified(GroundingText(version), sent.answer, text)

(* "The parser can't invent fields the PDF doesn't contain" (README.md:32) *)
(* and "every field of the returned resume exists [...] in the original    *)
(* PDF text" (pdf_ingest.py:5-8): all words of a stored version, dates     *)
(* included, are words of one file.                                        *)
Texts(file) == IF file.kind = "json" THEN Fields(file.content) ELSE {file.content}

NothingIsInvented ==
    \A p \in Person : \A version \in stored[p] :
       \E file \in uploaded[p] : Tokens(Fields(version)) \subseteq Tokens(Texts(file))

(* Once the allowlist names anybody, somebody whom it does not name and    *)
(* who has not registered before leaves no row and costs no call of the    *)
(* LLM, whatever else the list contains (config.py:58-62).                 *)
Stranger == Person \ (AllowedTelegramIds \cup RegisteredBefore)

StrangersCostNothing ==
    AllowedTelegramIds \cap Person # {} =>
       /\ users \cap Stranger = {}
       /\ \A p \in Stranger : masters[p] = {} /\ token[p] = 0
       /\ \A r \in Request : request[r].pc = "parsing"
                                => request[r].who \notin Stranger

(* The token that is valid now has been shown to its user, or is about to  *)
(* be, unless something failed; and never to anybody else.                 *)
TokenIsKnown ==
    \A p \in Person : token[p] # 0 =>
       /\ \/ token[p] \in shown[p]
          \/ \E r \in Request : /\ request[r].pc = "reply"
                                /\ request[r].who = p
                                /\ request[r].token = token[p]
          \/ faults > 0
       /\ \A q \in Person \ {p} : token[p] \notin shown[q]

(* A first message registers its sender, and /emailhook gives a token,     *)
(* also if several messages arrive at once, unless something failed.       *)
AnsweredIsRegistered ==
    \A r \in Request :
       LET state == request[r]
       IN /\ state.pc = "done"
          /\ state.kind \in {"visit", "emailhook"}
          /\ state.who \in Allowed
          /\ faults = 0
          => /\ state.who \in users
             /\ state.kind = "emailhook" => shown[state.who] # {}

(* A board that fails keeps nobody from being searched for: with several   *)
(* boards a cycle ends before it has come to every user only if the        *)
(* process dies (composite.py:3-6).                                        *)
CyclesAreComplete ==
    [][cycle.pc # "idle" /\ cycle'.pc = "idle"
          => cycle.todo = {} \/ faults' > faults]_onboardingVars
=============================================================================
