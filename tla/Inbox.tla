-------------------------------- MODULE Inbox --------------------------------
(***************************************************************************)
(* Which application an email is recorded for: EmailWebhook with the noise *)
(* filter and the company matching of EmailMatching in place of its free   *)
(* choice (email_classifier.py classify), on rows that are matched the     *)
(* most recently updated first.                                            *)
(*                                                                         *)
(* The owner's press of Accept, two statements in Workflow, is one step.   *)
(***************************************************************************)
EXTENDS EmailWebhook, EmailMatching

CONSTANTS Companies,    (* the functions from App to names that JobORM.company  *)
                        (* may be                                               *)
          Submitted,    (* <<a, b>> if row a was submitted after row b          *)
          Letter,       (* emails, as the filter and the sender's domain show   *)
                        (* them                                                 *)
          LLMHint,      (* names the LLM may hint at                            *)
          EmailSanityFilterEnabled

(* R tells of any two members of S which one is the newer.                 *)
Orders(R, S) ==
    /\ R \subseteq S \X S
    /\ \A x \in S : <<x, x>> \notin R
    /\ \A x, y \in S : x # y => <<x, y>> \in R \/ <<y, x>> \in R
    /\ \A x, y, z \in S : <<x, y>> \in R /\ <<y, z>> \in R => <<x, z>> \in R

ASSUME InboxAssumption ==
    /\ App \cap Request = {}
    /\ Companies \subseteq [App -> Seq(Character)]
    /\ LLMHint \subseteq Seq(Character)
    /\ Letter \subseteq [bulkMailbox: BOOLEAN, subject: SUBSET Phrase,
                         body: SUBSET Phrase, domain: Seq(Seq(Character)) \ {<<>>}]
    /\ Orders(Submitted, App)
    /\ EmailSanityFilterEnabled \in BOOLEAN

VARIABLES company,      (* the company of each row's job                   *)
          letter,       (* what each email looks like                      *)
          newer,        (* <<x, y>> if x has the later updated_at of two   *)
                        (* rows; a transaction under way counts by its     *)
                        (* start                                           *)
          reading,      (* the order of the candidates and, for the        *)
                        (* properties, the rows closed by then             *)
          evidence,     (* what last_email_summary says of each row        *)
          overtaken,    (* history: rows written to between an email's     *)
                        (* SELECT and its UPDATE                           *)
          recorded      (* history: <<email, row>> pairs committed         *)

inboxVars == <<company, letter, newer, reading, evidence, overtaken, recorded>>

NotReading == [newer |-> {}, closed |-> {}]

(* What the LLM may answer; an answer that cannot be parsed is dropped as  *)
(* an informational one is.                                                *)
Answer == [hint: LLMHint, classification: {"offer", "rejection", "other"}]

(* An application that has been submitted, and silent since.               *)
SubmittedRow == [status |-> "submitted", submittedAt |-> 1]

InboxInit ==
    /\ row = [a \in App |-> SubmittedRow]
    /\ quiet = {}
    /\ locked = {}
    /\ DeploymentInit
    /\ EmailInit
    /\ company \in Companies
    /\ letter \in [Mail -> Letter]
    /\ newer = Submitted
    /\ reading = [m \in Mail |-> NotReading]
    /\ evidence = [a \in App |-> None]
    /\ overtaken = {}
    /\ recorded = {}
-----------------------------------------------------------------------------
(* The ratios of all names that can meet, as a table.  Nothing matches a   *)
(* hint of which normalisation leaves nothing.                             *)
NameOf(a) == Normalise(company[a])

Needle(l, answer) == Normalise(Hint(answer.hint, l.domain))

Needles == {Needle(l, answer) : l \in Letter, answer \in Answer}

Names == {Normalise(c[a]) : c \in Companies, a \in App}

RatioTable == [s \in Needles |-> [t \in Names |->
                  IF s = <<>> THEN <<0, 1>> ELSE Ratio(s, t)]]

RatioOf(s, t) == RatioTable[s][t]

Match(m, needle) ==
    BestMatch([a \in mail[m].candidates |-> RatioOf(needle, NameOf(a))],
              reading[m].newer)

(* classify: the row an email is to be recorded for, if any.  The filter   *)
(* comes before the LLM; an informational answer changes nothing, whatever *)
(* it matches.                                                             *)
Proposed(m, answer) ==
    IF \/ EmailSanityFilterEnabled /\ IsNoiseEmail(letter[m])
       \/ answer.classification \in Informational
    THEN {} ELSE Match(m, Needle(letter[m], answer))

Among(S) == {p \in newer : p[1] \in S /\ p[2] \in S}

Without(S) == {p \in newer : p[1] \notin S /\ p[2] \notin S}

Writing == {m \in Mail : mail[m].pc = "write"}

Newest(x) == {<<x, y>> : y \in (App \cup Writing) \ {x}} \cup Without({x})

(* An UPDATE sets updated_at to now(), which is when its transaction       *)
(* began: row a takes the place that transaction m has kept.               *)
Stamped(m, a) ==
    LET place(x) == IF x = a THEN m ELSE x
        others == (App \cup Writing) \ {m}
    IN {p \in others \X others : <<place(p[1]), place(p[2])>> \in newer}

Closed == {"accepted", "rejected", "skipped", "failed"}

Refuse(m) == EmailRefused(m) /\ UNCHANGED inboxVars

Receive(m, i) ==
    /\ ReceiveEmail(m, i)
    /\ reading' = [reading EXCEPT ![m] =
          [newer |-> Among(ListCandidatesForEmailMatch(mail[m].owner)),
           closed |-> {a \in App : row[a].status \in Closed}]]
    /\ UNCHANGED <<company, letter, newer, evidence, overtaken, recorded>>

Classify(m, answer) ==
    /\ \/ Proposed(m, answer) = {} /\ ClassifyNoAction(m)
       \/ \E a \in Proposed(m, answer) : ClassifyMatched(m, a, answer.classification)
    /\ reading' = [reading EXCEPT ![m].newer = {}]
    /\ UNCHANGED <<company, letter, newer, evidence, overtaken, recorded>>

(* The transaction begins.                                                 *)
Load(m) ==
    /\ EmailLoad(m)
    /\ newer' = Newest(m)
    /\ UNCHANGED <<company, letter, reading, evidence, overtaken, recorded>>

(* record_email_update sets the evidence also when it leaves the status    *)
(* alone, which it does when the status it loaded is the new one.          *)
Record(m) ==
    LET a == mail[m].app
    IN /\ EmailCommit(m)
       /\ newer' = Stamped(m, a)
       /\ evidence' = [evidence EXCEPT ![a] = mail[m].status]
       /\ overtaken' = IF row[a].status = mail[m].loaded
                       THEN overtaken ELSE overtaken \cup {a}
       /\ recorded' = recorded \cup {<<m, a>>}
       /\ UNCHANGED <<company, letter, reading>>

Forgotten(M) ==
    /\ reading' = [m \in Mail |-> IF m \in M THEN NotReading ELSE reading[m]]
    /\ newer' = Without(M)
    /\ UNCHANGED <<company, letter, evidence, overtaken, recorded>>

Conclude(m) == Respond(m) /\ Forgotten({m})

Fails(m) == EmailFails(m) /\ Forgotten({m})

Crash(i) ==
    /\ Fault
    /\ EmailsLost(i)
    /\ Forgotten(serving[i])
    /\ serving' = [serving EXCEPT ![i] = {}]
    /\ UNCHANGED <<rowVars, offers>>

AcceptOffer(a) ==
    /\ row[a].status = "offered"
    /\ SetStatus(a, "accepted")
    /\ newer' = Newest(a)
    /\ UNCHANGED <<deployVars, emailVars, company, letter, reading, evidence,
                   overtaken, recorded>>

InboxStep ==
    \/ \E m \in Mail : \/ Refuse(m)
                       \/ \E i \in Instance : Receive(m, i)
                       \/ \E answer \in Answer : Classify(m, answer)
                       \/ Load(m) \/ Record(m) \/ Conclude(m) \/ Fails(m)
    \/ \E i \in Instance : Crash(i)
    \/ \E a \in App : AcceptOffer(a)
=============================================================================
