------------------------------- MODULE Resumes -------------------------------
(***************************************************************************)
(* What may be said about a user: services/pdf_ingest.py (a PDF becomes a  *)
(* resume), services/grounding.py and services/tailoring.py (an LLM        *)
(* rewrites its bullets for a job), services/resume_pdf.py (the PDF that   *)
(* is rendered) and bot/messages.py (the card).                            *)
(*                                                                         *)
(* Each of them compares texts in its own way, and what passes one need    *)
(* not be what a reader would call the same: texts are spelt out here,     *)
(* with single blanks.                                                     *)
(***************************************************************************)
EXTENDS Spelling, FiniteSets

CONSTANT Digit            (* a number is a run of them                     *)

ASSUME DigitAssumption == Digit \subseteq Alphanumeric

(* Empty fields are not compared and not printed, and are left out.        *)
Text == Seq(Character) \ {<<>>}

(* How a job can be searched for with a resume: not at all, with words of  *)
(* one or two letters only, or with words.                                 *)
Query == {"none", "short", "words"}

(* A master resume: name, email and phone; summary, skills, employers,     *)
(* titles, schools and degrees; bullets; start, end and graduation dates.  *)
Resume == [contact: SUBSET Text, body: SUBSET Text, bullets: SUBSET Text,
           dates: SUBSET Text, query: Query]

(* MasterResume.grounding_text, field by field                             *)
GroundingText(resume) == resume.body \cup resume.bullets

CheckedBugBulletsOnly(resume) == resume.bullets

(* The fields that pdf_ingest compares with the document: all but dates.   *)
Checked(resume) == resume.contact \cup GroundingText(resume)

Fields(resume) == Checked(resume) \cup resume.dates

(* _check, _check_in: letters and digits only, anywhere in the document.   *)
FoundIn(text, document) == Within(Normalise(text), Normalise(document))

(* _ground_or_raise                                                        *)
Ingested(document, resume) == \A text \in Checked(resume) : FoundIn(text, document)
-----------------------------------------------------------------------------
(* A bullet the LLM returns: the bullet it says it rewrites, its own text, *)
(* and the words of that text that look like proper nouns: acronyms, words *)
(* with a capital inside, and capitalised words but the first.             *)
Suggestion == [source: Text, text: Text, proper: SUBSET Seq(Character)]

(* The longest stretches of a text that consist of these characters.       *)
Runs(text, characters) ==
    LET at == {k \in 1..Len(text) : text[k] \in characters}
    IN {SubSeq(text, run[1], run[2]) : run \in
          {ends \in at \X at : /\ ends[1] <= ends[2] /\ ends[1]..ends[2] \subseteq at
                              /\ ends[1] - 1 \notin at /\ ends[2] + 1 \notin at}}

(* _tokens, _numbers: "Node.js" is the tokens "node" and "js".             *)
Tokens(texts) == UNION {Runs(text, Alphanumeric) : text \in texts}

Numbers(texts) == UNION {Runs(text, Digit) : text \in texts}

(* _source_matches: a bullet of the resume, or a part of one.              *)
SourceMatches(resume, s) == \E bullet \in resume.bullets : Within(s.source, bullet)

(* _fabricated_numbers, _fabricated_proper_nouns: there are none.          *)
Supported(texts, s) == /\ s.proper \subseteq Tokens(texts)
                       /\ Numbers({s.text}) \subseteq Numbers(texts)

GroundedBugSourceOnly(resume, s) == SourceMatches(resume, s)

(* GroundingValidator.check                                                *)
Grounded(resume, s) == /\ SourceMatches(resume, s)
                       /\ Supported(GroundingText(resume), s)

(* _tailored_lookup: the last grounded rewrite of exactly this bullet.     *)
Rewrites(resume, answer, bullet) ==
    {i \in DOMAIN answer : answer[i].source = bullet /\ Grounded(resume, answer[i])}

Displayed(resume, answer, bullet) ==
    LET fits == Rewrites(resume, answer, bullet)
    IN IF fits = {} THEN bullet
       ELSE answer[CHOOSE i \in fits : \A j \in fits : j <= i].text

(* render_master_resume_pdf                                                *)
Pdf(resume, answer) ==
    resume.contact \cup resume.body \cup resume.dates
       \cup {Displayed(resume, answer, bullet) : bullet \in resume.bullets}

(* format_application_message: every suggestion, grounded or not.          *)
Card(answer) == {answer[i].text : i \in DOMAIN answer}

(* ... and the note that some were withheld: TailoringResult.is_grounded.  *)
Flagged(resume, answer) == \E i \in DOMAIN answer : ~ Grounded(resume, answer[i])
=============================================================================
