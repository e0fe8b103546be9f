---------------------------- MODULE MCOnboarding -----------------------------
(* Small instances of Onboarding for TLC.                                  *)
EXTENDS Onboarding, TLC

CONSTANTS p1, p2, p3, r1, r2, r3

Symmetry == Permutations(Request)

MCDigit == {"7"}
MCAlphanumeric == {"java", "script", "node", "js"} \cup MCDigit

(* "zhe" stands for a letter of another alphabet.                          *)
MCCharacter == MCAlphanumeric \cup {" ", ".", "zhe"}

Java == <<"java">>
JavaScript == <<"java", "script">>
Script == <<"script">>
Node == <<"node">>
NodeJs == <<"node", ".", "js">>
Seven == <<"7">>
Foreign == <<"zhe">>

MCResume(contact, body, bullets, dates, query) ==
    [contact |-> contact, body |-> body, bullets |-> bullets, dates |-> dates,
     query |-> query]

Plain == MCResume({}, {NodeJs}, {Java}, {}, "words")

MCFile == {[kind |-> "json", content |-> Plain],
           [kind |-> "pdf", content |-> <<"java", "script", " ", "7">>]}

(* What the PDF says, and with an invented skill.                          *)
Honest == MCResume({}, {Seven}, {JavaScript}, {}, "none")
Inventive == MCResume({}, {Seven, Node}, {JavaScript}, {}, "words")

(* What passes though the PDF does not say it: words that are part of one  *)
(* there, a name of which the comparison sees nothing, and a date.         *)
Hidden == MCResume({Foreign}, {Seven, Script}, {Java}, {Node}, "words")

MCAnswer == {Honest, Inventive, Hidden}

(* An LLM that always finds a way to invent.                               *)
MCHidden == {Hidden}

(* A rewrite with a token of Plain; one with a number of the others and a  *)
(* word that opens it and is not looked at, beside one with a name that is *)
(* in Plain as it is spelt, which is not a token.                          *)
MCSuggestions ==
    {<<[source |-> Java, text |-> <<"java", " ", "node">>, proper |-> {Node}]>>,
     <<[source |-> Java, text |-> <<"node", " ", "7">>, proper |-> {}],
       [source |-> Java, text |-> <<"java", " ", "node", ".", "js">>,
        proper |-> {NodeJs}]>>}
=============================================================================
