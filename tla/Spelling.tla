------------------------------ MODULE Spelling -------------------------------
(***************************************************************************)
(* How the program compares texts: services/email_classifier.py (company   *)
(* names) and services/pdf_ingest.py (a resume with the document it was    *)
(* read from) drop everything but ASCII letters and digits and ask whether *)
(* one is a substring of the other.  What is dropped may be all there is:  *)
(* then the substring is empty, and found everywhere.                      *)
(*                                                                         *)
(* A text is a sequence of characters.  Letter case is abstracted from,    *)
(* and a character may stand for several letters that occur together.      *)
(***************************************************************************)
EXTENDS Naturals, Sequences

CONSTANTS Character,      (* what texts are made of                        *)
          Alphanumeric    (* the characters normalisation keeps            *)

ASSUME CharacterAssumption == Alphanumeric \subseteq Character

Normalise(name) ==
    LET kept[n \in 0..Len(name)] ==
           IF n = 0 THEN <<>>
           ELSE IF name[n] \in Alphanumeric THEN Append(kept[n - 1], name[n])
           ELSE kept[n - 1]
    IN kept[Len(name)]

Within(s, t) == \E i, j \in 0..Len(t) : s = SubSeq(t, i + 1, j)
=============================================================================
