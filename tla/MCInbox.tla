------------------------------- MODULE MCInbox -------------------------------
(* A small instance of Inbox for TLC: three applications of one user, two  *)
(* of them to companies with the same or a similar name.                   *)
EXTENDS Tracking, TLC

CONSTANTS u1, a1, a2, a3, i1, m1, m2

MailSymmetry == Permutations(Mail)

Owned == [a \in App |-> u1]

AB == <<"a", "b">>
ABC == <<"a", "b", "c">>
Com == <<"c", "o", "m">>
Gmail == <<"g">>
Foreign == <<"?">>      \* a name without ASCII letters or digits

MCSubmitted == {<<a1, a2>>, <<a1, a3>>, <<a2, a3>>}

MCCharacter == {"a", "b", "c", "o", "m", "g", "?"}

MCAlphanumeric == MCCharacter \ {"?"}

MCCompanies == {[a \in App |-> CASE a = a1 -> AB [] a = a2 -> AB \o <<"?">> [] OTHER -> ABC],
                [a \in App |-> CASE a = a1 -> Foreign [] a = a2 -> AB [] OTHER -> Com]}

MCLetter ==
    {[bulkMailbox |-> TRUE, subject |-> {"interview"}, body |-> {"unsubscribe"},
      domain |-> <<AB, Com>>],
     [bulkMailbox |-> TRUE, subject |-> {"rejected"}, body |-> {},
      domain |-> <<Gmail, Com>>],
     [bulkMailbox |-> FALSE, subject |-> {}, body |-> {},
      domain |-> <<AB, Com, <<"a">>>>],
     [bulkMailbox |-> FALSE, subject |-> {"interview"}, body |-> {"unsubscribe", "footer"},
      domain |-> <<ABC, Com>>],
     [bulkMailbox |-> FALSE, subject |-> {"board"}, body |-> {},
      domain |-> <<ABC, Com>>]}

MCWebmail == {Gmail}

MCLLMHint == {<<>>, AB}
=============================================================================
