---------------------------- MODULE EmailMatching ----------------------------
(***************************************************************************)
(* What an inbound email is taken for and which application it is taken to *)
(* be about: services/email_filter.py and the pure part of                 *)
(* services/email_classifier.py.                                           *)
(*                                                                         *)
(* A name is a sequence of characters, compared as Spelling says.  An      *)
(* email's subject and body are the sets of telling words and phrases in   *)
(* them.                                                                   *)
(***************************************************************************)
EXTENDS Spelling

CONSTANT Webmail          (* domain names that say nothing of an employer  *)

(* The noise filter.  The patterns of _ADVANCING_RE end in \b, so that its *)
(* stems match as words only: "reject" is found, "rejected" is not.        *)

Phrase == {"board", "interview", "reject", "rejected", "unsubscribe", "footer"}

Advancing == {"interview", "reject"}

LooksAdvancing(subject) == subject \cap Advancing # {}

JobAlert(email) == "board" \in email.subject \cup email.body

Newsletter(email) == {"unsubscribe", "footer"} \subseteq email.body

BulkSenderBugAlways(email) == email.bulkMailbox

BulkSender(email) == email.bulkMailbox /\ ~ LooksAdvancing(email.subject)

IsNoiseEmail(email) == JobAlert(email) \/ Newsletter(email) \/ BulkSender(email)

(* Company names.                                                          *)

(* _sender_company_hint: the label before the last of the sender's domain, *)
(* the only one if there is no other; empty if it is a webmail service's.  *)
SenderCompanyHint(domain) ==
    LET root == domain[IF Len(domain) = 1 THEN 1 ELSE Len(domain) - 1]
    IN IF root \in Webmail THEN <<>> ELSE root

(* The LLM's hint is preferred, even if nothing of it survives             *)
(* normalisation.                                                          *)
Hint(llmHint, domain) ==
    IF llmHint # <<>> THEN llmHint ELSE SenderCompanyHint(domain)

(* difflib: the longest block s and t have in common, the first in s and   *)
(* then in t among equals; what lies on either side of it is compared in   *)
(* the same way.  Ranges count from 0 and exclude their end.               *)
Ranges(s, t) == [alo: 0..Len(s), ahi: 0..Len(s), blo: 0..Len(t), bhi: 0..Len(t)]

CommonBlocks(s, t, r) ==
    {m \in [a: r.alo..r.ahi, b: r.blo..r.bhi, size: 1..Len(s)] :
        /\ m.a + m.size <= r.ahi
        /\ m.b + m.size <= r.bhi
        /\ \A k \in 1..m.size : s[m.a + k] = t[m.b + k]}

LongestOf(blocks) ==
    CHOOSE m \in blocks :
       \A n \in blocks :
          \/ m.size > n.size
          \/ m.size = n.size /\ m.a < n.a
          \/ m.size = n.size /\ m.a = n.a /\ m.b <= n.b

Matches(s, t) ==
    LET matched[r \in Ranges(s, t)] ==
           LET blocks == CommonBlocks(s, t, r)
               m == LongestOf(blocks)
           IN IF blocks = {} THEN 0
              ELSE m.size + matched[[alo |-> r.alo, ahi |-> m.a,
                                     blo |-> r.blo, bhi |-> m.b]]
                          + matched[[alo |-> m.a + m.size, ahi |-> r.ahi,
                                     blo |-> m.b + m.size, bhi |-> r.bhi]]
    IN matched[[alo |-> 0, ahi |-> Len(s), blo |-> 0, bhi |-> Len(t)]]

(* Ratios are fractions: a pair of naturals.                               *)
SequenceRatio(s, t) == <<2 * Matches(s, t), Len(s) + Len(t)>>

Exceeds(p, q) == p[1] * q[2] > q[1] * p[2]

RatioBugSubstringWins(needle, company) ==
    IF Within(needle, company) \/ Within(company, needle)
    THEN <<1, 1>> ELSE SequenceRatio(needle, company)

(* A name within the other one counts as 0.9 at least.                     *)
Ratio(needle, company) ==
    LET ratio == SequenceRatio(needle, company)
    IN IF /\ Within(needle, company) \/ Within(company, needle)
          /\ Exceeds(<<9, 10>>, ratio)
       THEN <<9, 10>> ELSE ratio

(* _best_match over the candidates, whose ratios and whose order by        *)
(* updated_at are given: the newest of the best, if good enough, as a set  *)
(* of at most one.                                                         *)
BestMatchBugNoThreshold(ratio, newer) ==
    {a \in DOMAIN ratio :
        \A b \in DOMAIN ratio \ {a} :
           \/ Exceeds(ratio[a], ratio[b])
           \/ ~ Exceeds(ratio[b], ratio[a]) /\ <<a, b>> \in newer}

BestMatch(ratio, newer) ==
    {a \in DOMAIN ratio :
        /\ ~ Exceeds(<<6, 10>>, ratio[a])
        /\ \A b \in DOMAIN ratio \ {a} :
              \/ Exceeds(ratio[a], ratio[b])
              \/ ~ Exceeds(ratio[b], ratio[a]) /\ <<a, b>> \in newer}

(* Names with nothing in common are those without a common character.      *)
SharedCharacter(s, t) == \E i \in DOMAIN s, j \in DOMAIN t : s[i] = t[j]
=============================================================================
