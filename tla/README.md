# TLA+ specifications of Cinch

Cinch finds job postings, tailors a resume to each with an LLM, sends the result
to Telegram with Approve and Skip buttons, optionally submits what was approved
with a browser, and follows the answer through forwarded emails. This directory
holds TLA+ models of its control logic, configurations that check them with TLC
on small instances, and proofs checked by TLAPS.

Paths below are relative to `src/cinch/` of the repository.

## The system

| Component | State | Operations | Hard behaviour |
| --- | --- | --- | --- |
| Application rows: `db/repositories.py`, `db/models.py`, `domain/enums.py` | one row per (user, job): status, submitted_at, updated_at, evidence columns | ten statements of `ApplicationRepository` | read-then-write methods at READ COMMITTED, no version column, no `FOR UPDATE`; the ORM writes only changed columns |
| Deployment: `api/app.py`, `api/webhook.py`, `api/scheduler.py`, `db/session.py` | the requests a process is serving, one job instance per scheduler | webhooks, interval jobs | a crash between any two steps, redelivery, two processes during a rolling deploy |
| Approval workflow: `services/workflow.py`, `bot/handlers.py`, `bot/keyboards.py` | the cards on the user's screen | Approve, Skip, Accept offer, `/accept` | concurrent and repeated presses, late presses, toasts that fail after the commit |
| Assisted submission: `services/submission.py`, `providers/submit/` | the cycle's snapshot and where it is | claim, submit, record, notify | a crash or error after the click; claims by two processes |
| Inbound email: `api/email_webhook.py`, `services/email_classifier.py`, `services/email_filter.py` | an email between its two sessions | candidates, classify and match, record | the row changes while the LLM is asked |
| Ghosted sweep: `services/lifecycle.py` | the sweep's snapshot, the rows it has marked | one transaction over all silent rows | locks and invisible writes while messages are sent |
| Discovery: `services/discovery.py`, `bot/notify.py` | one transaction per cycle; cards already on the screen | search, insert, tailor, send, mark | delivery before commit, scheduler against `/discover`, unique keys, deadlocks |
| Registration, resumes, tokens: `bot/handlers.py`, `db/repositories.py`, `core/config.py` | users, master resume, email token | `/start`, `/discover`, `/dashboard`, uploads, `/emailhook` | concurrent first messages and uploads, redelivery, lost replies |
| Ingestion, tailoring, grounding: `services/pdf_ingest.py`, `services/tailoring.py`, `services/grounding.py`, `services/resume_pdf.py`, `bot/messages.py` | none | LLM calls with a checked answer, cards, PDFs | what an LLM invents, and which fields the checks leave out |
| Job sources: `providers/jobs/` | none | one HTTP search per board, a fan-out | one board of several failing, in a way the adapter does not expect |
| Email matching and noise filter: `services/email_filter.py`, `services/email_classifier.py` | none; the order of the candidates is `updated_at` | filter, sender's company, `difflib` ratio, best match | ties, thresholds, names of which normalisation leaves nothing |
| Dashboard: `services/dashboard_stats.py`, `api/dashboard/` | none on the server: signed links and cookies | tiles and table from one SELECT | a status without a tile, evidence that does not belong to the status beside it |

The components meet in the `applications` table only. The bot, the two
webhooks and the three schedulers each open their own session, so every pair of
them can interleave between any two statements; nothing in memory is shared.

### What makes it correct

* Approve is a licence for one submission; nothing is submitted without one,
  also if the process dies between the click and the record of it.
* What a row says happened did happen: SUBMITTED was clicked, ACCEPTED was
  offered, PENDING_APPROVAL was delivered, and what a button answers is true.
* A user's rows are moved on that user's behalf only.
* An approved row is attempted, a silent one ghosted, a press or an email
  concluded, a posting that stays listed delivered.
* What is sent in a user's name goes back to one version of this user's resume, and
  that version to one of their own files.
* Registration, resumes and email tokens survive messages that arrive at once,
  and cost nothing for somebody who is not on the allowlist.
* An email moves an application to the company it names, once, and none that was
  closed when it arrived; the dashboard counts every row and shows the evidence
  for what it says.

## The modules

| Module | Models | State | Uses |
| --- | --- | --- | --- |
| `Applications` | the rows of `applications` and the statements of `ApplicationRepository` | `row`, histories `approvals`, `skips`, `offers` | |
| `Deployment` | processes, the requests they serve, failures | `serving`, `faults` | `Applications` |
| `Workflow` | presses of Approve, Skip and Accept; `/accept` | `tap` | `Deployment` |
| `Submission` | the submission cycle and the browser | `worker`, histories `claims`, `sent` | `Deployment` |
| `EmailWebhook` | a forwarded email | `mail` | `Deployment` |
| `GhostSweep` | the ghosted sweep | `sweep` | `Deployment` |
| `Cinch` | all of these together; properties | | the five above |
| `HumanInTheLoop` | abstract: an Approve is a licence for one submission | `granted`, `spent` | |
| `Discovery` | the discovery cycle's transaction, cards, a press | `cycle`, `jobs`, `application`, `cards` | |
| `Spelling` | how texts are normalised and searched for one another | operators only | |
| `Resumes` | a resume against the document it was read from, a tailoring answer against the resume, what a card and a PDF show | operators only | `Spelling` |
| `JobSources` | what a search makes of the answers of the job boards | operators only | |
| `Accounts` | users, master resumes, email tokens and the handlers that write them | `users`, `masters`, `token`, `request`, histories `uploaded`, `stored`, `shown` | `Resumes` |
| `Onboarding` | Accounts with the cycle that searches, tailors and sends | `cycle`, `sent` | `Accounts`, `JobSources` |
| `EmailMatching` | the noise filter and the company matching | operators only | `Spelling` |
| `Inbox` | EmailWebhook with EmailMatching in place of its free choice, on rows ordered by `updated_at` | `company`, `letter`, `newer`, `reading`, `evidence`, histories `overtaken`, `recorded` | `EmailWebhook`, `EmailMatching` |
| `Dashboard` | the summary tiles | operators only | `Applications` |
| `Tracking` | Inbox and Dashboard together; properties | | `Inbox`, `Dashboard` |
| `MCCinch`, `MCDiscovery`, `MCOnboarding`, `MCInbox` | small instances for TLC | | |
| `WebhookTypes` | lemmas about the types of the rows, the processes and the emails, which `Cinch` and `Tracking` share | | `EmailWebhook` |
| `CinchProofs`, `OutcomeProofs` | theorems about `Cinch` and about the tiles | | `Cinch`, `Dashboard`, `WebhookTypes` |
| `DiscoveryProofs` | theorems about `Discovery` | | `Discovery` |
| `OnboardingProofs`, `AccountsProofs` | theorems about `Onboarding` | | `Onboarding` |
| `MatchingProofs` | theorems about `EmailMatching` | | `EmailMatching` |
| `TrackingProofs` | theorems about `Tracking` | | `Tracking`, `WebhookTypes`, `MatchingProofs` |

**How code becomes actions.** Everything runs on asyncio and talks to a database
at READ COMMITTED, so the points where another actor can come in are the awaits.
A handler is split there into actions, each named after the method: a method that
selects and later updates is two actions (`DecideLoad` and `DecideCommit`,
`GhostRead` and `GhostMark`, `RecordLoad` and `RecordCommit`), and what it read is
part of the actor's state (`tap[t].loaded`, `worker[i].loaded`, `request[r].row`).
An UPDATE in a session that does nothing else before its COMMIT is one step with
it. Two transactions are long and are modelled with their locks and invisible
writes: the ghosted sweep (`sweep[i].marked`) and the discovery cycle
(`cycle[c].inserted`, `.marked`, `.newJobs`). The ORM writes only columns that
differ from what it loaded: `FlushStatus`, `RecordCommit` and `WriteMaster` write
nothing when the value read is the value to be written, also if the row has
changed since.

**What is abstracted.** Ids are model values. Times are one bit per row,
"silent for longer than `ghosted_after_days`" (`GrowQuiet` sets it, every write
clears it); in `Inbox` they are `newer`, the order of the rows by `updated_at`, in which
a transaction keeps the place of its start, since `now()` is that moment. The LLM is a
free choice among its possible answers, the browser among `Reportable` outcomes, a job
board among kinds of answer. An email is the set of telling words in its subject and
body, because the filter looks for them. Messages appear where a property is about
them: cards, replies to presses, tokens.

The texts of resumes, documents, tailoring answers and company names are sequences of
characters, because the code compares them so, in three ways that do not agree.
Ingestion (`FoundIn`) and the email matching keep only ASCII letters and digits and ask
for a substring, wherever in the other text it begins, and also when nothing is left of
it. Tailoring (`Supported`) splits the resume into tokens and numbers and asks for
members. The renderer (`Displayed`) asks for the same bullet, as it is. Letter case is
abstracted from, and one character may stand for several letters that occur together,
which is enough to have a word within another one. Blanks are single. The words of a
suggestion that look like proper nouns are given with it (`proper`), since capitals
decide that. Left out are decimals, separators and leading zeros of numbers, and that
the PDF font replaces characters outside Latin-1.

**Names.** A definition whose name contains `Bug` is a variation of the
definition after it, as a plausible mistake would have it. It is used by no
specification; substituting it shows that a property can fail.

## The abstract specification

`HumanInTheLoop` has two steps: an owner grants a licence, and a process spends
one. `Cinch!KeepsThePromise` is its specification under
`granted <- approvals, spent <- sent`: a press that moves a row to APPROVED
grants, a click on the submit control spends, everything else stutters. Each
process keeps its own account, because nothing in the code keeps a common one;
with the single process DEPLOY.md asks for the two notions are the same.

## The runs

`CHECK_DEADLOCK FALSE` is in every configuration: when no user, email or
scheduler has anything to do the service waits, and with the bounded number of
presses, emails and updates of an instance it then waits forever.

| Run | Instance | Shows |
| --- | --- | --- |
| `approvals` | one row, three presses by two users, one fault with one process; two presses with two processes | `OneClickPerApproval`, `Licensed`, `RepliesAreTrue`, `SubmittedWasClicked`, refinement of `HumanInTheLoop` |
| `two_owners` | two owners with a row each, two presses, one email, submissions, sweeps | `OwnersApart`: only the owner's press or email, or the service itself, moves a row; `SubmittedWasClicked` and `AcceptedWasOffered` with sweeps and emails, `SubmittedHasDate`, `TilesAddUp` |
| `liveness` | one row, one press, one email, all schedulers, one fault | `ApprovedIsAttempted`, `TapIsConcluded`, `SilentIsGhosted`, `EmailIsConcluded` |
| `discovery` | one cycle at a time, two postings, two faults | `PendingWasDelivered`, `DeadCardsHaveACause`, `RepeatsHaveACause`, `EventuallyDelivered` |
| `discovery_overlap` | two cycles at once, two postings, one of them left by an earlier cycle | `PendingWasDelivered`; `EveryCycleEnds` in spite of unique-key waits and deadlocks |
| `onboarding` | two users and a stranger, two updates, a JSON file and a PDF, three LLM answers for ingestion (honest, refused, and one that passes without being in the PDF), two for tailoring, two boards, one fault | `NothingFabricated`, `InventionsAreFlagged`, `StrangersCostNothing`, `TokenIsKnown`, `AnsweredIsRegistered`, `CyclesAreComplete` |
| `tracking` | three applications with equal, similar and unreadable company names, two emails of five kinds, one fault | `NamedCompanyWins`, `UnrelatedStayOut`, `HiringMailIsMatched`, `EvidenceExplains`, `OneEmailOneApplication`, `ClosedStaysClosed` |
| `never_twice` | one row, two presses | violates `NeverSubmittedTwice` |
| `ghost_race` | one row, one press, one email | violates `GhostedOnlyFromSubmitted` |
| `decision_undone` | one posting left by a failed cycle | violates `DecisionsStand` |
| `unreadable_name` | the applications of `tracking`, no fault | violates `UnrelatedNeverAttach` |
| `invented_fields` | one PDF, one LLM answer | violates `NothingIsInvented` |

**Why the bounds are enough.** Rows do not interact except through an owner's
candidates, so one row per owner shows every interleaving on a row and two owners
show what crosses between them. Two presses are the smallest number that races,
three allow a press that arrives after an attempt has ended while another is under
way. One fault (a crash, a redelivery or a failed transaction) can be placed between
any two steps; in `discovery` two are needed for a failure during the repair of a
failure. Two postings and two cycles are the smallest deadlock; a posting whose row
an earlier cycle left DISCOVERED makes the update lock part of it. Two emails are
needed for one to come between the SELECT and the UPDATE of the other, three
applications for a best match that is neither the first nor the last candidate. The
eight characters of `MCOnboarding` are what the comparisons tell apart: a word within
another one, a dot and a blank between words, a digit, and a letter that normalisation
drops. `MaxFaults` bounds faults, `MaxCards` the number of times a posting is announced
before it is no longer listed; nothing else is bounded but by the sets of the
configuration and by one constraint:

`approvals` looks at two parts of one state space (`OneOrTwoProcesses` in `MCCinch`).
Three presses and a fault are needed for what goes wrong one after the other, and one
process is enough for that; two processes are needed for what goes wrong at the same
time, both claiming the row they have both read APPROVED, and two presses without a
fault are enough for that. Everything at once has more states than the run can afford;
the theorems below are about every combination.

**Fairness.** In `Cinch!Fairness` only weak fairness is assumed: the event loop
runs every ready coroutine (`Handle`, `EmailProgress` and the steps of a cycle or
a sweep under way), and the schedulers are interval triggers with
`max_instances=1`, so a cycle that can start does start (it is part of
`WorkerProgress` and `SweepProgress`). Nothing a user, Zapier or a failure does is
fair. In `Discovery!Fairness` a cycle under way goes on, and some scheduler finds
a posting that stays listed again and again.

## What is proved

TLAPS checks the theorems for any sets of owners, rows, processes, presses, emails,
postings, cycles, people, files and company names and any bound on faults, from the
assumptions the modules state on their constants: presses and emails are different
requests, `None` is none of the values it stands apart from, bounds are natural numbers,
files, answers, suggestions and names are made of texts of any length over any
characters, some of which are alphanumeric and some of these digits, the applications
are finitely many and have been submitted one after the other. `OneProcess`, `OneCycle`
and `SeveralBoards` are no such assumptions but hypotheses of the theorems that need
them. Every invariant and every action property that a passing run checks is a theorem.

### Cinch

1. `TypesInvariant`: `TypeInv`, which is `TypeOK` and `Served`, is inductive.
   `TypeOK` alone is not: a crash puts the requests a process serves back into
   the queue, and a press that was served but not in progress would be put back
   without an application. `Served` says that whatever a process serves is in
   progress. One lemma per module proves that its steps preserve both.
   `TypeCorrect` follows.
2. `LicensedInvariant`: `Licensed`, together with the types, is inductive. It is
   the strengthening `OneClickPerApproval` needs: "clicks never exceed approvals"
   says nothing of an approved row that was claimed and not clicked yet. An
   approval is a licence for one claim, which a process still has while the row is
   APPROVED or while it has read it so; a claim is a licence for one click. The
   proof has one case for each action that can move a row to APPROVED, claim or
   click, and one lemma for all that do none of these.
3. `ClicksAreApproved`: `OneClickPerApproval`, from 2.
4. `CinchKeepsThePromise`: the refinement of `HumanInTheLoop`. Initial states map
   to initial states; the commit of an Approve is a grant, the click a
   submission that `Licensed` pays for, and every other action leaves `approvals`
   and `sent` unchanged.
5. `SubmittedWentOut`: `SubmittedWasClicked`, from `OutcomeInv`. A status is
   written several steps after what it says was found out, so the invariant also
   holds cycles and sweeps to what they carry: a cycle that has clicked, or will
   report SUBMITTED, has a click counted for the application it is at; what a sweep
   has read or marked was clicked.
6. `AcceptedHadOffer`: `AcceptedWasOffered`, from `OfferInv`: OFFERED rows, too, have
   an offer on record, and so has the row of a press of Accept that has passed its
   check, whatever becomes of the row before its UPDATE.
7. `OwnersStayApart`: the action property `OwnersApart`, from `OwnerInv`: a press past
   the ownership check is the owner's, an email's candidates and its match belong to
   the owner of its token. Neither is looked at again when the row is written.
8. `RepliesStandForDecisions`: `RepliesAreTrue`, from `DecisionInv`. "Already handled"
   is answered for a row that was read APPROVED, SKIPPED or SUBMITTED, possibly several
   steps ago, so each of these is backed by a decision in the row, in the copy a press
   has read, and in what a cycle is working on: it is the cycle that writes SUBMITTED,
   long after the approval.
9. `SubmissionsAreDated`: `SubmittedHasDate`, assuming one process (`OneProcess`). The
   UPDATE leaves out a column that equals what was loaded, so the invariant `DateInv`
   says of a cycle about to write that the date it has loaded is still there, and that
   a row that is SUBMITTED was so when it was loaded. With two processes neither holds.
10. `TilesAlwaysAddUp`: `TilesAddUp`, for any number of applications. The code has
   thirteen tiles for fourteen statuses: the one left out, TAILORED, is a member of the
   enum that no statement writes, which is the invariant `HasTile`. That a row with a
   tile is counted once, and by one tile only, is `ShownIsSum`, tile by tile.

### Discovery

1. `DiscoveryTypeCorrect`: `TypeOK` is inductive.
2. `PendingHadACard`: `PendingWasDelivered`, for any number of cycles at once. A cycle
   marks its rows long before it commits, so `DeliveryInv` says the same of marked rows,
   under the id the cycle sees. That this id does not change under the cycle is the
   heart of it: a row that one transaction has inserted is absent to all others and
   inserted by no other one (the unique key), and every card carries an id that was
   delivered.
3. `RepeatsAreFailures`: `RepeatsHaveACause`, assuming one cycle at a time (`OneCycle`,
   what `max_instances=1` gives while nobody sends `/discover`). The proof counts: a
   posting has been announced once for each failure at most, and once more if it is
   settled, that is, on its way to be skipped by later cycles (`CountInv`).
4. `DeadCardsAreFailures`: `DeadCardsHaveACause`, under the same assumption: without a
   failure a card names the committed row or the last one inserted for its posting,
   which its cycle still holds (`TraceInv`).

### Onboarding

1. `OnboardingTypeCorrect`: `TypeOK`, from `TypeInv`. A handler's program counter fits
   the kind of its update (`Shape`): an upload has a resume by the time it needs one. A
   person's master rows are finitely many, and a rendered resume takes the last rewrite
   that fits, which exists (lemma `Greatest`, by well-foundedness).
2. `OnlyUploadedIsSent` and `UnflaggedCardsAreTrue`: `NothingFabricated` and
   `InventionsAreFlagged`. Both speak of one stored version of the resume: a PDF shows
   its fields and bullets, or rewrites of bullets in the version's own proper nouns and
   numbers, and so does an unmarked card. They do not say that what was stored is in the file as a reader would see it, because it
   need not be (`invented_fields`); what holds between the two is the
   comparison the code makes. `FactsInv` has a part for each stage: every stored version
   has a file whose content lets all its checked fields pass, and master rows are stored
   versions (`StoredIsGrounded`); a handler about to store has such a file
   (`HandledIsGrounded`); the resume a cycle works with is a stored version, whatever is
   uploaded meanwhile (`SearchedIsGrounded`). Lemmas on `Resumes` say what the renderer
   and the card let through.
3. `StrangersStayOut`: `StrangersCostNothing`. No handler of a stranger gets past the
   gate, which nothing repeats later (`Admitted`).
4. `TokensReachTheirUsers`: `TokenIsKnown`. A token that has been generated is one
   person's: nobody else has it, was shown it, or is about to be (`TokenIsPrivate`);
   one that was replaced is forgotten.
5. `FirstMessagesRegister`: `AnsweredIsRegistered`: whoever is about to be answered is
   in the table, and has a token if that is the answer.
6. `CyclesComeToEveryUser`: the action property `CyclesAreComplete`, assuming several
   boards (`SeveralBoards`): merged answers are never an exception.

### Email matching

What `difflib` computes is a recursion: what lies on either side of the longest common
block is compared in the same way (`Matches`). It is a recursive function of index
ranges here, and before anything can be said about it that function has to be shown to
exist. `StrongInduction` is the induction principle this and all that follows rests on,
stated of a set of numbers and derived from the well-foundedness of `<`; the recursion
is on the length of what is left to compare.

1. `OnlyTheSameIsOne`: of two names, the first not empty, the ratio is 1 just if they
   are equal. Blocks are matched left to right and never share a character, so
   twice their length is at most the lengths of both names together, and equal only if
   one block is all of both. The 0.9 of a name that contains the other stays below.
2. `NothingSharedIsZero`: of two names with no character in common, neither of them
   empty, the ratio is 0: there is no block, and neither name contains the other.

### Tracking

1. `TypeCorrect`: `TypeOK`, from `TypeInv`. The rows and the transactions under way are
   always in one strict order (`Orders`), whatever begins, commits, fails or crashes:
   an UPDATE puts its row in the place its transaction has kept (`Stamped`), which may be
   behind rows written since. `TypeInv` adds that only an email being classified has
   candidates (`IdleOK`).
2. `EvidenceAlwaysExplains`: `EvidenceExplains`, which is inductive, given the types. An
   email that finds the row as it loaded it leaves it with its status and its evidence,
   whether it writes the status or not; one that does not makes the row `overtaken`.
3. `ClosedIsNotReopened`: the action property `ClosedStaysClosed`, from `OpenWhenRead`:
   neither the candidates of an email nor its match was closed when they were selected.
   The row is not looked at again.
4. `OneEmailIsForOne`: `OneEmailOneApplication`, from `RecordedOnce`, which counts: an
   email has been recorded for no more applications than there were faults, and one more
   if its visit has reached the record (`Visits`). Each new visit costs a fault.
5. `NamedCompanyAlwaysWins`, `UnrelatedAlwaysStaysOut`, `HiringMailAlwaysMatched`:
   `NamedCompanyWins`, `UnrelatedStayOut` and `HiringMailIsMatched`. The first two are the
   two theorems on the ratio, with the order of the candidates for ties; the third says
   that the filter lets the email pass and that of finitely many candidates one is the
   best and newest.

### Only model-checked

Every liveness property (`ApprovedIsAttempted`, `TapIsConcluded`, `SilentIsGhosted`,
`EmailIsConcluded`, `EventuallyDelivered`, `EveryCycleEnds`): fairness and ENABLED are
out of the prover's reach.

## Findings

Five runs end in a violation, of something the repository says about itself:

* **`never_twice`.** README.md:160 promises that an application is never submitted
  twice. `_TERMINAL` (workflow.py:47) leaves out FAILED and NEEDS_HUMAN, so an
  Approve that arrives after the first attempt has ended re-approves the row, and
  FAILED does not mean that nothing was sent: a timeout after the click ends so.
* **`ghost_race`.** `mark_ghosted` (repositories.py:387) tests and updates in two
  statements; an email that commits in between is overwritten.
* **`decision_undone`.** `_process_job` (discovery.py:215) writes PENDING_APPROVAL
  without looking again; a decision taken on an earlier card while the LLM and
  Telegram were awaited is lost.
* **`unreadable_name`.** A company of whose name normalisation leaves nothing is a
  substring of every hint and matches with 0.9 (email_classifier.py:142), so emails
  about other companies attach to it.
* **`invented_fields`.** The PDF check asks for a substring of the whole document
  stripped to a-z0-9 (pdf_ingest.py:47-48, 133, 152): "Java" passes where the PDF says
  JavaScript, and a name in another alphabet is stripped to the empty string and always
  passes. Dates are compared with nothing (pdf_ingest.py:144-168). "The parser can't
  invent fields the PDF doesn't contain" (README.md:32-33).

Met while modelling, and in the models, but not the subject of a run:

* repositories.py calls `claim_for_submission` atomic; it is a SELECT and an
  UPDATE, so two processes may both claim a row (`approvals` shows what still holds).
* `record_email_update` looks at no status: a late rejection overwrites ACCEPTED.
* `accept_offer` (repositories.py:352) tests and updates in two statements, like
  `mark_ghosted`: a rejection that commits in between is overwritten with ACCEPTED,
  although "any other current status" should be "a clean no-op".
* The sweep tells a user "I've marked this as ghosted" (messages.py:133) before its one
  transaction commits (lifecycle.py:83): when a later row, the COMMIT or the process
  fails, the row is as before, and the next sweep tells the user again.
* A press on a card before its cycle has committed is answered "no longer exists".
* discovery.py:11-13 says "without ever double-notifying"; a failed attachment or
  a cycle rolled back later makes the next cycle send the card again
  (what holds is `RepeatsHaveACause`).
* `_ADVANCING_RE` (email_filter.py:64-68) ends its stems in `\b`: "reject", "declin"
  and "schedul" match as whole words only, so a rejection with the subject "You have
  been rejected" that comes from a bulk mailbox is dropped as noise.
* Of a sender at `acme.co.uk`, `_sender_company_hint` takes "co".
* An email forwarded again after a crash may be recorded for another application than
  the first time: its own update has reordered the candidates, or closed the row
  (`OneEmailOneApplication`).
* Two emails about one row that overlap may leave a status with the other one's
  evidence beside it: the UPDATE leaves out the status if it equals what was loaded,
  and never the evidence (`EvidenceExplains` says what holds otherwise;
  dashboard_stats.py:54-55 promises "why").
* `updated_at` can go backwards: it is set to the start of the transaction.
* When the LLM fails on an email, the webhook answers 200 and the email is not tried
  again.
* An allowlist of which no entry can be read counts as empty (config.py:167-187).
* handlers.py:307 and login_error.html:6 call dashboard links one-time; they work
  until they expire.
* repositories.py:300 says a FAILED application cannot be replied to; it can, after
  a timeout that follows the click.
* The card lists every suggestion, then says that some "were withheld"
  (messages.py:24-29): only the PDF withholds them.
* A compound such as "Node.js" is flagged as ungrounded even when it is copied from
  the resume, because the corpus is split at the dot (`Supported`, `Tokens`).
* `set_master` (repositories.py:135) selects and inserts: two first uploads at once leave
  two master rows, and which one is used afterwards is not determined (`SelectMaster`,
  `TakeUser`).
* config.py:62-63 says that the allowlist "Only gates *registration*; existing users are
  unaffected." `_reject_unregistered` (handlers.py:323 and the other commands) asks the
  list without looking for the user, so somebody registered before the list was set,
  and not on it, is refused.
* base.py tells adapters to raise `JobSourceError`; they let JSON errors through,
  which ends the whole cycle when only one board is configured (`Search`).
* SPEC.md calls `/emailhook` a command of existing users; it creates them too. `/demo`
  (not in production) creates users without asking the allowlist.

## Not modelled

* Links, cookies, pages and polling of the dashboard: links and cookies are signed and
  expire by the clock, the server keeps no state for them, and each request reads one
  snapshot. What that snapshot adds up to is in `Dashboard`.
* The LLM providers: what they answer is a free choice wherever it is used.
* Letter case, and the wording of the filter's patterns beyond the words that tell its
  rules apart.
* `difflib`'s `autojunk`, which ignores frequent characters of a second string of 200
  characters or more: company names, of which the column holds 512 (models.py:89), can be
  that long, and the theorems on the ratio are about the comparison without it.
* `/demo`, health probes, middleware, start-up validation, logging, encryption and
  migrations: no control of their own, or not part of a production deployment.
* Wording and layout of messages, cards and rendered resumes.
* Rows that lose their user or job: nothing in the code deletes either.
* SQLite, which serializes writers and so has fewer behaviours than PostgreSQL.

## Plan

Done, in this order: the inventory; `Cinch` with its parts, its runs and its theorems;
`Discovery`; `Onboarding`; `EmailMatching` and `Inbox` with `Tracking` and `Dashboard`;
theorems for every invariant and action property of `Cinch`, `Discovery` and
`Onboarding`; then for those of `Tracking` and `Dashboard`.

Left:

1. Liveness of `Onboarding`: whoever has a searchable resume is sent a card.
2. `Inbox` inside `Cinch`, where sweeps and presses reorder the candidates too. The
   state space is too large for TLC as it is; the theorems on `Tracking` say which
   invariants it would have to keep.
3. The sessions of the dashboard, with a clock.
