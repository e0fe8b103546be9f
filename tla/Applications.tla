---------------------------- MODULE Applications ----------------------------
(***************************************************************************)
(* The rows of the `applications` table and the statements                 *)
(* ApplicationRepository issues on them (db/repositories.py, db/models.py, *)
(* domain/enums.py).                                                       *)
(*                                                                         *)
(* The database is PostgreSQL at READ COMMITTED, as Database.session()     *)
(* leaves it: a SELECT returns the last committed row, an UPDATE takes a   *)
(* row lock that its transaction keeps until it commits, and no repository *)
(* method uses FOR UPDATE or a version column.  A method that selects a    *)
(* row, looks at it and then updates it is therefore two steps.  UPDATE    *)
(* and COMMIT of a short session are one step, since only reads happen     *)
(* between them; the one long transaction, the ghosted sweep, is modelled  *)
(* by the rows it holds in `locked`.                                       *)
(*                                                                         *)
(* In this and the other modules a name with `Bug` in it is no part of the *)
(* model: it is the definition after it with a plausible mistake, kept to  *)
(* see that a property would notice.                                       *)
(***************************************************************************)
EXTENDS Naturals, FiniteSets

CONSTANTS User,     (* the registered owners                               *)
          App,      (* the application rows                                *)
          OwnerOf,  (* [App -> User], ApplicationORM.user_id               *)
          None      (* "no application": not a member of App               *)

ASSUME OwnershipAssumption == OwnerOf \in [App -> User] /\ None \notin App

ASSUME TableAssumption == IsFiniteSet(App)

VARIABLES row,      (* the committed rows                                  *)
          quiet,    (* rows whose updated_at is past the ghosted threshold *)
          locked    (* rows some open transaction has updated              *)

rowVars == <<row, quiet, locked>>

ApplicationStatus ==
    {"discovered", "tailored", "pending_approval", "approved", "skipped",
     "submitted", "needs_human", "failed", "interview_invited",
     "interview_scheduled", "offered", "accepted", "rejected", "ghosted"}

(* submittedAt is 0 for NULL, else the number of the attempt that set it.  *)
Row == [status: ApplicationStatus, submittedAt: Nat]

RowsOK == /\ row \in [App -> Row]
          /\ quiet \subseteq App
          /\ locked \subseteq App

(* A discovered job whose card has been delivered: DiscoveryService leaves *)
(* the row here when it has sent the Approve/Skip card.                    *)
DeliveredRow == [status |-> "pending_approval", submittedAt |-> 0]

RowsInit == /\ row = [a \in App |-> DeliveredRow]
            /\ quiet = {}
            /\ locked = {}
-----------------------------------------------------------------------------
(* SELECTs.                                                                *)

WithStatus(s) == {a \in App : row[a].status = s}            \* list_by_status

ListOffered(u) == {a \in WithStatus("offered") : OwnerOf[a] = u}

EmailMatchable == {"approved", "submitted", "needs_human", "interview_invited",
                   "interview_scheduled", "offered", "ghosted"}

ListCandidatesForEmailMatchBugAnyone(u) ==
    {a \in App : row[a].status \in EmailMatchable}

ListCandidatesForEmailMatchBugSubmitted(u) ==
    {a \in App : OwnerOf[a] = u /\ row[a].submittedAt # 0}

ListCandidatesForEmailMatch(u) ==
    {a \in App : OwnerOf[a] = u /\ row[a].status \in EmailMatchable}

ListStaleSubmitted == WithStatus("submitted") \cap quiet

(* UPDATEs.  The ORM writes only the columns that differ from the row it   *)
(* loaded, so a column another transaction has changed since survives when *)
(* the new value equals the loaded one.  Every UPDATE sets updated_at.     *)

Touch(a) == quiet' = quiet \ {a}

SetStatus(a, s) ==
    /\ a \notin locked
    /\ row' = [row EXCEPT ![a].status = s]
    /\ Touch(a)
    /\ UNCHANGED locked

FlushStatus(a, loaded, s) ==
    IF loaded = s THEN UNCHANGED rowVars ELSE SetStatus(a, s)

RecordSubmissionBugNoDate(a, loaded, new) ==
    /\ a \notin locked
    /\ row' = [row EXCEPT ![a].status = IF new.status = loaded.status
                                        THEN @ ELSE new.status]
    /\ Touch(a)
    /\ UNCHANGED locked

(* record_submission: status and submitted_at, each only if it changed;    *)
(* submission_detail always changes, so the UPDATE is always issued.       *)
RecordSubmission(a, loaded, new) ==
    /\ a \notin locked
    /\ row' = [row EXCEPT ![a] =
                  [status |-> IF new.status = loaded.status
                              THEN @.status ELSE new.status,
                   submittedAt |-> IF new.submittedAt = loaded.submittedAt
                                   THEN @.submittedAt ELSE new.submittedAt]]
    /\ Touch(a)
    /\ UNCHANGED locked

RecordEmailUpdateBugNoStepBack(a, loaded, s) ==
    /\ a \notin locked
    /\ row' = [row EXCEPT ![a].status = IF loaded = s \/ @ = "offered" THEN @ ELSE s]
    /\ Touch(a)
    /\ UNCHANGED locked

(* record_email_update: status if it changed, and always the evidence      *)
(* columns, which no other step reads.                                     *)
RecordEmailUpdate(a, loaded, s) ==
    /\ a \notin locked
    /\ row' = [row EXCEPT ![a].status = IF loaded = s THEN @ ELSE s]
    /\ Touch(a)
    /\ UNCHANGED locked

(* updated_at falls behind now - ghosted_after_days: nothing has updated   *)
(* the row for that long.  Only list_stale_submitted looks at it.          *)
GrowQuiet(a) ==
    /\ row[a].status = "submitted"
    /\ a \notin quiet
    /\ quiet' = quiet \cup {a}
    /\ UNCHANGED <<row, locked>>
=============================================================================
