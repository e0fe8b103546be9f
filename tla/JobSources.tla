------------------------------ MODULE JobSources -----------------------------
(***************************************************************************)
(* providers/jobs: one adapter per job board, and the composite that asks  *)
(* all of them.  A search gives postings, nothing, a JobSourceError or     *)
(* another exception; only JobSourceError is one the caller expects.       *)
(***************************************************************************)
EXTENDS Naturals, FiniteSets

CONSTANT Source            (* the boards of JOB_SOURCES that can be built  *)

(* get_job_source raises if there is none.                                 *)
ASSUME SourceAssumption ==
    Source # {} /\ Source \subseteq {"adzuna", "remoteok", "arbeitnow"}

(* What a board answers: an error status or no answer, a body that is not  *)
(* JSON, JSON of another shape, postings that match or none that does.     *)
BoardReply == {"http_error", "not_json", "odd", "jobs", "nothing"}

SearchResult == {"JobSourceError", "exception", "jobs", "nothing"}

(* The adapters catch httpx.HTTPError only.                                *)
AdzunaSearch(reply) ==
    CASE reply = "http_error" -> {"JobSourceError"}
      [] reply = "not_json" -> {"exception"}
      [] reply = "odd" -> {"exception", "nothing"}
      [] OTHER -> {reply}

(* RemoteOK returns its whole feed, which is filtered by the words of      *)
(* three letters and more; without one nothing matches.                    *)
RemoteOKSearch(query, reply) ==
    IF query = "short" /\ reply = "jobs" THEN {"nothing"} ELSE AdzunaSearch(reply)

(* So does Arbeitnow.                                                      *)
ArbeitnowSearch(query, reply) == RemoteOKSearch(query, reply)

AdapterSearch(source, query, reply) ==
    CASE source = "adzuna" -> AdzunaSearch(reply)
      [] source = "remoteok" -> RemoteOKSearch(query, reply)
      [] source = "arbeitnow" -> ArbeitnowSearch(query, reply)

CompositeBugRaises(results) ==
    IF \E source \in DOMAIN results : results[source] = "exception"
    THEN "exception"
    ELSE IF \E source \in DOMAIN results : results[source] = "jobs"
         THEN "jobs" ELSE "nothing"

(* CompositeJobSource.search: what fails is swallowed, what comes is kept. *)
Composite(results) ==
    IF \E source \in DOMAIN results : results[source] = "jobs"
    THEN "jobs" ELSE "nothing"

(* get_job_source: a single board is used as it is.                        *)
Merged(results) ==
    IF Cardinality(DOMAIN results) = 1
    THEN results[CHOOSE source \in DOMAIN results : TRUE]
    ELSE Composite(results)

(* All results a search can have.                                          *)
JobSearch(query) ==
    {Merged(results) : results \in
       {f \in [Source -> SearchResult] :
          \A source \in Source : \E reply \in BoardReply :
             f[source] \in AdapterSearch(source, query, reply)}}
=============================================================================
