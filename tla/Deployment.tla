----------------------------- MODULE Deployment -----------------------------
(***************************************************************************)
(* The server processes, and the requests each is serving.  A process      *)
(* hosts the FastAPI app (Telegram and email webhooks) and, when enabled,  *)
(* the schedulers (api/app.py, api/webhook.py).  DEPLOY.md asks for one    *)
(* instance; a rolling deploy runs two for a while.                        *)
(*                                                                         *)
(* A request whose process dies is not acknowledged, and its sender        *)
(* (Telegram, Zapier) delivers it again.                                   *)
(***************************************************************************)
EXTENDS Applications

CONSTANTS Instance,   (* the running processes                             *)
          Request,    (* the webhook requests that may be made             *)
          MaxFaults   (* bound on crashes and failed transactions          *)

ASSUME DeploymentAssumption == Instance # {} /\ MaxFaults \in Nat

VARIABLES serving,    (* [Instance -> set of requests being handled]       *)
          faults      (* crashes and failures so far                       *)

deployVars == <<serving, faults>>

DeploymentInit == /\ serving = [i \in Instance |-> {}]
                  /\ faults = 0

DeploymentOK == /\ serving \in [Instance -> SUBSET Request]
                /\ faults \in 0..MaxFaults

Take(i, r) == /\ serving' = [serving EXCEPT ![i] = @ \cup {r}]
              /\ UNCHANGED faults

Release(r) == serving' = [i \in Instance |-> serving[i] \ {r}]

Finish(r) == Release(r) /\ UNCHANGED faults

(* One of the failures the model allows for: a crash, or a database error  *)
(* that rolls a short session back.                                        *)
Fault == /\ faults < MaxFaults
         /\ faults' = faults + 1
=============================================================================
