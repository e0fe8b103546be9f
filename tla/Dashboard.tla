------------------------------ MODULE Dashboard ------------------------------
(***************************************************************************)
(* The summary tiles of the dashboard: services/dashboard_stats.py.  They  *)
(* are computed from one SELECT, so they show what was committed at one    *)
(* moment.  The table below them shows the same rows, one by one.          *)
(***************************************************************************)
EXTENDS Applications, Sequences

StatusOrderBugNoGhosted ==
    <<"discovered", "pending_approval", "approved", "submitted", "needs_human",
      "interview_invited", "interview_scheduled", "offered", "accepted",
      "rejected", "skipped", "failed">>

(* _STATUS_ORDER, which has no tile for TAILORED.                          *)
StatusOrder ==
    <<"discovered", "pending_approval", "approved", "submitted", "needs_human",
      "interview_invited", "interview_scheduled", "offered", "accepted",
      "rejected", "ghosted", "skipped", "failed">>

(* compute_dashboard_stats: the total and a count for each tile.           *)
ComputeDashboardStats(u) ==
    LET mine == {a \in App : OwnerOf[a] = u}
    IN [total |-> Cardinality(mine),
        byStatus |-> [n \in DOMAIN StatusOrder |->
                         Cardinality(mine \cap WithStatus(StatusOrder[n]))]]

(* The tiles add up to the total: an application does not vanish from the  *)
(* summary on its way through the life cycle, whichever status the last of *)
(* many writers has left it in (dashboard_stats.py:22-37).                 *)
TilesAddUp ==
    \A u \in User :
       LET stats == ComputeDashboardStats(u)
           sum[n \in 0..Len(StatusOrder)] ==
              IF n = 0 THEN 0 ELSE sum[n - 1] + stats.byStatus[n]
       IN sum[Len(StatusOrder)] = stats.total
=============================================================================
