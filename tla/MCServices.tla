----------------------------- MODULE MCServices -----------------------------
(***************************************************************************)
(* Protection, approvals and the policy watcher, each on its own: live     *)
(* names the one that moves, the others rest in an initial state in which  *)
(* nothing that is fair is enabled.                                        *)
(***************************************************************************)
EXTENDS Protection, Approvals, PolicyWatch

VARIABLE live

ServicesInit ==
  /\ live \in {"protection", "approvals", "watch"}
  /\ ProtInit /\ Init
  /\ WatchInit /\ (live # "watch" => file = Gone)

Only(s) ==
  /\ live = s /\ UNCHANGED live
  /\ IF s = "protection" THEN TRUE ELSE UNCHANGED protVars
  /\ IF s = "approvals" THEN TRUE ELSE UNCHANGED vars
  /\ IF s = "watch" THEN TRUE ELSE UNCHANGED watchVars

ServicesNext ==
  \/ Only("protection") /\ ProtNext
  \/ Only("approvals") /\ Next
  \/ Only("watch") /\ WatchNext

ServicesSpec ==
  /\ ServicesInit /\ [][ServicesNext]_<<live, protVars, vars, watchVars>>
  /\ ProtFairness /\ Fairness /\ WatchFairness

=============================================================================
