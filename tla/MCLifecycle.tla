---------------------------- MODULE MCLifecycle ----------------------------
(***************************************************************************)
(* Instances of DetectorLifecycle: two requests, the defaults an empty     *)
(* file stands for and two other configurations, two saves.                *)
(***************************************************************************)
EXTENDS DetectorLifecycle, TLC

CONSTANTS r1, r2, Defaults, Regex, Full

MCRequests == {r1, r2}
MCConfigs  == {Defaults, Regex, Full}

Symmetry == Permutations(MCRequests)

=============================================================================
