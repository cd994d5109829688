----------------------------- MODULE MCGateway -----------------------------
(***************************************************************************)
(* Two requests of up to two fields over two values: one the gateway's     *)
(* rules redact, and one they block when the secret scanner finds it and   *)
(* know nothing of when another detector does.                             *)
(***************************************************************************)
EXTENDS Gateway, TLC

CONSTANTS r1, r2, t1, t2, t3, ssn, key, none

Two   == {r1, r2}
One   == {r1}
Pair  == {ssn, key}
Three == {t1, t2, t3}

Star == "*"
Scanners    == {"secret_scanner", "gliner_pii"}
WithModel   == {"gliner_pii"}
Category(v) == IF v = ssn THEN "us_ssn" ELSE "private_key"
High        == {90}
LowAndHigh  == {50, 90}

Rule(detector, does, categories, least) ==
  [detector |-> detector, action |-> does, categories |-> categories, min_confidence |-> least]

\* cli-rules.yaml, as far as these categories go.
CliRules ==
  {Rule("pipeline", "block", {"detector_error"}, 90),
   Rule("secret_scanner", "block", {"private_key"}, 90),
   Rule("*", "redact", {"us_ssn"}, 70)}

Symmetry == Permutations(Two) \cup Permutations(Three)
TokenSymmetry == Permutations(Three)

=============================================================================
