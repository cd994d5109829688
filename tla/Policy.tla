------------------------------ MODULE Policy ------------------------------
(***************************************************************************)
(* PolicyEngine: the action a set of detections calls for.  The loops over *)
(* rules and detections keep the most restrictive action of those that     *)
(* match, so what they compute is stated over the sets.                    *)
(***************************************************************************)
EXTENDS Naturals

CONSTANTS
  Rules,          \* [detector, action, categories, min_confidence]
  AnyDetector     \* "*"

Actions == {"allow", "redact", "block"}

(***************************************************************************)
(* Rule matching; an empty list of categories matches every category.      *)
(***************************************************************************)
Matches(rule, d) ==
  /\ rule.detector \in {AnyDetector, d.detector}
  /\ rule.categories = {} \/ d.category \in rule.categories
  /\ d.confidence >= rule.min_confidence

CallsFor(action, detections) ==
  \E rule \in Rules, d \in detections : rule.action = action /\ Matches(rule, d)

Explain(detections) ==
  IF CallsFor("block", detections) THEN "block"
  ELSE IF CallsFor("redact", detections) THEN "redact"
  ELSE "allow"

=============================================================================
