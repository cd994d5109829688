--------------------------- MODULE TokenRegistry ---------------------------
(***************************************************************************)
(* What the token service promises its callers, whatever stores are        *)
(* behind it: within the life of one process a token is given out for one  *)
(* value only, so that a reply can be rewritten back without guessing.     *)
(*                                                                         *)
(* issued is the set of <<token, value>> pairs handed to callers so far.   *)
(***************************************************************************)
CONSTANTS Token, Values

VARIABLE issued

(***************************************************************************)
(* TokenService.tokenize or TokenService.pin returns token for value.      *)
(***************************************************************************)
Issue(token, value) ==
  /\ \A pair \in issued : pair[1] = token => pair[2] = value
  /\ issued' = issued \cup {<<token, value>>}

(***************************************************************************)
(* The process goes away, and every conversation of it with it.            *)
(***************************************************************************)
Forget == issued' = {}

Init == issued = {}

Next == Forget \/ \E token \in Token, value \in Values : Issue(token, value)

Spec == Init /\ [][Next]_issued

(***************************************************************************)
(* No token stands for two values.                                         *)
(***************************************************************************)
Unambiguous ==
  \A a, b \in issued : a[1] = b[1] => a[2] = b[2]

=============================================================================
