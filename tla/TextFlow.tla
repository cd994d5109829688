------------------------------- MODULE TextFlow -------------------------------
(***************************************************************************)
(* The two components that work on the characters of a text: the scan of   *)
(* one that goes out and the relay of one that comes back.  They share     *)
(* nothing but the tokens, which the first puts in and the second resolves.*)
(***************************************************************************)
EXTENDS TextScan, SseRelay

(***************************************************************************)
(* What is done to texts: types; all of a text is shown to the model and   *)
(* exactly what spans and named values cover is replaced; a relayed reply  *)
(* is the detokenized whole but for a held tail, lost only where the last  *)
(* event has no text.                                                      *)
(***************************************************************************)
TextsAreSound ==
  /\ TextTypeOK /\ WholeTextIsShown /\ ExactlyTheSpansGo /\ NamedValuesGo /\ TypeOK
  /\ SameAsWhole /\ HoldsOnlyATail /\ LosesOnlyATail /\ WholeAfterText

=============================================================================
