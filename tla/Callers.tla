------------------------------ MODULE Callers ------------------------------
(***************************************************************************)
(* The callers of the library that act on a whole request on their own:    *)
(* the API firewall, the callback and the SDK wrapper.  They share nothing *)
(* but the library's code.                                                 *)
(***************************************************************************)
EXTENDS Firewall, LibraryRedaction

(***************************************************************************)
(* The library's callers, the firewall's analysis and the callback: types; *)
(* no finding is dropped, unaudited or replaced in the wrong place, and of *)
(* what the callback redacts nothing goes out and all comes back.          *)
(***************************************************************************)
CallsAreSound ==
  /\ FwTypeOK /\ FindingsCount /\ PlacesAreReplaced /\ AnswersAreAudited /\ LibraryTypeOK
  /\ NothingGoesOut /\ TokensTellValues /\ RestoreUndoes

=============================================================================
