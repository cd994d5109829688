------------------------------ MODULE EventLog ------------------------------
(***************************************************************************)
(* What a recorder of events promises for one sink, whatever queue and     *)
(* threads are behind it: an event it accepted is settled once.  It is     *)
(* then in the sink for good or lost for good; nothing enters the sink     *)
(* that was not accepted, and nothing lost comes back.                     *)
(***************************************************************************)
CONSTANT Events

VARIABLES accepted,  \* the events taken from callers
          pending,   \* those of them nothing has been decided about
          kept       \* those of them the sink has received

vars == <<accepted, pending, kept>>

Init == accepted = {} /\ pending = {} /\ kept = {}

Accept(e) ==
  /\ e \notin accepted
  /\ accepted' = accepted \cup {e}
  /\ pending' = pending \cup {e}
  /\ UNCHANGED kept

(***************************************************************************)
(* The events of batch are dealt with: those of arrived reach the sink,    *)
(* the others never will.                                                  *)
(***************************************************************************)
Settle(batch, arrived) ==
  /\ kept' = kept \cup arrived
  /\ pending' = pending \ batch
  /\ UNCHANGED accepted

Next ==
  \/ \E e \in Events : Accept(e)
  \/ \E batch \in SUBSET pending : \E arrived \in SUBSET batch :
       Settle(batch, arrived)

Spec == Init /\ [][Next]_vars

=============================================================================
