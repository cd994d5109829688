----------------------------- MODULE TagsProbe -----------------------------
(***************************************************************************)
(* The probe of the local-LLM tier (detectors/status.py): one request to   *)
(* the Ollama daemon for the names of its models, with a timeout of every  *)
(* socket operation, a deadline looked at between reads of the body and a  *)
(* limit of the size.  Connecting, redirects and the head of the reply may *)
(* take any number of operations before the deadline is first looked at;   *)
(* a read of n bytes returns when n bytes have come or the reply           *)
(* has ended, and takes as many socket operations as that needs (external: *)
(* http.client over a buffered socket).                                    *)
(* The tier it is asked for is one of DetectorTiers.                       *)
(***************************************************************************)
EXTENDS DetectorTiers

CONSTANTS
  Timeout,     \* _PROBE_TIMEOUT_S, in ticks
  MaxHead,     \* bound: the time the head of a reply takes to come
  Block,       \* pieces that fill a read of 65536 bytes
  MaxPieces    \* pieces that make _MAX_TAGS_BYTES

ASSUME TagsAssumption == {Timeout, Block, MaxPieces} \subseteq Nat \ {0} /\ MaxHead \in Nat

VARIABLES
  tags,      \* names the daemon lists
  modelWanted,    \* local_llm_model
  probeAt,   \* "open", "check", "read", "decode" or "done"
  ticks,     \* the time since the probe began
  headTime,  \* history: the time until the head had come, or failed to
  block,     \* pieces of the read under way
  total,     \* pieces read
  ended,     \* the daemon has sent everything
  verdict    \* the answer: "none", "available", "unreachable" or "not pulled"

tagsVars == <<tags, modelWanted, probeAt, ticks, headTime, block, total, ended, verdict>>

Names == {"m", "m:latest", "m:small"}

TagsInit ==
  /\ tags \in SUBSET Names /\ modelWanted \in Names
  /\ probeAt = "open" /\ ticks = 0 /\ headTime = 0
  /\ block = 0 /\ total = 0 /\ ended = FALSE
  /\ verdict = "none"

Concludes(v) == verdict' = v /\ probeAt' = "done"

Raises == Concludes("unreachable") /\ UNCHANGED <<tags, modelWanted, block, total, ended>>

(***************************************************************************)
(* The connection and the head of the reply: each operation of the socket  *)
(* takes less than the timeout, or raises.                                 *)
(***************************************************************************)
Open ==
  /\ probeAt = "open"
  /\ \/ /\ \E d \in 0 .. Timeout - 1 : ticks' = ticks + d /\ ticks' <= MaxHead
        /\ probeAt' \in {"open", "check"}
        /\ UNCHANGED <<tags, modelWanted, block, total, ended, verdict>>
     \/ ticks' \in {ticks, ticks + Timeout} /\ Raises
  /\ headTime' = ticks'

(***************************************************************************)
(* _read_bounded: the limit, then the deadline, then a read.               *)
(***************************************************************************)
\* Mutant: the limit is looked at after the read.
PieceRoomForOneMore == total <= MaxPieces

PieceRoom == total < MaxPieces

\* Mutant: the deadline is left to the socket's timeout.
LateNever == FALSE

Late == ticks >= Timeout

Check ==
  /\ probeAt = "check" /\ UNCHANGED <<ticks, headTime>>
  /\ \/ /\ ~PieceRoom /\ probeAt' = "decode"
        /\ UNCHANGED <<tags, modelWanted, block, total, ended, verdict>>
     \/ PieceRoom /\ Late /\ Raises
     \/ /\ PieceRoom /\ ~Late
        /\ probeAt' = "read" /\ block' = 0 /\ UNCHANGED <<tags, modelWanted, total, ended, verdict>>

Asked == IF Block <= MaxPieces - total THEN Block ELSE MaxPieces - total

(***************************************************************************)
(* A piece within the timeout of the socket: it fills the read or not.     *)
(***************************************************************************)
Piece ==
  /\ probeAt = "read" /\ ~ended
  /\ \E d \in 0 .. Timeout - 1 : ticks' = ticks + d
  /\ IF block + 1 >= Asked
     THEN total' = total + block + 1 /\ block' = 0 /\ probeAt' = "check"
     ELSE block' = block + 1 /\ UNCHANGED <<total, probeAt>>
  /\ UNCHANGED <<tags, modelWanted, headTime, ended, verdict>>

(***************************************************************************)
(* No piece within the timeout; the end of the reply, which ends the read  *)
(* with what there is, the next one with nothing.                          *)
(***************************************************************************)
Stall ==
  /\ probeAt = "read" /\ ~ended
  /\ ticks' = ticks + Timeout /\ UNCHANGED headTime /\ Raises

Eof ==
  /\ probeAt = "read"
  /\ \E d \in 0 .. (IF ended THEN 0 ELSE Timeout - 1) : ticks' = ticks + d
  /\ ended' = TRUE
  /\ total' = total + block /\ block' = 0
  /\ probeAt' = IF block = 0 THEN "decode" ELSE "check"
  /\ UNCHANGED <<tags, modelWanted, headTime, verdict>>

(***************************************************************************)
(* The names, if the reply is whole; an untagged model is stored under     *)
(* the tag latest.                                                         *)
(***************************************************************************)
\* Mutant: any tag of the model will do.
PresentUnderAnyTag(name) == name \in tags \/ (name = "m" /\ tags # {})

Present(name) == name \in tags \/ (name = "m" /\ "m:latest" \in tags)

Decode ==
  /\ probeAt = "decode" /\ UNCHANGED <<ticks, headTime>>
  /\ \/ Raises
     \/ /\ ended /\ Concludes(IF Present(modelWanted) THEN "available" ELSE "not pulled")
        /\ UNCHANGED <<tags, modelWanted, block, total, ended>>

TagsNext == Open \/ Check \/ Piece \/ Stall \/ Eof \/ Decode

TagsSpec == TagsInit /\ [][TagsNext]_tagsVars

-----------------------------------------------------------------------------
(***************************************************************************)
(* Type invariant; no more than the limit is ever held.                    *)
(***************************************************************************)
TagsTypeOK ==
  /\ tags \subseteq Names /\ modelWanted \in Names
  /\ probeAt \in {"open", "check", "read", "decode", "done"}
  /\ ticks \in Nat /\ headTime \in Nat /\ ended \in BOOLEAN
  /\ block \in 0 .. Block - 1 /\ total + block \in 0 .. MaxPieces
  /\ verdict \in {"none", "available", "unreachable", "not pulled"}
  /\ verdict = "none" <=> probeAt # "done"

(***************************************************************************)
(* The tier is called available only when the whole reply came and names   *)
(* the model that is configured or, for a model without a tag, its latest; *)
(* a daemon that was heard out is never called unreachable with the list   *)
(* decoded, nor is a model missing that it lists.                          *)
(***************************************************************************)
ProbeTells ==
  /\ verdict = "available" =>
       ended /\ (modelWanted \in tags \/ (modelWanted = "m" /\ "m:latest" \in tags))
  /\ verdict = "not pulled" => ended /\ modelWanted \notin tags

(***************************************************************************)
(* The deadline of _read_bounded holds to one read: a body whose head came *)
(* in time overruns it by no more than the pieces that fill a single read, *)
(* each of which the timeout of the socket lets come late; and after a     *)
(* head that overran it, by however much, nothing is waited for.           *)
(***************************************************************************)
OneReadOverdue ==
  IF headTime < Timeout THEN ticks <= Timeout + Block * (Timeout - 1) ELSE ticks = headTime

(***************************************************************************)
(* The tiers of the detectors: types; each is loaded once, answers once it *)
(* is loaded and tells of its absence, and the probe before it tells the   *)
(* truth and waits for one read at most once its deadline has passed.      *)
(***************************************************************************)
TiersAreSound ==
  /\ TierTypeOK /\ LoadedOnce /\ AbsenceIsTold /\ LoadedTiersAnswer /\ StrictIsLoaded
  /\ TagsTypeOK /\ ProbeTells /\ OneReadOverdue

=============================================================================
