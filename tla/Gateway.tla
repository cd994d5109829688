------------------------------ MODULE Gateway ------------------------------
(***************************************************************************)
(* The redacting reverse proxy: requests are scanned field by field, what  *)
(* the policy calls for is done to them, and the reply of a redacted       *)
(* request is rewritten back with the tokens that request minted.          *)
(*                                                                         *)
(* Requests run as tasks of one event loop and interleave where they await *)
(* the detectors or the provider.  They share one token service, of which  *)
(* only the promise of TokenRegistry is used; values are pinned meanwhile. *)
(* The service counts how often a value is redacted and offers to pin it.  *)
(*                                                                         *)
(* A field is the set of sensitive values its text contains.  What a       *)
(* detector finds of them is up to it: it may miss a value, raise, or say  *)
(* that its model is not available.                                        *)
(***************************************************************************)
EXTENDS Policy, Sequences

CONSTANTS
  Requests,
  Values,
  NoValue,         \* of a detection with a zero-length span
  Token,
  Detectors,
  CategoryOf(_),   \* the category a value is found under
  Confidences,     \* confidences of a finding, in percent
  MayBeUnavailable,\* detectors with a model that may not be installed
  SUGGEST_THRESHOLD,
  MaxFields        \* bound: fields of any two requests

Faults == {"detector_error", "gliner_not_cached"}

ASSUME GatewayAssumption ==
  /\ {MaxFields, SUGGEST_THRESHOLD} \subseteq Nat
  /\ MayBeUnavailable \subseteq Detectors
  /\ NoValue \notin Values
  /\ \A v \in Values : CategoryOf(v) \notin Faults

VARIABLES
  issued,     \* the tokens in use, of the sessions and the vault
  pinned,     \* values in the pinned vault
  sightings,  \* TokenService._sightings: value -> redactions while not pinned
  suggestions,\* the values of TokenService._suggestions
  dismissed,  \* history: the values ever taken from it
  pc,         \* where the task of a request is
  body,       \* its fields
  at,         \* the field being scanned
  action,     \* what has been decided so far: "allow" or "redact"
  clear,      \* <<field, value>>: what the body still has in clear text
  minted,     \* tokens in it, the scope of the reply's reversal
  protected,  \* history: what was pinned when the request arrived
  failures,   \* history: how detectors have failed on it
  revealed    \* history: values put back into the reply

offers  == <<sightings, suggestions, dismissed>>
service == <<issued, pinned, offers>>
task    == <<pc, body, at, action, clear, minted, protected, failures, revealed>>
vars    == <<service, task>>

Registry == INSTANCE TokenRegistry

Bodies == UNION {[1..n -> SUBSET Values] : n \in 0..MaxFields}
InClear(fields) == {here \in (1..Len(fields)) \X Values : here[2] \in fields[here[1]]}

Sent == {"waiting", "replied"}

Init ==
  /\ issued = {}
  /\ pinned = {}
  /\ sightings = [v \in Values |-> 0]
  /\ suggestions = {} /\ dismissed = {}
  /\ pc = [r \in Requests |-> "idle"]
  /\ body = [r \in Requests |-> <<>>]
  /\ at = [r \in Requests |-> 1]
  /\ action = [r \in Requests |-> "allow"]
  /\ clear = [r \in Requests |-> {}]
  /\ minted = [r \in Requests |-> {}]
  /\ protected = [r \in Requests |-> {}]
  /\ failures = [r \in Requests |-> {}]
  /\ revealed = [r \in Requests |-> {}]

(***************************************************************************)
(* _proxy: a JSON object on a known route arrives.  (_passthrough, for all *)
(* other requests, scans nothing and has no state.)                        *)
(***************************************************************************)
Arrive(r, fields) ==
  /\ pc[r] = "idle"
  /\ \A q \in Requests \ {r} : Len(fields) + Len(body[q]) <= MaxFields
  /\ pc' = [pc EXCEPT ![r] = "scanning"]
  /\ body' = [body EXCEPT ![r] = fields]
  /\ clear' = [clear EXCEPT ![r] = InClear(fields)]
  /\ protected' = [protected EXCEPT ![r] = pinned]
  /\ UNCHANGED <<service, at, action, minted, failures, revealed>>

(***************************************************************************)
(* What the detectors come back with.  An outcome is a set of detections,  *)
(* or "raised".  A detection without a value has a zero-length span.       *)
(***************************************************************************)
Detection(d, category, confidence, v) ==
  [detector |-> d, category |-> category, confidence |-> confidence, value |-> v]

Found(d, values, confidence) == {Detection(d, CategoryOf(v), confidence, v) : v \in values}

NotCached(d) == {Detection(d, "gliner_not_cached", 100, NoValue)}

Outcomes(d, field) ==
  {Found(d, values, c) : values \in SUBSET field, c \in Confidences}
    \cup (IF d \in MayBeUnavailable THEN {NotCached(d)} ELSE {})
    \cup {{Detection("pipeline", "detector_error", 100, NoValue)}}

Returns(field) ==
  {outcome \in [Detectors -> UNION {Outcomes(d, field) : d \in Detectors}] :
    \A d \in Detectors : outcome[d] \in Outcomes(d, field)}

PinnedFindings(field) ==
  {Detection("pinned_vault", CategoryOf(v), 100, v) : v \in field \cap pinned}

DetectionsOf(field, outcome) ==
  PinnedFindings(field) \cup UNION {outcome[d] : d \in Detectors}

\* Mutant: a pinned value the policy does not know is let through.
VerdictOfPolicy(detections) == Explain(detections)

(***************************************************************************)
(* DetectorPipeline.inspect once every detector is back, without another   *)
(* await: pinned values, policy, redaction of every span whatever rule it  *)
(* fell under.                                                             *)
(***************************************************************************)
Verdict(detections) ==
  IF Explain(detections) = "allow" /\ \E d \in detections : d.detector = "pinned_vault"
  THEN "redact"
  ELSE Explain(detections)

ToRedact(detections) == {d.value : d \in detections} \ {NoValue}

(***************************************************************************)
(* TokenService.tokenize, for each of the values: never a token that some  *)
(* other value has.  The calls for one field are one step here; a pin that *)
(* comes between them only adds a token of its own.                        *)
(***************************************************************************)
Tokenizations(values) ==
  {tokens \in [values -> Token] :
    \A v \in values :
      /\ \A pair \in issued : pair[1] = tokens[v] => pair[2] = v
      /\ \A w \in values : tokens[v] = tokens[w] => v = w}

\* Mutant: every sighting from the threshold on makes an offer.
CrossesFrom(count) == count >= SUGGEST_THRESHOLD

(***************************************************************************)
(* TokenService.record_sighting, for each of the values.                   *)
(***************************************************************************)
Crosses(count) == count = SUGGEST_THRESHOLD

RecordSightings(values) ==
  LET seen == values \ pinned
  IN /\ sightings' = [v \in Values |-> sightings[v] + (IF v \in seen THEN 1 ELSE 0)]
     /\ suggestions' = suggestions \cup {v \in seen : Crosses(sightings'[v])}
     /\ UNCHANGED dismissed

Redact(r, values) ==
  /\ \E tokens \in Tokenizations(values) :
       /\ issued' = issued \cup {<<tokens[v], v>> : v \in values}
       /\ minted' = [minted EXCEPT ![r] = @ \cup {tokens[v] : v \in values}]
  /\ RecordSightings(values)

(***************************************************************************)
(* _scan_and_redact: the verdict on one field.  A block ends the request.  *)
(***************************************************************************)
Block(r, detections) ==
  /\ Verdict(detections) = "block"
  /\ pc' = [pc EXCEPT ![r] = "blocked"]
  /\ minted' = [minted EXCEPT ![r] = {}]
  /\ UNCHANGED <<issued, offers, at, action, clear>>

\* Mutant: the detection of a raising detector is passed over.
PassOnError(r, detections) ==
  /\ Verdict(detections) = "allow" \/ \E d \in detections : d.category = "detector_error"
  /\ at' = [at EXCEPT ![r] = @ + 1]
  /\ UNCHANGED <<issued, offers, pc, action, clear, minted>>

Pass(r, detections) ==
  /\ Verdict(detections) = "allow"
  /\ at' = [at EXCEPT ![r] = @ + 1]
  /\ UNCHANGED <<issued, offers, pc, action, clear, minted>>

\* Mutant: the field after a redacted one is not scanned.
RewriteSkips(r, detections) ==
  /\ Verdict(detections) = "redact"
  /\ Redact(r, ToRedact(detections))
  /\ clear' = [clear EXCEPT ![r] = @ \ ({at[r]} \X ToRedact(detections))]
  /\ action' = [action EXCEPT ![r] = "redact"]
  /\ at' = [at EXCEPT ![r] = @ + 2]
  /\ UNCHANGED pc

Rewrite(r, detections) ==
  /\ Verdict(detections) = "redact"
  /\ Redact(r, ToRedact(detections))
  /\ clear' = [clear EXCEPT ![r] = @ \ ({at[r]} \X ToRedact(detections))]
  /\ action' = [action EXCEPT ![r] = "redact"]
  /\ at' = [at EXCEPT ![r] = @ + 1]
  /\ UNCHANGED pc

Failures(detections) == {d.category : d \in detections} \cap Faults

Inspect(r, detections) ==
  /\ Block(r, detections) \/ Pass(r, detections) \/ Rewrite(r, detections)
  /\ failures' = [failures EXCEPT ![r] = @ \cup Failures(detections)]
  /\ UNCHANGED <<pinned, body, protected, revealed>>

Scan(r) ==
  /\ pc[r] = "scanning"
  /\ at[r] <= Len(body[r])
  /\ \E outcome \in Returns(body[r][at[r]]) :
       Inspect(r, DetectionsOf(body[r][at[r]], outcome))

(***************************************************************************)
(* Every field is scanned: the request goes to the provider.               *)
(***************************************************************************)
Send(r) ==
  /\ pc[r] = "scanning"
  /\ at[r] > Len(body[r])
  /\ pc' = [pc EXCEPT ![r] = "waiting"]
  /\ UNCHANGED <<service, body, at, action, clear, minted, protected, failures, revealed>>

\* Mutant: every known token is reversed.
ReversedAny(r, reply) ==
  IF action[r] = "redact"
  THEN {pair[2] : pair \in {p \in issued : p[1] \in reply}}
  ELSE {}

(***************************************************************************)
(* _relay: the reply may contain any tokens, the model's own inventions    *)
(* included.  Only a redacted request's reply is rewritten, and only the   *)
(* tokens it minted.                                                       *)
(***************************************************************************)
Reversed(r, reply) ==
  IF action[r] = "redact"
  THEN {pair[2] : pair \in {p \in issued : p[1] \in reply \cap minted[r]}}
  ELSE {}

Reply(r, reply) ==
  /\ pc[r] = "waiting"
  /\ pc' = [pc EXCEPT ![r] = "replied"]
  /\ revealed' = [revealed EXCEPT ![r] = Reversed(r, reply)]
  /\ UNCHANGED <<service, body, at, action, clear, minted, protected, failures>>

(***************************************************************************)
(* The provider cannot be reached.                                         *)
(***************************************************************************)
Fail(r) ==
  /\ pc[r] = "waiting"
  /\ pc' = [pc EXCEPT ![r] = "failed"]
  /\ UNCHANGED <<service, body, at, action, clear, minted, protected, failures, revealed>>

(***************************************************************************)
(* TokenService.pin, by another thread.                                    *)
(***************************************************************************)
Pin(v) ==
  /\ v \notin pinned
  /\ pinned' = pinned \cup {v}
  /\ \E token \in Token : Registry!Issue(token, v)
  /\ UNCHANGED <<offers, task>>

(***************************************************************************)
(* TokenService.dismiss_suggestion.                                        *)
(***************************************************************************)
Dismiss(v) ==
  /\ v \in suggestions
  /\ suggestions' = suggestions \ {v}
  /\ dismissed' = dismissed \cup {v}
  /\ UNCHANGED <<issued, pinned, sightings, task>>

Next ==
  \/ \E r \in Requests :
       \/ \E fields \in Bodies : Arrive(r, fields)
       \/ Scan(r) \/ Send(r) \/ Fail(r)
       \/ \E reply \in SUBSET Token : Reply(r, reply)
  \/ \E v \in Values : Pin(v) \/ Dismiss(v)

Spec == Init /\ [][Next]_vars

-----------------------------------------------------------------------------

Places == {"idle", "scanning", "blocked", "waiting", "replied", "failed"}

TypeOK ==
  /\ issued \subseteq Token \X Values
  /\ pinned \subseteq Values
  /\ sightings \in [Values -> Nat]
  /\ suggestions \subseteq Values /\ dismissed \subseteq Values
  /\ pc \in [Requests -> Places]
  /\ body \in [Requests -> Bodies]
  /\ at \in [Requests -> 1..(MaxFields + 1)]
  /\ action \in [Requests -> {"allow", "redact"}]
  /\ clear \in [Requests -> SUBSET ((1..MaxFields) \X Values)]
  /\ minted \in [Requests -> SUBSET Token]
  /\ protected \in [Requests -> SUBSET Values]
  /\ failures \in [Requests -> SUBSET Faults]
  /\ revealed \in [Requests -> SUBSET Values]

(***************************************************************************)
(* "A pinned secret can never leak on a detector miss": a value that was   *)
(* pinned when the request arrived is in no field that leaves, whatever    *)
(* the detectors report and whatever the policy says of its category.      *)
(***************************************************************************)
PinnedNeverLeaves ==
  \A r \in Requests : pc[r] \in Sent => \A here \in clear[r] : here[2] \notin protected[r]

(***************************************************************************)
(* A reply reveals only what its own request contained: a token minted for *)
(* another request, or invented by the model, is never reversed into one   *)
(* of its secrets, although all requests share one store.                  *)
(***************************************************************************)
RepliesStayScoped ==
  \A r \in Requests : \A v \in revealed[r] : \E i \in 1..Len(body[r]) : v \in body[r][i]

(***************************************************************************)
(* A request does not leave when a detector raised on any of its fields,   *)
(* the earlier and later fields included.                                  *)
(***************************************************************************)
RaisingBlocks ==
  \A r \in Requests : pc[r] \in Sent => "detector_error" \notin failures[r]

(***************************************************************************)
(* A value is offered once, on the sighting that reaches the threshold: an *)
(* offer that was dismissed does not come back, however often the value is *)
(* redacted after it, by whichever request.                                *)
(***************************************************************************)
StaysDismissed == suggestions \cap dismissed = {}

(***************************************************************************)
(* What was decided is not undone by what comes after: not a detector's    *)
(* error by a later field, not the dismissal of an offer by a later        *)
(* sighting.                                                               *)
(***************************************************************************)
VerdictsHold == RaisingBlocks /\ StaysDismissed

=============================================================================
