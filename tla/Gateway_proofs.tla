--------------------------- MODULE Gateway_proofs ---------------------------
(***************************************************************************)
(* What the gateway keeps for any number of requests, fields, values and   *)
(* detectors, and any policy.                                              *)
(*                                                                         *)
(* PinnedNeverLeaves: the fields before the one being scanned are clear of *)
(* what was protected (ScanInv).  RepliesStayScoped: a token in the scope  *)
(* of a request was issued for a value of its body (ScopeInv), and was     *)
(* issued for one value only (the promise of TokenRegistry).               *)
(***************************************************************************)
EXTENDS Gateway, TLAPS

(***************************************************************************)
(* What is known of one request.                                           *)
(***************************************************************************)
Place(r) ==
  /\ pc[r] = "idle" => /\ at[r] = 1 /\ clear[r] = {} /\ minted[r] = {}
                       /\ revealed[r] = {} /\ failures[r] = {}
  /\ at[r] <= Len(body[r]) + 1
  /\ pc[r] \in Sent => at[r] > Len(body[r])
  /\ clear[r] \subseteq InClear(body[r])

Scanned(r) ==
  /\ protected[r] \subseteq pinned
  /\ \A here \in clear[r] : here[1] < at[r] => here[2] \notin protected[r]

OfBody(r, v) == \E i \in 1..Len(body[r]) : v \in body[r][i]

Scoped(r) ==
  /\ \A t \in minted[r] : \E v \in Values : OfBody(r, v) /\ <<t, v>> \in issued
  /\ \A v \in revealed[r] : OfBody(r, v)

Inv ==
  /\ TypeOK
  /\ Registry!Unambiguous
  /\ \A r \in Requests : Place(r) /\ Scanned(r) /\ Scoped(r)

-----------------------------------------------------------------------------

(***************************************************************************)
(* What is redacted of a field is in the field, and all that is pinned of  *)
(* it is redacted unless the request is blocked.                           *)
(***************************************************************************)
LEMMA FoundHere ==
  ASSUME NEW field \in SUBSET Values, NEW outcome \in Returns(field)
  PROVE  ToRedact(DetectionsOf(field, outcome)) \subseteq field
<1>1. ASSUME NEW d \in PinnedFindings(field)
      PROVE  d.value \in field
  BY <1>1 DEF PinnedFindings, Detection
<1>2. ASSUME NEW s \in Detectors, NEW d \in outcome[s]
      PROVE  d.value \in field \cup {NoValue}
  <2>1. outcome[s] \in Outcomes(s, field)
    BY DEF Returns
  <2>2. CASE \E values \in SUBSET field, c \in Confidences : outcome[s] = Found(s, values, c)
    BY <2>2, <1>2 DEF Found, Detection
  <2>3. CASE outcome[s] = NotCached(s)
    BY <2>3, <1>2 DEF NotCached, Detection
  <2>4. CASE outcome[s] = {Detection("pipeline", "detector_error", 100, NoValue)}
    BY <2>4, <1>2 DEF Detection
  <2> QED
    BY <2>1, <2>2, <2>3, <2>4 DEF Outcomes
<1> QED
  BY <1>1, <1>2 DEF ToRedact, DetectionsOf

LEMMA PinnedIsRedacted ==
  ASSUME NEW field \in SUBSET Values, NEW outcome, NEW v \in field \cap pinned
  PROVE  /\ v \in ToRedact(DetectionsOf(field, outcome))
         /\ Verdict(DetectionsOf(field, outcome)) # "allow"
<1> DEFINE d == Detection("pinned_vault", CategoryOf(v), 100, v)
<1>1. d \in DetectionsOf(field, outcome)
  BY DEF DetectionsOf, PinnedFindings
<1>2. d.value = v /\ d.detector = "pinned_vault"
  BY DEF Detection
<1>3. v # NoValue
  BY GatewayAssumption
<1> HIDE DEF d
<1> QED
  BY <1>1, <1>2, <1>3 DEF ToRedact, Verdict

-----------------------------------------------------------------------------

LEMMA InitInv == Init => Inv
<1> SUFFICES ASSUME Init PROVE Inv
  OBVIOUS
<1>1. <<>> \in Bodies /\ Len(<<>>) = 0
  BY GatewayAssumption DEF Bodies
<1>2. TypeOK
  BY <1>1, GatewayAssumption DEF Init, TypeOK, Places
<1>3. ASSUME NEW r \in Requests PROVE Place(r) /\ Scanned(r) /\ Scoped(r)
  BY <1>1 DEF Init, Place, Scanned, Scoped, Sent
<1> QED
  BY <1>2, <1>3 DEF Init, Inv, Registry!Unambiguous

(***************************************************************************)
(* Fields are sets of values.                                              *)
(***************************************************************************)
LEMMA FieldsOfBody ==
  ASSUME NEW fields \in Bodies
  PROVE  /\ Len(fields) \in 0..MaxFields
         /\ \A i \in 1..Len(fields) : fields[i] \in SUBSET Values
<1>1. PICK n \in 0..MaxFields : fields \in [1..n -> SUBSET Values]
  BY DEF Bodies
<1>2. n \in Nat /\ MaxFields \in Nat
  BY GatewayAssumption
<1> QED
  BY <1>1, <1>2

(***************************************************************************)
(* A step of others only adds tokens and pins, which leaves what is known  *)
(* of a request as it is.                                                  *)
(***************************************************************************)
LEMMA Untouched ==
  ASSUME NEW s \in Requests, Place(s), Scanned(s), Scoped(s),
         pc'[s] = pc[s], body'[s] = body[s], at'[s] = at[s], clear'[s] = clear[s],
         minted'[s] = minted[s], protected'[s] = protected[s],
         failures'[s] = failures[s], revealed'[s] = revealed[s],
         issued \subseteq issued', pinned \subseteq pinned'
  PROVE  (Place(s) /\ Scanned(s) /\ Scoped(s))'
<1>1. Place(s)'
  BY DEF Place
<1>2. Scanned(s)'
  BY DEF Scanned
<1>3. Scoped(s)'
  BY DEF Scoped, OfBody
<1> QED
  BY <1>1, <1>2, <1>3

LEMMA ArriveKeeps ==
  ASSUME Inv, NEW r \in Requests, NEW fields \in Bodies, Arrive(r, fields)
  PROVE  Inv'
<1> USE DEF Arrive, service, offers
<1>1. Len(fields) \in 0..MaxFields
  BY FieldsOfBody
<1>2. InClear(fields) \subseteq (1..MaxFields) \X Values
  BY <1>1, GatewayAssumption DEF InClear
<1>3. TypeOK'
  BY <1>2 DEF Inv, TypeOK, Places
<1>4. Place(r)'
  BY <1>1 DEF Inv, TypeOK, Place, Sent
<1>5. Scanned(r)'
  <2>1. at[r] = 1 /\ clear'[r] = InClear(fields) /\ protected'[r] = pinned
    BY DEF Inv, TypeOK, Place
  <2>2. \A here \in InClear(fields) : here[1] \in Nat /\ here[1] >= 1
    BY <1>1 DEF InClear
  <2> QED
    BY <2>1, <2>2 DEF Scanned
<1>6. Scoped(r)'
  BY DEF Inv, TypeOK, Place, Scoped
<1>7. ASSUME NEW s \in Requests, s # r PROVE (Place(s) /\ Scanned(s) /\ Scoped(s))'
  <2>1. /\ Place(s) /\ Scanned(s) /\ Scoped(s)
        /\ pc'[s] = pc[s] /\ body'[s] = body[s] /\ clear'[s] = clear[s]
        /\ protected'[s] = protected[s]
    BY <1>7 DEF Inv, TypeOK
  <2> QED
    BY <2>1, Untouched
<1> QED
  BY <1>3, <1>4, <1>5, <1>6, <1>7 DEF Inv, Registry!Unambiguous

(***************************************************************************)
(* A step of one request other than its arrival: what the steps have in    *)
(* common for all the other requests.                                      *)
(***************************************************************************)
OnlyOf(r) ==
  \A s \in Requests \ {r} :
    /\ pc'[s] = pc[s] /\ body'[s] = body[s] /\ at'[s] = at[s] /\ clear'[s] = clear[s]
    /\ minted'[s] = minted[s] /\ protected'[s] = protected[s]
    /\ failures'[s] = failures[s] /\ revealed'[s] = revealed[s]

LEMMA OthersKeep ==
  ASSUME Inv, NEW r \in Requests, OnlyOf(r), TypeOK', Registry!Unambiguous',
         issued \subseteq issued', pinned \subseteq pinned',
         (Place(r) /\ Scanned(r) /\ Scoped(r))'
  PROVE  Inv'
<1>1. ASSUME NEW s \in Requests, s # r PROVE (Place(s) /\ Scanned(s) /\ Scoped(s))'
  <2>1. /\ Place(s) /\ Scanned(s) /\ Scoped(s)
    BY DEF Inv
  <2>2. /\ pc'[s] = pc[s] /\ body'[s] = body[s] /\ at'[s] = at[s] /\ clear'[s] = clear[s]
        /\ minted'[s] = minted[s] /\ protected'[s] = protected[s]
        /\ failures'[s] = failures[s] /\ revealed'[s] = revealed[s]
    BY <1>1 DEF OnlyOf
  <2> QED
    BY <2>1, <2>2, Untouched
<1> QED
  BY <1>1 DEF Inv

(***************************************************************************)
(* A token is issued for one value.                                        *)
(***************************************************************************)
LEMMA RedactIsUnambiguous ==
  ASSUME Registry!Unambiguous, NEW values, NEW tokens \in Tokenizations(values),
         issued' = issued \cup {<<tokens[v], v>> : v \in values}
  PROVE  Registry!Unambiguous'
<1>1. ASSUME NEW a \in issued', NEW b \in issued', a[1] = b[1] PROVE a[2] = b[2]
  <2>1. CASE a \in issued /\ b \in issued
    BY <1>1, <2>1 DEF Registry!Unambiguous
  <2>2. CASE a \in issued /\ b \notin issued
    BY <1>1, <2>2 DEF Tokenizations
  <2>3. CASE a \notin issued /\ b \in issued
    BY <1>1, <2>3 DEF Tokenizations
  <2>4. CASE a \notin issued /\ b \notin issued
    BY <1>1, <2>4 DEF Tokenizations
  <2> QED
    BY <2>1, <2>2, <2>3, <2>4
<1> QED
  BY <1>1 DEF Registry!Unambiguous

LEMMA ScanKeeps ==
  ASSUME Inv, NEW r \in Requests, Scan(r)
  PROVE  Inv'
<1> DEFINE field == body[r][at[r]]
<1>1. /\ field \in SUBSET Values
      /\ at[r] \in 1..Len(body[r]) /\ Len(body[r]) \in 0..MaxFields /\ MaxFields \in Nat
  BY FieldsOfBody, GatewayAssumption DEF Scan, Inv, TypeOK
<1>2. PICK outcome \in Returns(field) : Inspect(r, DetectionsOf(field, outcome))
  BY DEF Scan
<1> DEFINE found == DetectionsOf(field, outcome)
<1>3. ToRedact(found) \subseteq field
  BY <1>1, FoundHere
<1>4. \A v \in field \cap pinned : v \in ToRedact(found) /\ Verdict(found) # "allow"
  BY <1>1, PinnedIsRedacted
<1>5. Failures(found) \subseteq Faults
  BY DEF Failures
<1> HIDE DEF found
<1>6. /\ pinned' = pinned /\ body' = body /\ protected' = protected /\ revealed' = revealed
      /\ failures' = [failures EXCEPT ![r] = @ \cup Failures(found)]
      /\ Block(r, found) \/ Pass(r, found) \/ Rewrite(r, found)
  BY <1>2 DEF Inspect, found
<1>7. pc[r] = "scanning"
  BY DEF Scan
<1>8. CASE Block(r, found)
  <2> USE <1>8 DEF Block, offers
  <2>1. TypeOK'
    BY <1>5, <1>6 DEF Inv, TypeOK, Places
  <2>2. OnlyOf(r)
    BY <1>6 DEF OnlyOf, Inv, TypeOK
  <2>3. Place(r)' /\ Scanned(r)' /\ Scoped(r)'
    BY <1>6, <1>7 DEF Inv, TypeOK, Place, Scanned, Scoped, OfBody, Sent
  <2> QED
    BY <2>1, <2>2, <2>3, <1>6, OthersKeep DEF Inv, Registry!Unambiguous
<1>9. CASE Pass(r, found)
  <2> USE <1>9 DEF Pass, offers
  <2>1. TypeOK'
    BY <1>1, <1>5, <1>6 DEF Inv, TypeOK
  <2>2. OnlyOf(r)
    BY <1>6 DEF OnlyOf, Inv, TypeOK
  <2>3. Place(r)'
    BY <1>1, <1>6, <1>7 DEF Inv, TypeOK, Place, Sent
  <2>4. Scanned(r)'
    <3>1. field \cap pinned = {}
      BY <1>4
    <3>2. ASSUME NEW here \in clear[r], here[1] < at[r] + 1
          PROVE  here[2] \notin protected[r]
      <4>1. here \in InClear(body[r]) /\ protected[r] \subseteq pinned
        BY DEF Inv, Place, Scanned
      <4>2. here[1] \in Nat /\ here[2] \in body[r][here[1]]
        BY <4>1, <1>1 DEF InClear
      <4>3. CASE here[1] = at[r]
        BY <4>1, <4>2, <4>3, <3>1
      <4>4. CASE here[1] < at[r]
        BY <4>4 DEF Inv, Scanned
      <4> QED
        BY <1>1, <3>2, <4>2, <4>3, <4>4
    <3>3. at'[r] = at[r] + 1 /\ clear' = clear
      BY DEF Inv, TypeOK
    <3> QED
      BY <3>2, <3>3, <1>6 DEF Inv, Scanned
  <2>5. Scoped(r)'
    BY <1>6 DEF Inv, Scoped, OfBody
  <2> QED
    BY <2>1, <2>2, <2>3, <2>4, <2>5, <1>6, OthersKeep DEF Inv, Registry!Unambiguous
<1>10. CASE Rewrite(r, found)
  <2>1. PICK tokens \in Tokenizations(ToRedact(found)) :
          /\ issued' = issued \cup {<<tokens[v], v>> : v \in ToRedact(found)}
          /\ minted' = [minted EXCEPT ![r] = @ \cup {tokens[v] : v \in ToRedact(found)}]
    BY <1>10 DEF Rewrite, Redact
  <2>2. /\ clear' = [clear EXCEPT ![r] = @ \ ({at[r]} \X ToRedact(found))]
        /\ action' = [action EXCEPT ![r] = "redact"]
        /\ at' = [at EXCEPT ![r] = @ + 1]
        /\ pc' = pc
    BY <1>10 DEF Rewrite
  <2>3. \A v \in ToRedact(found) : tokens[v] \in Token /\ v \in Values
    BY <2>1, <1>1, <1>3 DEF Tokenizations
  <2>4. TypeOK'
    <3>1. issued' \subseteq Token \X Values /\ minted' \in [Requests -> SUBSET Token]
      BY <2>1, <2>3 DEF Inv, TypeOK
    <3>2. at' \in [Requests -> 1..(MaxFields + 1)]
      BY <2>2, <1>1 DEF Inv, TypeOK
    <3>3. clear' \in [Requests -> SUBSET ((1..MaxFields) \X Values)]
      BY <2>2 DEF Inv, TypeOK
    <3>4. /\ sightings' \in [Values -> Nat]
          /\ suggestions' \subseteq Values /\ dismissed' \subseteq Values
      BY <1>10, <2>3 DEF Rewrite, Redact, RecordSightings, Inv, TypeOK
    <3> QED
      BY <3>1, <3>2, <3>3, <3>4, <2>2, <1>5, <1>6 DEF Inv, TypeOK
  <2>5. OnlyOf(r)
    BY <2>1, <2>2, <1>6 DEF OnlyOf, Inv, TypeOK
  <2>6. Place(r)'
    BY <1>1, <1>6, <1>7, <2>2 DEF Inv, TypeOK, Place, Sent
  <2>7. Scanned(r)'
    <3>1. at'[r] = at[r] + 1 /\ clear'[r] = clear[r] \ ({at[r]} \X ToRedact(found))
      BY <2>2 DEF Inv, TypeOK
    <3>2. ASSUME NEW here \in clear[r], here \notin {at[r]} \X ToRedact(found), here[1] < at[r] + 1
          PROVE  here[2] \notin protected[r]
      <4>1. here \in InClear(body[r]) /\ protected[r] \subseteq pinned
        BY DEF Inv, Place, Scanned
      <4>2. here = <<here[1], here[2]>> /\ here[1] \in Nat /\ here[2] \in body[r][here[1]]
        BY <4>1, <1>1 DEF InClear
      <4>3. CASE here[1] = at[r]
        <5>1. here[2] \notin ToRedact(found)
          BY <3>2, <4>2, <4>3
        <5> QED
          BY <5>1, <4>1, <4>2, <4>3, <1>4
      <4>4. CASE here[1] < at[r]
        BY <4>4 DEF Inv, Scanned
      <4> QED
        BY <1>1, <3>2, <4>2, <4>3, <4>4
    <3> QED
      BY <3>1, <3>2, <1>6 DEF Inv, Scanned
  <2>8. Scoped(r)'
    <3>1. ASSUME NEW t \in minted'[r]
          PROVE  \E v \in Values : OfBody(r, v) /\ <<t, v>> \in issued'
      <4>1. CASE t \in minted[r]
        BY <4>1, <2>1 DEF Inv, Scoped
      <4>2. CASE t \notin minted[r]
        <5>1. PICK v \in ToRedact(found) : t = tokens[v]
          BY <4>2, <3>1, <2>1 DEF Inv, TypeOK
        <5>2. OfBody(r, v)
          BY <5>1, <1>3, <1>1 DEF OfBody
        <5> QED
          BY <5>1, <5>2, <2>1, <2>3
      <4> QED
        BY <4>1, <4>2
    <3> QED
      BY <3>1, <1>6 DEF Inv, Scoped, OfBody
  <2>9. Registry!Unambiguous'
    BY <2>1, RedactIsUnambiguous DEF Inv
  <2> QED
    BY <2>1, <2>4, <2>5, <2>6, <2>7, <2>8, <2>9, <1>6, OthersKeep
<1> QED
  BY <1>6, <1>8, <1>9, <1>10

(***************************************************************************)
(* Only what the request itself contained is put back: a token of its      *)
(* scope was issued for a value of its body, and for no other.             *)
(***************************************************************************)
LEMMA ReplyKeeps ==
  ASSUME Inv, NEW r \in Requests, NEW reply \in SUBSET Token, Reply(r, reply)
  PROVE  Inv'
<1> USE DEF Reply, service, offers
<1>1. Reversed(r, reply) \subseteq Values
  BY DEF Reversed, Inv, TypeOK
<1>2. ASSUME NEW v \in Reversed(r, reply) PROVE OfBody(r, v)
  <2>1. PICK pair \in issued : pair[1] \in minted[r] /\ pair[2] = v
    BY DEF Reversed
  <2>2. PICK w \in Values : OfBody(r, w) /\ <<pair[1], w>> \in issued
    BY <2>1 DEF Inv, Scoped
  <2>3. w = v
    BY <2>1, <2>2 DEF Inv, Registry!Unambiguous
  <2> QED
    BY <2>2, <2>3
<1>3. TypeOK'
  BY <1>1 DEF Inv, TypeOK, Places
<1>4. OnlyOf(r)
  BY DEF OnlyOf, Inv, TypeOK
<1>5. Place(r)' /\ Scanned(r)'
  BY DEF Inv, TypeOK, Place, Scanned, Sent
<1>6. Scoped(r)'
  <2>1. revealed'[r] = Reversed(r, reply)
    BY DEF Inv, TypeOK
  <2> QED
    BY <2>1, <1>2 DEF Inv, Scoped, OfBody
<1> QED
  BY <1>3, <1>4, <1>5, <1>6, OthersKeep DEF Inv, Registry!Unambiguous

LEMMA SendKeeps ==
  ASSUME Inv, NEW r \in Requests, Send(r) \/ Fail(r)
  PROVE  Inv'
<1> USE DEF Send, Fail, service, offers
<1>1. TypeOK'
  BY DEF Inv, TypeOK, Places
<1>2. OnlyOf(r)
  BY DEF OnlyOf, Inv, TypeOK
<1>3. pc'[r] = (IF Send(r) THEN "waiting" ELSE "failed") /\ pc[r] # "idle"
  BY DEF Inv, TypeOK
<1>4. Place(r)'
  BY <1>3 DEF Inv, Place, Sent
<1>5. Scanned(r)' /\ Scoped(r)'
  BY DEF Inv, Scanned, Scoped, OfBody
<1> QED
  BY <1>1, <1>2, <1>4, <1>5, OthersKeep DEF Inv, Registry!Unambiguous

LEMMA PinKeeps ==
  ASSUME Inv, NEW v \in Values, Pin(v)
  PROVE  Inv'
<1>1. PICK token \in Token : /\ \A pair \in issued : pair[1] = token => pair[2] = v
                             /\ issued' = issued \cup {<<token, v>>}
  BY DEF Pin, Registry!Issue
<1>2. pinned' = pinned \cup {v} /\ UNCHANGED <<offers, task>>
  BY DEF Pin
<1>3. TypeOK'
  BY <1>1, <1>2 DEF Inv, TypeOK, offers, task
<1>4. Registry!Unambiguous'
  BY <1>1 DEF Inv, Registry!Unambiguous
<1>5. ASSUME NEW s \in Requests PROVE (Place(s) /\ Scanned(s) /\ Scoped(s))'
  <2>1. Place(s) /\ Scanned(s) /\ Scoped(s)
    BY DEF Inv
  <2> QED
    BY <2>1, <1>1, <1>2, Untouched DEF task
<1> QED
  BY <1>3, <1>4, <1>5 DEF Inv

LEMMA DismissKeeps ==
  ASSUME Inv, NEW v \in Values, Dismiss(v)
  PROVE  Inv'
<1>1. TypeOK' /\ Registry!Unambiguous'
  BY DEF Dismiss, task, Inv, TypeOK, Registry!Unambiguous
<1>2. ASSUME NEW s \in Requests PROVE (Place(s) /\ Scanned(s) /\ Scoped(s))'
  <2>1. Place(s) /\ Scanned(s) /\ Scoped(s)
    BY DEF Inv
  <2> QED
    BY <2>1, Untouched DEF Dismiss, task
<1> QED
  BY <1>1, <1>2 DEF Inv

LEMMA NextInv == Inv /\ [Next]_vars => Inv'
<1> SUFFICES ASSUME Inv, [Next]_vars PROVE Inv'
  OBVIOUS
<1>1. ASSUME NEW r \in Requests, NEW fields \in Bodies, Arrive(r, fields) PROVE Inv'
  BY <1>1, ArriveKeeps
<1>2. ASSUME NEW r \in Requests, Scan(r) PROVE Inv'
  BY <1>2, ScanKeeps
<1>3. ASSUME NEW r \in Requests, Send(r) \/ Fail(r) PROVE Inv'
  BY <1>3, SendKeeps
<1>4. ASSUME NEW r \in Requests, NEW reply \in SUBSET Token, Reply(r, reply) PROVE Inv'
  BY <1>4, ReplyKeeps
<1>5. ASSUME NEW v \in Values, Pin(v) PROVE Inv'
  BY <1>5, PinKeeps
<1>6. ASSUME NEW v \in Values, Dismiss(v) PROVE Inv'
  BY <1>6, DismissKeeps
<1>7. CASE UNCHANGED vars
  <2>1. TypeOK' /\ Registry!Unambiguous'
    BY <1>7 DEF Inv, TypeOK, Registry!Unambiguous, vars, service, offers, task
  <2>2. ASSUME NEW s \in Requests PROVE (Place(s) /\ Scanned(s) /\ Scoped(s))'
    <3>1. Place(s) /\ Scanned(s) /\ Scoped(s)
      BY DEF Inv
    <3> QED
      BY <3>1, <1>7, Untouched DEF vars, service, task
  <2> QED
    BY <2>1, <2>2 DEF Inv
<1> QED
  BY <1>1, <1>2, <1>3, <1>4, <1>5, <1>6, <1>7 DEF Next

LEMMA InvHolds == Spec => []Inv
  BY InitInv, NextInv, PTL DEF Spec

-----------------------------------------------------------------------------

(***************************************************************************)
(* Type correctness.                                                       *)
(***************************************************************************)
THEOREM TypeCorrect == Spec => []TypeOK
<1>1. Inv => TypeOK
  BY DEF Inv
<1> QED
  BY <1>1, InvHolds, PTL

(***************************************************************************)
(* No value pinned when a request arrived leaves with it, whatever the     *)
(* detectors miss and the policy says.                                     *)
(***************************************************************************)
THEOREM PinnedStaysHome == Spec => []PinnedNeverLeaves
<1>1. Inv => PinnedNeverLeaves
  <2> SUFFICES ASSUME Inv, NEW r \in Requests, pc[r] \in Sent, NEW here \in clear[r]
               PROVE  here[2] \notin protected[r]
    BY DEF PinnedNeverLeaves
  <2>1. Len(body[r]) \in Nat /\ at[r] \in Nat
    BY FieldsOfBody, GatewayAssumption DEF Inv, TypeOK
  <2>2. here[1] \in 1..Len(body[r]) /\ at[r] > Len(body[r])
    BY DEF Inv, Place, InClear
  <2>3. here[1] < at[r]
    BY <2>1, <2>2
  <2> QED
    BY <2>3 DEF Inv, Scanned
<1> QED
  BY <1>1, InvHolds, PTL

(***************************************************************************)
(* A reply reveals only values of its own request, whatever tokens the     *)
(* model puts into it and whatever the other requests have minted.         *)
(***************************************************************************)
THEOREM RepliesAreScoped == Spec => []RepliesStayScoped
<1>1. Inv => RepliesStayScoped
  BY DEF Inv, Scoped, OfBody, RepliesStayScoped
<1> QED
  BY <1>1, InvHolds, PTL

-----------------------------------------------------------------------------

(***************************************************************************)
(* The first rule of both rule files, as far as it matters: a raising      *)
(* detector's detection calls for a block.                                 *)
(***************************************************************************)
BlocksErrors ==
  \E rule \in Rules :
    /\ rule.action = "block"
    /\ rule.detector \in {AnyDetector, "pipeline"}
    /\ rule.categories = {} \/ "detector_error" \in rule.categories
    /\ 100 >= rule.min_confidence

NoError(r) == pc[r] \in {"idle", "scanning"} \cup Sent => "detector_error" \notin failures[r]

ErrorInv == \A r \in Requests : NoError(r)

LEMMA ErrorIsBlocked ==
  ASSUME BlocksErrors, NEW field \in SUBSET Values, NEW outcome \in Returns(field),
         "detector_error" \in Failures(DetectionsOf(field, outcome))
  PROVE  Verdict(DetectionsOf(field, outcome)) = "block"
<1> DEFINE found == DetectionsOf(field, outcome)
           error == Detection("pipeline", "detector_error", 100, NoValue)
<1>1. PICK d \in found : d.category = "detector_error"
  BY DEF Failures
<1>2. d \notin PinnedFindings(field)
  BY <1>1, GatewayAssumption DEF PinnedFindings, Detection, Faults
<1>3. PICK s \in Detectors : d \in outcome[s]
  BY <1>1, <1>2 DEF DetectionsOf
<1>4. outcome[s] \in Outcomes(s, field)
  BY DEF Returns
<1>5. CASE \E values \in SUBSET field, c \in Confidences : outcome[s] = Found(s, values, c)
  BY <1>1, <1>3, <1>5, GatewayAssumption DEF Found, Detection, Faults
<1>6. CASE outcome[s] = NotCached(s)
  BY <1>1, <1>3, <1>6 DEF NotCached, Detection
<1>7. CASE outcome[s] = {error}
  <2>1. error \in found
    BY <1>1, <1>3, <1>7
  <2>2. error.detector = "pipeline" /\ error.category = "detector_error" /\ error.confidence = 100
    BY DEF Detection
  <2> HIDE DEF found, error
  <2>3. CallsFor("block", found)
    BY <2>1, <2>2 DEF CallsFor, Matches, BlocksErrors
  <2> QED
    BY <2>3 DEF Verdict, Explain, found
<1> QED
  BY <1>4, <1>5, <1>6, <1>7 DEF Outcomes

LEMMA ErrorStep == BlocksErrors /\ Inv /\ ErrorInv /\ [Next]_vars => ErrorInv'
<1> SUFFICES ASSUME BlocksErrors, Inv, ErrorInv, [Next]_vars PROVE ErrorInv'
  OBVIOUS
<1>1. ASSUME NEW r \in Requests, NEW fields \in Bodies, Arrive(r, fields) PROVE ErrorInv'
  BY <1>1 DEF Arrive, Inv, TypeOK, ErrorInv, NoError
<1>2. ASSUME NEW r \in Requests, Scan(r) PROVE ErrorInv'
  <2> DEFINE field == body[r][at[r]]
  <2>1. field \in SUBSET Values
    BY <1>2, FieldsOfBody DEF Scan, Inv, TypeOK
  <2>2. PICK outcome \in Returns(field) : Inspect(r, DetectionsOf(field, outcome))
    BY <1>2 DEF Scan
  <2> DEFINE found == DetectionsOf(field, outcome)
  <2>3. "detector_error" \in Failures(found) => Verdict(found) = "block"
    BY <2>1, ErrorIsBlocked
  <2> HIDE DEF found
  <2>4. /\ failures' = [failures EXCEPT ![r] = @ \cup Failures(found)]
        /\ \/ Verdict(found) = "block" /\ pc' = [pc EXCEPT ![r] = "blocked"]
           \/ Verdict(found) \in {"allow", "redact"} /\ pc' = pc
    BY <2>2 DEF Inspect, Block, Pass, Rewrite, found
  <2>5. pc[r] = "scanning"
    BY <1>2 DEF Scan
  <2>6. ASSUME NEW s \in Requests, s # r PROVE NoError(s)'
    BY <2>4, <2>6 DEF Inv, TypeOK, ErrorInv, NoError
  <2>7. NoError(r)'
    BY <2>3, <2>4, <2>5 DEF Inv, TypeOK, ErrorInv, NoError, Sent
  <2> QED
    BY <2>6, <2>7 DEF ErrorInv
<1>3. ASSUME NEW r \in Requests, Send(r) \/ Fail(r) PROVE ErrorInv'
  BY <1>3 DEF Send, Fail, Inv, TypeOK, ErrorInv, NoError, Sent
<1>4. ASSUME NEW r \in Requests, NEW reply \in SUBSET Token, Reply(r, reply) PROVE ErrorInv'
  BY <1>4 DEF Reply, Inv, TypeOK, ErrorInv, NoError, Sent
<1>5. ASSUME NEW v \in Values, Pin(v) PROVE ErrorInv'
  BY <1>5 DEF Pin, task, ErrorInv, NoError
<1>6. ASSUME NEW v \in Values, Dismiss(v) PROVE ErrorInv'
  BY <1>6 DEF Dismiss, task, ErrorInv, NoError
<1>7. CASE UNCHANGED vars
  BY <1>7 DEF vars, task, ErrorInv, NoError
<1> QED
  BY <1>1, <1>2, <1>3, <1>4, <1>5, <1>6, <1>7 DEF Next

(***************************************************************************)
(* Under a policy that blocks detector errors, no request leaves of which  *)
(* a detector could not scan some field.                                   *)
(***************************************************************************)
THEOREM ErrorsFailClosed == ASSUME BlocksErrors PROVE Spec => []RaisingBlocks
<1>1. Init => ErrorInv
  BY DEF Init, ErrorInv, NoError
<1>2. Inv /\ ErrorInv /\ [Next]_vars => ErrorInv'
  BY ErrorStep
<1>3. ErrorInv => RaisingBlocks
  BY DEF ErrorInv, NoError, RaisingBlocks
<1> QED
  BY <1>1, <1>2, <1>3, InvHolds, PTL DEF Spec

-----------------------------------------------------------------------------

(***************************************************************************)
(* A value offered, or dismissed, has reached the threshold, and sightings *)
(* are never forgotten.                                                    *)
(***************************************************************************)
OfferInv ==
  /\ TypeOK
  /\ \A v \in suggestions \cup dismissed : sightings[v] >= SUGGEST_THRESHOLD
  /\ StaysDismissed

LEMMA SightingKeeps ==
  ASSUME OfferInv, NEW values \in SUBSET Values, RecordSightings(values)
  PROVE  /\ \A v \in (suggestions \cup dismissed)' : sightings'[v] >= SUGGEST_THRESHOLD
         /\ StaysDismissed'
<1>1. /\ SUGGEST_THRESHOLD \in Nat
      /\ \A v \in Values : sightings[v] \in Nat /\ sightings'[v] \in {sightings[v], sightings[v] + 1}
  BY GatewayAssumption DEF OfferInv, TypeOK, RecordSightings
<1>2. dismissed' = dismissed
  BY DEF RecordSightings
<1>3. ASSUME NEW v \in suggestions', v \notin suggestions
      PROVE  v \in Values /\ sightings'[v] = SUGGEST_THRESHOLD /\ sightings[v] + 1 = SUGGEST_THRESHOLD
  BY <1>3 DEF RecordSightings, Crosses
<1>4. ASSUME NEW v \in suggestions \cup dismissed PROVE v \in Values /\ sightings[v] >= SUGGEST_THRESHOLD
  BY DEF OfferInv, TypeOK
<1> QED
  BY <1>1, <1>2, <1>3, <1>4 DEF OfferInv, StaysDismissed

(***************************************************************************)
(* An offer to pin that was dismissed never comes back.                    *)
(***************************************************************************)
THEOREM DismissalIsFinal == Spec => []StaysDismissed
<1>1. Init => OfferInv
  BY InitInv DEF Init, OfferInv, StaysDismissed, Inv
<1>2. Inv /\ Inv' /\ OfferInv /\ [Next]_vars => OfferInv'
  <2> SUFFICES ASSUME Inv, Inv', OfferInv, [Next]_vars PROVE OfferInv'
    OBVIOUS
  <2>1. CASE UNCHANGED offers
    BY <2>1 DEF offers, OfferInv, Inv, StaysDismissed
  <2>2. ASSUME NEW r \in Requests, Scan(r) PROVE OfferInv'
    <3> DEFINE field == body[r][at[r]]
    <3>1. PICK outcome \in Returns(field) : Inspect(r, DetectionsOf(field, outcome))
      BY <2>2 DEF Scan
    <3>2. field \in SUBSET Values
      BY <2>2, FieldsOfBody DEF Scan, Inv, TypeOK
    <3> HIDE DEF field
    <3>3. \/ UNCHANGED offers
          \/ RecordSightings(ToRedact(DetectionsOf(field, outcome)))
      BY <3>1 DEF Inspect, Block, Pass, Rewrite, Redact
    <3> QED
      BY <2>1, <3>2, <3>3, FoundHere, SightingKeeps DEF OfferInv, Inv
  <2>3. ASSUME NEW v \in Values, Dismiss(v) PROVE OfferInv'
    BY <2>3 DEF Dismiss, OfferInv, Inv, StaysDismissed
  <2>4. (\E r \in Requests : Scan(r)) \/ (\E v \in Values : Dismiss(v)) \/ UNCHANGED offers
    BY DEF Next, Arrive, Send, Fail, Reply, Pin, vars, service
  <2> QED
    BY <2>1, <2>2, <2>3, <2>4
<1>3. OfferInv => StaysDismissed
  BY DEF OfferInv
<1> QED
  BY <1>1, <1>2, <1>3, InvHolds, PTL DEF Spec

(***************************************************************************)
(* What was decided is not undone by a later field or a later sighting,    *)
(* under a policy that blocks detector errors.                             *)
(***************************************************************************)
THEOREM VerdictsAreKept ==
  ASSUME BlocksErrors
  PROVE  Spec => []VerdictsHold
<1>1. RaisingBlocks /\ StaysDismissed => VerdictsHold
  BY DEF VerdictsHold
<1> QED
  BY <1>1, ErrorsFailClosed, DismissalIsFinal, PTL

=============================================================================
