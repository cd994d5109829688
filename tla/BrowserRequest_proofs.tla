----------------------- MODULE BrowserRequest_proofs -----------------------
(***************************************************************************)
(* What leaves and what silence means, for any number of requests, values, *)
(* bodies and workers.                                                     *)
(***************************************************************************)
EXTENDS BrowserRequest, FiniteSetTheorems, TLAPS

\* The types the proofs need: of everything but the queue of jobs.
TypeInv ==
  /\ at \in [Tasks -> Places]
  /\ body \in [Requests -> Bodies]
  /\ found \in [Requests -> SUBSET Values]
  /\ verdict \in [Tasks -> Actions \cup {"none"}]
  /\ outcome \in [Requests -> {"none", "sent", "refused"}]
  /\ logged \in [Requests -> {"none", "pass", "allowed", "approved", "redacted", "blocked"}]
  /\ reply \in [Requests -> Replies \cup {"none"}]
  /\ stats \in [Counters -> Nat]

(***************************************************************************)
(* A request with an outcome is over, so nothing about it changes again.   *)
(***************************************************************************)
OverInv ==
  \A r \in Requests :
    outcome[r] # "none" \/ logged[r] # "none" => at[Request(r)] = "over"

RequestInv == TypeInv /\ OverInv /\ OnlyClearedLeaves /\ MessagesAreRedacted

LEMMA TaskIs ==
  ASSUME NEW t \in Tasks
  PROVE  /\ t[1] \in Requests
         /\ t = Request(t[1]) \/ t = Response(t[1])
BY DEF Tasks, Request, Response

LEMMA TasksDiffer ==
  /\ \A r \in Requests : Request(r) \in Tasks /\ Response(r) \in Tasks
  /\ \A r, q : Request(r) # Response(q)
  /\ \A r, q : Request(r) = Request(q) <=> r = q
  /\ \A r, q : Response(r) = Response(q) <=> r = q
  /\ \A r : Request(r)[1] = r /\ Response(r)[1] = r
BY DEF Tasks, Request, Response

LEMMA CountTypes ==
  ASSUME stats \in [Counters -> Nat], NEW t, NEW keys, Count(t, keys)
  PROVE  stats' \in [Counters -> Nat]
BY DEF Count

LEMMA RedactedBody ==
  ASSUME NEW b \in Bodies, NEW values \in SUBSET Values
  PROVE  /\ Redacted(b, values) \in Bodies
         /\ Redacted(b, values).shape = b.shape
         /\ Redacted(b, values).files = b.files
         /\ b.shape = "prose" => Redacted(b, values).text \cap values = {}
BY DEF Redacted, Bodies, Content, Shapes

(***************************************************************************)
(* request() ends for r.                                                   *)
(***************************************************************************)
LEMMA CloseStep ==
  ASSUME RequestInv, NEW r \in Requests,
         NEW end \in {"sent", "refused"},
         NEW action \in {"allowed", "approved", "redacted", "blocked"},
         NEW counter,
         Close(r, end, action, counter),
         at[Request(r)] # "over",
         found' \in [Requests -> SUBSET Values],
         \A q \in Requests \ {r} : found'[q] = found[q],
         verdict' \in [Tasks -> Actions \cup {"none"}],
         \A u \in Tasks \ {Request(r)} : verdict'[u] = verdict[u],
         body' \in [Requests -> Bodies],
         \A q \in Requests \ {r} : body'[q] = body[q],
         action = "redacted" /\ body'[r].shape = "prose" => found'[r] \cap body'[r].text = {},
         seen \subseteq seen',
         end = "sent" => \/ action = "approved"
                         \/ Request(r) \in seen' /\ verdict'[Request(r)] \in {"allow", "redact"},
         UNCHANGED reply
  PROVE  RequestInv'
<1>1. /\ at' = [at EXCEPT ![Request(r)] = "over"]
      /\ outcome' = [outcome EXCEPT ![r] = end]
      /\ logged' = [logged EXCEPT ![r] = action]
  BY DEF Close, Goto
<1>2. TypeInv'
  <2>1. stats' \in [Counters -> Nat]
    BY CountTypes DEF Close, RequestInv, TypeInv
  <2>2. at' \in [Tasks -> Places]
    BY <1>1 DEF RequestInv, TypeInv, Places
  <2>3. outcome' \in [Requests -> {"none", "sent", "refused"}]
    BY <1>1 DEF RequestInv, TypeInv
  <2>4. logged' \in [Requests -> {"none", "pass", "allowed", "approved", "redacted", "blocked"}]
    BY <1>1 DEF RequestInv, TypeInv
  <2> QED
    BY <2>1, <2>2, <2>3, <2>4 DEF RequestInv, TypeInv
<1>3. OverInv'
  <2> SUFFICES ASSUME NEW q \in Requests, outcome'[q] # "none" \/ logged'[q] # "none"
               PROVE  at'[Request(q)] = "over"
    BY DEF OverInv
  <2>1. CASE q = r
    BY <2>1, <1>1, TasksDiffer DEF RequestInv, TypeInv
  <2>2. CASE q # r
    <3>1. outcome'[q] = outcome[q] /\ logged'[q] = logged[q]
      BY <2>2, <1>1 DEF RequestInv, TypeInv
    <3>2. at'[Request(q)] = at[Request(q)]
      BY <2>2, <1>1, TasksDiffer DEF RequestInv, TypeInv
    <3> QED
      BY <3>1, <3>2 DEF RequestInv, OverInv
  <2> QED BY <2>1, <2>2
<1>4. OnlyClearedLeaves'
  <2> SUFFICES ASSUME NEW q \in Requests, outcome'[q] = "sent", body'[q].shape # "silent"
               PROVE  \/ logged'[q] = "approved"
                      \/ Request(q) \in seen' /\ verdict'[Request(q)] \in {"allow", "redact"}
    BY DEF OnlyClearedLeaves
  <2>1. CASE q = r
    BY <2>1, <1>1 DEF RequestInv, TypeInv
  <2>2. CASE q # r
    <3>1. outcome'[q] = outcome[q] /\ logged'[q] = logged[q] /\ body'[q] = body[q]
      BY <2>2, <1>1 DEF RequestInv, TypeInv
    <3>2. verdict'[Request(q)] = verdict[Request(q)]
      BY <2>2, TasksDiffer
    <3> QED
      BY <3>1, <3>2 DEF RequestInv, OnlyClearedLeaves
  <2> QED BY <2>1, <2>2
<1>5. MessagesAreRedacted'
  <2> SUFFICES ASSUME NEW q \in Requests, logged'[q] = "redacted",
                      body'[q].shape = "prose", body'[q].files = {}
               PROVE  found'[q] \cap body'[q].text = {}
    BY DEF MessagesAreRedacted
  <2>1. CASE q = r
    BY <2>1, <1>1 DEF RequestInv, TypeInv
  <2>2. CASE q # r
    <3>1. logged'[q] = logged[q] /\ body'[q] = body[q] /\ found'[q] = found[q]
      BY <2>2, <1>1 DEF RequestInv, TypeInv
    <3> QED
      BY <3>1 DEF RequestInv, MessagesAreRedacted
  <2> QED BY <2>1, <2>2
<1> QED
  BY <1>2, <1>3, <1>4, <1>5 DEF RequestInv

(***************************************************************************)
(* A task that is not over goes on to another place, and of the requests   *)
(* nothing changes but verdicts and findings of one that has no outcome.   *)
(***************************************************************************)
LEMMA MoveStep ==
  ASSUME RequestInv, NEW t \in Tasks, NEW next \in Places,
         at' = [at EXCEPT ![t] = next],
         at[t] # "over",
         UNCHANGED <<body, outcome, logged>>,
         found' \in [Requests -> SUBSET Values],
         \A q \in Requests : Request(q) # t => found'[q] = found[q],
         verdict' \in [Tasks -> Actions \cup {"none"}],
         \A u \in Tasks \ {t} : verdict'[u] = verdict[u],
         stats' \in [Counters -> Nat],
         reply' \in [Requests -> Replies \cup {"none"}],
         seen \subseteq seen'
  PROVE  RequestInv'
<1>1. TypeInv'
  BY DEF RequestInv, TypeInv
<1>2. ASSUME NEW q \in Requests, outcome'[q] # "none" \/ logged'[q] # "none"
      PROVE  /\ Request(q) # t
             /\ at'[Request(q)] = at[Request(q)] /\ at[Request(q)] = "over"
             /\ found'[q] = found[q]
             /\ verdict'[Request(q)] = verdict[Request(q)]
  <2>1. at[Request(q)] = "over"
    BY <1>2 DEF RequestInv, OverInv
  <2>2. Request(q) # t
    BY <2>1
  <2> QED
    BY <2>1, <2>2, TasksDiffer DEF RequestInv, TypeInv
<1>3. OverInv'
  BY <1>2 DEF OverInv
<1>4. OnlyClearedLeaves'
  BY <1>2 DEF RequestInv, OnlyClearedLeaves
<1>5. MessagesAreRedacted'
  BY <1>2 DEF RequestInv, MessagesAreRedacted
<1> QED
  BY <1>1, <1>3, <1>4, <1>5 DEF RequestInv

(***************************************************************************)
(* An answer of _inspect: without the detectors it is "block".             *)
(***************************************************************************)
LEMMA AnswerStep ==
  ASSUME RequestInv, NEW t \in Tasks, NEW action \in Actions,
         NEW values \in SUBSET Values,
         at[t] # "over",
         Answer(t, action, values),
         seen \subseteq seen',
         t \in seen' \/ action = "block",
         UNCHANGED reply
  PROVE  RequestInv'
<1>1. verdict' = [verdict EXCEPT ![t] = action]
  BY DEF Answer
<1>2. /\ verdict' \in [Tasks -> Actions \cup {"none"}]
      /\ verdict'[t] = action
      /\ \A u \in Tasks \ {t} : verdict'[u] = verdict[u]
  BY <1>1 DEF RequestInv, TypeInv
<1>3. CASE t = Request(t[1])
  <2> DEFINE r == t[1]
  <2>1. r \in Requests /\ t = Request(r)
    BY <1>3, TaskIs
  <2>2. Act(r, action, values)
    BY <1>3 DEF Answer
  <2>3. found' = [found EXCEPT ![r] = values]
    BY <2>2 DEF Act
  <2>4. /\ found' \in [Requests -> SUBSET Values]
        /\ found'[r] = values
        /\ \A q \in Requests \ {r} : found'[q] = found[q]
    BY <2>1, <2>3 DEF RequestInv, TypeInv
  <2>5. CASE action = "allow" /\ Allow(r)
    <3>1. Close(r, "sent", "allowed", "allowed") /\ body' = body
      BY <2>5 DEF Allow
    <3> HIDE DEF r
    <3>2. body' \in [Requests -> Bodies]
      BY <3>1 DEF RequestInv, TypeInv
    <3> QED
      BY <1>2, <2>1, <2>4, <2>5, <3>1, <3>2, CloseStep
  <2>6. CASE action = "redact" /\ Redact(r, values)
    <3>1. /\ Close(r, "sent", "redacted", "redacted")
          /\ body' = [body EXCEPT ![r] = Redacted(body[r], values)]
      BY <2>6 DEF Redact
    <3> HIDE DEF r
    <3>2. body[r] \in Bodies
      BY <2>1 DEF RequestInv, TypeInv
    <3>3. /\ body' \in [Requests -> Bodies]
          /\ body'[r] = Redacted(body[r], values)
          /\ \A q \in Requests \ {r} : body'[q] = body[q]
      BY <2>1, <3>1, <3>2, RedactedBody DEF RequestInv, TypeInv
    <3>4. body'[r].shape = "prose" => found'[r] \cap body'[r].text = {}
      BY <2>4, <3>2, <3>3, RedactedBody
    <3> QED
      BY <1>2, <2>1, <2>4, <2>6, <3>1, <3>3, <3>4, CloseStep
  <2>7. CASE Refuse(r)
    <3>1. Close(r, "refused", "blocked", "blocked") /\ body' = body
      BY <2>7 DEF Refuse
    <3> HIDE DEF r
    <3>2. body' \in [Requests -> Bodies]
      BY <3>1 DEF RequestInv, TypeInv
    <3> QED
      BY <1>2, <2>1, <2>4, <3>1, <3>2, CloseStep
  <2>8. CASE Hold(r)
    <3>1. /\ at' = [at EXCEPT ![t] = "held"]
          /\ UNCHANGED <<body, outcome, logged>>
          /\ Count(Request(r), {})
      BY <2>1, <2>8 DEF Hold, Submit
    <3>2. stats' \in [Counters -> Nat]
      BY <3>1, CountTypes DEF RequestInv, TypeInv
    <3>3. \A q \in Requests : Request(q) # t => found'[q] = found[q]
      BY <2>1, <2>4
    <3>4. reply' \in [Requests -> Replies \cup {"none"}]
      BY DEF RequestInv, TypeInv
    <3>5. "held" \in Places
      BY DEF Places
    <3> QED
      BY <1>2, <2>4, <3>1, <3>2, <3>3, <3>4, <3>5, MoveStep
  <2> QED
    BY <2>2, <2>5, <2>6, <2>7, <2>8 DEF Act
<1>4. CASE t # Request(t[1])
  <2>1. /\ t[1] \in Requests /\ t = Response(t[1])
    BY <1>4, TaskIs
  <2>2. Report(t[1], action)
    BY <1>4 DEF Answer
  <2>3. /\ at' = [at EXCEPT ![t] = "over"]
        /\ UNCHANGED <<body, found, outcome, logged>>
    BY <2>1, <2>2 DEF Report, Goto, request
  <2>4. stats' \in [Counters -> Nat]
    BY <2>2, CountTypes DEF Report, RequestInv, TypeInv
  <2>5. found' \in [Requests -> SUBSET Values] /\ reply' \in [Requests -> Replies \cup {"none"}]
    BY <2>3 DEF RequestInv, TypeInv
  <2>6. "over" \in Places
    BY DEF Places
  <2> QED
    BY <1>2, <2>3, <2>4, <2>5, <2>6, MoveStep
<1> QED
  BY <1>3, <1>4

\* Going on to the detectors, or to the wait for the pipeline.
LEMMA ScanStep ==
  ASSUME RequestInv, NEW t \in Tasks, NEW next \in {"waiting", "scanning"},
         at[t] # "over",
         at' = [at EXCEPT ![t] = next], Count(t, {}),
         UNCHANGED <<request, verdict, seen, reply>>
  PROVE  RequestInv'
<1>1. stats' \in [Counters -> Nat]
  BY CountTypes DEF RequestInv, TypeInv
<1>2. /\ found' \in [Requests -> SUBSET Values] /\ found' = found
      /\ verdict' \in [Tasks -> Actions \cup {"none"}] /\ verdict' = verdict
      /\ reply' \in [Requests -> Replies \cup {"none"}]
      /\ UNCHANGED <<body, outcome, logged>>
      /\ seen \subseteq seen'
  BY DEF RequestInv, TypeInv, request
<1>3. next \in Places
  BY DEF Places
<1> QED
  BY <1>1, <1>2, <1>3, MoveStep

LEMMA InspectStep ==
  ASSUME RequestInv, NEW t \in Tasks, at[t] # "over", Inspect(t), UNCHANGED <<seen, reply>>
  PROVE  RequestInv'
<1>1. CASE /\ pipeline = "building" /\ Submit(t, "waiting") /\ Count(t, {})
           /\ UNCHANGED <<request, verdict>>
  BY <1>1, ScanStep DEF Submit
<1>2. CASE Scan(t)
  BY <1>2, ScanStep DEF Scan, Submit, Goto
<1>3. CASE Answer(t, "block", {})
  BY <1>3, AnswerStep DEF Actions
<1> QED
  BY <1>1, <1>2, <1>3 DEF Inspect

LEMMA RequestInvInductive == Spec => []RequestInv
<1>1. Init => RequestInv
  <2> SUFFICES ASSUME Init PROVE RequestInv
    OBVIOUS
  <2>1. TypeInv
    BY BrowserAssumption DEF Init, TypeInv, Places, Counters
  <2>2. OverInv /\ OnlyClearedLeaves /\ MessagesAreRedacted
    BY DEF Init, OverInv, OnlyClearedLeaves, MessagesAreRedacted
  <2> QED BY <2>1, <2>2 DEF RequestInv
<1>2. RequestInv /\ [Next]_vars => RequestInv'
  <2> SUFFICES ASSUME RequestInv, [Next]_vars PROVE RequestInv'
    OBVIOUS
  <2>1. CASE PipelineChanges \/ ModeChanges \/ UNCHANGED vars
    <3>1. UNCHANGED <<at, body, found, verdict, seen, outcome, logged, reply, stats>>
      BY <2>1 DEF PipelineChanges, ModeChanges, vars, request
    <3> QED
      BY <3>1 DEF RequestInv, TypeInv, OverInv, OnlyClearedLeaves, MessagesAreRedacted
  <2>2. ASSUME NEW r \in Requests, Arrive(r)
        PROVE  RequestInv'
    <3>1. Request(r) \in Tasks /\ at[Request(r)] = "idle" /\ UNCHANGED <<seen, reply>>
      BY <2>2, TasksDiffer DEF Arrive
    <3>2. CASE body[r].shape = "silent" /\ Pass(r)
      <4>1. /\ at' = [at EXCEPT ![Request(r)] = "over"]
            /\ outcome' = [outcome EXCEPT ![r] = "sent"]
            /\ logged' = [logged EXCEPT ![r] = "pass"]
            /\ UNCHANGED <<body, found, verdict, stats, seen, reply>>
        BY <3>1, <3>2 DEF Pass
      <4>2. TypeInv'
        BY <4>1 DEF RequestInv, TypeInv, Places
      <4>3. \A q \in Requests \ {r} :
              /\ outcome'[q] = outcome[q] /\ logged'[q] = logged[q]
              /\ at'[Request(q)] = at[Request(q)]
        BY <4>1, TasksDiffer DEF RequestInv, TypeInv
      <4>4. at'[Request(r)] = "over" /\ logged'[r] = "pass"
        BY <3>1, <4>1 DEF RequestInv, TypeInv
      <4>5. OverInv'
        BY <4>3, <4>4 DEF RequestInv, OverInv
      <4>6. OnlyClearedLeaves'
        BY <3>2, <4>1, <4>3 DEF RequestInv, OnlyClearedLeaves
      <4>7. MessagesAreRedacted'
        BY <4>1, <4>3, <4>4 DEF RequestInv, MessagesAreRedacted
      <4> QED
        BY <4>2, <4>5, <4>6, <4>7 DEF RequestInv
    <3>3. CASE Inspect(Request(r))
      BY <3>1, <3>3, InspectStep
    <3> QED
      BY <2>2, <3>2, <3>3 DEF Arrive
  <2>3. ASSUME NEW r \in Requests, HoldEnds(r)
        PROVE  RequestInv'
    <3>1. /\ at[Request(r)] = "held"
          /\ UNCHANGED <<found, verdict, seen, reply, body>>
      BY <2>3 DEF HoldEnds, Approve, Refuse
    <3>2. /\ found' \in [Requests -> SUBSET Values]
          /\ verdict' \in [Tasks -> Actions \cup {"none"}]
          /\ body' \in [Requests -> Bodies]
      BY <3>1 DEF RequestInv, TypeInv
    <3>3. CASE Close(r, "sent", "approved", "allowed")
      BY <3>1, <3>2, <3>3, CloseStep
    <3>4. CASE Close(r, "refused", "blocked", "blocked")
      BY <3>1, <3>2, <3>4, CloseStep
    <3> QED
      BY <2>3, <3>3, <3>4 DEF HoldEnds, Approve, Refuse
  <2>4. ASSUME NEW r \in Requests, ScanStarts(r)
        PROVE  RequestInv'
    <3>1. Response(r) \in Tasks /\ at[Response(r)] = "created" /\ UNCHANGED <<seen, reply>>
      BY <2>4, TasksDiffer DEF ScanStarts
    <3>2. ASSUME NEW counters, Ends(Response(r), counters)
          PROVE  RequestInv'
      <4>1. /\ at' = [at EXCEPT ![Response(r)] = "over"]
            /\ UNCHANGED <<body, found, outcome, logged, verdict>>
        BY <3>2 DEF Ends, Goto, request
      <4>2. stats' \in [Counters -> Nat]
        BY <3>2, CountTypes DEF Ends, RequestInv, TypeInv
      <4>3. /\ found' \in [Requests -> SUBSET Values]
            /\ verdict' \in [Tasks -> Actions \cup {"none"}]
            /\ reply' \in [Requests -> Replies \cup {"none"}]
            /\ "over" \in Places
        BY <3>1, <4>1 DEF RequestInv, TypeInv, Places
      <4> QED
        BY <3>1, <4>1, <4>2, <4>3, MoveStep
    <3>3. CASE Inspect(Response(r))
      BY <3>1, <3>3, InspectStep
    <3> QED
      BY <2>4, <3>2, <3>3 DEF ScanStarts
  <2>5. ASSUME NEW r \in Requests, NEW kind \in Replies, Deliver(r, kind)
        PROVE  RequestInv'
    <3>1. /\ reply' = [reply EXCEPT ![r] = kind]
          /\ at' = at \/ at' = [at EXCEPT ![Response(r)] = "created"]
          /\ UNCHANGED <<body, found, outcome, logged, verdict, seen, stats>>
      BY <2>5 DEF Deliver, request
    <3>2. TypeInv'
      BY <3>1, TasksDiffer DEF RequestInv, TypeInv, Places
    <3>3. \A q \in Requests : at'[Request(q)] = at[Request(q)]
      BY <3>1, TasksDiffer DEF RequestInv, TypeInv
    <3> QED
      BY <3>1, <3>2, <3>3 DEF RequestInv, OverInv, OnlyClearedLeaves, MessagesAreRedacted
  <2>6. ASSUME NEW t \in Tasks, WaitEnds(t)
        PROVE  RequestInv'
    <3>1. at[t] = "waiting" /\ UNCHANGED <<seen, reply>>
      BY <2>6 DEF WaitEnds
    <3>2. CASE Scan(t)
      BY <3>1, <3>2, ScanStep DEF Scan, Submit, Goto
    <3>3. CASE Answer(t, "block", {})
      BY <3>1, <3>3, AnswerStep DEF Actions
    <3> QED
      BY <2>6, <3>2, <3>3 DEF WaitEnds
  <2>7. ASSUME NEW t \in Tasks, ScanEnds(t)
        PROVE  RequestInv'
    <3>1. PICK action \in Actions, values \in SUBSET Scanned(t) : Answer(t, action, values)
      BY <2>7 DEF ScanEnds
    <3>2. at[t] = "scanning" /\ seen' = seen \cup {t} /\ UNCHANGED reply
      BY <2>7 DEF ScanEnds
    <3>3. Scanned(t) \subseteq Values
      BY TaskIs DEF Scanned, Content, RequestInv, TypeInv, Bodies
    <3> QED
      BY <3>1, <3>2, <3>3, AnswerStep
  <2> QED
    BY <2>1, <2>2, <2>3, <2>4, <2>5, <2>6, <2>7 DEF Next
<1> QED
  BY <1>1, <1>2, PTL DEF Spec

(***************************************************************************)
(* A prompt is sent only if the detectors had it and asked for no block,   *)
(* or the user approved it.                                                *)
(***************************************************************************)
THEOREM ClearedOnly == Spec => []OnlyClearedLeaves
<1>1. RequestInv => OnlyClearedLeaves
  BY DEF RequestInv
<1> QED
  BY <1>1, RequestInvInductive, PTL

(***************************************************************************)
(* A redacted prompt that is a plain message leaves without what was found *)
(* in it.                                                                  *)
(***************************************************************************)
THEOREM MessagesLeaveRedacted == Spec => []MessagesAreRedacted
<1>1. RequestInv => MessagesAreRedacted
  BY DEF RequestInv
<1> QED
  BY <1>1, RequestInvInductive, PTL

-----------------------------------------------------------------------------
(***************************************************************************)
(* The scan of a reply: what it is at work on, and what it leaves behind   *)
(* if it did not find the reply clean.                                     *)
(***************************************************************************)
ReplyOf(r) ==
  /\ reply[r] = "none" => at[Response(r)] = "idle"
  /\ at[Response(r)] \in {"waiting", "scanning"} => reply[r] = "text"
  /\ verdict[Response(r)] \in {"redact", "block"} => stats["response_alerts"] > 0
  /\ at[Response(r)] = "over" =>
       \/ reply[r] = "empty"
       \/ reply[r] = "undecodable" /\ stats["response_scan_errors"] > 0
       \/ /\ reply[r] = "text" /\ verdict[Response(r)] \in Actions
          /\ Response(r) \in seen \/ verdict[Response(r)] = "block"

ReplyInv == \A r \in Requests : ReplyOf(r)

\* Counters only grow, and what is counted is not zero.
Grows ==
  /\ stats'["response_alerts"] >= stats["response_alerts"]
  /\ stats'["response_scan_errors"] >= stats["response_scan_errors"]

LEMMA CountGrows ==
  ASSUME TypeInv, NEW t, NEW keys, Count(t, keys)
  PROVE  /\ Grows
         /\ \A k \in Counters : k \in keys => stats'[k] > 0
<1>1. \A k \in Counters :
        stats'[k] = stats[k] + (IF k \in keys \cup Begins(t) THEN 1 ELSE 0)
  BY DEF Count
<1>2. \A k \in Counters : stats[k] \in Nat
  BY DEF TypeInv
<1>3. "response_alerts" \in Counters /\ "response_scan_errors" \in Counters
  BY DEF Counters
<1>4. Grows
  BY <1>1, <1>2, <1>3 DEF Grows
<1>5. \A k \in Counters : k \in keys => stats'[k] > 0
  BY <1>1, <1>2
<1> QED
  BY <1>4, <1>5

\* Counters that only stay as they are have grown.
LEMMA SameGrows ==
  ASSUME TypeInv, UNCHANGED stats
  PROVE  Grows
BY DEF Grows, TypeInv, Counters

\* Steps that are not the reply's own keep ReplyOf.
LEMMA ReplyFrame ==
  ASSUME TypeInv, TypeInv', Grows, NEW r \in Requests, ReplyOf(r),
         at'[Response(r)] = at[Response(r)],
         verdict'[Response(r)] = verdict[Response(r)],
         reply'[r] = reply[r],
         seen \subseteq seen'
  PROVE  ReplyOf(r)'
<1>1. /\ stats["response_alerts"] \in Nat /\ stats'["response_alerts"] \in Nat
      /\ stats["response_scan_errors"] \in Nat /\ stats'["response_scan_errors"] \in Nat
  BY DEF TypeInv, Counters
<1> QED
  BY <1>1 DEF ReplyOf, Grows

\* A step of one task, seen from the replies.
LEMMA TaskFrame ==
  ASSUME TypeInv, TypeInv', Grows, ReplyInv, NEW t \in Tasks,
         \A u \in Tasks \ {t} : at'[u] = at[u] /\ verdict'[u] = verdict[u],
         UNCHANGED reply,
         seen \subseteq seen',
         \A r \in Requests : t = Response(r) => ReplyOf(r)'
  PROVE  ReplyInv'
<1> SUFFICES ASSUME NEW r \in Requests PROVE ReplyOf(r)'
  BY DEF ReplyInv
<1>1. CASE t # Response(r)
  <2>1. at'[Response(r)] = at[Response(r)] /\ verdict'[Response(r)] = verdict[Response(r)]
    BY <1>1, TasksDiffer
  <2> QED
    BY <2>1, ReplyFrame DEF ReplyInv
<1> QED
  BY <1>1

(***************************************************************************)
(* An answer of _inspect: a reply is over, with an alert unless it was     *)
(* clean.                                                                  *)
(***************************************************************************)
LEMMA AnswerReply ==
  ASSUME TypeInv, TypeInv', ReplyInv, NEW t \in Tasks, NEW action \in Actions, NEW values,
         at[t] \in {"idle", "created", "waiting", "scanning"},
         \A r \in Requests : t = Response(r) => reply[r] = "text",
         Answer(t, action, values),
         seen \subseteq seen',
         t \in seen' \/ action = "block",
         UNCHANGED reply
  PROVE  ReplyInv'
<1>1. verdict' = [verdict EXCEPT ![t] = action]
  BY DEF Answer
<1>2. CASE t = Request(t[1])
  <2> DEFINE r == t[1]
  <2>1. /\ \E next : at' = [at EXCEPT ![t] = next]
        /\ \E keys : Count(t, keys)
    <3>1. Act(r, action, values)
      BY <1>2 DEF Answer
    <3>2. CASE Allow(r)
      BY <1>2, <3>2 DEF Allow, Close, Goto
    <3>3. CASE Redact(r, values)
      BY <1>2, <3>3 DEF Redact, Close, Goto
    <3>4. CASE Refuse(r)
      BY <1>2, <3>4 DEF Refuse, Close, Goto
    <3>5. CASE Hold(r)
      BY <1>2, <3>5 DEF Hold, Submit
    <3> QED
      BY <3>1, <3>2, <3>3, <3>4, <3>5 DEF Act
  <2>2. Grows
    BY <2>1, CountGrows
  <2>3. \A u \in Tasks \ {t} : at'[u] = at[u] /\ verdict'[u] = verdict[u]
    BY <1>1, <2>1 DEF TypeInv
  <2>4. \A q \in Requests : t # Response(q)
    BY <1>2, TasksDiffer
  <2> QED
    BY <2>2, <2>3, <2>4, TaskFrame
<1>3. CASE t # Request(t[1])
  <2>1. PICK r \in Requests : t = Response(r)
    BY <1>3, TaskIs
  <2>2. Report(r, action)
    BY <1>3, <2>1, TasksDiffer DEF Answer
  <2>3. /\ at' = [at EXCEPT ![t] = "over"]
        /\ Count(t, IF action = "allow" THEN {} ELSE {"response_alerts"})
    BY <2>1, <2>2 DEF Report, Goto
  <2>4. Grows /\ (action # "allow" => stats'["response_alerts"] > 0)
    BY <2>3, CountGrows DEF Counters
  <2>5. /\ at'[t] = "over" /\ verdict'[t] = action
        /\ \A u \in Tasks \ {t} : at'[u] = at[u] /\ verdict'[u] = verdict[u]
    BY <1>1, <2>3 DEF TypeInv
  <2>6. ReplyOf(r)'
    BY <2>1, <2>4, <2>5 DEF ReplyOf, Actions
  <2>7. ASSUME NEW q \in Requests, t = Response(q)
        PROVE  ReplyOf(q)'
    <3>1. q = r
      BY <2>1, <2>7, TasksDiffer
    <3> QED
      BY <2>6, <3>1 DEF ReplyOf
  <2>8. Grows /\ \A u \in Tasks \ {t} : at'[u] = at[u] /\ verdict'[u] = verdict[u]
    BY <2>4, <2>5
  <2> QED
    BY <2>7, <2>8, TaskFrame
<1> QED
  BY <1>2, <1>3

\* Going on to the detectors, or to the wait for the pipeline.
LEMMA ScanReply ==
  ASSUME TypeInv, TypeInv', ReplyInv, NEW t \in Tasks, NEW next \in {"waiting", "scanning"},
         \A r \in Requests : t = Response(r) => reply[r] = "text",
         at' = [at EXCEPT ![t] = next], Count(t, {}),
         UNCHANGED <<request, verdict, seen, reply>>
  PROVE  ReplyInv'
<1>1. Grows
  BY CountGrows
<1>2. at'[t] = next /\ \A u \in Tasks \ {t} : at'[u] = at[u] /\ verdict'[u] = verdict[u]
  BY DEF TypeInv
<1>3. ASSUME NEW r \in Requests, t = Response(r)
      PROVE  ReplyOf(r)'
  <2>1. /\ stats["response_alerts"] \in Nat /\ stats'["response_alerts"] \in Nat
    BY DEF TypeInv, Counters
  <2> QED
    BY <1>1, <1>2, <1>3, <2>1 DEF ReplyOf, ReplyInv, Grows
<1> QED
  BY <1>1, <1>2, <1>3, TaskFrame

LEMMA InspectReply ==
  ASSUME TypeInv, TypeInv', ReplyInv, NEW t \in Tasks,
         at[t] \in {"idle", "created"},
         \A r \in Requests : t = Response(r) => reply[r] = "text",
         Inspect(t), UNCHANGED <<seen, reply>>
  PROVE  ReplyInv'
<1>1. CASE /\ pipeline = "building" /\ Submit(t, "waiting") /\ Count(t, {})
           /\ UNCHANGED <<request, verdict>>
  BY <1>1, ScanReply DEF Submit
<1>2. CASE Scan(t)
  BY <1>2, ScanReply DEF Scan, Submit, Goto
<1>3. CASE Answer(t, "block", {})
  BY <1>3, AnswerReply DEF Actions
<1> QED
  BY <1>1, <1>2, <1>3 DEF Inspect

LEMMA ReplyInvInductive == Spec => []ReplyInv
<1>1. Init => ReplyInv
  BY TasksDiffer DEF Init, ReplyInv, ReplyOf
<1>2. RequestInv /\ RequestInv' /\ ReplyInv /\ [Next]_vars => ReplyInv'
  <2> SUFFICES ASSUME RequestInv, RequestInv', ReplyInv, [Next]_vars PROVE ReplyInv'
    OBVIOUS
  <2>1. TypeInv /\ TypeInv'
    BY DEF RequestInv
  <2>2. CASE PipelineChanges \/ ModeChanges \/ UNCHANGED vars
    <3>1. UNCHANGED <<at, verdict, seen, reply, stats>>
      BY <2>2 DEF PipelineChanges, ModeChanges, vars, request
    <3> QED
      BY <3>1 DEF ReplyInv, ReplyOf
  <2>3. ASSUME NEW r \in Requests, Arrive(r)
        PROVE  ReplyInv'
    <3>1. /\ Request(r) \in Tasks /\ at[Request(r)] = "idle" /\ UNCHANGED <<seen, reply>>
          /\ \A q \in Requests : Request(r) # Response(q)
      BY <2>3, TasksDiffer DEF Arrive
    <3>2. CASE Pass(r)
      <4>1. /\ at' = [at EXCEPT ![Request(r)] = "over"]
            /\ UNCHANGED <<verdict, stats>>
        BY <3>2 DEF Pass
      <4>2. \A u \in Tasks \ {Request(r)} : at'[u] = at[u] /\ verdict'[u] = verdict[u]
        BY <4>1 DEF RequestInv, TypeInv
      <4> QED
        BY <2>1, <3>1, <4>1, <4>2, SameGrows, TaskFrame
    <3>3. CASE Inspect(Request(r))
      BY <2>1, <3>1, <3>3, InspectReply
    <3> QED
      BY <2>3, <3>2, <3>3 DEF Arrive
  <2>4. ASSUME NEW r \in Requests, HoldEnds(r)
        PROVE  ReplyInv'
    <3>1. /\ Request(r) \in Tasks /\ UNCHANGED <<verdict, seen, reply>>
          /\ \A q \in Requests : Request(r) # Response(q)
      BY <2>4, TasksDiffer DEF HoldEnds
    <3>2. /\ at' = [at EXCEPT ![Request(r)] = "over"]
          /\ \E keys : Count(Request(r), keys)
      BY <2>4 DEF HoldEnds, Approve, Refuse, Close, Goto
    <3>3. \A u \in Tasks \ {Request(r)} : at'[u] = at[u] /\ verdict'[u] = verdict[u]
      BY <2>1, <3>1, <3>2 DEF TypeInv
    <3>4. Grows
      BY <2>1, <3>2, CountGrows
    <3> QED
      BY <2>1, <3>1, <3>3, <3>4, TaskFrame
  <2>5. ASSUME NEW r \in Requests, ScanStarts(r)
        PROVE  ReplyInv'
    <3> DEFINE t == Response(r)
    <3>1. /\ t \in Tasks /\ at[t] = "created" /\ UNCHANGED <<seen, reply>>
          /\ \A q \in Requests : t = Response(q) <=> q = r
      BY <2>5, TasksDiffer DEF ScanStarts
    <3>2. ASSUME NEW counters, Ends(t, counters),
                 \/ reply[r] = "empty"
                 \/ reply[r] = "undecodable" /\ "response_scan_errors" \in counters
          PROVE  ReplyInv'
      <4>1. at' = [at EXCEPT ![t] = "over"] /\ Count(t, counters) /\ UNCHANGED verdict
        BY <3>2 DEF Ends, Goto
      <4>2. Grows /\ ("response_scan_errors" \in counters => stats'["response_scan_errors"] > 0)
        BY <2>1, <4>1, CountGrows DEF Counters
      <4>3. /\ at'[t] = "over"
            /\ \A u \in Tasks \ {t} : at'[u] = at[u] /\ verdict'[u] = verdict[u]
        BY <2>1, <3>1, <4>1 DEF TypeInv
      <4>4. stats["response_alerts"] \in Nat /\ stats'["response_alerts"] \in Nat
        BY <2>1 DEF TypeInv, Counters
      <4>5. ReplyOf(r)'
        BY <3>1, <3>2, <4>1, <4>2, <4>3, <4>4 DEF ReplyOf, ReplyInv, Grows
      <4> QED
        BY <2>1, <3>1, <4>2, <4>3, <4>5, TaskFrame
    <3>3. CASE reply[r] = "text" /\ Inspect(t)
      BY <2>1, <3>1, <3>3, InspectReply
    <3> QED
      BY <2>5, <3>2, <3>3 DEF ScanStarts
  <2>6. ASSUME NEW r \in Requests, NEW kind \in Replies, Deliver(r, kind)
        PROVE  ReplyInv'
    <3>1. /\ reply[r] = "none" /\ reply' = [reply EXCEPT ![r] = kind]
          /\ at' = IF kind = "cut" THEN at ELSE [at EXCEPT ![Response(r)] = "created"]
          /\ UNCHANGED <<verdict, seen, stats>>
      BY <2>6 DEF Deliver
    <3>2. at[Response(r)] = "idle"
      BY <3>1 DEF ReplyInv, ReplyOf
    <3>3. /\ reply'[r] = kind /\ kind # "none"
          /\ at'[Response(r)] \in {"idle", "created"}
      BY <2>1, <3>1, <3>2, TasksDiffer DEF TypeInv, Replies
    <3>4. ReplyOf(r)'
      BY <3>1, <3>3 DEF ReplyInv, ReplyOf
    <3>5. ASSUME NEW q \in Requests \ {r}
          PROVE  ReplyOf(q)'
      <4>1. at'[Response(q)] = at[Response(q)] /\ reply'[q] = reply[q]
        BY <2>1, <3>1, TasksDiffer DEF TypeInv
      <4> QED
        BY <2>1, <3>1, <4>1, SameGrows, ReplyFrame DEF ReplyInv
    <3> QED
      BY <3>4, <3>5 DEF ReplyInv
  <2>7. ASSUME NEW t \in Tasks, WaitEnds(t)
        PROVE  ReplyInv'
    <3>1. /\ at[t] = "waiting" /\ UNCHANGED <<seen, reply>>
          /\ \A r \in Requests : t = Response(r) => reply[r] = "text"
      BY <2>7 DEF WaitEnds, ReplyInv, ReplyOf
    <3>2. CASE Scan(t)
      BY <2>1, <3>1, <3>2, ScanReply DEF Scan, Submit, Goto
    <3>3. CASE Answer(t, "block", {})
      BY <2>1, <3>1, <3>3, AnswerReply DEF Actions
    <3> QED
      BY <2>7, <3>2, <3>3 DEF WaitEnds
  <2>8. ASSUME NEW t \in Tasks, ScanEnds(t)
        PROVE  ReplyInv'
    <3>1. PICK action \in Actions, values \in SUBSET Scanned(t) : Answer(t, action, values)
      BY <2>8 DEF ScanEnds
    <3>2. /\ at[t] = "scanning" /\ seen' = seen \cup {t} /\ UNCHANGED reply
          /\ \A r \in Requests : t = Response(r) => reply[r] = "text"
      BY <2>8 DEF ScanEnds, ReplyInv, ReplyOf
    <3>3. t \in seen' /\ seen \subseteq seen'
      BY <3>2
    <3>4. at[t] \in {"idle", "created", "waiting", "scanning"} /\ UNCHANGED reply
      BY <3>2
    <3> QED
      BY <2>1, <3>1, <3>2, <3>3, <3>4, AnswerReply
  <2> QED
    BY <2>2, <2>3, <2>4, <2>5, <2>6, <2>7, <2>8 DEF Next
<1> QED
  BY <1>1, <1>2, RequestInvInductive, PTL DEF Spec

(***************************************************************************)
(* Without an alert or a scan error, every reply with text whose scan is   *)
(* over was seen by the detectors and allowed.                             *)
(***************************************************************************)
THEOREM SilenceIsClean == Spec => []SilenceMeansClean
<1>1. RequestInv /\ ReplyInv => SilenceMeansClean
  <2> SUFFICES ASSUME RequestInv, ReplyInv,
                      stats["response_alerts"] + stats["response_scan_errors"] = 0,
                      NEW r \in Requests, at[Response(r)] = "over"
               PROVE  \/ reply[r] = "empty"
                      \/ Response(r) \in seen /\ verdict[Response(r)] = "allow"
    BY DEF SilenceMeansClean
  <2>1. stats["response_alerts"] \in Nat /\ stats["response_scan_errors"] \in Nat
    BY DEF RequestInv, TypeInv, Counters
  <2>2. ~(stats["response_alerts"] > 0) /\ ~(stats["response_scan_errors"] > 0)
    BY <2>1
  <2> QED
    BY <2>2 DEF ReplyInv, ReplyOf, Actions
<1> QED
  BY <1>1, RequestInvInductive, ReplyInvInductive, PTL
-----------------------------------------------------------------------------
(***************************************************************************)
(* The dashboard's counters.  The queue of jobs keeps its type; a reply    *)
(* has a verdict only when its scan is over, so each scan is counted once; *)
(* and what is inspected has text, so that request counts when it closes.  *)
(***************************************************************************)
QueueInv ==
  /\ pipeline \in {"building", "failed", "ready"}
  /\ approvalMode \in BOOLEAN
  /\ pool \in Seq(Tasks)
  /\ seen \subseteq Tasks

VerdictsComeLast ==
  \A r \in Requests : at[Response(r)] # "over" => verdict[Response(r)] = "none"

TextsAreInspected ==
  \A r \in Requests :
    /\ at[Request(r)] # "created"
    /\ at[Request(r)] \in {"waiting", "scanning", "held"} => body[r].shape # "silent"

CountInv == VerdictsComeLast /\ TextsAreInspected /\ CountersTell

LEMMA WithoutType ==
  ASSUME pool \in Seq(Tasks), NEW t \in Tasks
  PROVE  Without(t) \in Seq(Tasks) /\ Append(Without(t), t) \in Seq(Tasks)
<1>1. CASE t \in Range(pool)
  <2>1. PICK i \in DOMAIN pool : pool[i] = t
    BY <1>1 DEF Range
  <2> DEFINE j == CHOOSE k \in DOMAIN pool : pool[k] = t
  <2>2. j \in 1 .. Len(pool)
    BY <2>1
  <2>3. Without(t) = RemoveAt(pool, j)
    BY <1>1 DEF Without
  <2> HIDE DEF j
  <2>4. RemoveAt(pool, j) \in Seq(Tasks)
    BY <2>2 DEF RemoveAt
  <2> QED
    BY <2>3, <2>4
<1>2. CASE t \notin Range(pool)
  BY <1>2 DEF Without
<1> QED
  BY <1>1, <1>2

\* Steps of a task leave the queue a sequence of tasks.
LEMMA QueueStep ==
  ASSUME pool \in Seq(Tasks), NEW t \in Tasks,
         \/ \E next : Submit(t, next) \/ Goto(t, next)
         \/ UNCHANGED pool
  PROVE  pool' \in Seq(Tasks)
BY WithoutType DEF Submit, Goto

LEMMA AnswerQueue ==
  ASSUME pool \in Seq(Tasks), NEW t \in Tasks, NEW action, NEW values, Answer(t, action, values)
  PROVE  pool' \in Seq(Tasks)
<1>1. CASE t = Request(t[1])
  <2> DEFINE r == t[1]
  <2>1. Act(r, action, values)
    BY <1>1 DEF Answer
  <2>2. CASE Allow(r)
    BY <1>1, <2>2, QueueStep DEF Allow, Close
  <2>3. CASE Redact(r, values)
    BY <1>1, <2>3, QueueStep DEF Redact, Close
  <2>4. CASE Refuse(r)
    BY <1>1, <2>4, QueueStep DEF Refuse, Close
  <2>5. CASE Hold(r)
    BY <1>1, <2>5, QueueStep DEF Hold
  <2> QED
    BY <2>1, <2>2, <2>3, <2>4, <2>5 DEF Act
<1>2. CASE t # Request(t[1])
  <2>1. Goto(Response(t[1]), "over") /\ t = Response(t[1])
    BY <1>2, TaskIs DEF Answer, Report
  <2> QED
    BY <2>1, QueueStep
<1> QED
  BY <1>1, <1>2

LEMMA InspectQueue ==
  ASSUME pool \in Seq(Tasks), NEW t \in Tasks, Inspect(t)
  PROVE  pool' \in Seq(Tasks)
BY QueueStep, AnswerQueue DEF Inspect, Scan

LEMMA QueueInvInductive == Spec => []QueueInv
<1>1. Init => QueueInv
  BY DEF Init, QueueInv
<1>2. QueueInv /\ [Next]_vars => QueueInv'
  <2> SUFFICES ASSUME QueueInv, [Next]_vars PROVE QueueInv'
    OBVIOUS
  <2>1. pool \in Seq(Tasks)
    BY DEF QueueInv
  <2>2. CASE PipelineChanges
    BY <2>2 DEF PipelineChanges, QueueInv
  <2>3. CASE ModeChanges
    BY <2>3 DEF ModeChanges, QueueInv
  <2>4. CASE UNCHANGED vars
    BY <2>4 DEF vars, QueueInv
  <2>5. ASSUME NEW r \in Requests, Arrive(r)
        PROVE  QueueInv'
    <3>1. pool' \in Seq(Tasks)
      BY <2>1, <2>5, TasksDiffer, InspectQueue DEF Arrive, Pass
    <3> QED
      BY <2>5, <3>1 DEF Arrive, QueueInv
  <2>6. ASSUME NEW r \in Requests, HoldEnds(r)
        PROVE  QueueInv'
    <3>1. pool' \in Seq(Tasks)
      BY <2>1, <2>6, TasksDiffer, QueueStep DEF HoldEnds, Approve, Refuse, Close
    <3> QED
      BY <2>6, <3>1 DEF HoldEnds, QueueInv
  <2>7. ASSUME NEW r \in Requests, ScanStarts(r)
        PROVE  QueueInv'
    <3>1. pool' \in Seq(Tasks)
      BY <2>1, <2>7, TasksDiffer, QueueStep, InspectQueue DEF ScanStarts, Ends
    <3> QED
      BY <2>7, <3>1 DEF ScanStarts, QueueInv
  <2>8. ASSUME NEW r \in Requests, NEW kind \in Replies, Deliver(r, kind)
        PROVE  QueueInv'
    BY <2>8 DEF Deliver, QueueInv
  <2>9. ASSUME NEW t \in Tasks, WaitEnds(t)
        PROVE  QueueInv'
    <3>1. pool' \in Seq(Tasks)
      BY <2>1, <2>9, QueueStep, AnswerQueue DEF WaitEnds, Scan
    <3> QED
      BY <2>9, <3>1 DEF WaitEnds, QueueInv
  <2>10. ASSUME NEW t \in Tasks, ScanEnds(t)
        PROVE  QueueInv'
    <3>1. pool' \in Seq(Tasks)
      BY <2>1, <2>10, AnswerQueue DEF ScanEnds
    <3> QED
      BY <2>10, <3>1 DEF ScanEnds, QueueInv
  <2> QED
    BY <2>2, <2>3, <2>4, <2>5, <2>6, <2>7, <2>8, <2>9, <2>10 DEF Next
<1> QED
  BY <1>1, <1>2, PTL DEF Spec

\* The counters after a step that counts keys.
LEMMA CountIs ==
  ASSUME TypeInv, NEW t \in Tasks, NEW keys, Count(t, keys)
  PROVE  \A k \in Counters :
           /\ stats[k] \in Nat
           /\ stats'[k] = stats[k] + (IF k \in keys \cup Begins(t) THEN 1 ELSE 0)
BY DEF Count, TypeInv

LEMMA SetsAreFinite ==
  /\ IsFiniteSet(Refused) /\ IsFiniteSet(Cleared) /\ IsFiniteSet(InProgress)
  /\ IsFiniteSet(Alerted) /\ IsFiniteSet(Unread)
<1>1. \A S \in SUBSET Requests : IsFiniteSet(S)
  BY BrowserAssumption, FS_Subset
<1>2. /\ Refused \subseteq Requests /\ Cleared \subseteq Requests
      /\ InProgress \subseteq Requests /\ Alerted \subseteq Requests /\ Unread \subseteq Requests
  BY DEF Refused, Cleared, InProgress, Alerted, Unread
<1> QED
  BY <1>1, <1>2

(***************************************************************************)
(* What a set counts when a request may join it.                           *)
(***************************************************************************)
LEMMA JoinsIf ==
  ASSUME NEW S, IsFiniteSet(S), NEW r, r \notin S, NEW p \in BOOLEAN,
         NEW T, T = IF p THEN S \cup {r} ELSE S
  PROVE  Cardinality(S) \in Nat /\ Cardinality(T) = Cardinality(S) + (IF p THEN 1 ELSE 0)
<1>1. Cardinality(S) \in Nat
  BY FS_CardinalityType
<1>2. CASE p
  <2>1. Cardinality(S \cup {r}) = Cardinality(S) + 1
    BY FS_AddElement
  <2>2. T = S \cup {r}
    BY <1>2
  <2>3. (IF p THEN 1 ELSE 0) = 1
    BY <1>2
  <2> QED
    BY <1>1, <2>1, <2>2, <2>3
<1>3. CASE ~p
  <2>1. T = S
    BY <1>3
  <2>2. (IF p THEN 1 ELSE 0) = 0
    BY <1>3
  <2> QED
    BY <1>1, <2>1, <2>2
<1> QED
  BY <1>1, <1>2, <1>3

\* A step that counts nothing and moves no flow between the sets.
LEMMA SameCounts ==
  ASSUME CountersTell, UNCHANGED <<stats, Refused, Cleared, InProgress, Alerted, Unread>>
  PROVE  CountersTell'
BY DEF CountersTell

(***************************************************************************)
(* A step of request() for r, which is not over yet: r goes on, or is      *)
(* refused or sent and counted under one action.                           *)
(***************************************************************************)
RequestMoves(r) ==
  /\ at'[Request(r)] \in {"waiting", "scanning", "held"}
  /\ outcome'[r] = outcome[r]
  /\ Count(Request(r), {})

RequestCloses(r) ==
  /\ at'[Request(r)] = "over"
  /\ \/ outcome'[r] = "refused" /\ Count(Request(r), {"blocked"})
     \/ outcome'[r] = "sent" /\ \E k \in {"allowed", "redacted"} : Count(Request(r), {k})

\* What a step of another task leaves of request r, and of the reply to r.
RequestStays(r) ==
  outcome'[r] = outcome[r] /\ at'[Request(r)] = at[Request(r)] /\ body'[r].shape = body[r].shape

ReplyStays(r) ==
  /\ verdict'[Response(r)] = verdict[Response(r)]
  /\ at'[Response(r)] = at[Response(r)] /\ reply'[r] = reply[r]

LEMMA StaysOut ==
  ASSUME \A q \in Requests : ReplyStays(q)
  PROVE  UNCHANGED <<Alerted, Unread>> /\ (VerdictsComeLast => VerdictsComeLast')
<1>1. Alerted' = Alerted
  BY DEF Alerted, ReplyStays
<1>2. Unread' = Unread
  BY DEF Unread, ReplyStays
<1> QED
  BY <1>1, <1>2 DEF VerdictsComeLast, ReplyStays

LEMMA RequestCounts ==
  ASSUME TypeInv, CountersTell, NEW r \in Requests,
         at[Request(r)] \in {"idle", "waiting", "scanning", "held"}, outcome[r] = "none",
         body[r].shape # "silent", body'[r].shape = body[r].shape,
         RequestMoves(r) \/ RequestCloses(r),
         \A q \in Requests \ {r} : RequestStays(q),
         \A q \in Requests : ReplyStays(q)
  PROVE  CountersTell'
<1> DEFINE joins == at[Request(r)] = "idle"
<1>1. Request(r) \in Tasks
  BY TasksDiffer
<1>2. r \notin Refused /\ r \notin Cleared /\ (r \in InProgress <=> ~joins)
  BY DEF Refused, Cleared, InProgress
<1>3. Begins(Request(r)) = IF joins THEN {"inspected"} ELSE {}
  BY DEF Begins
<1>4. UNCHANGED <<Alerted, Unread>>
  BY StaysOut
<1> DEFINE n == Cardinality(InProgress)
           b == Cardinality(Refused)
           c == Cardinality(Cleared)
<1>5. n \in Nat /\ b \in Nat /\ c \in Nat
  BY SetsAreFinite, FS_CardinalityType
<1>6. \A q \in Requests \ {r} :
        /\ outcome'[q] = outcome[q] /\ at'[Request(q)] = at[Request(q)]
        /\ body'[q].shape = body[q].shape
  BY DEF RequestStays
<1>7. /\ \A k \in Counters : stats[k] \in Nat
      /\ stats["blocked"] = b /\ stats["allowed"] + stats["redacted"] = c
      /\ stats["inspected"] = stats["blocked"] + stats["allowed"] + stats["redacted"] + n
      /\ stats["response_alerts"] = Cardinality(Alerted)
      /\ stats["response_scan_errors"] = Cardinality(Unread)
  BY DEF CountersTell, TypeInv
<1>8. {"blocked", "allowed", "redacted", "inspected", "response_alerts",
       "response_scan_errors"} \subseteq Counters
  BY DEF Counters
<1>9. CASE RequestMoves(r)
  <2>1. Refused' = Refused /\ Cleared' = Cleared
    BY <1>6, <1>9 DEF Refused, Cleared, RequestMoves
  <2>2. InProgress' = InProgress \cup {r}
    BY <1>6, <1>9 DEF InProgress, RequestMoves
  <2>3. Cardinality(InProgress') = n + (IF joins THEN 1 ELSE 0)
    <3>1. CASE joins
      BY <1>2, <2>2, <3>1, SetsAreFinite, FS_AddElement
    <3>2. CASE ~joins
      <4>1. InProgress' = InProgress
        BY <1>2, <2>2, <3>2
      <4> QED
        BY <1>5, <3>2, <4>1
    <3> QED
      BY <3>1, <3>2
  <2>4. Count(Request(r), {})
    BY <1>9 DEF RequestMoves
  <2>5. /\ \A k \in Counters \ {"inspected"} : stats'[k] = stats[k]
        /\ stats'["inspected"] = stats["inspected"] + (IF joins THEN 1 ELSE 0)
    BY <1>1, <1>3, <1>7, <1>8, <2>4, CountIs
  <2> HIDE DEF joins, n, b, c
  <2>6. /\ stats'["blocked"] = b /\ stats'["allowed"] + stats'["redacted"] = c
        /\ stats'["inspected"] = stats'["blocked"] + stats'["allowed"] + stats'["redacted"]
                                   + (n + (IF joins THEN 1 ELSE 0))
        /\ stats'["response_alerts"] = stats["response_alerts"]
        /\ stats'["response_scan_errors"] = stats["response_scan_errors"]
    BY <1>5, <1>7, <1>8, <2>5
  <2> QED
    BY <1>4, <1>7, <2>1, <2>3, <2>6 DEF CountersTell, b, c
<1>10. CASE RequestCloses(r)
  <2> DEFINE refused == outcome'[r] = "refused"
  <2>1. /\ Refused' = IF refused THEN Refused \cup {r} ELSE Refused
        /\ Cleared' = IF refused THEN Cleared ELSE Cleared \cup {r}
    <3>1. Refused' = IF refused THEN Refused \cup {r} ELSE Refused
      BY <1>2, <1>6, <1>10 DEF Refused, RequestCloses
    <3>2. Cleared' = IF refused THEN Cleared ELSE Cleared \cup {r}
      BY <1>2, <1>6, <1>10 DEF Cleared, RequestCloses
    <3> QED
      BY <3>1, <3>2
  <2>2. InProgress' = InProgress \ {r}
    BY <1>6, <1>10 DEF InProgress, RequestCloses
  <2>3. Cardinality(InProgress') = n - (IF joins THEN 0 ELSE 1)
    <3>1. CASE ~joins
      BY <1>2, <2>2, <3>1, SetsAreFinite, FS_RemoveElement
    <3>2. CASE joins
      <4>1. InProgress' = InProgress
        BY <1>2, <2>2, <3>2
      <4> QED
        BY <1>5, <3>2, <4>1
    <3> QED
      BY <3>1, <3>2
  <2>4. /\ Cardinality(Refused') = b + (IF refused THEN 1 ELSE 0)
        /\ Cardinality(Cleared') = c + (IF refused THEN 0 ELSE 1)
    <3>1. Cardinality(Refused') = b + (IF refused THEN 1 ELSE 0)
      BY <1>2, <2>1, SetsAreFinite, JoinsIf
    <3>2. Cleared' = IF ~refused THEN Cleared \cup {r} ELSE Cleared
      BY <2>1
    <3>3. Cardinality(Cleared') = c + (IF ~refused THEN 1 ELSE 0)
      BY <1>2, <3>2, SetsAreFinite, JoinsIf
    <3> QED
      BY <3>1, <3>3
  <2>5. PICK k \in {"blocked", "allowed", "redacted"} :
          Count(Request(r), {k}) /\ (k = "blocked" <=> refused)
    BY <1>10 DEF RequestCloses
  <2>6. /\ \A j \in Counters \ {"inspected", k} : stats'[j] = stats[j]
        /\ stats'[k] = stats[k] + 1
        /\ stats'["inspected"] = stats["inspected"] + (IF joins THEN 1 ELSE 0)
    BY <1>1, <1>3, <1>7, <1>8, <2>5, CountIs
  <2>7. /\ stats'["response_alerts"] = stats["response_alerts"]
        /\ stats'["response_scan_errors"] = stats["response_scan_errors"]
    BY <1>8, <2>6
  <2> HIDE DEF joins, n, b, c, refused
  <2>8. /\ stats'["blocked"] = b + (IF refused THEN 1 ELSE 0)
        /\ stats'["allowed"] + stats'["redacted"] = c + (IF refused THEN 0 ELSE 1)
        /\ stats'["inspected"] = stats'["blocked"] + stats'["allowed"] + stats'["redacted"]
                                   + (n - (IF joins THEN 0 ELSE 1))
    <3>1. CASE k = "blocked"
      BY <1>5, <1>7, <1>8, <2>5, <2>6, <3>1
    <3>2. CASE k = "allowed"
      BY <1>5, <1>7, <1>8, <2>5, <2>6, <3>2
    <3>3. CASE k = "redacted"
      BY <1>5, <1>7, <1>8, <2>5, <2>6, <3>3
    <3> QED
      BY <3>1, <3>2, <3>3
  <2> QED
    BY <1>4, <1>7, <2>3, <2>4, <2>7, <2>8 DEF CountersTell
<1> QED
  BY <1>9, <1>10

(***************************************************************************)
(* A step of the scan of the reply to r, which is under way: it goes on or *)
(* ends, and an alert or an error of it is counted.                        *)
(***************************************************************************)
LEMMA ReplyCounts ==
  ASSUME TypeInv, CountersTell, VerdictsComeLast, NEW r \in Requests,
         at[Response(r)] \in {"created", "waiting", "scanning"},
         NEW keys \in {{}, {"response_alerts"}, {"response_scan_errors"}},
         Count(Response(r), keys), UNCHANGED reply,
         "response_alerts" \in keys <=> verdict'[Response(r)] \in {"redact", "block"},
         "response_scan_errors" \in keys
           <=> reply[r] = "undecodable" /\ at'[Response(r)] = "over",
         at'[Response(r)] # "over" => verdict'[Response(r)] = verdict[Response(r)],
         \A q \in Requests : RequestStays(q),
         \A q \in Requests \ {r} : ReplyStays(q)
  PROVE  CountersTell' /\ VerdictsComeLast'
<1>1. Response(r) \in Tasks /\ Begins(Response(r)) = {}
  BY TasksDiffer DEF Begins
<1>2. r \notin Alerted /\ r \notin Unread
  BY DEF Alerted, Unread, VerdictsComeLast
<1>3. Refused' = Refused
  BY DEF Refused, RequestStays
<1>4. Cleared' = Cleared
  BY DEF Cleared, RequestStays
<1>5. InProgress' = InProgress
  BY DEF InProgress, RequestStays
<1>6. Alerted' = IF "response_alerts" \in keys THEN Alerted \cup {r} ELSE Alerted
  BY <1>2 DEF Alerted, ReplyStays
<1>7. Unread' = IF "response_scan_errors" \in keys THEN Unread \cup {r} ELSE Unread
  BY <1>2 DEF Unread, ReplyStays
<1>8. /\ Cardinality(Alerted') =
           Cardinality(Alerted) + (IF "response_alerts" \in keys THEN 1 ELSE 0)
      /\ Cardinality(Unread') =
           Cardinality(Unread) + (IF "response_scan_errors" \in keys THEN 1 ELSE 0)
      /\ Cardinality(Alerted) \in Nat /\ Cardinality(Unread) \in Nat
  <2>1. /\ Cardinality(Alerted') =
             Cardinality(Alerted) + (IF "response_alerts" \in keys THEN 1 ELSE 0)
        /\ Cardinality(Alerted) \in Nat
    BY <1>2, <1>6, SetsAreFinite, JoinsIf
  <2>2. /\ Cardinality(Unread') =
             Cardinality(Unread) + (IF "response_scan_errors" \in keys THEN 1 ELSE 0)
        /\ Cardinality(Unread) \in Nat
    BY <1>2, <1>7, SetsAreFinite, JoinsIf
  <2> QED
    BY <2>1, <2>2
<1>9. \A k \in Counters :
        stats[k] \in Nat /\ stats'[k] = stats[k] + (IF k \in keys THEN 1 ELSE 0)
  BY <1>1, CountIs
<1>10. /\ \A k \in {"blocked", "allowed", "redacted", "inspected"} : stats'[k] = stats[k]
       /\ stats'["response_alerts"] =
            stats["response_alerts"] + (IF "response_alerts" \in keys THEN 1 ELSE 0)
       /\ stats'["response_scan_errors"] =
            stats["response_scan_errors"] + (IF "response_scan_errors" \in keys THEN 1 ELSE 0)
  BY <1>9 DEF Counters
<1>11. CountersTell'
  BY <1>3, <1>4, <1>5, <1>8, <1>10 DEF CountersTell
<1>12. VerdictsComeLast'
  BY DEF VerdictsComeLast, ReplyStays
<1> QED
  BY <1>11, <1>12

LEMMA RequestStep ==
  ASSUME TypeInv, OverInv, CountInv, NEW r \in Requests,
         at[Request(r)] \in {"idle", "waiting", "scanning", "held"},
         body[r].shape # "silent", body'[r].shape = body[r].shape,
         RequestMoves(r) \/ RequestCloses(r),
         \A q \in Requests \ {r} : RequestStays(q),
         \A q \in Requests : ReplyStays(q)
  PROVE  CountInv'
<1>1. outcome[r] = "none"
  BY DEF OverInv
<1>2. CountersTell'
  BY <1>1, RequestCounts DEF CountInv
<1>3. VerdictsComeLast'
  BY StaysOut DEF CountInv
<1>4. TextsAreInspected'
  BY DEF TextsAreInspected, CountInv, RequestStays, RequestMoves, RequestCloses
<1> QED
  BY <1>2, <1>3, <1>4 DEF CountInv

LEMMA ReplyStep ==
  ASSUME TypeInv, CountInv, NEW r \in Requests,
         at[Response(r)] \in {"created", "waiting", "scanning"},
         NEW keys \in {{}, {"response_alerts"}, {"response_scan_errors"}},
         Count(Response(r), keys), UNCHANGED reply,
         "response_alerts" \in keys <=> verdict'[Response(r)] \in {"redact", "block"},
         "response_scan_errors" \in keys
           <=> reply[r] = "undecodable" /\ at'[Response(r)] = "over",
         at'[Response(r)] # "over" => verdict'[Response(r)] = verdict[Response(r)],
         \A q \in Requests : RequestStays(q),
         \A q \in Requests \ {r} : ReplyStays(q)
  PROVE  CountInv'
<1>1. CountersTell' /\ VerdictsComeLast'
  BY ReplyCounts DEF CountInv
<1>2. TextsAreInspected'
  BY DEF TextsAreInspected, CountInv, RequestStays
<1> QED
  BY <1>1, <1>2 DEF CountInv

\* What a step of one task leaves alone.
LEMMA RequestAlone ==
  ASSUME TypeInv, NEW r \in Requests, NEW next,
         at' = [at EXCEPT ![Request(r)] = next],
         \A q \in Requests \ {r} : outcome'[q] = outcome[q] /\ body'[q] = body[q],
         \A u \in Tasks \ {Request(r)} : verdict'[u] = verdict[u],
         UNCHANGED reply
  PROVE  /\ \A q \in Requests \ {r} : RequestStays(q)
         /\ \A q \in Requests : ReplyStays(q)
         /\ at'[Request(r)] = next
BY TasksDiffer DEF TypeInv, RequestStays, ReplyStays

LEMMA ReplyAlone ==
  ASSUME TypeInv, NEW r \in Requests, NEW next,
         at' = [at EXCEPT ![Response(r)] = next],
         \A u \in Tasks \ {Response(r)} : verdict'[u] = verdict[u],
         UNCHANGED <<outcome, body, reply>>
  PROVE  /\ \A q \in Requests : RequestStays(q)
         /\ \A q \in Requests \ {r} : ReplyStays(q)
         /\ at'[Response(r)] = next
BY TasksDiffer DEF TypeInv, RequestStays, ReplyStays

(***************************************************************************)
(* request() ends for r.                                                   *)
(***************************************************************************)
LEMMA CloseCounts ==
  ASSUME TypeInv, OverInv, CountInv, NEW r \in Requests,
         NEW end \in {"sent", "refused"}, NEW action, NEW counter,
         end = "refused" => counter = "blocked",
         end = "sent" => counter \in {"allowed", "redacted"},
         Close(r, end, action, counter),
         at[Request(r)] \in {"idle", "waiting", "scanning", "held"},
         body[r].shape # "silent", body'[r].shape = body[r].shape,
         \A q \in Requests \ {r} : body'[q] = body[q],
         \A u \in Tasks \ {Request(r)} : verdict'[u] = verdict[u],
         UNCHANGED reply
  PROVE  CountInv'
<1>1. /\ at' = [at EXCEPT ![Request(r)] = "over"]
      /\ outcome' = [outcome EXCEPT ![r] = end]
      /\ Count(Request(r), {counter})
  BY DEF Close, Goto
<1>2. outcome'[r] = end /\ \A q \in Requests \ {r} : outcome'[q] = outcome[q]
  BY <1>1 DEF TypeInv
<1>3. /\ \A q \in Requests \ {r} : RequestStays(q)
      /\ \A q \in Requests : ReplyStays(q)
      /\ at'[Request(r)] = "over"
  BY <1>1, <1>2, RequestAlone
<1>4. RequestCloses(r)
  BY <1>1, <1>2, <1>3 DEF RequestCloses
<1> QED
  BY <1>3, <1>4, RequestStep

\* A task goes on and is not over.
LEMMA MoveCounts ==
  ASSUME TypeInv, OverInv, CountInv, NEW t \in Tasks,
         NEW next \in {"waiting", "scanning", "held"},
         \A r \in Requests :
           /\ t = Request(r) => /\ at[t] \in {"idle", "waiting", "scanning", "held"}
                                /\ body[r].shape # "silent"
           /\ t = Response(r) => at[t] \in {"created", "waiting", "scanning"}
                                 /\ verdict' = verdict,
         at' = [at EXCEPT ![t] = next], Count(t, {}),
         \A u \in Tasks \ {t} : verdict'[u] = verdict[u],
         UNCHANGED <<outcome, body, reply>>
  PROVE  CountInv'
<1>1. ASSUME NEW r \in Requests, t = Request(r)
      PROVE  CountInv'
  <2>1. /\ \A q \in Requests \ {r} : RequestStays(q)
        /\ \A q \in Requests : ReplyStays(q)
        /\ at'[Request(r)] = next
    BY <1>1, RequestAlone
  <2>2. RequestMoves(r)
    BY <1>1, <2>1 DEF RequestMoves
  <2> QED
    BY <1>1, <2>1, <2>2, RequestStep
<1>2. ASSUME NEW r \in Requests, t = Response(r)
      PROVE  CountInv'
  <2>1. /\ \A q \in Requests : RequestStays(q)
        /\ \A q \in Requests \ {r} : ReplyStays(q)
        /\ at'[Response(r)] = next
    BY <1>2, ReplyAlone
  <2>2. verdict[Response(r)] = "none" /\ verdict' = verdict
    BY <1>2 DEF CountInv, VerdictsComeLast
  <2>3. /\ at[Response(r)] \in {"created", "waiting", "scanning"}
        /\ Count(Response(r), {}) /\ {} \in {{}, {"response_alerts"}, {"response_scan_errors"}}
        /\ "response_alerts" \in {} <=> verdict'[Response(r)] \in {"redact", "block"}
        /\ "response_scan_errors" \in {}
             <=> reply[r] = "undecodable" /\ at'[Response(r)] = "over"
    BY <1>2, <2>1, <2>2
  <2> HIDE <1>2
  <2> QED
    BY <2>1, <2>2, <2>3, ReplyStep
<1> QED
  BY <1>1, <1>2, TaskIs

(***************************************************************************)
(* An answer of _inspect.                                                  *)
(***************************************************************************)
LEMMA AnswerCounts ==
  ASSUME TypeInv, OverInv, CountInv, NEW t \in Tasks, NEW action \in Actions,
         NEW values \in SUBSET Values,
         \A r \in Requests :
           /\ t = Request(r) => /\ at[t] \in {"idle", "waiting", "scanning"}
                                /\ body[r].shape # "silent"
           /\ t = Response(r) => /\ at[t] \in {"created", "waiting", "scanning"}
                                 /\ reply[r] = "text",
         Answer(t, action, values), UNCHANGED reply
  PROVE  CountInv'
<1>1. verdict' = [verdict EXCEPT ![t] = action]
  BY DEF Answer
<1>2. verdict'[t] = action /\ \A u \in Tasks \ {t} : verdict'[u] = verdict[u]
  BY <1>1 DEF TypeInv
<1>3. ASSUME NEW r \in Requests, t = Request(r)
      PROVE  CountInv'
  <2>1. Act(r, action, values)
    BY <1>3, TasksDiffer DEF Answer
  <2>2. body[r] \in Bodies /\ body[r].shape # "silent"
    BY <1>3 DEF TypeInv
  <2>3. CASE Allow(r)
    BY <1>2, <1>3, <2>2, <2>3, CloseCounts DEF Allow
  <2>4. CASE Redact(r, values)
    <3>1. body'[r] = Redacted(body[r], values) /\ \A q \in Requests \ {r} : body'[q] = body[q]
      BY <2>4 DEF Redact, TypeInv
    <3>2. body'[r].shape = body[r].shape
      BY <2>2, <3>1, RedactedBody
    <3> QED
      BY <1>2, <1>3, <2>2, <2>4, <3>1, <3>2, CloseCounts DEF Redact
  <2>5. CASE Refuse(r)
    <3>1. Close(r, "refused", "blocked", "blocked") /\ UNCHANGED body
      BY <2>5 DEF Refuse
    <3>2. at[Request(r)] \in {"idle", "waiting", "scanning", "held"}
      BY <1>3
    <3>3. \A u \in Tasks \ {Request(r)} : verdict'[u] = verdict[u]
      BY <1>2, <1>3
    <3> QED
      BY <2>2, <3>1, <3>2, <3>3, CloseCounts
  <2>6. CASE Hold(r)
    <3>1. /\ at' = [at EXCEPT ![t] = "held"] /\ Count(t, {})
          /\ UNCHANGED <<outcome, body, reply>>
      BY <1>3, <2>6 DEF Hold, Submit
    <3>2. \A q \in Requests : t = Response(q) => FALSE
      BY <1>3, TasksDiffer
    <3> QED
      BY <1>2, <3>1, <3>2, MoveCounts
  <2> QED
    BY <2>1, <2>3, <2>4, <2>5, <2>6 DEF Act
<1>4. ASSUME NEW r \in Requests, t = Response(r)
      PROVE  CountInv'
  <2> DEFINE keys == IF action = "allow" THEN {} ELSE {"response_alerts"}
  <2>1. Report(r, action)
    BY <1>4, TasksDiffer DEF Answer
  <2>2. /\ at' = [at EXCEPT ![Response(r)] = "over"]
        /\ UNCHANGED <<outcome, body>> /\ Count(Response(r), keys)
    BY <2>1 DEF Report, Goto, request
  <2>3. /\ \A q \in Requests : RequestStays(q)
        /\ \A q \in Requests \ {r} : ReplyStays(q)
        /\ at'[Response(r)] = "over"
    BY <1>2, <1>4, <2>2, ReplyAlone
  <2>4. /\ keys \in {{}, {"response_alerts"}, {"response_scan_errors"}}
        /\ "response_alerts" \in keys <=> verdict'[Response(r)] \in {"redact", "block"}
        /\ "response_scan_errors" \in keys
             <=> reply[r] = "undecodable" /\ at'[Response(r)] = "over"
    BY <1>2, <1>4 DEF Actions
  <2>5. at[Response(r)] \in {"created", "waiting", "scanning"}
    BY <1>4
  <2> HIDE DEF keys
  <2> QED
    BY <2>2, <2>3, <2>4, <2>5, ReplyStep
<1> QED
  BY <1>3, <1>4, TaskIs

\* Going on to the detectors, or to the wait for the pipeline.
LEMMA InspectCounts ==
  ASSUME TypeInv, OverInv, CountInv, NEW t \in Tasks,
         \A r \in Requests :
           /\ t = Request(r) => at[t] \in {"idle", "waiting"} /\ body[r].shape # "silent"
           /\ t = Response(r) => at[t] \in {"created", "waiting"} /\ reply[r] = "text",
         \/ Scan(t)
         \/ Submit(t, "waiting") /\ Count(t, {}) /\ UNCHANGED <<request, verdict>>
         \/ Answer(t, "block", {}),
         UNCHANGED reply
  PROVE  CountInv'
<1>1. CASE Answer(t, "block", {})
  <2>1. "block" \in Actions /\ {} \in SUBSET Values
    BY DEF Actions
  <2>2. \A r \in Requests :
          /\ t = Request(r) => /\ at[t] \in {"idle", "waiting", "scanning"}
                               /\ body[r].shape # "silent"
          /\ t = Response(r) => /\ at[t] \in {"created", "waiting", "scanning"}
                                /\ reply[r] = "text"
    OBVIOUS
  <2> QED
    BY <1>1, <2>1, <2>2, AnswerCounts
<1>2. CASE \/ Scan(t)
           \/ Submit(t, "waiting") /\ Count(t, {}) /\ UNCHANGED <<request, verdict>>
  <2>1. PICK next \in {"waiting", "scanning", "held"} : at' = [at EXCEPT ![t] = next]
    BY <1>2 DEF Scan, Submit, Goto
  <2>2. Count(t, {}) /\ UNCHANGED <<outcome, body, reply, verdict>>
    BY <1>2 DEF Scan, request
  <2>3. \A r \in Requests :
          /\ t = Request(r) => /\ at[t] \in {"idle", "waiting", "scanning", "held"}
                               /\ body[r].shape # "silent"
          /\ t = Response(r) => at[t] \in {"created", "waiting", "scanning"} /\ verdict' = verdict
    BY <2>2
  <2>4. \A u \in Tasks \ {t} : verdict'[u] = verdict[u]
    BY <2>2
  <2> QED
    BY <2>1, <2>2, <2>3, <2>4, MoveCounts
<1> QED
  BY <1>1, <1>2

LEMMA CountInvInductive == Spec => []CountInv
<1>1. Init => CountInv
  <2> SUFFICES ASSUME Init PROVE CountInv
    OBVIOUS
  <2>1. VerdictsComeLast /\ TextsAreInspected
    BY TasksDiffer DEF Init, VerdictsComeLast, TextsAreInspected
  <2>2. /\ Refused = {} /\ Cleared = {} /\ InProgress = {} /\ Alerted = {} /\ Unread = {}
    BY TasksDiffer DEF Init, Refused, Cleared, InProgress, Alerted, Unread
  <2>3. \A k \in Counters : stats[k] = 0
    BY DEF Init
  <2>4. CountersTell
    BY <2>2, <2>3, FS_EmptySet DEF CountersTell, Counters
  <2> QED
    BY <2>1, <2>4 DEF CountInv
<1>2. RequestInv /\ ReplyInv /\ CountInv /\ [Next]_vars => CountInv'
  <2> SUFFICES ASSUME RequestInv, ReplyInv, CountInv, [Next]_vars PROVE CountInv'
    OBVIOUS
  <2>1. TypeInv /\ OverInv
    BY DEF RequestInv
  <2>2. CASE PipelineChanges \/ ModeChanges \/ UNCHANGED vars
    <3>1. UNCHANGED <<at, verdict, outcome, body, reply, stats>>
      BY <2>2 DEF PipelineChanges, ModeChanges, vars, request
    <3>2. UNCHANGED <<Refused, Cleared, InProgress, Alerted, Unread>>
      BY <3>1 DEF Refused, Cleared, InProgress, Alerted, Unread
    <3>3. CountersTell'
      BY <3>1, <3>2, SameCounts DEF CountInv
    <3> QED
      BY <3>1, <3>3 DEF CountInv, VerdictsComeLast, TextsAreInspected
  <2>3. ASSUME NEW r \in Requests, Arrive(r)
        PROVE  CountInv'
    <3>1. Request(r) \in Tasks /\ at[Request(r)] = "idle" /\ UNCHANGED reply
      BY <2>3, TasksDiffer DEF Arrive
    <3>2. CASE body[r].shape = "silent" /\ Pass(r)
      <4>1. /\ at' = [at EXCEPT ![Request(r)] = "over"]
            /\ outcome' = [outcome EXCEPT ![r] = "sent"]
            /\ UNCHANGED <<body, verdict, stats>>
        BY <3>2 DEF Pass
      <4>2. outcome'[r] = "sent" /\ \A q \in Requests \ {r} : outcome'[q] = outcome[q]
        BY <2>1, <4>1 DEF TypeInv
      <4>3. /\ \A q \in Requests \ {r} : RequestStays(q)
            /\ \A q \in Requests : ReplyStays(q)
            /\ at'[Request(r)] = "over"
        BY <2>1, <3>1, <4>1, <4>2, RequestAlone
      <4>4. UNCHANGED <<Alerted, Unread>> /\ VerdictsComeLast'
        BY <4>3, StaysOut DEF CountInv
      <4>5. outcome[r] = "none"
        BY <2>1, <3>1 DEF OverInv
      <4>6. Refused' = Refused
        BY <4>2, <4>5 DEF Refused
      <4>7. Cleared' = Cleared
        BY <3>2, <4>1, <4>2 DEF Cleared
      <4>8. InProgress' = InProgress
        BY <3>1, <4>3 DEF InProgress, RequestStays
      <4>9. CountersTell'
        BY <4>1, <4>4, <4>6, <4>7, <4>8, SameCounts DEF CountInv
      <4>10. TextsAreInspected'
        BY <4>3 DEF CountInv, TextsAreInspected, RequestStays
      <4> QED
        BY <4>4, <4>9, <4>10 DEF CountInv
    <3>3. CASE body[r].shape # "silent" /\ Inspect(Request(r))
      <4>1. \A q \in Requests :
              /\ Request(r) = Request(q) => /\ at[Request(r)] \in {"idle", "waiting"}
                                            /\ body[q].shape # "silent"
              /\ Request(r) # Response(q)
        BY <3>1, <3>3, TasksDiffer
      <4> QED
        BY <2>1, <3>1, <3>3, <4>1, InspectCounts DEF Inspect
    <3> QED
      BY <2>3, <3>2, <3>3 DEF Arrive
  <2>4. ASSUME NEW r \in Requests, HoldEnds(r)
        PROVE  CountInv'
    <3>1. at[Request(r)] = "held" /\ UNCHANGED <<body, verdict, reply>>
      BY <2>4 DEF HoldEnds, Approve, Refuse
    <3>2. body[r].shape # "silent"
      BY <3>1 DEF CountInv, TextsAreInspected
    <3>3. \/ Close(r, "sent", "approved", "allowed")
          \/ Close(r, "refused", "blocked", "blocked")
      BY <2>4 DEF HoldEnds, Approve, Refuse
    <3> QED
      BY <2>1, <3>1, <3>2, <3>3, CloseCounts
  <2>5. ASSUME NEW r \in Requests, ScanStarts(r)
        PROVE  CountInv'
    <3>1. Response(r) \in Tasks /\ at[Response(r)] = "created" /\ UNCHANGED reply
      BY <2>5, TasksDiffer DEF ScanStarts
    <3>2. ASSUME NEW keys \in {{}, {"response_scan_errors"}}, Ends(Response(r), keys),
                 "response_scan_errors" \in keys <=> reply[r] = "undecodable"
          PROVE  CountInv'
      <4>1. /\ at' = [at EXCEPT ![Response(r)] = "over"] /\ Count(Response(r), keys)
            /\ UNCHANGED <<outcome, body, verdict>>
        BY <3>2 DEF Ends, Goto, request
      <4>2. /\ \A q \in Requests : RequestStays(q)
            /\ \A q \in Requests \ {r} : ReplyStays(q)
            /\ at'[Response(r)] = "over"
        BY <2>1, <3>1, <4>1, ReplyAlone
      <4>3. verdict'[Response(r)] = "none"
        BY <3>1, <4>1 DEF CountInv, VerdictsComeLast
      <4>4. /\ keys \in {{}, {"response_alerts"}, {"response_scan_errors"}}
            /\ "response_alerts" \in keys <=> verdict'[Response(r)] \in {"redact", "block"}
            /\ "response_scan_errors" \in keys
                 <=> reply[r] = "undecodable" /\ at'[Response(r)] = "over"
            /\ at'[Response(r)] # "over" => verdict'[Response(r)] = verdict[Response(r)]
            /\ at[Response(r)] \in {"created", "waiting", "scanning"}
        BY <3>1, <3>2, <4>2, <4>3
      <4> QED
        BY <2>1, <3>1, <4>1, <4>2, <4>4, ReplyStep
    <3>3. CASE reply[r] = "text" /\ Inspect(Response(r))
      <4>1. \A q \in Requests :
              /\ Response(r) # Request(q)
              /\ Response(r) = Response(q) => /\ at[Response(r)] \in {"created", "waiting"}
                                              /\ reply[q] = "text"
        BY <3>1, <3>3, TasksDiffer
      <4> QED
        BY <2>1, <3>1, <3>3, <4>1, InspectCounts DEF Inspect
    <3>4. CASE reply[r] = "undecodable" /\ Ends(Response(r), {"response_scan_errors"})
      BY <3>2, <3>4
    <3>5. CASE reply[r] = "empty" /\ Ends(Response(r), {})
      BY <3>2, <3>5
    <3> QED
      BY <2>5, <3>3, <3>4, <3>5 DEF ScanStarts
  <2>6. ASSUME NEW r \in Requests, NEW kind \in Replies, Deliver(r, kind)
        PROVE  CountInv'
    <3>1. /\ reply[r] = "none" /\ reply' = [reply EXCEPT ![r] = kind]
          /\ at' = IF kind = "cut" THEN at ELSE [at EXCEPT ![Response(r)] = "created"]
          /\ UNCHANGED <<verdict, outcome, body, stats>>
      BY <2>6 DEF Deliver, request
    <3>2. at[Response(r)] = "idle"
      BY <3>1 DEF ReplyInv, ReplyOf
    <3>3. /\ at'[Response(r)] \in {"idle", "created"}
          /\ \A u \in Tasks \ {Response(r)} : at'[u] = at[u]
          /\ \A q \in Requests \ {r} : reply'[q] = reply[q]
      BY <2>1, <3>1, <3>2, TasksDiffer DEF TypeInv
    <3>4. \A q \in Requests :
            /\ at'[Request(q)] = at[Request(q)]
            /\ at'[Response(q)] = "over" <=> at[Response(q)] = "over"
            /\ at[Response(q)] = "over" => reply'[q] = reply[q]
      BY <3>2, <3>3, TasksDiffer
    <3>5. Refused' = Refused
      BY <3>1 DEF Refused
    <3>6. Cleared' = Cleared
      BY <3>1 DEF Cleared
    <3>7. InProgress' = InProgress
      BY <3>4 DEF InProgress
    <3>8. Alerted' = Alerted
      BY <3>1 DEF Alerted
    <3>9. Unread' = Unread
      BY <3>4 DEF Unread
    <3>10. CountersTell'
      BY <3>1, <3>5, <3>6, <3>7, <3>8, <3>9, SameCounts DEF CountInv
    <3> QED
      BY <3>1, <3>4, <3>10 DEF CountInv, VerdictsComeLast, TextsAreInspected
  <2>7. ASSUME NEW t \in Tasks, WaitEnds(t)
        PROVE  CountInv'
    <3>1. at[t] = "waiting" /\ UNCHANGED reply /\ (Scan(t) \/ Answer(t, "block", {}))
      BY <2>7 DEF WaitEnds
    <3>2. \A r \in Requests :
            /\ t = Request(r) => at[t] \in {"idle", "waiting"} /\ body[r].shape # "silent"
            /\ t = Response(r) => at[t] \in {"created", "waiting"} /\ reply[r] = "text"
      BY <3>1 DEF CountInv, TextsAreInspected, ReplyInv, ReplyOf
    <3> QED
      BY <2>1, <3>1, <3>2, InspectCounts
  <2>8. ASSUME NEW t \in Tasks, ScanEnds(t)
        PROVE  CountInv'
    <3>1. PICK action \in Actions, values \in SUBSET Scanned(t) : Answer(t, action, values)
      BY <2>8 DEF ScanEnds
    <3>2. at[t] = "scanning" /\ UNCHANGED reply
      BY <2>8 DEF ScanEnds
    <3>3. values \in SUBSET Values
      BY <2>1, TaskIs DEF Scanned, Content, TypeInv, Bodies
    <3>4. \A r \in Requests :
            /\ t = Request(r) => /\ at[t] \in {"idle", "waiting", "scanning"}
                                 /\ body[r].shape # "silent"
            /\ t = Response(r) => /\ at[t] \in {"created", "waiting", "scanning"}
                                  /\ reply[r] = "text"
      BY <3>2 DEF CountInv, TextsAreInspected, ReplyInv, ReplyOf
    <3> QED
      BY <2>1, <3>1, <3>2, <3>3, <3>4, AnswerCounts
  <2> QED
    BY <2>2, <2>3, <2>4, <2>5, <2>6, <2>7, <2>8 DEF Next
<1> QED
  BY <1>1, <1>2, RequestInvInductive, ReplyInvInductive, PTL DEF Spec

(***************************************************************************)
(* For any number of flows, every counter of the dashboard equals the      *)
(* number of flows it tells of: each inspected request is in progress,     *)
(* refused or sent, and each alert and each scan error is counted once.    *)
(***************************************************************************)
THEOREM CountsHold == Spec => []CountsAreSound
<1>1. RequestInv /\ QueueInv /\ CountInv => CountsAreSound
  <2> SUFFICES ASSUME RequestInv, QueueInv, CountInv PROVE CountsAreSound
    OBVIOUS
  <2>1. TypeOK
    BY DEF RequestInv, TypeInv, QueueInv, TypeOK
  <2> QED
    BY <2>1 DEF CountInv, CountsAreSound
<1> QED
  BY <1>1, RequestInvInductive, QueueInvInductive, CountInvInductive, PTL

=============================================================================
