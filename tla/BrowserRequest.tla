-------------------------- MODULE BrowserRequest --------------------------
(***************************************************************************)
(* The interceptor's hooks: request() inspects what a browser sends to a   *)
(* provider and blocks it, rewrites it, holds it for the user, or lets it  *)
(* go; response() has a copy of the reply scanned once it was delivered.   *)
(*                                                                         *)
(* All hooks and scans are tasks of one event loop, so what one does       *)
(* between two awaits is one step.  What would block the loop is a job of  *)
(* its thread pool: waiting for the pipeline, the offloaded detectors, and *)
(* holding a request until the user has decided.  A job queues while all   *)
(* workers are busy.                                                       *)
(*                                                                         *)
(* Left to the modules that have the detail: how the pipeline is built and *)
(* rebuilt (DetectorLifecycle), which action findings call for (Policy),   *)
(* and how an approval comes to its answer (Approvals).                    *)
(***************************************************************************)
EXTENDS Naturals, Sequences, FiniteSets, SequencesExt

CONSTANTS
  Requests,
  Values,      \* sensitive values
  Incoming,    \* the bodies that browsers send
  Workers      \* max_workers of the loop's default executor

(***************************************************************************)
(* Bodies.  "prose": JSON whose last user message is a string.  "parts":   *)
(* every other body text is found in (message parts, contents, a prompt    *)
(* field, forms, uploads).  "silent": nothing is found in it, it has no    *)
(* body or another method, path or host, or an extractor raises, which     *)
(* mitmproxy logs and passes over.                                         *)
(* text and files are the sensitive values of the text that is found and   *)
(* of files embedded in the body.                                          *)
(***************************************************************************)
Shapes == {"prose", "parts", "silent"}
Bodies == [shape : Shapes, text : SUBSET Values, files : SUBSET Values]

ASSUME BrowserAssumption ==
  Incoming \subseteq Bodies /\ Workers \in Nat \ {0} /\ IsFiniteSet(Requests)

Content(b) == b.text \cup b.files

\* "empty": nothing to extract, or not an API reply of a conversation path.
\* "cut": the connection broke before the reply was complete.
Replies == {"text", "empty", "undecodable", "cut"}

Actions == {"allow", "redact", "block"}

\* The request hook and the response scan of each flow.
Tasks == Requests \X {"request", "response"}

Request(r)  == <<r, "request">>
Response(r) == <<r, "response">>

VARIABLES
  pipeline,     \* "building", "failed" or "ready"
  approvalMode, \* approval_mode in the configuration file
  pool,         \* jobs of the thread pool; the first Workers of them run
  at,           \* where each task is
  body,         \* what each request carries
  found,        \* the values its findings name
  verdict,      \* the action _inspect returned to each task
  seen,         \* history: tasks whose text the detectors had
  outcome,      \* what became of a request: "none", "sent" or "refused"
  logged,       \* the action its entry in the request log names
  reply,        \* the reply that was delivered
  stats         \* _stats

request == <<body, found, outcome, logged>>
vars    == <<pipeline, approvalMode, pool, at, request, verdict, seen, reply, stats>>

Counters == {"inspected", "blocked", "redacted", "allowed",
             "response_alerts", "response_scan_errors"}

Init ==
  /\ pipeline = "building"
  /\ approvalMode \in BOOLEAN
  /\ pool = <<>>
  /\ at = [t \in Tasks |-> "idle"]
  /\ body \in [Requests -> Incoming]
  /\ found = [r \in Requests |-> {}]
  /\ verdict = [t \in Tasks |-> "none"]
  /\ seen = {}
  /\ outcome = [r \in Requests |-> "none"]
  /\ logged = [r \in Requests |-> "none"]
  /\ reply = [r \in Requests |-> "none"]
  /\ stats = [k \in Counters |-> 0]

-----------------------------------------------------------------------------
(***************************************************************************)
(* The pipeline is built, or its construction fails and is repaired.       *)
(***************************************************************************)
PipelineChanges ==
  /\ \/ pipeline = "building" /\ pipeline' \in {"failed", "ready"}
     \/ pipeline = "failed" /\ pipeline' = "ready"
  /\ UNCHANGED <<approvalMode, pool, at, request, verdict, seen, reply, stats>>

\* The dashboard switches approval_mode.
ModeChanges ==
  /\ approvalMode' = ~approvalMode
  /\ UNCHANGED <<pipeline, pool, at, request, verdict, seen, reply, stats>>

-----------------------------------------------------------------------------
(***************************************************************************)
(* Tasks and the jobs they wait for, first come first served.  A task      *)
(* waits for one job at a time.                                            *)
(***************************************************************************)
Without(t) ==
  IF t \in Range(pool) THEN RemoveAt(pool, CHOOSE i \in DOMAIN pool : pool[i] = t) ELSE pool

\* The job t waits for, if it is one of the pool's, has a worker.
Runs(t) == \A i \in 1..Len(pool) : pool[i] = t => i <= Workers

\* Task t goes on to a job of the pool, or to something else.
Submit(t, next) == at' = [at EXCEPT ![t] = next] /\ pool' = Append(Without(t), t)
Goto(t, next)   == at' = [at EXCEPT ![t] = next] /\ pool' = Without(t)

(***************************************************************************)
(* A step of task t counts keys, and "inspected" if request() begins.      *)
(***************************************************************************)
Begins(t) == IF at[t] = "idle" THEN {"inspected"} ELSE {}

Count(t, keys) ==
  stats' = [k \in Counters |-> stats[k] + (IF k \in keys \cup Begins(t) THEN 1 ELSE 0)]

-----------------------------------------------------------------------------
(***************************************************************************)
(* How request() ends.                                                     *)
(***************************************************************************)
Close(r, end, action, counter) ==
  /\ Goto(Request(r), "over")
  /\ outcome' = [outcome EXCEPT ![r] = end]
  /\ logged' = [logged EXCEPT ![r] = action]
  /\ Count(Request(r), {counter})

Allow(r) == Close(r, "sent", "allowed", "allowed") /\ UNCHANGED body

\* Mutant: what was held counts as blocked.
ApproveCountedBlocked(r) == Close(r, "sent", "approved", "blocked") /\ UNCHANGED body

Approve(r) == Close(r, "sent", "approved", "allowed") /\ UNCHANGED body

\* Mutant: the log gets the name of the verdict.
RefuseNamedBlock(r) == Close(r, "refused", "block", "blocked") /\ UNCHANGED body

Refuse(r) == Close(r, "refused", "blocked", "blocked") /\ UNCHANGED body

\* Mutant: the message is replaced by the text that was inspected.
RedactedToContent(b, values) ==
  IF b.shape = "prose" THEN [b EXCEPT !.text = Content(b)] ELSE b

(***************************************************************************)
(* _redact_request: the redacted text becomes the last user message if     *)
(* that is a string.  The text inspected was the message followed by the   *)
(* text of the files, and the files themselves stay.                       *)
(***************************************************************************)
Redacted(b, values) ==
  IF b.shape = "prose" THEN [b EXCEPT !.text = Content(b) \ values] ELSE b

Redact(r, values) ==
  /\ Close(r, "sent", "redacted", "redacted")
  /\ body' = [body EXCEPT ![r] = Redacted(@, values)]

Hold(r) ==
  /\ Submit(Request(r), "held") /\ Count(Request(r), {})
  /\ UNCHANGED <<body, outcome, logged>>

(***************************************************************************)
(* What the two callers of _inspect do with its answer.                    *)
(***************************************************************************)
Act(r, action, values) ==
  /\ found' = [found EXCEPT ![r] = values]
  /\ \/ action = "allow" /\ Allow(r)
     \/ action = "redact" /\ Redact(r, values)
     \/ action = "block" /\ ~approvalMode /\ Refuse(r)
     \/ action = "block" /\ approvalMode /\ Hold(r)

Report(r, action) ==
  /\ Goto(Response(r), "over")
  /\ Count(Response(r), IF action = "allow" THEN {} ELSE {"response_alerts"})
  /\ UNCHANGED request

Answer(t, action, values) ==
  /\ verdict' = [verdict EXCEPT ![t] = action]
  /\ IF t = Request(t[1]) THEN Act(t[1], action, values) ELSE Report(t[1], action)

-----------------------------------------------------------------------------
(***************************************************************************)
(* _inspect: wait for the pipeline, block if there is none, and let the    *)
(* detectors see the text; some await the pool and some do not.            *)
(***************************************************************************)
Scan(t) ==
  /\ Submit(t, "scanning") \/ Goto(t, "scanning")
  /\ Count(t, {})
  /\ UNCHANGED <<request, verdict>>

Inspect(t) ==
  \/ /\ pipeline = "building" /\ Submit(t, "waiting") /\ Count(t, {})
     /\ UNCHANGED <<request, verdict>>
  \/ pipeline = "ready" /\ Scan(t)
  \/ pipeline = "failed" /\ Answer(t, "block", {})

\* Mutant: without a pipeline the request goes on.
WaitEndsOpen(t) ==
  /\ at[t] = "waiting" /\ Runs(t)
  /\ \/ pipeline = "ready" /\ Scan(t)
     \/ pipeline # "ready" /\ Answer(t, "allow", {})
  /\ UNCHANGED <<pipeline, approvalMode, seen, reply>>

\* Mutant: the wait has no timeout.
WaitEndsWhenReady(t) ==
  /\ at[t] = "waiting" /\ Runs(t)
  /\ pipeline = "ready" /\ Scan(t)
  /\ UNCHANGED <<pipeline, approvalMode, seen, reply>>

(***************************************************************************)
(* _wait_for_detector_ready returns: the pipeline is there, its            *)
(* construction failed, or DETECTOR_READY_WAIT_S is over.                  *)
(***************************************************************************)
WaitEnds(t) ==
  /\ at[t] = "waiting" /\ Runs(t)
  /\ \/ pipeline = "ready" /\ Scan(t)
     \/ pipeline # "ready" /\ Answer(t, "block", {})
  /\ UNCHANGED <<pipeline, approvalMode, seen, reply>>

(***************************************************************************)
(* The detectors are done.  Any action may follow from any findings:       *)
(* policies differ, a detector that raises blocks, and so do injections    *)
(* and source code (_augment_with_app_services).  Nothing is redacted      *)
(* without a finding.                                                      *)
(***************************************************************************)
Scanned(t) == IF t = Request(t[1]) THEN Content(body[t[1]]) ELSE Values

ScanEnds(t) ==
  /\ at[t] = "scanning" /\ Runs(t)
  /\ seen' = seen \cup {t}
  /\ \E action \in Actions, values \in SUBSET Scanned(t) :
       /\ action = "redact" => values # {}
       /\ Answer(t, action, values)
  /\ UNCHANGED <<pipeline, approvalMode, reply>>

-----------------------------------------------------------------------------
(***************************************************************************)
(* request(): what nothing is found in goes on as it is.                   *)
(***************************************************************************)
Pass(r) ==
  /\ at' = [at EXCEPT ![Request(r)] = "over"]
  /\ outcome' = [outcome EXCEPT ![r] = "sent"]
  /\ logged' = [logged EXCEPT ![r] = "pass"]
  /\ UNCHANGED <<pool, body, found, verdict, stats>>

Arrive(r) ==
  /\ at[Request(r)] = "idle"
  /\ IF body[r].shape = "silent" THEN Pass(r) ELSE Inspect(Request(r))
  /\ UNCHANGED <<pipeline, approvalMode, seen, reply>>

(***************************************************************************)
(* _request_approval returns: approved, or denied or expired.              *)
(***************************************************************************)
HoldEnds(r) ==
  /\ at[Request(r)] = "held" /\ Runs(Request(r))
  /\ Approve(r) \/ Refuse(r)
  /\ UNCHANGED <<pipeline, approvalMode, found, verdict, seen, reply>>

-----------------------------------------------------------------------------
\* Mutant: the scan is not kept alive and may be lost.
DeliverUntracked(r, kind) ==
  /\ outcome[r] = "sent" /\ reply[r] = "none"
  /\ reply' = [reply EXCEPT ![r] = kind]
  /\ \/ UNCHANGED at
     \/ kind # "cut" /\ at' = [at EXCEPT ![Response(r)] = "created"]
  /\ UNCHANGED <<pipeline, approvalMode, pool, request, verdict, seen, stats>>

(***************************************************************************)
(* The reply goes to the browser chunk by chunk and a copy is kept.        *)
(* response() runs when it is complete and creates the scan; a connection  *)
(* that breaks ends in mitmproxy's error hook, which the addon does not    *)
(* have.  (A refused request gets response() too, for the addon's own      *)
(* answer, in which there is nothing to extract.)                          *)
(***************************************************************************)
Deliver(r, kind) ==
  /\ outcome[r] = "sent" /\ reply[r] = "none"
  /\ reply' = [reply EXCEPT ![r] = kind]
  /\ at' = IF kind = "cut" THEN at ELSE [at EXCEPT ![Response(r)] = "created"]
  /\ UNCHANGED <<pipeline, approvalMode, pool, request, verdict, seen, stats>>

(***************************************************************************)
(* _scan_response_bytes_async gets its turn.                               *)
(***************************************************************************)
Ends(t, counters) ==
  /\ Goto(t, "over") /\ Count(t, counters)
  /\ UNCHANGED <<request, verdict>>

\* Mutant: what cannot be decoded is passed over like an empty reply.
ScanStartsQuiet(r) ==
  /\ at[Response(r)] = "created"
  /\ \/ reply[r] \in {"undecodable", "empty"} /\ Ends(Response(r), {})
     \/ reply[r] = "text" /\ Inspect(Response(r))
  /\ UNCHANGED <<pipeline, approvalMode, seen, reply>>

ScanStarts(r) ==
  /\ at[Response(r)] = "created"
  /\ \/ reply[r] = "undecodable" /\ Ends(Response(r), {"response_scan_errors"})
     \/ reply[r] = "empty" /\ Ends(Response(r), {})
     \/ reply[r] = "text" /\ Inspect(Response(r))
  /\ UNCHANGED <<pipeline, approvalMode, seen, reply>>

-----------------------------------------------------------------------------
Next ==
  \/ PipelineChanges
  \/ ModeChanges
  \/ \E r \in Requests :
       Arrive(r) \/ HoldEnds(r) \/ ScanStarts(r) \/ \E kind \in Replies : Deliver(r, kind)
  \/ \E t \in Tasks : WaitEnds(t) \/ ScanEnds(t)

Spec == Init /\ [][Next]_vars

(***************************************************************************)
(* Tasks of the loop get their turn, a wait and a hold have a timeout, and *)
(* detectors return.  The pipeline may never come, nobody has to answer,   *)
(* and a reply may never arrive.                                           *)
(***************************************************************************)
Fairness ==
  /\ \A r \in Requests : WF_vars(HoldEnds(r)) /\ WF_vars(ScanStarts(r))
  /\ \A t \in Tasks : WF_vars(WaitEnds(t)) /\ WF_vars(ScanEnds(t))

FairSpec == Spec /\ Fairness

-----------------------------------------------------------------------------
Places == {"idle", "created", "waiting", "scanning", "held", "over"}

\* Every variable has its type, and jobs in the pool are of waiting tasks.
TypeOK ==
  /\ pipeline \in {"building", "failed", "ready"}
  /\ approvalMode \in BOOLEAN
  /\ pool \in Seq(Tasks)
  /\ at \in [Tasks -> Places]
  /\ body \in [Requests -> Bodies]
  /\ found \in [Requests -> SUBSET Values]
  /\ verdict \in [Tasks -> Actions \cup {"none"}]
  /\ seen \subseteq Tasks
  /\ outcome \in [Requests -> {"none", "sent", "refused"}]
  /\ logged \in [Requests -> {"none", "pass", "allowed", "approved", "redacted", "blocked"}]
  /\ reply \in [Requests -> Replies \cup {"none"}]
  /\ stats \in [Counters -> Nat]

(***************************************************************************)
(* A prompt that text was found in is sent only if the detectors had it    *)
(* and asked for no block, or if the user approved it - however it met the *)
(* construction of the pipeline, its failure and the time limits.          *)
(***************************************************************************)
OnlyClearedLeaves ==
  \A r \in Requests :
    outcome[r] = "sent" /\ body[r].shape # "silent" =>
      \/ logged[r] = "approved"
      \/ Request(r) \in seen /\ verdict[Request(r)] \in {"allow", "redact"}

(***************************************************************************)
(* A redacted prompt that is a message and nothing else leaves without any *)
(* of the values that were found in it.                                    *)
(***************************************************************************)
MessagesAreRedacted ==
  \A r \in Requests :
    logged[r] = "redacted" /\ body[r].shape = "prose" /\ body[r].files = {} =>
      found[r] \cap body[r].text = {}

(***************************************************************************)
(* The counters the dashboard shows agree with what became of the flows:   *)
(* every inspected request is in progress, refused or sent, and each       *)
(* reply with a finding or that could not be decoded is counted once.      *)
(***************************************************************************)
Refused    == {r \in Requests : outcome[r] = "refused"}
Cleared    == {r \in Requests : outcome[r] = "sent" /\ body[r].shape # "silent"}
InProgress == {r \in Requests : at[Request(r)] \in {"waiting", "scanning", "held"}}
Alerted    == {r \in Requests : verdict[Response(r)] \in {"redact", "block"}}
Unread     == {r \in Requests : reply[r] = "undecodable" /\ at[Response(r)] = "over"}

CountersTell ==
  /\ stats["blocked"] = Cardinality(Refused)
  /\ stats["allowed"] + stats["redacted"] = Cardinality(Cleared)
  /\ stats["inspected"] =
       stats["blocked"] + stats["allowed"] + stats["redacted"] + Cardinality(InProgress)
  /\ stats["response_alerts"] = Cardinality(Alerted)
  /\ stats["response_scan_errors"] = Cardinality(Unread)

(***************************************************************************)
(* If no alert and no scan error was counted, every reply with text whose  *)
(* scan is over was seen by the detectors: an unscanned reply is never     *)
(* mistaken for a clean one (_report_unscannable_response).                *)
(***************************************************************************)
SilenceMeansClean ==
  stats["response_alerts"] + stats["response_scan_errors"] = 0 =>
    \A r \in Requests :
      at[Response(r)] = "over" =>
        \/ reply[r] = "empty"
        \/ Response(r) \in seen /\ verdict[Response(r)] = "allow"

(***************************************************************************)
(* The browser gets an answer to every request, even if no pipeline ever   *)
(* comes, nobody decides, and all workers are taken by holds.              *)
(***************************************************************************)
RequestsAreAnswered ==
  \A r \in Requests : at[Request(r)] # "idle" ~> outcome[r] # "none"

(***************************************************************************)
(* The scan of every complete reply comes to its end.                      *)
(***************************************************************************)
RepliesAreScanned ==
  \A r \in Requests : reply[r] \in Replies \ {"cut"} ~> at[Response(r)] = "over"

(***************************************************************************)
(* What README.md:223 ("violations block or redact") and the test in       *)
(* tests/unit/test_policy_llm_fallback.py:42 ("the browser must still not  *)
(* send cleartext") say of every prompt, whatever its format.              *)
(***************************************************************************)
RedactedIsRedacted ==
  \A r \in Requests :
    logged[r] = "redacted" => found[r] \cap Content(body[r]) = {}

(***************************************************************************)
(* Types, and every counter of the dashboard equal to the number of flows  *)
(* it tells of.                                                            *)
(***************************************************************************)
CountsAreSound == TypeOK /\ CountersTell

(***************************************************************************)
(* No flow is left: the browser has its answer and a complete reply its    *)
(* scan, with one worker for all waits, holds and scans.                   *)
(***************************************************************************)
AllIsAnswered == RequestsAreAnswered /\ RepliesAreScanned

=============================================================================
