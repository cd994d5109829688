------------------------ MODULE DetectorLifecycle ------------------------
(***************************************************************************)
(* How the browser interceptor (mitm_addon.py) gets, keeps and replaces    *)
(* its detector pipeline while requests arrive.                            *)
(*                                                                         *)
(* _init_detector runs in three places: the thread load() starts ("init"), *)
(* the self-heal thread a blocked request starts after a failure           *)
(* ("retry"), and _inspect itself when the configuration changed           *)
(* ("reload"), which then keeps the event loop.  It reads the file, builds *)
(* and sets _detector, and sets _config_hash, in this order; the threads   *)
(* can be anywhere in it while the event loop runs other requests.         *)
(*                                                                         *)
(* A request yields the loop only while it waits for the pipeline and      *)
(* while the detectors scan.                                               *)
(*                                                                         *)
(* The file is written by another process, ConfigStore._write, which       *)
(* truncates and then fills it.  Its contents are the fields config_hash   *)
(* covers; each write moves the modification time.                         *)
(***************************************************************************)
EXTENDS Naturals, FiniteSets

CONSTANTS
  Requests,
  Configs,
  EmptyConfig,     \* {}: what load_config_dict makes of a truncated file
  NoDetector, NoRequest,
  MaxMtime         \* bound: the number of writes of the file

ASSUME LifecycleAssumption ==
  /\ EmptyConfig \in Configs
  /\ NoDetector \notin Configs
  /\ NoRequest \notin Requests
  /\ MaxMtime \in Nat

Builders == {"init", "retry", "reload"}

VARIABLES
  mtime, config, writing,  \* the file: modification time, contents, half written
  broken,       \* something the construction needs fails (policy file, Ollama)
  detector,     \* _detector: the configuration it was built from
  hash,         \* _config_hash
  seen,         \* _config_mtime, 0 while the attribute does not exist
  ready,        \* _detector_ready
  initError,    \* _detector_init_error is not None
  retrying,     \* _detector_retry_lock
  recent,       \* the last retry is younger than DETECTOR_RETRY_BACKOFF_S
  step, raw,    \* of each builder: where it is in _init_detector, raw_config
  loop,         \* the request that keeps the event loop
  pc, used, verdict, \* of each request: its step, the detector, the answer
  during,       \* history: contents of the file since the check for a change
  failed,       \* history: a construction has failed
  failedSince   \* history: one has failed since the file was last written

file     == <<mtime, config, writing>>
pipeline == <<detector, hash>>
health   == <<ready, initError, retrying, recent>>
requests == <<loop, pc, used, verdict, during>>
failures == <<failed, failedSince>>
vars == <<file, broken, pipeline, seen, health, step, raw, requests, failures>>

Goto(r, s) == pc' = [pc EXCEPT ![r] = s]

StartBuild(b) == step' = [step EXCEPT ![b] = "read"]

Init ==
  /\ mtime = 1 /\ config \in Configs /\ writing = FALSE
  /\ broken \in BOOLEAN
  /\ detector = NoDetector /\ hash = NoDetector
  /\ seen = 0
  /\ ready = FALSE /\ initError = FALSE /\ retrying = FALSE /\ recent = FALSE
  /\ step = [b \in Builders |-> IF b = "init" THEN "read" ELSE "idle"]
  /\ raw = [b \in Builders |-> EmptyConfig]
  /\ loop = NoRequest
  /\ pc = [r \in Requests |-> "idle"]
  /\ used = [r \in Requests |-> NoDetector]
  /\ verdict = [r \in Requests |-> "none"]
  /\ during = [r \in Requests |-> {}]
  /\ failed = FALSE /\ failedSince = FALSE

-----------------------------------------------------------------------------
(***************************************************************************)
(* The other process and the machine.                                      *)
(***************************************************************************)
Write(c) ==
  /\ mtime < MaxMtime
  /\ mtime' = mtime + 1
  /\ config' = c
  /\ during' = [r \in Requests |-> during[r] \cup {c}]
  /\ failedSince' = FALSE
  /\ UNCHANGED <<broken, pipeline, seen, health, step, raw, loop, pc, used, verdict, failed>>

SaveOpens == ~writing /\ writing' = TRUE /\ Write(EmptyConfig)
SaveFills(c) == writing /\ writing' = FALSE /\ Write(c)

Breaks ==
  /\ broken' = ~broken
  /\ UNCHANGED <<file, pipeline, seen, health, step, raw, requests, failures>>

BackoffEnds ==
  /\ recent /\ recent' = FALSE
  /\ UNCHANGED <<file, broken, pipeline, seen, ready, initError, retrying, step, raw,
                 requests, failures>>

-----------------------------------------------------------------------------
(***************************************************************************)
(* _init_detector: load_config_dict, create_detector_pipeline, then the    *)
(* hash of what was read.                                                  *)
(***************************************************************************)
BuildReads(b) ==
  /\ step[b] = "read"
  /\ step' = [step EXCEPT ![b] = "build"]
  /\ raw' = [raw EXCEPT ![b] = config]
  /\ UNCHANGED <<file, broken, pipeline, seen, health, requests, failures>>

BuildSucceeds(b) ==
  /\ step[b] = "build"
  /\ step' = [step EXCEPT ![b] = "hash"]
  /\ detector' = raw[b]
  /\ UNCHANGED <<file, broken, hash, seen, health, raw, requests, failures>>

\* Mutant: a hot reload that raises does not block the request.
ReloadRaisesAllows(r) ==
  Goto(r, "done") /\ verdict' = [verdict EXCEPT ![r] = "allow"] /\ UNCHANGED used

\* _inspect's except branch: the request is blocked.
ReloadRaises(r) ==
  Goto(r, "done") /\ verdict' = [verdict EXCEPT ![r] = "block"] /\ UNCHANGED used

\* Mutant: the lock is not released when the retry fails.
RetryEndsHolding(fails) ==
  initError' = fails /\ retrying' = fails /\ UNCHANGED <<ready, recent>>

\* _retry_detector_init_background: the outcome, then the lock.
RetryEnds(fails) ==
  initError' = fails /\ retrying' = FALSE /\ UNCHANGED <<ready, recent>>

\* _build_detector_pipeline_background: ready is set on failure too.
InitEnds(fails) ==
  initError' = fails /\ ready' = TRUE /\ UNCHANGED <<retrying, recent>>

BuildFails(b) ==
  /\ step[b] = "build" /\ broken
  /\ step' = [step EXCEPT ![b] = "idle"]
  /\ failed' = TRUE /\ failedSince' = TRUE
  /\ \/ b = "init" /\ InitEnds(TRUE) /\ UNCHANGED requests
     \/ b = "retry" /\ RetryEnds(TRUE) /\ UNCHANGED requests
     \/ /\ b = "reload" /\ ReloadRaises(loop) /\ loop' = NoRequest
        /\ UNCHANGED <<health, during>>
  /\ UNCHANGED <<file, broken, pipeline, seen, raw>>

\* The coroutine holds on to the pipeline of this moment.
StartInspection(r) ==
  /\ Goto(r, "inspect")
  /\ used' = [used EXCEPT ![r] = detector]
  /\ UNCHANGED verdict

BuildEnds(b) ==
  /\ step[b] = "hash"
  /\ step' = [step EXCEPT ![b] = "idle"]
  /\ hash' = raw[b]
  /\ \/ b = "init" /\ InitEnds(FALSE) /\ UNCHANGED requests
     \/ b = "retry" /\ RetryEnds(FALSE) /\ UNCHANGED requests
     \/ /\ b = "reload" /\ StartInspection(loop) /\ loop' = NoRequest
        /\ UNCHANGED <<health, during>>
  /\ UNCHANGED <<file, broken, detector, seen, raw, failures>>

-----------------------------------------------------------------------------
(***************************************************************************)
(* A request, or a response to be scanned, calls _inspect.                 *)
(***************************************************************************)
Arrive(r) ==
  /\ loop = NoRequest /\ pc[r] \in {"idle", "done"}
  /\ Goto(r, "waiting")
  /\ used' = [used EXCEPT ![r] = NoDetector]
  /\ verdict' = [verdict EXCEPT ![r] = "none"]
  /\ during' = [during EXCEPT ![r] = {}]
  /\ UNCHANGED <<file, broken, pipeline, seen, health, step, raw, loop, failures>>

\* Mutants: the time of the check is kept instead of the file's; after a
\* failure nothing builds the pipeline again.
MaybeRetryNow == seen' = mtime + 1 /\ UNCHANGED <<health, step>>

MaybeRetryNever == seen' = mtime /\ UNCHANGED <<health, step>>

(***************************************************************************)
(* _maybe_retry_detector_init: the check for a change consumes the         *)
(* modification time, whether or not a retry is started.                   *)
(***************************************************************************)
MaybeRetry ==
  LET changed == mtime # seen /\ config # hash
  IN  /\ seen' = mtime
      /\ IF (changed \/ ~recent) /\ ~retrying
         THEN /\ retrying' = TRUE /\ recent' = TRUE
              /\ StartBuild("retry")
              /\ UNCHANGED <<ready, initError>>
         ELSE UNCHANGED <<health, step>>

(***************************************************************************)
(* The wait ended without a pipeline: after DETECTOR_READY_WAIT_S, or      *)
(* because its construction failed.                                        *)
(***************************************************************************)
NotReady(r) ==
  /\ loop = NoRequest /\ pc[r] = "waiting"
  /\ ~ready \/ detector = NoDetector
  /\ IF initError THEN MaybeRetry ELSE UNCHANGED <<seen, health, step>>
  /\ Goto(r, "done")
  /\ verdict' = [verdict EXCEPT ![r] = "block"]
  /\ UNCHANGED <<file, broken, pipeline, raw, loop, used, during, failures>>

(***************************************************************************)
(* _config_changed_since_last_check: the modification time, then (on the   *)
(* same hold of the loop) the contents.                                    *)
(***************************************************************************)
CheckMtime(r) ==
  /\ loop = NoRequest /\ pc[r] = "waiting"
  /\ ready /\ detector # NoDetector
  /\ during' = [during EXCEPT ![r] = {config}]
  /\ seen' = mtime
  /\ IF mtime = seen
     THEN StartInspection(r) /\ UNCHANGED loop
     ELSE Goto(r, "compare") /\ loop' = r /\ UNCHANGED <<used, verdict>>
  /\ UNCHANGED <<file, broken, pipeline, health, step, raw, failures>>

\* Mutant: the contents are not compared; the pipeline is never rebuilt.
CompareKeeps(r) ==
  /\ loop = r /\ pc[r] = "compare"
  /\ StartInspection(r) /\ loop' = NoRequest
  /\ UNCHANGED <<file, broken, pipeline, seen, health, step, raw, during, failures>>

Compare(r) ==
  /\ loop = r /\ pc[r] = "compare"
  /\ IF config = hash
     THEN StartInspection(r) /\ loop' = NoRequest /\ UNCHANGED step
     ELSE Goto(r, "reload") /\ StartBuild("reload") /\ UNCHANGED <<loop, used, verdict>>
  /\ UNCHANGED <<file, broken, pipeline, seen, health, raw, during, failures>>

\* A detector or policy that raises blocks; so do the app-level checks.
Answer(r) ==
  /\ loop = NoRequest /\ pc[r] = "inspect"
  /\ Goto(r, "done")
  /\ \E a \in {"block", "redact", "allow"} : verdict' = [verdict EXCEPT ![r] = a]
  /\ UNCHANGED <<file, broken, pipeline, seen, health, step, raw, loop, used, during, failures>>

-----------------------------------------------------------------------------
Build(b) == BuildReads(b) \/ BuildSucceeds(b) \/ BuildFails(b) \/ BuildEnds(b)

Handle(r) == NotReady(r) \/ CheckMtime(r) \/ Compare(r) \/ Answer(r)

Next ==
  \/ SaveOpens
  \/ \E c \in Configs : SaveFills(c)
  \/ Breaks
  \/ BackoffEnds
  \/ \E b \in Builders : Build(b)
  \/ \E r \in Requests : Arrive(r) \/ Handle(r)

Spec == Init /\ [][Next]_vars

(***************************************************************************)
(* Threads and the event loop run, time passes, and requests keep coming   *)
(* (without one there is nothing to recover for).                          *)
(***************************************************************************)
FairSpec ==
  /\ Spec
  /\ WF_vars(BackoffEnds)
  /\ \A b \in Builders : WF_vars(Build(b))
  /\ \A r \in Requests : WF_vars(Arrive(r)) /\ SF_vars(Handle(r))

-----------------------------------------------------------------------------
Steps == {"idle", "read", "build", "hash"}
Phases == {"idle", "waiting", "compare", "reload", "inspect", "done"}

Flags ==
  /\ writing \in BOOLEAN /\ broken \in BOOLEAN
  /\ ready \in BOOLEAN /\ initError \in BOOLEAN
  /\ retrying \in BOOLEAN /\ recent \in BOOLEAN
  /\ failed \in BOOLEAN /\ failedSince \in BOOLEAN

TypeOK ==
  /\ Flags
  /\ mtime \in Nat \ {0} /\ config \in Configs
  /\ detector \in Configs \cup {NoDetector}
  /\ hash \in Configs \cup {NoDetector}
  /\ seen \in 0 .. mtime
  /\ step \in [Builders -> Steps]
  /\ raw \in [Builders -> Configs]
  /\ loop \in Requests \cup {NoRequest}
  /\ pc \in [Requests -> Phases]
  /\ used \in [Requests -> Configs \cup {NoDetector}]
  /\ verdict \in [Requests -> {"none", "block", "redact", "allow"}]
  /\ during \in [Requests -> SUBSET Configs]

(***************************************************************************)
(* Fail closed: whatever is being built, rebuilt, retried or has raised,   *)
(* nothing goes on to the provider unless a pipeline looked at it, and a   *)
(* request in the hands of the detectors has one.                          *)
(***************************************************************************)
NothingUninspected ==
  \A r \in Requests :
    \/ pc[r] = "inspect"
    \/ pc[r] = "done" /\ verdict[r] # "block"
    => used[r] # NoDetector

(***************************************************************************)
(* _inspect: "Pipeline is rebuilt only when config actually changes", and  *)
(* _init_detector runs "whenever the on-disk config changes".  The         *)
(* pipeline a request is inspected with was built from what the file held  *)
(* at some moment since that request checked for a change.                 *)
(***************************************************************************)
InspectedByCurrentConfig ==
  \A r \in Requests : pc[r] = "inspect" => used[r] \in during[r]

(***************************************************************************)
(* The same as long as no construction has failed, over all interleavings  *)
(* of the saving process, the init thread and concurrent requests.         *)
(***************************************************************************)
CurrentUnlessFailed == failed \/ InspectedByCurrentConfig

(***************************************************************************)
(* _config_changed_since_last_check: "fixing a broken policy file and      *)
(* re-saving config rebuilds the pipeline either way".                     *)
(***************************************************************************)
ResavingRebuilds == failedSince \/ InspectedByCurrentConfig

(***************************************************************************)
(* At most one retry thread, and the lock is its own: it is held exactly   *)
(* while the thread runs, so no failure can lock out the next retry.       *)
(***************************************************************************)
RetryOwnsLock == retrying <=> step["retry"] # "idle"

(***************************************************************************)
(* Self-healing: a failure that does not last does not block traffic for   *)
(* ever.                                                                   *)
(***************************************************************************)
Heals == <>[]~broken => <>(detector # NoDetector)

(***************************************************************************)
(* Types, and the retry lock held exactly while a retry thread runs.       *)
(***************************************************************************)
LifecycleIsSound == TypeOK /\ RetryOwnsLock

=============================================================================
