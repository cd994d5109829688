--------------------------- MODULE DetectorTiers ---------------------------
(***************************************************************************)
(* The detector tiers that load a model on their first scan: Presidio      *)
(* (detectors/pii.py), GLiNER (registry.py) and the sentence embeddings    *)
(* (semantic.py).  Scans run on worker threads; each tier loads under a    *)
(* lock of its own behind a check without it, and what the load publishes  *)
(* is seen by the other threads at once.  domestique start probes the      *)
(* tiers first (status.py, cli.py) and refuses under --strict.             *)
(*                                                                         *)
(* What a load meets is one of                                             *)
(*   "off"       the tier is not configured                                *)
(*   "absent"    its package is not installed                              *)
(*   "uncached"  its model is not on the machine                           *)
(*   "broken"    constructing the model raises something else              *)
(*   "cold"      preparing the model raises an OSError                     *)
(*   "faulty"    preparing it raises something else                        *)
(*   "fine"                                                                *)
(* Preparing is the warm-up of GLiNER and the encoding of the sensitive    *)
(* topics; Presidio has none.                                              *)
(***************************************************************************)
EXTENDS Naturals, FiniteSets

CONSTANTS
  Tiers,       \* those of "pii", "gliner" and "semantic" that are looked at
  Requests,    \* requests whose texts are scanned
  MaxFailures, \* bound: analyses that raise
  MaxChanges   \* bound: changes of the machine while the server runs

ASSUME TierAssumption ==
  /\ Tiers \subseteq {"pii", "gliner", "semantic"} /\ "free" \notin Requests
  /\ MaxFailures \in Nat /\ MaxChanges \in Nat

Machine(t) == {"off", "absent", "uncached", "broken", "fine"}
                \cup (IF t = "pii" THEN {} ELSE {"cold", "faulty"})

VARIABLES
  loadMeets,   \* of each tier: what a load meets
  server,      \* domestique start: "new", "refused", "strict" or "open"
  model,       \* tiers whose _model or _analyzer is set
  prepared,    \* tiers whose model is warm, whose topics are encoded
  unavailable, \* tiers with _available False or _unavailable True
  initLock,    \* of each tier: "free" or the request that has _init_lock
  scan,        \* of each scan: where it is or how it answered
  failures, changes,
  loads, warnings,   \* history: models made, warnings given
  warm,        \* history: scans that began when the tier was prepared
  raisings     \* history: scans whose analysis raised

tierVars == <<loadMeets, server, model, prepared, unavailable, initLock, scan, failures, changes,
              loads, warnings, warm, raisings>>

setting == <<loadMeets, changes, server>>
loader == <<model, prepared, unavailable, initLock, loads, warnings>>
histories == <<warm, raisings>>

TierScans == Requests \X Tiers
Underway == {"look", "lock", "locked", "construct", "prepare", "analyze"}
Answers == {"answered", "silent", "flag", "raised", "swallowed"}
Configured == {t \in Tiers : loadMeets[t] # "off"}

TierInit ==
  /\ loadMeets \in [Tiers -> UNION {Machine(t) : t \in Tiers}]
  /\ \A t \in Tiers : loadMeets[t] \in Machine(t)
  /\ server = "new"
  /\ model = {} /\ prepared = {} /\ unavailable = {}
  /\ initLock = [t \in Tiers |-> "free"]
  /\ scan = [s \in TierScans |-> "new"]
  /\ failures = 0 /\ changes = 0
  /\ loads = [t \in Tiers |-> 0] /\ warnings = [t \in Tiers |-> 0]
  /\ warm = {} /\ raisings = {}

ScanGoes(s, to) == scan' = [scan EXCEPT ![s] = to]
StandsAt(s, where) == scan[s] = where

-----------------------------------------------------------------------------
(***************************************************************************)
(* detector_status: the cheap probe looks for the package, the deep one    *)
(* also constructs Presidio and GLiNER, without preparing them.            *)
(***************************************************************************)
\* Mutant: the deep probe constructs nothing.
AvailableShallow(t, deep) == loadMeets[t] # "absent"

Available(t, deep) ==
  /\ loadMeets[t] # "absent"
  /\ deep /\ t # "semantic" => loadMeets[t] \notin {"uncached", "broken"}

Missing(deep) == {t \in Configured : ~Available(t, deep)}

Start(strict) ==
  /\ server = "new"
  /\ server' = IF ~strict THEN "open" ELSE IF Missing(TRUE) # {} THEN "refused" ELSE "strict"
  /\ UNCHANGED <<loadMeets, changes, loader, scan, failures, histories>>

(***************************************************************************)
(* External: packages and models are installed or removed meanwhile.       *)
(***************************************************************************)
Changes(t) ==
  /\ changes < MaxChanges /\ changes' = changes + 1
  /\ t \in Configured
  /\ \E m \in Machine(t) \ {"off"} : loadMeets' = [loadMeets EXCEPT ![t] = m]
  /\ UNCHANGED <<server, loader, scan, failures, histories>>

(***************************************************************************)
(* A request starts a scan of every configured tier.                       *)
(***************************************************************************)
Inspect(r) ==
  /\ server \in {"strict", "open"}
  /\ \A t \in Tiers : StandsAt(<<r, t>>, "new")
  /\ scan' = [s \in TierScans |-> IF s[1] = r /\ s[2] \in Configured THEN "look" ELSE scan[s]]
  /\ warm' = warm \cup ({r} \X (prepared \ unavailable))
  /\ UNCHANGED <<setting, loader, failures, raisings>>

(***************************************************************************)
(* The answer of a tier that is unavailable: GLiNER's finding              *)
(* gliner_not_cached, no finding of the others.                            *)
(***************************************************************************)
Absence(t) == IF t = "gliner" THEN "flag" ELSE "silent"

(***************************************************************************)
(* The checks without the lock, then the same ones with it.                *)
(***************************************************************************)
Passed(s, otherwise) ==
  ScanGoes(s, IF s[2] \in unavailable THEN Absence(s[2])
          ELSE IF s[2] \in model THEN "analyze" ELSE otherwise)

LookUp(s) ==
  /\ StandsAt(s, "look") /\ Passed(s, "lock")
  /\ UNCHANGED <<setting, loader, failures, histories>>

Enter(s) ==
  /\ StandsAt(s, "lock") /\ initLock[s[2]] = "free"
  /\ initLock' = [initLock EXCEPT ![s[2]] = s[1]]
  /\ ScanGoes(s, "locked")
  /\ UNCHANGED <<setting, model, prepared, unavailable, failures, loads, warnings, histories>>

\* Mutant: the lock is left to the next scan of the thread.
UnheldLater(t) == UNCHANGED initLock

Unheld(t) == initLock' = [initLock EXCEPT ![t] = "free"]

\* Mutant: what another thread did meanwhile is not looked at.
CheckedOnce(s) ==
  /\ StandsAt(s, "locked") /\ ScanGoes(s, "construct")
  /\ UNCHANGED <<setting, loader, failures, histories>>

Checked(s) ==
  /\ StandsAt(s, "locked") /\ Passed(s, "construct")
  /\ IF s[2] \in model \cup unavailable THEN Unheld(s[2]) ELSE UNCHANGED initLock
  /\ UNCHANGED <<setting, model, prepared, unavailable, failures, loads, warnings, histories>>

(***************************************************************************)
(* The load.  An ImportError or an OSError makes the tier unavailable for  *)
(* good and is warned of; any other exception leaves the scan.             *)
(***************************************************************************)
\* Mutant: without a warning.
DisablesSilently(s) ==
  /\ unavailable' = unavailable \cup {s[2]} /\ ScanGoes(s, Absence(s[2])) /\ UNCHANGED warnings

Disables(s) ==
  /\ unavailable' = unavailable \cup {s[2]} /\ ScanGoes(s, Absence(s[2]))
  /\ warnings' = [warnings EXCEPT ![s[2]] = @ + 1]

Construct(s) ==
  /\ StandsAt(s, "construct")
  /\ LET t == s[2]
     IN \/ /\ loadMeets[t] \in {"absent", "uncached"}
           /\ Disables(s) /\ Unheld(t) /\ UNCHANGED <<model, prepared, loads>>
        \/ /\ loadMeets[t] = "broken"
           /\ ScanGoes(s, "raised") /\ Unheld(t)
           /\ UNCHANGED <<model, prepared, loads, unavailable, warnings>>
        \/ /\ loadMeets[t] \in {"cold", "faulty", "fine"}
           /\ model' = model \cup {t} /\ loads' = [loads EXCEPT ![t] = @ + 1]
           /\ IF t = "pii" THEN prepared' = prepared \cup {t} /\ ScanGoes(s, "analyze") /\ Unheld(t)
                           ELSE ScanGoes(s, "prepare") /\ UNCHANGED <<prepared, initLock>>
           /\ UNCHANGED <<unavailable, warnings>>
  /\ UNCHANGED <<setting, failures, histories>>

Prepare(s) ==
  /\ StandsAt(s, "prepare")
  /\ LET t == s[2]
     IN /\ Unheld(t)
        /\ \/ loadMeets[t] = "cold" /\ Disables(s) /\ UNCHANGED prepared
           \/ /\ loadMeets[t] = "faulty" /\ ScanGoes(s, "raised")
              /\ UNCHANGED <<prepared, unavailable, warnings>>
           \/ /\ loadMeets[t] \notin {"cold", "faulty"}
              /\ prepared' = prepared \cup {t} /\ ScanGoes(s, "analyze")
              /\ UNCHANGED <<unavailable, warnings>>
  /\ UNCHANGED <<setting, model, failures, loads, histories>>

(***************************************************************************)
(* The analysis.  GLiNER looks once more at _unavailable before it, topics *)
(* that are not encoded make the comparison raise; what raises here is     *)
(* logged and answered as no finding, but for GLiNER.                      *)
(***************************************************************************)
Fails(t) == IF t = "gliner" THEN "raised" ELSE "swallowed"

Analyze(s) ==
  /\ StandsAt(s, "analyze")
  /\ LET t == s[2]
     IN \/ /\ t = "gliner" /\ t \in unavailable
           /\ ScanGoes(s, "flag") /\ UNCHANGED <<failures, raisings>>
        \/ /\ ~(t = "gliner" /\ t \in unavailable)
           /\ \/ /\ t = "semantic" => t \in prepared
                 /\ ScanGoes(s, "answered") /\ UNCHANGED <<failures, raisings>>
              \/ /\ t = "semantic" /\ t \notin prepared
                 /\ ScanGoes(s, Fails(t)) /\ UNCHANGED <<failures, raisings>>
              \/ /\ failures < MaxFailures /\ failures' = failures + 1
                 /\ ScanGoes(s, Fails(t)) /\ raisings' = raisings \cup {s}
  /\ UNCHANGED <<setting, loader, warm>>

(***************************************************************************)
(* The verdict is in when every scan has ended; the next request begins.   *)
(***************************************************************************)
Judge(r) ==
  /\ \A t \in Configured : scan[<<r, t>>] \in Answers
  /\ Configured # {}
  /\ scan' = [s \in TierScans |-> IF s[1] = r THEN "new" ELSE scan[s]]
  /\ warm' = {s \in warm : s[1] # r} /\ raisings' = {s \in raisings : s[1] # r}
  /\ UNCHANGED <<setting, loader, failures>>

TierNext ==
  \/ \E t \in Tiers : Changes(t)
  \/ \E strict \in BOOLEAN : Start(strict)
  \/ \E r \in Requests : Inspect(r) \/ Judge(r)
  \/ \E s \in TierScans : \/ LookUp(s) \/ Enter(s) \/ Checked(s)
                          \/ Construct(s) \/ Prepare(s) \/ Analyze(s)

TierSpec == TierInit /\ [][TierNext]_tierVars

-----------------------------------------------------------------------------
(***************************************************************************)
(* Type invariant; a lock is held by a scan that is between taking it and  *)
(* leaving it, whatever the load raises.                                   *)
(***************************************************************************)
TierTypeOK ==
  /\ server \in {"new", "refused", "strict", "open"}
  /\ prepared \subseteq model /\ model \subseteq Tiers /\ unavailable \subseteq Tiers
  /\ scan \in [TierScans -> {"new"} \cup Underway \cup Answers]
  /\ \A t \in Tiers :
       {r \in Requests : scan[<<r, t>>] \in {"locked", "construct", "prepare"}}
         = (IF initLock[t] = "free" THEN {} ELSE {initLock[t]})
  /\ failures \in 0 .. MaxFailures /\ changes \in 0 .. MaxChanges
  /\ warm \subseteq TierScans /\ raisings \subseteq TierScans

(***************************************************************************)
(* Requests that meet a tier before it is loaded do not each load a model  *)
(* of their own, and a tier that is unavailable is warned of once.         *)
(***************************************************************************)
LoadedOnce == \A t \in Tiers : loads[t] <= 1 /\ warnings[t] <= 1

(***************************************************************************)
(* A tier that finds nothing because it has no model has been warned of,   *)
(* and GLiNER never finds nothing for a reason of its own: it flags the    *)
(* text or raises, which the pipeline takes for a finding.                 *)
(***************************************************************************)
AbsenceIsTold ==
  \A s \in TierScans :
    /\ scan[s] \in {"silent", "flag"} => warnings[s[2]] = 1
    /\ s[2] = "gliner" => scan[s] \notin {"silent", "swallowed"}

(***************************************************************************)
(* Once a tier is loaded a scan is answered by it: only an analysis that   *)
(* raises leaves a text without an answer, and no later failure to load    *)
(* takes the tier away.                                                    *)
(***************************************************************************)
LoadedTiersAnswer ==
  \A s \in warm : scan[s] \in Answers => scan[s] = "answered" \/ s \in raisings

(***************************************************************************)
(* After a strict start Presidio is never missing, and GLiNER only when    *)
(* its warm-up fails (status.py; the embeddings are not probed).           *)
(***************************************************************************)
StrictIsLoaded ==
  server = "strict" /\ changes = 0 =>
    \A s \in TierScans : scan[s] \in {"silent", "flag"} =>
      s[2] = "semantic" \/ (s[2] = "gliner" /\ loadMeets[s[2]] = "cold")
=============================================================================
