# Domestique: verification project

Domestique sits between people or programs and language-model providers. It
scans what is sent, blocks it, or replaces sensitive values by tokens such as
`[CARD_1]`, and rewrites the tokens in the reply back to the values. It comes
as a library with a redacting gateway (`src/domestique`) and as a desktop
application that intercepts browser traffic (`src/domestique_app`).

This directory holds TLA+ modules translated from that code, TLC runs that
check them on small instances, and TLAPS proofs of the main results for every
value of the constants. Paths below are relative to the repository (`src/` is
its root); line numbers refer to the same commit. Files here:

| module | what it is |
| --- | --- |
| `Taxonomy` | operators: categories, prefixes, the registry of coined terms |
| `TokenRegistry` | abstract specification of the token service: one token, one value |
| `Vault` | token service, session store, pinned vault and its file, threads, crashes; implements `TokenRegistry` |
| `TermFile` | the file of coined terms that several processes read, merge and replace |
| `Detokenize` | operators: rewriting the tokens of a text, and of a chunk of one |
| `SseRelay` | the relay that rewrites a streamed reply; extends `Detokenize` |
| `Policy` | operators: what a set of detections calls for |
| `Gateway` | concurrent requests through scan, verdict, redaction, provider, reply; extends `Policy` |
| `TextScan` | one text: chunks for the local model, occurrences, the union of spans |
| `TextFlow` | scan and relay of texts together; extends `TextScan` and `SseRelay` |
| `DetectorTiers` | the tiers that load a model on their first scan, and `domestique start --strict` |
| `TagsProbe` | the probe of the Ollama daemon; extends `DetectorTiers` |
| `Firewall` | one request through the FastAPI firewall |
| `LibraryRedaction` | `RedactionEngine`, the LiteLLM callback and the SDK |
| `SetupWizard` | `domestique setup` and the installer |
| `DetectorLifecycle` | the interceptor's pipeline: init thread, self-heal, hot reload, the file another process writes |
| `BrowserRequest` | the interceptor's request and response hooks on one event loop and its thread pool |
| `Approvals` | held requests: the server's entries and the interceptor's poll loop |
| `Protection` | proxy process, PAC setting, watchdog, and the menu and dashboard that call them |
| `SystemProxy` | the user's proxy settings on Windows and the copy of them |
| `Certificates` | the interception CA: generation, trust, mitmdump's copy |
| `Launch` | the portable application: start-up thread, switches, the ways a launch ends |
| `ConfigFile` | the application's configuration: one object, one file, several savers |
| `RuleEngine` | the application's policy engine while rules are added and removed |
| `PolicyWatch` | the watcher of the policy file |
| `EventLog` | abstract specification of a recorder of events, for one sink |
| `AuditLog` | the audit trail; implements `EventLog` for the table and for the mirror |
| `SiemDispatch` | the dispatcher to SIEM backends; implements `EventLog` for each |
| `Workbench` | the dashboard's scans and benchmarks |
| `Callers` | the firewall, the callback and the SDK together; extends `Firewall` and `LibraryRedaction` |
| `Vault_proofs`, `Gateway_proofs`, `BrowserRequest_proofs` | theorems about the module they are named after |
| `Detection_proofs` | theorems about `DetectorLifecycle` and `Callers` |
| `Services_proofs` | theorems about `Approvals`, `Protection`, `PolicyWatch`, `RuleEngine` |
| `Records_proofs` | theorems about `AuditLog`, `SiemDispatch`, and that both implement `EventLog` |
| `Parts_proofs` | theorems about `ConfigFile`, `SystemProxy`, `Launch`, `Certificates`, `SetupWizard`, `TermFile`, `Workbench`, `TagsProbe` |
| `Texts_proofs` | theorems about `TextFlow` |
| `MC*` | constants for TLC; the `.cfg` files name the runs. `MCServices`, `MCRecords` and `MCParts` put several components into one run |

To check: `tlc -config MCVault.cfg MCVault`, `tlapm Vault_proofs.tla`.


## 1. Inventory

Every component is also listed in `PROJECT.json` with its files. For each:
state, operations, who it talks to, what is hard, what makes it correct.

### Library and gateway (`src/domestique`)

**Token service, session store, pinned vault** (`vault/service.py`,
`session.py`, `pinned.py`). *State*: two in-memory maps per store (value to
token, token to value), a counter per prefix, the encrypted vault file, the
service's lock, counts of sightings and the offers to pin. *Operations*:
`tokenize`, `pin`, `detokenize_text`, `record_sighting`,
`dismiss_suggestion`, `load`, `cleanup_expired`, `clear`. *Callers*: the
detector pipeline (mints), the relay and the stream detokenizer (reverse), the
API (pins). *Hard*: both stores draw numbers from one name space and count
separately; part of `tokenize` and all of `detokenize_text` run outside the
lock; an entry is in memory before it is on disk; floors go through a mapping
that depends on which terms were coined. *Correct when*: a token means one
value; what `pin` returned survives; a failed load or write destroys nothing.

**Taxonomy** (`taxonomy.py`, `taxonomy_store.py`). *State*: coined terms and
their prefixes, in memory and in a file several processes merge. *Operations*:
`prefix_for`, `register`, `_save_locked`. *Hard*: the read-merge-replace of the
file; prefixes that coincide after truncation. *Correct when*: a prefix never
changes once a token carries it.

**Stream detokenizer and relay** (`vault/stream.py`, `gateway.py:294-376`).
*State*: per JSON key the text held back, the last event seen. *Operations*:
`feed`, `flush`, `_rewrite_sse_event`, `_detok_sse_iter`. *Hard*: tokens cut
by chunk boundaries; several texts in one stream; ends with and without
`[DONE]`, with and without text in the last event. *Correct when*: the client
gets what rewriting the whole text at once would give.

**Gateway and detector pipeline** (`gateway.py`, `extract.py`,
`detectors/registry.py`, `policy/`). *State*: per request its fields, what is
decided so far, the tokens it minted. *Operations*: `_proxy`,
`_scan_and_redact`, `DetectorPipeline.inspect`, `_relay`. *Hard*: requests
interleave at every await while values are pinned; a failure on one of several
fields; detectors that raise, miss, or have no model. *Correct when*: nothing
pinned leaves, errors stop the request, a reply reveals only what its own
request held.

**Detectors** (`detectors/`). *State*: per tier a model that is loaded on the
first scan, flags that it is prepared or unavailable, a lock. *Operations*:
`detect` of each, `detector_status` and its probes. *Hard*: first scans of
several requests race, a load can fail in a dozen ways, a daemon may trickle.
The local model gets a text in overlapping chunks and its answers are located
again in the whole. *Correct when*: one load serves all, a tier that is absent
says so, no value falls between two chunks.

**FastAPI firewall** (`app.py`). *State*: per request the texts, the results of
all scans, the decision. *Hard*: scans run at once and any may raise; a
placeholder has another length than what it replaces. *Correct when*: what any
scan found counts and is audited, and nothing else in the text moves.

**Redaction engine, callback, SDK** (`redaction.py`, `callback.py`, `sdk.py`).
*State*: one engine's numbering. *Hard*: a conversation is sent again and again,
with messages already redacted. *Correct when*: no value goes out, a token means
one value, `restore` undoes `redact`.

**Command line and wizard** (`cli.py`, `setup_wizard.py`). *State*: answers, the
plan, what is installed, `config.json`. *Hard*: stdin may end, each step may
fail. *Correct when*: nothing is done on an answer nobody gave, and the
configuration names only what is there.

**Others**: configuration, debug trace, the library's audit line.

### Application (`src/domestique_app`)

**Interceptor, detector lifecycle** (`services/mitm_addon.py:442-567`,
`1255-1404`). *State*: the pipeline and the hash of the configuration it was
built from, the modification time last seen, readiness, the retry lock and
back-off. *Operations*: `load` and its thread, `_maybe_retry_detector_init` and
its thread, hot reload in `_inspect`. *Hard*: three builders, two on threads,
against a file another process truncates and fills. *Correct when*: nothing
passes uninspected, every request is inspected by the current configuration,
and a failure that goes away does not block traffic for ever.

**Approvals** (`services/approval.py`, `server/api.py:1041-1082`,
`services/mitm_addon.py:1034-1118`). *State*: entries with a status and a
time, in the server's memory; the deadline of the interceptor's loop.
*Operations*: `submit`, `get`, `decide`, listings with clean-up, the poll loop.
*Hard*: two clocks, lost and slow HTTP, late clicks, restarts. *Correct when*:
only a recorded approval lets a request through, a recorded approval does let
it through, decisions are final, no request waits for ever.

**Interceptor, requests and responses** (`mitm_addon.py:661-897`,
`1120-1253`, `1343-1448`, `1452-1926`). *State*: the flows in progress,
counters and request log, the tasks that scan replies. *Operations*:
`request`, `_inspect`, `_redact_request`, `responseheaders`, `response`,
`_scan_response_bytes_async`. *Talks to*: the pipeline, the approval API, the
dashboard (through the log and the counters' file). *Hard*: every hook awaits
in the middle; waits, holds and offloaded detectors share one thread pool; a
reply is delivered before it is scanned; bodies have many formats and only one
is rewritten. *Correct when*: nothing uncleared is sent, what is recorded as
redacted is redacted, an unscanned reply leaves a trace, every request gets an
answer.

**Audit pipeline and SIEM dispatcher** (`services/audit.py`, `siem.py`).
*State*: bounded queues, a writer thread each, its batch, a table and its mirror,
a list of backends with sockets, counters. *Operations*: `record`/`dispatch`
from request threads, the loops, `start`, `stop`, adding and removing a backend.
*Hard*: sentinels on a full queue, a failing half of a flush, peers that stall,
a list that changes under the loop. *Correct when*: what was accepted is settled
once for each sink, the counters tell it, and nobody waits for ever.

**Watchdog, proxy process, PAC routing** (`services/watchdog.py`, `proxy.py`,
`interceptor.py`, `native/app_delegate.py`). *State*: the process, the PAC of
each network interface, the watchdog's state and restart budget, packet-filter
rules, the saved copy of the user's proxy. *Operations*: start and stop from
menu, dashboard and watchdog, polls, recoveries. *Hard*: no lock covers
start and stop, interfaces come and go, kills fall between registry writes, and
commands to the system fail without anyone looking at how they ended.
*Correct when*: calls in sequence do what they say, an outage ends or is told,
the user's own settings survive.

**Certificates** (`interceptor.py:143`, `cert_manager.py`, `proxy.py`). *State*:
key, certificate, the trust store, mitmdump's copies. *Hard*: several callers and
no lock, copies refreshed by date, restores with old dates. *Correct when*: key and certificate belong
together and what is trusted is what signs.

**Launch** (`main.py`). *State*: what runs, what is routed, what the saved
configuration wants. *Hard*: a launch can end in four ways while its start-up
thread is at work. *Correct when*: it leaves no route to a dead proxy and no child.

**Configuration store** (`config/store.py`, `config/schema.py`). *State*: one
shared object and a file. *Operations*: `save`, `save_dict`, migration, changes
in place. *Hard*: read-merge-write without a lock over the read, pages that
post an old copy, kills within the write. *Correct when*: memory and file agree
and the user's choice stays.

**Policy engine and watcher** (`services/policy.py`). *State*: sorted rules, the
file's time. *Hard*: `evaluate` walks a list that is being sorted, a write between
reading the file and looking at its time. *Correct when*: a decision is that
of the rules, an edit is seen.

**Scans and benchmarks of the dashboard** (`server/api.py`). *State*: a worker
process that answers by lines, one record of the running benchmark. *Hard*:
timeouts and deaths between a question and its line; the record has no lock.
*Correct when*: an answer is that of its text.

**Notifications, tray, scanners, analytics, native windows, dashboard pages,
deployment**: no state another part reads, see section 5.


## 2. How the modules correspond to the code

Every definition that stands for code is in `PROJECT.json` "map" with its
lines. In the modules, definitions marked `\* Mutant` are slightly wrong
variants used to show that a property can fail; nothing else uses them.

### Vault, Taxonomy, TokenRegistry

| code | model |
| --- | --- |
| `SessionStore._forward`, `_reverse`, `_counters` | `forward`, `reverse`, `counters` |
| `PinnedVault._entries`, `_by_token`, `_available`, its file | `entries`, `byToken`, `available`, `disk` |
| `TokenService._lock` | `lock` |
| `TaxonomyStore._terms` | `registry` |
| a thread's call | `pc`, `val`, `cat`, `floor`, `tok`, `got` |
| `tokenize` | `TokenizeLookup` (no lock), then `TokenizeMint` (under it) |
| `pin` | `PinFloor`, then `PinStore` or `PinKnown`, then `PinSync` |
| `detokenize_text` | `DetokSession`, `DetokPinned`, `DetokReturn` |
| `load` at start; process death | `Start`; `Crash` |

A call is cut exactly where other threads can get in. A token is a pair of
prefix and number. What text a category or prefix has is abstracted to the
table of what maps to what (`Taxonomy`'s constants), because the collisions
this code can have come from that table alone: the run's constants are cut from
the source, with `card` mapping to the canonical prefix `CARD` and so coined as
`CARD_2`. Encryption and the key ring are a load that succeeds or does not.
`issued` and `acked` are history variables: what was handed out by this
process, and what `pin` ever returned.

`TokenRegistry` says what callers rely on: within one process a token is given
out for one value. `Vault` implements it with `issued` mapped to itself, and
`Gateway` uses only this promise of the service, through `INSTANCE`.

### Detokenize, SseRelay

Texts are sequences of characters of which only `[`, `]`, the class
`[A-Z0-9_]`, and the line break matter to the two regular expressions. The
line break is there because `$` in `_PARTIAL_TOKEN_TAIL` also matches before a
trailing one. `Detokenized` is the reference: the whole text rewritten at
once. `Event` is one JSON event with up to two text fields, or none; `Done` is
`[DONE]`, `End` the regular and `Break` the failing end. `sent` and `got` are
history: what the provider sent and the client received of each text.

### Policy, Gateway

A field is the set of sensitive values in it. `Scan` is one field: the
detectors return any outcome (a subset of what is there, at any confidence, or
an exception, or "model not cached"), the pinned scan runs after them, the
policy decides, and redaction mints tokens, all without another await, as
`DetectorPipeline.inspect` does. `Block`, `Pass` and `Rewrite` are the three
ways on in `_scan_and_redact`. `Reply` may contain any tokens at all.
`clear` is what a body still says in clear text. `protected`, `failures`,
`revealed` and `dismissed` are history. `sightings` and `suggestions` are those
of the token service.

### DetectorLifecycle

The three builders share the steps read, build, hash of `_init_detector`. Two
are threads; the third keeps the event loop (`loop`), which is what makes
comparison and reload atomic to other requests but not to the threads or to
the saving process. `broken` is anything the construction depends on. A save
is two writes (`SaveOpens`, `SaveFills`), each with a modification time of its
own. `during` is history: the contents the file has had since a request
checked for a change.

### Approvals

Time is counted in ticks of one poll interval. `age` is the time since an
entry was made, `left` the time to the interceptor's deadline. `Tick` never
waits; if the interceptor's thread had something to do, or an answer on its
way, the tick marks the request `slow`. Lost messages, and restarts of the
server, mark it `lost`. Both marks and `told` (what the dashboard was told is
recorded) are history and let a property say under which conditions it holds.

### BrowserRequest

| code | model |
| --- | --- |
| a flow's request hook; the scan of its reply | tasks `Request(r)`, `Response(r)`; `at` is the await each is at |
| `_detector`, `_detector_ready` | `pipeline` |
| the loop's default executor | `pool`, of which the first `Workers` jobs run |
| `flow.request.content` | `body`: a shape and the values in text and files |
| forwarded or answered 403 | `outcome` |
| `_stats`; the action of the log entry | `stats`; `logged` |
| the teed reply | `reply` |

Tasks share an event loop, so all that a task does between two awaits is one
action: `Arrive` runs from the call of `request()` to its first await,
`WaitEnds`, `ScanEnds` and `HoldEnds` go on from the three awaits to the next
one or the end, `ScanStarts` is a scan's first turn. How `_extract_content`
finds text does not matter to the properties, but which bodies
`_redact_request` rewrites does, so a body is "prose" (a last user message
that is a string), "parts" (anything else text is found in) or "silent". Earlier
messages of a conversation are in none of these: the code inspects the last
one only. Verdicts are left open, as the policy and the detectors are those of
`Policy` and `Gateway`; only that a redaction needs a finding is kept. The
pipeline is reduced to what `DetectorLifecycle` shows of it, an approval to its
answer (`Approvals`). `found`, `verdict` and `seen` are history.

The scan of a buffered reply in `response()` is not an action: `response()`
gets there only for replies `responseheaders()` would have streamed, that is for
the addon's own 403 bodies, in which no extractor finds text.


### TermFile

`termFile` is the file, `terms` a process's copy. `register` is cut where
another process gets in: the prefix is chosen from the process's own copy, the
file is read, the file is replaced. Between the two the process's own terms are
merged into what was read one per step (`MergeTerm`), in any order, and then
adopted. A read (also that of a restart) or a write may fail and a
process may be killed at any of these. What text a term derives to is a table,
as in `Taxonomy`. `raced` remembers that a replacement lost another process's
write, which the code allows; `given` is what each process answered.

### TextScan, Firewall

`TextScan` takes one text through `LocalLLMClassifier.scan` and `_redact_text`,
with Python's offsets: the chunks, the values the model names in each, where
they occur in the whole text, and the union of those spans with any the other
detectors report. `Merged` takes the nonempty spans (`NotEmpty`) from the left, each
with the end its union reaches (`Reach`). `Firewall` is `_handle_request`: the extraction, one task per text and
detector that ends in any order or raises, the verdict, the audit line, and
`Forward`, which substitutes placeholders of other lengths from the end of the
text on. Both compare the result with a definition that speaks of offsets only.
That definition (`Wanted`) is about findings of which no two overlap or start at
one place. Where they do, the code replaces by what is left of the text, and the
result depends on the detectors' order: the marker of a model that is not
cached, the span 0, 0, next to a value that opens the text, is such a case.

### DetectorTiers, TagsProbe

`loadMeets` is what a load will find on the machine, and may change while the
server runs. A scan goes through the check without the lock, the lock, the same
check, construction and preparation; where each exception goes is that of
`pii.py`, `registry.py` and `semantic.py`, which differ. `Start` is `domestique
start` with the probes of `status.py`. `TagsProbe` counts time in ticks and a
reply in pieces; a read ends when a block is full or the reply is over, and each
socket operation may take nearly the timeout. `Open` is one operation before the
body: connecting, a redirect, the status line or a header. There may be any
number of them before the deadline is first looked at, and `headTime` is when the
head had come.

### LibraryRedaction

A text is a sequence of words, each a value of a category, a token, or plain. The
callback rewrites the messages in the caller's list in place, so a second call
with the same list meets tokens. `redactor` is the engine of the call, and
`by`, in a message, tells which engine redacted it.

### SetupWizard

One action per question, per step of the plan, and per write; `picks` is what was
chosen, `eof` that stdin has ended, after which every yes-or-no question is
answered no. `flags` are the installer's `--features` ("features"), `--preset` and
`--no-local-llm` ("tier"), which answer in place of the user, whether or not stdin
has ended. A download or install may fail, the application may save its own
configuration meanwhile (`memory`), and a kill may cut the write of the file.
Three tables say what a preset means, and they are constants: `ModelOf` is the
model that is pulled (`LLM_PRESETS`), `StackKeyOf` the key that is switched on in
the configuration (`PRESET_TO_STACK_KEY`), `Resolves` the model that runs for a key
(`proxy.py:164-170`, `main.py:586-589`, `local_llm.py:64-100`).

### Protection, SystemProxy, Launch, Certificates

These four share the code of the interceptor's surroundings, each with what the
others leave out. In `Protection` a thread's `job` is the call it carries out
and the step it is at; start is clear, spawn, wait, enable, and stop is disable,
terminate, forget. Menu, dashboard and watchdog run the same steps, between any two
of which another thread may act, since no lock covers them. `overlapped`
remembers that this has happened. A command to the system (`networksetup`,
`pfctl`, a signal) may fail at each place the code issues one: the PAC takes on
some of the interfaces or on none (`Takes`), the list of interfaces is replaced
by its fallback (`Listings`), the packet-filter rules are not set, a process
outlives the signal to end; writing the PAC file or running a command may raise.
Such a step counts as a `Fault` and leaves a mark: `survivors`, `unblocked` and
`missed` (what the monitor's last look did not cover). `SystemProxy` is the Windows part of enable and
disable, one action per registry or file operation, with kills between any
two. `Launch` is `main.py`: the start-up thread, the switches, and a cleanup
that comes from a signal, the tray or the end of the main loop; `strays` are the
children it leaves, and `excused` names what a step whose failure nobody looks at
may have left: the route not undone or not set, a child alive, a stray that
answers on the port in place of the new process. In `Certificates` a pair is the number of its generation and a
file carries, where the code compares dates, the time of its last change; a
restore may set it back, and a start that keeps its copy for that is `fooled`.

### ConfigFile, RuleEngine, PolicyWatch

`heap` holds the `AppConfig` objects, because handlers change the shared one in
place while another thread writes it: what a save writes is what its object holds
at the time of writing. A write truncates (`Torn`) and then fills. `lists` holds
list objects for the same reason: `add_rule` appends and sorts in place,
`remove_rule` assigns a new list, and an evaluation keeps the list it began with.
`PolicyWatch` cuts `_load` into reading the file, swapping the engine and looking
at the time; two watch threads may run after a stop and a start.

### AuditLog, SiemDispatch, EventLog

| code | model |
| --- | --- |
| `_queue`, `_running`, the writer or dispatcher threads | `queue`/`inbox`, `running`/`dispatching`, `writer`/`thread` |
| `get_audit_store` with its double check, `record` | `GetFinds` to `GetStarts`, `Check`, `Put` |
| `_writer_loop`, `_flush_batch`, `_enforce_retention` | `Take`, `WaitEnds`, `Leave`; `Commit`, `Mirror` and their failures; `Retain` |
| the list of backends and the place of the loop in it | `backends`, the walk in `thread` |
| a backend's socket or file; its peer | `handle`; `up` |
| `stop()` | its flag, its blocking put, its join with five seconds or without an end |

An event is the number of its creation. The one-second clock of the writers is
the choice between going on and flushing. `EventLog` says what a recorder owes
one sink: what it accepted is settled once, in the sink for good or lost for
good. `AuditLog` implements it with `kept` as the rows ever committed, and again
with `kept` as the lines ever mirrored; `SiemDispatch` implements it for each
backend, with `kept` as what its peer received.

### Workbench

`worker` is the process with its two pipes, a pipe a sequence of texts and
answers; `waiting` are the threads blocked on `readline`, in order, which a
line reaches one by one and the end of the pipe all at once. A scan that times
out kills the worker. `record` is
`_workshop_bench`, which handlers read and set without a lock. The samples of
a benchmark are numbers, an answer is the text it is for.

### MCServices, MCRecords, MCParts

Components without shared state would multiply each other's states. These
modules extend several and add a variable `live` that names the one that moves;
the others rest in one initial state, in which none of their fair actions is
enabled. The state space is the sum of theirs and every property is checked of its
component as if it were alone.


## 3. The runs

A run checks one invariant per component, or a few, each a conjunction of named
parts (`ApprovalsAreSound == TypeOK /\ ForwardedWasApproved /\ ...`), and one
temporal property likewise. The tables name the checked property first and then
the parts it joins, types left out. Each part is stated, with what it means, in
its module, and the mutants include one that breaks it.

| run | expected | what it asks |
| --- | --- | --- |
| `vault` | passes | Two threads tokenize, pin and detokenize two values of a canonical and a coined category, with expiry, crashes and failing loads. No token is in both stores, for the reasons the proof gives (`SeparationInv`, of which `NoCollision` is a part), none is restored to another value across the two lookups (`RestoredExact`), what `pin` returned stays on disk and stays the answer (`PinsLast`: `AckedPinsAreOnDisk`, `AckedPinsAreStable`), the service implements `TokenRegistry` (`PromiseKept`). |
| `vault_faults` | passes | The same with failing writes, `clear()` and a clashing coined term: `FaultsAreSurvived`: each store still agrees with itself and the file is intact (`StoresConsistent`), every way out of `pin` frees the lock (`LockInv`). |
| `vault_clash` | violated | A coined `card` next to pinned credit cards: see below. |
| `gateway` | passes | Two requests, two values, two detectors, pins and dismissals at any time: `PinnedNeverLeaves`, `RepliesStayScoped`, `VerdictsHold` (`RaisingBlocks`, `StaysDismissed`). |
| `sse_tail` | violated | A last event without a text field. |
| `lifecycle` | passes | Two requests, a save and the start of another, construction failing for any time: `NothingUninspected`, `CurrentUnlessFailed`, `LifecycleIsSound` (`RetryOwnsLock`), and `Heals` (once what was broken stays repaired there is a pipeline). |
| `lifecycle_resave` | violated | A save while a retry is building. |
| `browser` | passes | Two flows on one worker thread, with values in a message, in a file, in another format or nowhere; the pipeline under construction, failed, ready; approval mode switched at any time; replies with text, without, undecodable or cut short. `OnlyClearedLeaves`, `MessagesAreRedacted`, `SilenceMeansClean`, `CountsAreSound` (`CountersTell`), `AllIsAnswered` (`RequestsAreAnswered`, `RepliesAreScanned`). |
| `browser_redact` | violated | A redaction of anything but a plain message. |
| `services` | passes | `Protection`: menu, dashboard and watchdog start and stop the proxy while processes die, interfaces come and go and commands fail (`ProtectionIsSound`: `SerialCallsAgree`, `BlockedWhenFailed`; `ProtectionMovesOn`: `OutageIsTold`, `InterfacesAreCovered`, `CallsReturn`). `Approvals`: one request held again and again, lost and slow messages, restarts, late clicks (`ApprovalsAreSound`: `ForwardedWasApproved`, `ApprovalIsHonoured`; `ApprovalsMoveOn`: `DecisionIsFinal`, `HeldIsAnswered`, `EntriesGo`). `PolicyWatch`: the policy file is edited while the watcher is started and stopped (`WatchIsSound`: `UpToDate`, a watcher that believes it is up to date is; `EditsAreSeen`: one left running ends with the file's policy; both but for a write that slips between reading and looking at the time). |
| `records` | passes | `AuditLog`: two request threads, failing flushes, stop and start, kills (`AuditIsSound`: `MirrorHasRow`, `CountIsEarned`, `RecentStays`, `StopFlushes`). `SiemDispatch`: a file, a hook and a syslog backend, peers that stall or go, changes of the list (`SiemIsSound`: `StatsTell`, `SyslogHeals`). Both: `RecordsAreLogs` (`TableIsALog`, `MirrorIsALog`, `SinksAreLogs`: each sink implements `EventLog`) and `RecordsMoveOn` (`RecordReturns`, `StopReturns`, `EventsAreWritten`, `SiemStops`, `MessagesLeave`). |
| `parts` | passes | Fourteen components, each alone: see the next table. |

The components of `parts` and what is asked of each, besides its types:

| module | checked as | parts |
| --- | --- | --- |
| `ConfigFile` | `ConfigIsSound` | `MemoryIsOnDisk`: when nobody is saving, the next launch will load what this one runs with. `ChoiceIsKept`: interception is as the user last chose, but for overlapping savers, torn files and outdated pages. |
| `RuleEngine` | `EngineIsSound` | `DecisionsAreTheRules`: a decision on host, category, source application, time and confidence is that of the rules in force at some moment of its walk, unless a sort ran under it. |
| `TermFile` | `TermsAreSound` | `PrefixesAreUnique`: no two terms share a prefix whatever processes overwrite. `AnswersStay`: an answered prefix stays the term's until a replacement loses a write. |
| `SystemProxy` | `ProxyIsSound` | `SettingsAreKept`: the user's proxy settings are in place or in the copy. `OursIsGone`: without a copy nothing of ours is in place. |
| `Workbench` | `WorkIsSound` | `AnswersAreTheirOwn`: a scan gets the findings of its own text. `RecordTells`: the record is that of the benchmark at work. |
| `TextScan` | `TextsAreSound` | `WholeTextIsShown`, `NamedValuesGo`, `ExactlyTheSpansGo`: no value is cut by the chunks, every occurrence goes, and exactly the union of the spans goes. |
| `Firewall` | `CallsAreSound` | `FindingsCount`, `PlacesAreReplaced`, `AnswersAreAudited`: findings of any scan count whatever else raised, placeholders are in their places, every answer left a line. |
| `DetectorTiers` | `TiersAreSound` | `LoadedOnce`, `AbsenceIsTold`, `LoadedTiersAnswer`, `StrictIsLoaded`: one load serves all, a tier that is absent has said so, one that is loaded stays, `--strict` means loaded. |
| `TagsProbe` | `TiersAreSound` | `ProbeTells`, `OneReadOverdue`: the answer is that of the daemon's list, and once the deadline has passed one read is waited for at most; the head before the body is not bounded. |
| `LibraryRedaction` | `CallsAreSound` | `NothingGoesOut`, `TokensTellValues`, `RestoreUndoes`. |
| `Certificates` | `CertificatesAreSound` | `PairIsWhole`, `SignsWithOurs`, `TrustIsTrue`: but for mixed generations, a start deceived by the date of a restored file, and trust by name. |
| `Launch` | `LaunchIsSound` | `RouteIsUndone`, `ChildrenEnd`, `ResumesAsLeft`: what a launch leaves is what its failed commands left, and the next one runs what is wanted, routed unless setting the route failed. |
| `SetupWizard` | `SetupIsSound` | `ConfigComesLast`: the file has the key of the preset picked alone, and that preset's model is installed or was told to be missing. `EofInstallsNothing`: nothing without an answer, but Ollama where a flag asks for the tier. `OtherSettingsStay`. |
| `SseRelay` | `TextsAreSound` | `SameAsWhole`, `HoldsOnlyATail`, `LosesOnlyATail`, `WholeAfterText`: two texts under keys of their own, all chunkings. |

A property that says "unless" names the exception by a history variable of its
module, and the list below says what happens then.

### What the violated runs show

Each is a statement of the repository that the code does not keep.

- `vault_clash`. `sync_counter_floors` hands a prefix to functions that expect
  a category and map it once more (`vault/service.py:50`). After the language
  model tier coined `card`, the floor of `CARD` is raised under `CARD_2`; the
  next session token repeats a pinned one and a reply is restored to the wrong
  value, against "can never collide" (`service.py:4-5`).
- `sse_tail`. The template is the last JSON event, not "the last text-bearing
  event" (`gateway.py:325-326`); with the usual empty finish event what is held
  back is dropped.
- `lifecycle_resave`. A blocked request notes the new modification time and
  finds a retry in flight that has read the old contents; nothing builds the
  new ones, against "rebuilds the pipeline either way" (`mitm_addon.py:1260`).
- `browser_redact`. `_redact_request` rewrites the last user message if it is
  a string and nothing else (`mitm_addon.py:1440-1445`). `_extract_content`
  finds text in many more places, so a prompt with message parts or a file is
  counted and logged as redacted and sent as it was, against "violations block or
  redact" (`README.md:223`) and the test that says why the redacting rule exists
  (`tests/unit/test_policy_llm_fallback.py:42`). `browser-rules.yaml` redacts only
  findings of the local model between 0.7 and 0.8; a policy with more redacting
  rules is affected more often.

### More disagreements

These were met while modelling and are not kept as runs. The first group can be
seen by changing constants or a property; the others are what a property's
exception stands for, or what its actions do.

Token service and gateway
- With `MayClear = FALSE` and `Coinable = {}` in `MCVaultFaults.cfg`,
  `NoCollision` fails: when the write of the vault file raises, the entry stays
  in memory and the floors are not raised, so a session token repeats the
  pinned one (`service.py:89`). With `AckedPinsAreOnDisk`: a retry of that pin
  finds the entry and answers it without writing (`pinned.py:155`).
- With `MayBeUnavailable` not empty, `gliner_not_cached` matches no rule of
  `cli-rules.yaml` and the request goes out, against "This is still
  fail-closed" (`detectors/registry.py:79-82`). `browser-rules.yaml` has a rule.
- Two choices of a streamed reply have the same JSON key and share a channel, so a
  held-back piece of one comes out in the other (`gateway.py:305`): `SameAsWhole`
  with two streams on one channel.
- A term file replaced by two processes loses a term (`taxonomy_store.py:117`).

Detectors, firewall, library
- A chunk broken off early, before twice the overlap, makes the next start beyond
  its end: text between them is never shown (`local_llm.py:297`). An item whose
  confidence is no number is dropped.
- Overlapping spans of the firewall leave tails in clear text or garble
  placeholders (`app.py:401`); a raising detector counts as no finding there.
- `_model` is published before `_topic_embeddings`: a scan that comes between
  raises, which is no finding (`semantic.py:242`); so does every scan after an
  error that is neither an ImportError nor an OSError. A tier once unavailable is
  never tried again.
- `--strict` does not see that the embeddings' model is missing, against
  `status.py:7-9`; the probe's deadline is called wall-clock
  (`status.py:15-17,118-123`), but the reply's head is not bounded by it: each
  socket operation has a timeout of its own (`status.py:112-117`), so connecting,
  redirects, status line and headers may trickle, and so may one read
  (`status.py:141`). A head that came too late is given up at the first look.
- A forced redaction gets an engine of its own, against "per-request
  RedactionEngine" (`callback.py:47`, `:111`), so its numbers repeat; messages whose
  content is a list are not scanned; an exception half-way leaves the earlier
  messages redacted; a token the user typed is restored.

Command line
- "Nothing was installed or changed" (`setup_wizard.py:1036,1321`, `cli.py:290`)
  is said after Ollama or extras may have been installed; the installer installs
  Ollama before the plan is confirmed, with `--preset` even if stdin has ended
  and the plan is then aborted (`setup_wizard.py:1053-1064`); an unreadable
  configuration is replaced; a failed `ollama pull` in the plan is not looked at.
- The preset "quality" pulls `gemma4:e4b` (`setup_wizard.py:135`), but switches on
  `gemma4_e2b` (`:44`), for which `gemma4:e2b` runs (`local_llm.py:58-64`): the
  model that was downloaded is not the one that runs, nothing says so, and the one
  that runs may be missing, against "keep in sync with
  domestique/detectors/local_llm.py" (`:119`). On an Apple machine "balanced" has
  the same effect, since `gemma4:e2b-mlx` runs. `ConfigComesLast` without its last
  alternative is violated by "quality". A walkthrough that picks no model leaves the
  name of the preset before in `llm_preset`.

Interceptor
- `InspectedByCurrentConfig` in `MCLifecycle.cfg`: a hot reload that raises blocks
  its own request; the modification time is noted, so the next one is inspected
  by the old pipeline (`mitm_addon.py:1382`).
- The poll loop gives up after an answer that says pending, however long it took
  to arrive, although the entry was approved in time (`mitm_addon.py:1096`,
  against `approval.py:4-6,10`).
- The wait for the pipeline is offloaded so that "other flows keep flowing
  concurrently" (`mitm_addon.py:513-514`), but a flow whose detectors are offloaded
  queues behind waits and holds once they take all workers; it is answered, late.
- A reply with nothing to extract (`reply` "empty") or one cut short ("cut")
  leaves no trace: formats `_extract_sse_content` does not know, and streams the
  user stops, are in the same state as clean replies.

Protection and certificates
- `_stop_protection` leaves the watchdog running (`app_delegate.py:255-266`), which
  starts the proxy again; stop during a recovery ends ACTIVE (`watchdog.py:215`,
  against `app_delegate.py:99`); packet-filter rules stay, or come, after a stop;
  the warm-up writes `True` over a saved `False`; overlapping starts leave a
  process nobody knows; an interface that comes between enabling and the first
  look never gets the PAC.
- `start()` does not look at what `enable_system_proxy` returns (`proxy.py:465`):
  without an active interface, or where the PAC does not take
  (`interceptor.py:443-479`), protection is reported as running and nothing is
  routed to it. If writing the PAC file raises, the process runs on unrouted,
  and `start()` counts as failed. `ResumesAsLeft` without "unset" is violated.
- `start()` that times out only signals the process and forgets it
  (`proxy.py:458-462`); one that does not go keeps the port, and the next
  `start()` may take its answer for that of the new process. `stop()` that raises
  at the system proxy leaves the process running while the configuration says off.
- The watchdog tries an interface once: it counts as known before the PAC is set
  (`watchdog.py:231-240`), whose failure is logged and not retried, against
  "re-applies PAC" of its documentation. `InterfacesAreCovered` without `missed` is
  violated.
- Fail-closed mode tries to set the packet-filter rules once: without sudo or off
  macOS nothing happens, and an error ends the poll (`watchdog.py:273-320`); the
  state is FAILED all the same. `BlockedWhenFailed` without `unblocked` is violated.
  The rules do not exempt the proxy's own traffic, against "unless they originate
  from our proxy process", and they are not removed when it recovers; a monitor
  that gives up while the watchdog is being stopped sets them after the removal.
- `_cleanup_services` stops the browser proxy only if it runs, so that a dead
  mitmdump leaves the system proxy on (`main.py:1006`); a start under way during
  the cleanup leaves a route or a child.
- Two generations at once, or a crash between the two writes, leave a mixed pair
  nothing repairs; on Windows trust is a matter of the name
  (`cert_manager.py:31`); a regeneration during a start is not copied.
- A restore that preserves a date no newer than the copy's is not noticed, as the
  code says (`proxy.py:198-203`): mitmdump signs with the old copy, a pair that may
  be neither on disk nor trusted, until the next generation, or a restore with a
  newer date. `SignsWithOurs` without `fooled` is violated.

Application
- Saving anything else from the dashboard posts the configuration the page once
  read and reverts interception (`store.py:94-114,118-125`); a crash within
  `_write` gives defaults, and auto-enable then overrides an explicit off.
- `evaluate` sees an empty list while `add_rule` sorts (`policy.py:257`); a write
  between reading the policy file and its `stat` is never loaded (`policy.py:339`).
- `stop()` of the audit store blocks for ever on a full queue without a writer
  (`audit.py:147`); a left-over sentinel ends the next writer at once.
- `siem.py:344` promises retries and there are none; the CEF backend keeps a
  broken socket; a removed backend is never closed; a peer that stalls stops all.
- A second POST may start a second benchmark on the same record (`api.py:1487`).

### Bounds, and why they are enough

- *Vault*: two threads are what any two calls need to get between each other's
  steps, and a third adds only another copy of a call that is in progress.
  `MaxIndex` 2 leaves room for one number after the first, which is what a
  repeated number needs (3 for the clash, which pins first). Two categories,
  because prefixes are independent but for the clash. Minting and pinning stop
  at the bound (`Room`, `n <= MaxIndex`). Detokenizing takes pairs out of
  `issued`; a token nobody issued is not found in either store.
- *Gateway*: two requests share `MaxFields` 2 fields, so one has two or both
  have one; scoping needs two requests, stopping on a later field needs two
  fields, and no property relates two requests with two fields each. One value
  falls under a redacting rule at its confidence, one under a blocking rule of
  one detector and none of the other. `SUGGEST_THRESHOLD` is 1 (3 in the code)
  so that counts past the threshold occur; the proof is for any threshold.
- *SseRelay*: the token has three characters, so `MAX_TOKEN_LEN` is 3 (32 in
  the code), `MaxText` 4 leaves room before or after it or for a longer
  unterminated tail, events have up to two characters. Every cut of the token
  occurs. Two texts share the length bound.
- *DetectorLifecycle*: `MaxMtime` 4 is one whole save and the opening of another
  on top of the first contents (5, two whole saves, for the disagreement). The
  three configurations are the defaults an empty file stands for and two others.
- *Approvals*: timeouts of one and two polls; `Retention` 2 is the five minutes
  a decided entry is kept; `MaxAge` is one more than both, where ages saturate,
  as all that is asked of an age is whether it exceeds one of them. The code's
  retention is far longer than its polls, here it is at the limit.
- *BrowserRequest*: two flows have four tasks; with one worker any job can be
  kept waiting by any other. One value is enough, as nothing compares values;
  the four bodies are one of each kind `_redact_request` and `_extract_content`
  tell apart.
- *Protection*: one thread of each kind, since menu, dashboard and watchdog are the
  three callers; two interfaces, one of which comes late; two processes, the first
  one and one that replaces or meets it; two calls, so that any start or stop can
  overlap another besides the watchdog's; two restarts (`MAX_RESTART_ATTEMPTS`
  is larger) to have one that is followed by another and one that is not. One
  command fails (`MaxFaults`), and calls, moves and failures are three in all
  (`MaxEvents`), so that a failure meets two calls or a call and an interface.
- *AuditLog*: `QueueMax` 1 makes a full queue and a dropped event cheap,
  `BatchMax` 2 a batch of more than one; two writers are one life and the next,
  or the old writer that outlived its join and the new one; `MaxRows` 1 makes
  retention bite. *SiemDispatch*: three backends of three kinds (a CEF backend is
  a syslog backend that keeps its socket, which `SyslogHeals` is not about),
  batches of two, two changes of the list, which make an addition and a removal. A
  second dispatcher thread is only met by a list without hooks
  (`SecondThreadAlone`): what two threads share are the queue, the
  statistics and the sockets, and files and sockets are still there.
- *ConfigFile*: the tray, the switch of the API and one page: three savers; two
  saves, one kill. *PolicyWatch*: two threads, two writes, times up to 3, three
  starts and stops, which make a second thread while the first is at work.
  *RuleEngine*: four rules with one tie in priority and one disabled, one
  evaluation after another against an addition and a removal. *TermFile*: two
  processes, three terms of which two derive the same prefix and one derives the
  prefix another gets on collision; three numbers (998 in the code), since
  `EnoughNumbers` asks for as many as there are terms: where all are taken the
  code answers with the bare prefix, and two terms share it. A store is full with
  two terms (512 in the code), so that it meets its limit and a merge goes beyond it.
- *SystemProxy*: two enables, two disables, two kills and one change by the user:
  everything twice that the copy is supposed to survive.
- *Workbench*: two benchmarks with one and two samples, one scan, two workers.
  *DetectorTiers*: two requests, each of the three tiers alone (their locks and
  flags are apart), one failing analysis, one change of the machine.
- *TextScan*: chunks of at most seven characters that overlap by three (the code:
  thousands and hundreds), over all texts of eight and nine letters with breaks
  in chosen places and some with spaces: every way to break or not break at each
  of two chunks' ends. *Firewall*: two fields, two detectors, results with
  spans that touch, overlap, nest and are empty, placeholders shorter and longer than what
  they replace. *LibraryRedaction*: two messages, two calls.
- *TagsProbe*: a timeout of two ticks, blocks of five pieces and a limit of eight,
  so that the limit falls inside the second block; the head takes up to three
  ticks (`MaxHead`), one more than the timeout, by operations that each take less.
- *Certificates*: two callers, of which one goes on to trust; two generations, one
  mishap; a restored file has the time of the restore or one before any copy, since
  only its order to the copy's date counts. *Launch*: two launches, one death, one toggle: the second launch meets
  what the first left. *SetupWizard*: one run over every
  kind of machine and file, with all detection switched on in the file there is;
  three presets, of which two share a key and one of these has a model that its
  key does not stand for, as in the code.

Deadlock is checked for the vault, the lifecycle and the browser's requests (where
switching approval mode is always possible, so that it is the liveness
properties that say nothing gets stuck). It is off for the gateway, where all
requests may be over, and for `services`, `records` and `parts`: their components
come to rest by design, when the application has quit, the bounded calls,
messages, edits or launches are used up, or the one text, reply or probe is done.

### Fairness

`Vault`, `Gateway` and the components of `parts` state safety only.

`DetectorLifecycle!FairSpec`: a builder that has started goes on (a thread runs,
or the event loop it keeps does), the back-off passes, requests keep
coming, and a request that can be handled again and again is (strong fairness,
since others may keep the loop each time; asyncio's ready queue is first come
first served). Nothing is assumed of the saving process. Requests must keep
coming because only a blocked request starts a retry.

`Approvals!FairSpec`: time passes, the interceptor's thread runs, and somebody
lists the entries (`EntriesGo` needs it: entries are dropped only by calls that
clean up, and an open dashboard polls). Nothing is assumed of the user or the
network.

`BrowserRequest!FairSpec`: tasks of the loop get their turn, a job with a worker
comes to its end (the wait for the pipeline and the hold have timeouts;
detectors return). Nothing is assumed of the pipeline, which may be under
construction for ever, nor of the user and the provider.

`Protection!ProtFairness`: every thread in a call goes on, the monitor's loop
runs, and a back-off ends (strong fairness of `Attempt`: other polls may come in
between). Nothing makes a process listen, or anyone call.

`AuditFairness`, `SiemFairness`: a request thread goes on once it has an event,
the writer and the dispatcher run, and so does the caller of `stop()`. A
peer that stalls is left to stall; nothing makes anyone send an event or stop.

`WatchFairness`: the watch threads have their turns and finish a load they
began. Nothing is assumed of those who edit.

Where several components share a run, the fairness of the resting ones holds
trivially, because none of their fair actions is enabled in their initial state.


## 4. What is proved

| theorem | for every | argument |
| --- | --- | --- |
| `Vault_proofs!TypeCorrect` | constants | `TypeInv`: types, and a call in progress has its arguments |
| `StoresStayConsistent` | constants, failing writes and `clear()` included | `StoresInv`: adds that session numbers are at most the counter, so a new number is new |
| `LockIsReleased` | constants | `LockInv`, with `DownInv` (nothing is running while the process is down) |
| `FaultsLeaveNoTrace` | constants | the two before: `FaultsAreSurvived` |
| `PinsAreDurable` | constants without failing writes | `DurabilityInv`: a loaded vault mirrors the file, a pin about to return is in it |
| `PinsAreStable` | the same | `MirrorInv`, part of it: a loaded vault answers with what is in the file |
| `PinnedTokensLast` | the same | the two before: `PinsLast` |
| `TokensNeverCollide`, `TokensAreRestored`, `StoresStayApart` | constants without failing writes, `clear()` or a clash of prefixes | `SeparationInv` |
| `PromiseIsKept` | the same as the three before | every step of `SeparationInv` maps to `Issue`, `Forget` or a stutter |
| `Gateway_proofs!TypeCorrect`, `PinnedStaysHome`, `RepliesAreScoped` | requests, values, detectors, rules | `Inv`: in the fields already scanned nothing is left in clear text that was pinned on arrival, and the tokens of a request stand for values of its fields only |
| `ErrorsFailClosed` | policies with a rule that blocks detector errors (`BlocksErrors`) | `ErrorInv`: no error was seen on a field of a request that goes on |
| `DismissalIsFinal` | thresholds | `OfferInv`: every value ever offered has reached the threshold |
| `VerdictsAreKept` | as `ErrorsFailClosed` | the two before: `VerdictsHold` |
| `Detection_proofs!LifecycleHolds` (types and `RetryOwnsLock`), `FailsClosed` | requests, configurations, saves | `ControlInv`: the loop is kept by the request that compares or reloads, and only when there is a pipeline |
| `CurrentUntilFailure` | the same | `FreshInv`: when the loop is free, a known modification time means an up-to-date pipeline |
| `CallsSound` | texts, detectors, findings, placeholders; rules, messages, completions | `FwInv`: what each stage has behind it, and that what was sent is the body the findings call for; `LibraryInv`: a message that was rewritten carries tokens of the engine its call used, and an engine numbers each value of a category once |
| `Services_proofs!OnlyApprovedIsForwarded`, `DecisionsAreFinal` | requests, timeouts | `ApprovalInv`: the entry and what the dashboard was told agree |
| `ApprovalsAreHonoured` | the same | `ClockInv` and `SeenInv`: without lost or slow messages the interceptor's deadline is after the entry's, its last poll is at it or later, and a decision is not cleaned up before it is seen |
| `ApprovalsHold` | the same | types, `OnlyApprovedIsForwarded`, `ApprovalsAreHonoured`: `ApprovalsAreSound` |
| `WatchSound` | texts, times, readers | `WatchInv`: unless a write slipped in, what a reader is about to put in force or to look at the time of is what the file says |
| `ProtectionSound` | threads, processes, interfaces, failing commands | `ProtInv`: while no call overlapped another, one thread at most is in a call, and at each of its steps process and PAC are what the steps before it made them, the PAC on the interfaces it took on and the processes but for the `survivors`; a state that is failed has its rules, or a thread about to set them, or the mark that this failed |
| `EngineSound` | rules, requests, evaluators, list objects | `EngineInv`: a walk no sort ran under goes over a list some book of that walk explains; that `add_rule` sorts what is sorted but for its end, and that removing commutes with sorting, are lemmas on sorted sequences |
| `BrowserRequest_proofs!ClearedOnly`, `MessagesLeaveRedacted` | requests, bodies, workers | `RequestInv`: a request with an outcome is over, so its verdict, findings and body no longer change |
| `SilenceIsClean` | the same | `ReplyInv`: what is left behind by a scan that is over, and that counters only grow |
| `CountsHold` | the same | `QueueInv`, `CountInv`: a job that waits or runs is in the pool once, and each counter is the number of the requests that are where it says; the counts are cardinalities, so a step moves one request from one set to another |
| `Parts_proofs!OwnSettingsKept`, `OursLeaves`, `SystemProxyHolds` (both, with types) | numbers of calls, kills and changes, sets of URLs | `SysInv`: the user's settings are in the registry, in a whole copy, or being copied or put back by the call under way (`OwnIsSomewhere`), and ours is in place only while a copy is (`OursNeedsACopy`) |
| `ConfigSound` | handlers, pages, fields, saves | `CfgInv`: who writes holds the lock and writes the shared object, who changed an object is going to save it, and the choice is in every object that will be written |
| `LaunchSound` | launches, deaths, toggles | `LaunchInv`: unless excused, a route leads to a child or to a step that will undo it, a cleanup's steps behind it are done, and how far the start-up thread has come |
| `CertificatesSound` | callers, pairs, mishaps | `CaInv`: each number is used by one generation, a key on disk is the writer's own until its certificate is, and a copy that looks fresh is of the pair on disk, unless a restore set the date back |
| `SetupSound` | presets, the three tables, flags, runs, breaks | `SetupInv`: until a run writes, the file is the one it found; what a step of the plan installs comes before the configuration that names it; without an answer a run comes no further than the plan, and to Ollama only by a flag |
| `TermsSound` | processes, terms, prefixes, faults; as many numbers as terms (`EnoughNumbers`) | `TermInv`: what is merged, like each store and the file, has a prefix of its own for each term; what a process is about to write contains what it read, so without a lost update the file only grows. That a number is free is a pigeonhole argument (`RoomForOneMore`) |
| `Records_proofs!AuditSound` | events, threads, lives, faults | `AuditInv`: an event is in one place (a request, the queue, one batch, the sinks) and the sentinel comes after all that `stop()` owes |
| `SiemSound` | messages, threads, backends | `SiemInv`: a message is in one place and not yet handed to a backend it is still ahead of, statistics only count when a backend is finished |
| `TableLogs`, `MirrorLogs`, `SinkLogs`, `RecordsLog` | the same | every step of `AuditLog` and `SiemDispatch` maps to a step of `EventLog` for that sink or to a stutter, under the two invariants above |
| `WorkSound` | scans, benchmarks, workers | `WorkInv`: the pipe holds what the worker was asked in that order, a waiting thread's answer is of its text, and unless two were let in one benchmark is between its check and its end |
| `TiersSound` | tiers, scans, tags, pieces | `TierInv`: only the scan that holds a tier's lock changes what is known of it; `TagsInv`: after a head in time the time a read has used is bounded by its pieces, and after a late one nothing is read |
| `Texts_proofs!ScanSound` | texts, sizes of chunks, models, detectors | `TextInv`: unless the model failed, the chunks shown and those still to be shown are all of them, what was named is located before anything is replaced, and what is kept is the text spliced along the merged spans |
| `RelaySound` | replies in any pieces, each text under a key of its own (`KeysOwn`) | `RelayInv`: what a channel holds is a tail of what its stream sent, one that may still become a token, and the client has the rest detokenized |
| `TextsSound` | the same | the two before: `TextsAreSound` |

`NoCollision` is not inductive, nor is it true in general. `SeparationInv` says
why it holds where it does. Under `NoPrefixClash` (no coined term derives a
canonical prefix or that of another coined term, and the prefix of a category
is its own prefix) a term's prefix is fixed before and after it is coined, so
the floors reach every pinned prefix. Then every pinned number is at most the
counter, except for that of a pin that has stored and not yet synced
(`PinnedBelowCounter`), a pin about to store has a floor above the counter
(`PinAboveCounter`), which stays so because minting needs the lock it holds,
and what was issued is still what either store answers (`IssuedInv`). Each of
the three assumptions is needed: `vault_clash` and the list above show what
happens without the first two, and `clear()` restarts numbers without floors.

`CallsSound` rests on what four recursive functions compute for texts of any
length. Each is unfolded once into its value at 0 and its step, and a fact about
every value up to n follows from `UpToInduction`, which holds because a set of
numbers has a least member. `RedactionFacts` says what `RedactionEngine.redact`
leaves of a text whose words it replaces from the last to the first: words without
a sensitive value stay, each other word becomes the token of its value, and the
engine has grown by the values it had not met. `RedactedAsWanted` says that
replacing spans from the last to the first, in a text whose length changes with
each, gives the text read off from its offsets: the characters before the spans
already replaced are the original's (`ReplacedKept`), and what is behind them is
what is wanted there (`OneMoreSpliced`). That the spans come in that order is
proved of the stable sort (`InOrderSorts`), whose places are counts of spans.

`TextsSound` rests on more such functions, which recurse over numbers going up or
down, over the rest of a text or over the spans that are left. A recursive
definition is a `CHOOSE`, so each proof first shows that a function of that kind
exists, by the rank of its arguments (`RecursiveFunction`). For
the relay, `Detokenized` of two pieces is that of each, where the first ends
outside of anything that may become a token; `_PARTIAL_TOKEN_TAIL` holds back as
much as that needs, whatever the pieces are. For the scan, three facts are proved of
texts of any length. Every window no longer than the overlap is in one chunk if
chunks are as long as `WholeTextIsShown` asks. Each occurrence of a value is met
by one of the located ones, even if it overlaps another. And splicing along the
merged spans gives `Expected`, by induction downwards over where the spans left
start. The last was stated first with empty spans among those to be merged, and is
not provable so: `Merged` then calls itself with the set it was given and no
function conforms to its definition. It now drops them, as `_redact_text` does.

`KeysOwn` is needed: with two choices of a reply under one key the relay mixes
their texts (section 3). One choice is what clients ask for by default. What the
end of a reply leaves (`LosesOnlyATail`, `WholeAfterText`) is stated of replies
with one text, since the flush puts what all channels hold into the first field.
The scan needs no such hypothesis.

The assumptions on constants are named in the modules (`VaultAssumption`,
`TaxonomyAssumption`, `GatewayAssumption`, `LifecycleAssumption`,
`ApprovalsAssumption`, `BrowserAssumption`, `ConfigAssumption`, `RuleAssumption`,
`TermAssumption`, `EnoughNumbers`, `SiemAssumption`, `TierAssumption`,
`TagsAssumption`, `FirewallAssumption`, `LibraryAssumption`, `TextScanAssumption`,
`KnownAssumption`, ...) and TLC evaluates them in the runs. `TermAssumption` says
that a numbered prefix is not canonical: no canonical prefix ends in a number.
`FirewallAssumption` says that a finding ends where it starts or later and that a
placeholder is not empty, `LibraryAssumption` that `Plain` is no category and a
category's rule is to block or to redact. `TextScanAssumption` says that the sizes of
chunks are positive and the overlap is at most a chunk's (500 and 8000 in the code),
and that other detectors' spans end where they start or later; `KnownAssumption`,
that a token is brackets around characters of its class, of at most
`MAX_TOKEN_LEN`.

Only model-checked: all liveness properties (`Heals`, `HeldIsAnswered`,
`EntriesGo`, `RequestsAreAnswered`, `RepliesAreScanned`, `OutageIsTold`,
`InterfacesAreCovered`, `CallsReturn`, `RecordReturns`, `StopReturns`,
`EventsAreWritten`, `SiemStops`, `MessagesLeave`, `EditsAreSeen`), since the
prover has no support for fairness. Every safety property of the passing runs is
stated by a theorem.


## 5. What is not modelled

- Encryption, the key ring, HTTP headers and routing, the text of tokens,
  messages and logs: no property is about them.
- What regular expressions and models find: any outcome is possible in `Gateway`
  and `Firewall`, given ones in `TextScan`.
- A second process on the same vault file, which the code calls unsupported.
- The configuration of the library (read once), its debug trace and audit line
  (written, never read back).
- Notifications and the tray's icon: a coalescing counter under one lock that
  nothing else reads. The in-page widget, the request log's file and its trimming.
- The content scanners, analytics, hardware probes and queries: functions of
  their input or of the database.
- Windows, menus, pages and `autolaunch.py`, deployment, benchmarks, workshop.
- `cli.py` beyond `start --strict` and `setup`: the other subcommands print, or
  start the application and post to it. Two `domestique browser` at once spawn
  two applications; that is a race of processes for a port outside this code.


## 6. Plan

1. `Gateway`'s `Redact` implements `TokenRegistry` step by step; the vault without
   `NoPrefixClash`, with the counter raised by prefix as the docstring intends.
2. `RelaySound` without `KeysOwn`, for a relay that keeps its channels by choice
   (`gateway.py:305`), once the code does.
3. Notifications as a small module, if they are ever read by another part.
