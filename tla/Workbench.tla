----------------------------- MODULE Workbench -----------------------------
(***************************************************************************)
(* The dashboard's scans and benchmarks (server/api.py): _VenvScanner,     *)
(* which feeds texts to one worker process and reads one line for each,    *)
(* and the handlers and threads of the benchmark, which share one record.  *)
(* Scans take turns under the scanner's lock; the benchmark's record has   *)
(* no lock.                                                                *)
(***************************************************************************)
EXTENDS Naturals, Sequences, FiniteSets

CONSTANTS
  Benches,     \* the POSTs to the benchmark, each with the thread it starts
  Scans,       \* the POSTs to /api/scan, one scan each
  Samples,     \* of each benchmark: the number of samples it has loaded
  MaxWorkers   \* bound: the worker processes started

Callers == Benches \cup Scans
Nobody == "nobody"
Warm == <<"warm">>   \* the line a worker prints when its pipeline is built

ASSUME WorkbenchAssumption ==
  /\ Benches \cap Scans = {} /\ MaxWorkers \in Nat
  /\ Samples \in [Benches -> Nat \ {0}]
  /\ Nobody \notin Callers /\ Warm \notin Callers

NoLine == <<"none">>
NoAnswer == <<"nothing">>
Idle == [running |-> FALSE, source |-> Nobody, processed |-> 0, report |-> Nobody,
         error |-> FALSE]

VARIABLES
  worker,    \* [alive, ready, inbox, out]: the process and its pipes
  workers,   \* the workers started
  proc,      \* _proc is that worker
  waiting,   \* the threads blocked on readline, in order
  turn,      \* the caller that has the scanner's lock
  scanStep,  \* where that caller is
  answer,    \* of each caller: the answer to its last scan
  record,    \* _workshop_bench
  bench,     \* of each benchmark: where it is and the sample it is at
  twice      \* history: a benchmark was let in while another was on its way

benchVars == <<worker, workers, proc, waiting, turn, scanStep, answer, record, bench, twice>>

scanVars == <<worker, workers, proc, waiting, turn, scanStep>>

Dead == [alive |-> FALSE, ready |-> FALSE, inbox |-> <<>>, out |-> <<>>]

WorkInit ==
  /\ worker = Dead /\ workers = 0 /\ proc = FALSE /\ waiting = <<>>
  /\ turn = Nobody /\ scanStep = "free"
  /\ answer = [c \in Callers |-> NoLine]
  /\ record = Idle
  /\ bench = [b \in Benches |-> [at |-> "new", sample |-> 0]]
  /\ twice = FALSE

-----------------------------------------------------------------------------
(***************************************************************************)
(* scan takes the lock and starts a worker when there is none, or a dead   *)
(* one; it waits for the warm-up line, but not for ever.                   *)
(***************************************************************************)
Wants(c) ==
  /\ answer[c] = NoLine
  /\ c \in Benches => bench[c].at = "run" /\ bench[c].sample < Samples[c]

Text(c) == <<c, IF c \in Benches THEN bench[c].sample ELSE 0>>

\* Mutant: nobody waits for the warm-up line.
EnsureCold(c) ==
  /\ turn = Nobody /\ Wants(c)
  /\ turn' = c
  /\ IF proc /\ worker.alive
       THEN scanStep' = "write" /\ UNCHANGED <<worker, workers, proc, waiting>>
       ELSE /\ workers < MaxWorkers
            /\ worker' = [Dead EXCEPT !.alive = TRUE]
            /\ workers' = workers + 1 /\ proc' = TRUE
            /\ waiting' = <<>>
            /\ scanStep' = "warm up"
  /\ UNCHANGED <<answer, record, bench, twice>>

Ensure(c) ==
  /\ turn = Nobody /\ Wants(c)
  /\ turn' = c
  /\ IF proc /\ worker.alive
       THEN scanStep' = "write" /\ UNCHANGED <<worker, workers, proc, waiting>>
       ELSE /\ workers < MaxWorkers
            /\ worker' = [Dead EXCEPT !.alive = TRUE]
            /\ workers' = workers + 1 /\ proc' = TRUE
            /\ waiting' = <<Warm>>
            /\ scanStep' = "warm up"
  /\ UNCHANGED <<answer, record, bench, twice>>

NoVenv(c) ==
  /\ turn = Nobody /\ Wants(c) /\ ~(proc /\ worker.alive)
  /\ answer' = [answer EXCEPT ![c] = NoAnswer]
  /\ UNCHANGED <<scanVars, record, bench, twice>>

WarmedUp ==
  /\ scanStep = "warm up"
  /\ scanStep' = "write"
  /\ UNCHANGED <<worker, workers, proc, waiting, turn, answer, record, bench, twice>>

(***************************************************************************)
(* The text is written and a thread waits for a line.                      *)
(***************************************************************************)
GiveBack(c, line) ==
  /\ answer' = [answer EXCEPT ![c] = line]
  /\ turn' = Nobody /\ scanStep' = "free"

WriteText ==
  /\ scanStep = "write"
  /\ IF worker.alive
       THEN /\ worker' = [worker EXCEPT !.inbox = Append(@, Text(turn))]
            /\ waiting' = Append(waiting, turn)
            /\ scanStep' = "read"
            /\ UNCHANGED <<proc, turn, answer>>
       ELSE /\ GiveBack(turn, NoAnswer)
            /\ UNCHANGED <<worker, waiting, proc>>
  /\ UNCHANGED <<workers, record, bench, twice>>

(***************************************************************************)
(* The worker builds its pipeline, prints the warm-up line, and then one   *)
(* line per text; it may die at any time.                                  *)
(***************************************************************************)

WorkerWarms ==
  /\ worker.alive /\ ~worker.ready
  /\ worker' = [worker EXCEPT !.ready = TRUE, !.out = Append(@, Warm)]
  /\ UNCHANGED <<workers, proc, waiting, turn, scanStep, answer, record, bench, twice>>

WorkerAnswers ==
  /\ worker.alive /\ worker.ready /\ worker.inbox # <<>>
  /\ worker' = [worker EXCEPT !.inbox = Tail(@), !.out = Append(@, Head(worker.inbox))]
  /\ UNCHANGED <<workers, proc, waiting, turn, scanStep, answer, record, bench, twice>>

WorkerDies ==
  /\ worker.alive
  /\ worker' = [Dead EXCEPT !.out = worker.out]
  /\ UNCHANGED <<workers, proc, waiting, turn, scanStep, answer, record, bench, twice>>

(***************************************************************************)
(* A line goes to the thread that has waited longest; the end of the pipe  *)
(* reaches all of them.                                                    *)
(***************************************************************************)
LineComes ==
  /\ waiting # <<>> /\ worker.out # <<>>
  /\ waiting' = Tail(waiting)
  /\ worker' = [worker EXCEPT !.out = Tail(@)]
  /\ IF scanStep = "read" /\ Head(waiting) = turn
       THEN GiveBack(turn, Head(worker.out))
       ELSE UNCHANGED <<turn, scanStep, answer>>
  /\ UNCHANGED <<workers, proc, record, bench, twice>>

\* Mutant: at the end of the pipe the lock is given back in the middle of a scan.
PipeEndsSilently ==
  /\ ~worker.alive /\ waiting # <<>> /\ worker.out = <<>>
  /\ waiting' = <<>>
  /\ proc' = FALSE /\ turn' = Nobody
  /\ UNCHANGED <<worker, workers, scanStep, answer, record, bench, twice>>

PipeEnds ==
  /\ ~worker.alive /\ waiting # <<>> /\ worker.out = <<>>
  /\ waiting' = <<>>
  /\ IF scanStep = "read"
       THEN GiveBack(turn, NoAnswer) /\ proc' = FALSE
       ELSE UNCHANGED <<turn, scanStep, answer, proc>>
  /\ UNCHANGED <<worker, workers, record, bench, twice>>

(***************************************************************************)
(* After the timeout the worker is killed and forgotten.                   *)
(***************************************************************************)
ScanTimesOut ==
  /\ scanStep = "read"
  /\ GiveBack(turn, NoAnswer)
  /\ worker' = Dead /\ proc' = FALSE /\ waiting' = <<>>
  /\ UNCHANGED <<workers, record, bench, twice>>

-----------------------------------------------------------------------------
(***************************************************************************)
(* POST to the benchmark: the check, the loading of the samples, and the   *)
(* reset of the record with the start of the thread.                       *)
(***************************************************************************)
OnTheirWay == {b \in Benches : bench[b].at = "load"}

Put(b, place) == bench' = [bench EXCEPT ![b].at = place]

LetIn(b) ==
  /\ bench[b].at = "new"
  /\ IF record.running THEN Put(b, "refused") ELSE Put(b, "load")
  /\ twice' = (twice \/ (~record.running /\ OnTheirWay # {}))
  /\ UNCHANGED <<scanVars, answer, record>>

Launch(b) ==
  /\ bench[b].at = "load"
  /\ \/ /\ Put(b, "run")
        /\ record' = [running |-> TRUE, source |-> b, processed |-> 0, report |-> Nobody,
                       error |-> FALSE]
     \/ Put(b, "refused") /\ UNCHANGED record
  /\ UNCHANGED <<scanVars, answer, twice>>

NextSample(b) ==
  /\ bench[b].at = "run" /\ bench[b].sample < Samples[b] /\ answer[b] # NoLine
  /\ bench' = [bench EXCEPT ![b].sample = @ + 1]
  /\ answer' = [answer EXCEPT ![b] = NoLine]
  /\ record' = [record EXCEPT !.processed = bench[b].sample + 1]
  /\ UNCHANGED <<scanVars, twice>>

(***************************************************************************)
(* The thread ends with a report, or with an error at any sample; the flag *)
(* goes down either way.                                                   *)
(***************************************************************************)
Report(b) ==
  /\ bench[b].at = "run" /\ bench[b].sample = Samples[b]
  /\ Put(b, "ended")
  /\ record' = [record EXCEPT !.report = b]
  /\ UNCHANGED <<scanVars, answer, twice>>

Fail(b) ==
  /\ bench[b].at = "run" /\ turn # b
  /\ Put(b, "ended")
  /\ record' = [record EXCEPT !.error = TRUE]
  /\ UNCHANGED <<scanVars, answer, twice>>

\* Mutant: the flag goes down only after a report.
FinishReported(b) ==
  /\ bench[b].at = "ended"
  /\ Put(b, "done")
  /\ record' = [record EXCEPT !.running = record.error]
  /\ UNCHANGED <<scanVars, answer, twice>>

Finish(b) ==
  /\ bench[b].at = "ended"
  /\ Put(b, "done")
  /\ record' = [record EXCEPT !.running = FALSE]
  /\ UNCHANGED <<scanVars, answer, twice>>

WorkNext ==
  \/ WarmedUp \/ WriteText \/ LineComes \/ PipeEnds \/ ScanTimesOut
  \/ WorkerWarms \/ WorkerAnswers \/ WorkerDies
  \/ \E c \in Callers : Ensure(c) \/ NoVenv(c)
  \/ \E b \in Benches : LetIn(b) \/ Launch(b) \/ NextSample(b) \/ Report(b) \/ Fail(b)
                           \/ Finish(b)

WorkSpec == WorkInit /\ [][WorkNext]_benchVars

-----------------------------------------------------------------------------
AtWork == {b \in Benches : bench[b].at \in {"run", "ended"}}

(***************************************************************************)
(* Type invariant of the scanner and the benchmark.                        *)
(***************************************************************************)
WorkTypeOK ==
  /\ worker.alive \in BOOLEAN /\ worker.ready \in BOOLEAN
  /\ workers \in 0 .. MaxWorkers /\ proc \in BOOLEAN /\ twice \in BOOLEAN
  /\ turn \in Callers \cup {Nobody} /\ (turn = Nobody <=> scanStep = "free")
  /\ scanStep \in {"free", "warm up", "write", "read"}
  /\ Len(waiting) <= 2 /\ Len(worker.inbox) + Len(worker.out) <= 2
  /\ answer \in [Callers -> {NoLine, NoAnswer} \cup (Callers \X Nat)]
  /\ bench \in [Benches -> [at : {"new", "refused", "load", "run", "ended", "done"}, sample : Nat]]
  /\ \A b \in Benches : bench[b].sample <= Samples[b]

(***************************************************************************)
(* A scan is answered with the findings of its own text or with nothing,   *)
(* through slow starts, timeouts and deaths of the worker: never with the  *)
(* warm-up line or another text's (scan and _ensure_proc).                 *)
(***************************************************************************)
AnswersAreTheirOwn ==
  \A c \in Callers : answer[c] \in {NoLine, NoAnswer, Text(c)}

(***************************************************************************)
(* The record tells the truth: a benchmark at work is the running one, its *)
(* progress is its own, and a finished run's report is that run's, unless  *)
(* a second POST passed the check before the first had set the flag        *)
(* (_handle_run_benchmark and _handle_benchmark_status).                   *)
(***************************************************************************)
RecordTells ==
  ~twice =>
    /\ \A b \in AtWork : record.running /\ record.source = b
                         /\ record.processed = bench[b].sample
    /\ record.running => \E b \in AtWork : record.source = b
    /\ record.report \in {Nobody, record.source}
    /\ record.running \/ record = Idle \/ record.error \/ record.report # Nobody

(***************************************************************************)
(* Types; each scan gets its own worker's answer, and the benchmark's      *)
(* record tells of its run.                                                *)
(***************************************************************************)
WorkIsSound == WorkTypeOK /\ AnswersAreTheirOwn /\ RecordTells

=============================================================================
