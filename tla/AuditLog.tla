------------------------------ MODULE AuditLog ------------------------------
(***************************************************************************)
(* The application's audit trail (services/audit.py): AuditStore, the      *)
(* singleton get_audit_store makes, and the interceptor's                  *)
(* _emit_audit_event, which many request threads call.                     *)
(*                                                                         *)
(* record() puts an event in a bounded queue; the "audit-writer" thread    *)
(* takes them out, gathers a batch and flushes it: committed to SQLite     *)
(* first, appended to the JSONL mirror second, either of which may raise.  *)
(* stop() leaves a sentinel in the queue and waits five seconds at most;   *)
(* start() may follow, on the same queue.                                  *)
(*                                                                         *)
(* An event is the number of its creation, so its order by timestamp is    *)
(* the order of the numbers.  The clock is the nondeterminism of Due.      *)
(***************************************************************************)
EXTENDS Naturals, Sequences, FiniteSets, SequencesExt, FiniteSetsExt

CONSTANTS
  Recorders, NoThread,
  Sentinel,       \* None in the queue
  MaxEvents,      \* bound: the events created
  MaxWriters,     \* bound: the writer threads started
  QueueMax, BatchMax,
  MaxRows,        \* RetentionPolicy.max_events
  InitMayFail,    \* _init_db may raise
  FlushMayFail,   \* a flush may raise
  JoinMayExpire,  \* the writer may outlive the five seconds of stop()
  MayCrash        \* the process may be killed

ASSUME AuditAssumption ==
  /\ NoThread \notin Recorders
  /\ Sentinel \notin Nat
  /\ {MaxEvents, MaxWriters, MaxRows} \subseteq Nat
  /\ {QueueMax, BatchMax} \subseteq Nat \ {0}
  /\ {InitMayFail, FlushMayFail, JoinMayExpire, MayCrash} \subseteq BOOLEAN

AuditEvents == 1 .. MaxEvents
Writers == 1 .. MaxWriters

VARIABLES
  made,      \* _global_store is not None
  holder,    \* _store_lock
  running,   \* _running
  queue,     \* _queue
  writers,   \* the threads started: the current one is the last
  count,     \* _event_count
  rec,       \* of each request thread: where it is, the event it records
  ctl,       \* the thread that calls stop() and start()
  writer,    \* of each writer thread: where it is, batch, whether it ends
  rows,      \* the table audit_events
  created,   \* the events created so far
  accepted,  \* history: the events put in the queue
  committed, mirrored,  \* history: the events ever in SQLite, in the JSONL file
  aged,      \* history: the newest event deleted for its age
  owed,      \* history: the events accepted when stop() was last called
  faulted,   \* history: a flush raised or the process was killed
  expired,   \* history: a stop() gave up waiting
  again      \* history: a start() followed a stop()

store  == <<made, holder, running, count>>
auditPast   == <<accepted, committed, mirrored, aged, owed, faulted, expired, again>>
auditVars == <<store, queue, writers, rec, ctl, writer, rows, created, auditPast>>

Idle == [at |-> "idle", event |-> 0]
Off  == [at |-> "off", batch |-> <<>>, last |-> FALSE]

AuditInit ==
  /\ made = FALSE /\ holder = NoThread /\ running = FALSE /\ count = 0
  /\ queue = <<>> /\ writers = 0
  /\ rec = [r \in Recorders |-> Idle]
  /\ ctl = "up"
  /\ writer = [w \in Writers |-> Off]
  /\ rows = {} /\ created = 0
  /\ accepted = {} /\ committed = {} /\ mirrored = {} /\ aged = 0 /\ owed = {}
  /\ faulted = FALSE /\ expired = FALSE /\ again = FALSE

-----------------------------------------------------------------------------
(***************************************************************************)
(* start(): _running is set before the schema is made, so that a failure   *)
(* there leaves a store that runs without a writer.                        *)
(***************************************************************************)
StartOk ==
  /\ running' = TRUE
  /\ writers < MaxWriters
  /\ writers' = writers + 1
  /\ writer' = [writer EXCEPT ![writers + 1].at = "loop"]

StartRaises ==
  /\ InitMayFail
  /\ running' = TRUE
  /\ UNCHANGED <<writers, writer>>

-----------------------------------------------------------------------------
(***************************************************************************)
(* _emit_audit_event in a request thread: the event, get_audit_store with  *)
(* its double check, record().  The store is assigned before start() has   *)
(* run, so another thread may find one that does not run yet.              *)
(***************************************************************************)
AuditMove(r, s) == rec' = [rec EXCEPT ![r].at = s]
Done(r) == rec' = [rec EXCEPT ![r] = Idle]

Create(r) ==
  /\ rec[r].at = "idle" /\ created < MaxEvents
  /\ created' = created + 1
  /\ rec' = [rec EXCEPT ![r] = [at |-> "get", event |-> created + 1]]
  /\ UNCHANGED <<store, queue, writers, ctl, writer, rows, auditPast>>

GetFinds(r) ==
  /\ rec[r].at = "get" /\ made
  /\ AuditMove(r, "check")
  /\ UNCHANGED <<store, queue, writers, ctl, writer, rows, created, auditPast>>

GetLocks(r) ==
  /\ rec[r].at = "get" /\ ~made /\ holder = NoThread
  /\ holder' = r
  /\ AuditMove(r, "make")
  /\ UNCHANGED <<made, running, count, queue, writers, ctl, writer, rows, created, auditPast>>

GetMakes(r) ==
  /\ rec[r].at = "make"
  /\ made' = TRUE
  /\ AuditMove(r, "start")
  /\ UNCHANGED <<holder, running, count, queue, writers, ctl, writer, rows, created, auditPast>>

Unlocked == NoThread

GetStarts(r) ==
  /\ rec[r].at = "start"
  /\ holder' = Unlocked
  /\ \/ StartOk /\ AuditMove(r, "check")
     \/ StartRaises /\ Done(r)
  /\ UNCHANGED <<made, count, queue, ctl, rows, created, auditPast>>

Check(r) ==
  /\ rec[r].at = "check"
  /\ IF running THEN AuditMove(r, "put") ELSE Done(r)
  /\ UNCHANGED <<store, queue, writers, ctl, writer, rows, created, auditPast>>

\* Mutant: off by one.
HasRoomForOneMore == Len(queue) <= QueueMax

HasRoom == Len(queue) < QueueMax

\* Mutant: a full queue loses its oldest event to the new one.
PutReplaces(r) ==
  /\ rec[r].at = "put"
  /\ queue' = Append(IF HasRoom THEN queue ELSE Tail(queue), rec[r].event)
  /\ accepted' = accepted \cup {rec[r].event}
  /\ Done(r)
  /\ UNCHANGED <<store, writers, ctl, writer, rows, created, committed, mirrored, aged,
                 owed, faulted, expired, again>>

\* Mutant: record() waits for room.
PutWaits(r) ==
  /\ rec[r].at = "put" /\ HasRoom
  /\ queue' = Append(queue, rec[r].event)
  /\ accepted' = accepted \cup {rec[r].event}
  /\ Done(r)
  /\ UNCHANGED <<store, writers, ctl, writer, rows, created, committed, mirrored, aged,
                 owed, faulted, expired, again>>

Put(r) ==
  /\ rec[r].at = "put"
  /\ IF HasRoom
       THEN /\ queue' = Append(queue, rec[r].event)
            /\ accepted' = accepted \cup {rec[r].event}
       ELSE UNCHANGED <<queue, accepted>>
  /\ Done(r)
  /\ UNCHANGED <<store, writers, ctl, writer, rows, created, committed, mirrored, aged,
                 owed, faulted, expired, again>>

-----------------------------------------------------------------------------
(***************************************************************************)
(* stop(), then start() again.                                             *)
(***************************************************************************)
Stop ==
  /\ ctl = "up" /\ made /\ running
  /\ running' = FALSE
  /\ ctl' = "signal"
  /\ owed' = accepted
  /\ UNCHANGED <<made, holder, count, queue, writers, rec, writer, rows, created, accepted,
                 committed, mirrored, aged, faulted, expired, again>>

WriterLives == \E w \in Writers : w = writers /\ writer[w].at # "ended"

\* Mutant: stop() waits for a writer that takes what it puts.
StopSignalsAWriter ==
  /\ ctl = "signal" /\ HasRoom /\ WriterLives
  /\ queue' = Append(queue, Sentinel)
  /\ ctl' = "join"
  /\ UNCHANGED <<store, writers, rec, writer, rows, created, auditPast>>

StopSignals ==
  /\ ctl = "signal" /\ HasRoom
  /\ queue' = Append(queue, Sentinel)
  /\ ctl' = "join"
  /\ UNCHANGED <<store, writers, rec, writer, rows, created, auditPast>>

StopJoins ==
  /\ ctl = "join" /\ ~WriterLives
  /\ ctl' = "down"
  /\ UNCHANGED <<store, queue, writers, rec, writer, rows, created, auditPast>>

StopGivesUp ==
  /\ ctl = "join" /\ WriterLives /\ JoinMayExpire
  /\ ctl' = "down"
  /\ expired' = TRUE
  /\ UNCHANGED <<store, queue, writers, rec, writer, rows, created, accepted, committed,
                 mirrored, aged, owed, faulted, again>>

StartAgain ==
  /\ ctl = "down"
  /\ ctl' = "up"
  /\ StartOk \/ StartRaises
  /\ again' = TRUE
  /\ UNCHANGED <<made, holder, count, queue, rec, rows, created, accepted, committed,
                 mirrored, aged, owed, faulted, expired>>

-----------------------------------------------------------------------------
(***************************************************************************)
(* _writer_loop: take an event, flush when the interval elapsed or the     *)
(* batch is large; leave at the sentinel, or when the store was stopped    *)
(* and the queue is empty, with a last flush of what was gathered.         *)
(***************************************************************************)
\* Mutant: the last batch is not flushed.
EndedAtOnce(b) == [at |-> "ended", batch |-> <<>>, last |-> TRUE]

Ended(b) == IF b = <<>> THEN [at |-> "ended", batch |-> b, last |-> TRUE]
                        ELSE [at |-> "commit", batch |-> b, last |-> TRUE]

Due(b) == IF Len(b) >= BatchMax THEN {"commit"} ELSE {"commit", "loop"}

Take(w) ==
  /\ writer[w].at = "loop" /\ queue # <<>>
  /\ queue' = Tail(queue)
  /\ LET event == Head(queue)
         batch == writer[w].batch
     IN \/ event = Sentinel /\ writer' = [writer EXCEPT ![w] = Ended(batch)]
        \/ /\ event # Sentinel
           /\ \E s \in Due(Append(batch, event)) :
                writer' = [writer EXCEPT ![w].at = s, ![w].batch = Append(batch, event)]
  /\ UNCHANGED <<store, writers, rec, ctl, rows, created, auditPast>>

\* Mutant: only a full batch is flushed.
WaitEndsFull(w) ==
  /\ writer[w].at = "loop" /\ queue = <<>> /\ running /\ Len(writer[w].batch) >= BatchMax
  /\ writer' = [writer EXCEPT ![w].at = "commit"]
  /\ UNCHANGED <<store, queue, writers, rec, ctl, rows, created, auditPast>>

WaitEnds(w) ==
  /\ writer[w].at = "loop" /\ queue = <<>> /\ running /\ writer[w].batch # <<>>
  /\ writer' = [writer EXCEPT ![w].at = "commit"]
  /\ UNCHANGED <<store, queue, writers, rec, ctl, rows, created, auditPast>>

Leave(w) ==
  /\ writer[w].at = "loop" /\ queue = <<>> /\ ~running
  /\ writer' = [writer EXCEPT ![w] = Ended(writer[w].batch)]
  /\ UNCHANGED <<store, queue, writers, rec, ctl, rows, created, auditPast>>

(***************************************************************************)
(* _enforce_retention after a flush: rows too old go, then the oldest of   *)
(* those beyond max_events.  It runs when its interval is over, and gives  *)
(* up without a change when it raises.                                     *)
(***************************************************************************)
\* Mutant: the newest of those beyond max_events go.
Oldest(set) == {e \in set : Cardinality({f \in set : f < e}) < MaxRows}

Newest(set) == {e \in set : Cardinality({f \in set : f > e}) < MaxRows}

Retain(before) ==
  \/ rows' = before /\ UNCHANGED aged
  \/ \E old \in 0 .. created :
       /\ rows' = Newest({e \in before : e > old})
       /\ aged' = Max({aged, old})

\* Mutant: the batch is not emptied.
FlushedKeeps(w) ==
  writer' = [writer EXCEPT ![w].at = IF writer[w].last THEN "ended" ELSE "loop"]

Flushed(w) ==
  writer' = [writer EXCEPT ![w].at = IF writer[w].last THEN "ended" ELSE "loop",
                           ![w].batch = <<>>]

Commit(w) ==
  /\ writer[w].at = "commit"
  /\ rows' = rows \cup Range(writer[w].batch)
  /\ committed' = committed \cup Range(writer[w].batch)
  /\ writer' = [writer EXCEPT ![w].at = "mirror"]
  /\ UNCHANGED <<store, queue, writers, rec, ctl, created, accepted, mirrored, aged, owed,
                 faulted, expired, again>>

\* Mutant: the batch is mirrored all the same.
CommitRaisesOn(w) ==
  /\ writer[w].at = "commit" /\ FlushMayFail
  /\ faulted' = TRUE
  /\ writer' = [writer EXCEPT ![w].at = "mirror"]
  /\ Retain(rows)
  /\ UNCHANGED <<store, queue, writers, rec, ctl, created, accepted, committed, mirrored,
                 owed, expired, again>>

\* Mutant: a batch that raised is counted.
CommitRaisesCounted(w) ==
  /\ writer[w].at = "commit" /\ FlushMayFail
  /\ faulted' = TRUE
  /\ count' = count + Len(writer[w].batch)
  /\ Flushed(w)
  /\ Retain(rows)
  /\ UNCHANGED <<made, holder, running, queue, writers, rec, ctl, created, accepted,
                 committed, mirrored, owed, expired, again>>

CommitRaises(w) ==
  /\ writer[w].at = "commit" /\ FlushMayFail
  /\ faulted' = TRUE
  /\ Flushed(w)
  /\ Retain(rows)
  /\ UNCHANGED <<store, queue, writers, rec, ctl, created, accepted, committed, mirrored,
                 owed, expired, again>>

Mirror(w) ==
  /\ writer[w].at = "mirror"
  /\ mirrored' = mirrored \cup Range(writer[w].batch)
  /\ count' = count + Len(writer[w].batch)
  /\ Flushed(w)
  /\ Retain(rows)
  /\ UNCHANGED <<made, holder, running, queue, writers, rec, ctl, created, accepted,
                 committed, owed, faulted, expired, again>>

(***************************************************************************)
(* The append raises: the first lines may have been written all the same.  *)
(***************************************************************************)
MirrorRaises(w) ==
  /\ writer[w].at = "mirror" /\ FlushMayFail
  /\ \E n \in 0 .. Len(writer[w].batch) :
       mirrored' = mirrored \cup Range(SubSeq(writer[w].batch, 1, n))
  /\ faulted' = TRUE
  /\ Flushed(w)
  /\ Retain(rows)
  /\ UNCHANGED <<store, queue, writers, rec, ctl, created, accepted, committed, owed, expired,
                 again>>

-----------------------------------------------------------------------------
(***************************************************************************)
(* The process is killed and a new one begins.                             *)
(***************************************************************************)
Crash ==
  /\ MayCrash /\ made /\ writers < MaxWriters
  /\ made' = FALSE /\ holder' = NoThread /\ running' = FALSE /\ count' = 0
  /\ queue' = <<>>
  /\ rec' = [r \in Recorders |-> Idle]
  /\ ctl' = "up"
  /\ writer' = [w \in Writers |-> IF w <= writers THEN [Off EXCEPT !.at = "ended"] ELSE Off]
  /\ faulted' = TRUE
  /\ UNCHANGED <<writers, rows, created, accepted, committed, mirrored, aged, owed, expired, again>>

Record(r) ==
  \/ Create(r) \/ GetFinds(r) \/ GetLocks(r) \/ GetMakes(r) \/ GetStarts(r)
  \/ Check(r) \/ Put(r)

Write(w) ==
  \/ Take(w) \/ WaitEnds(w) \/ Leave(w)
  \/ Commit(w) \/ CommitRaises(w) \/ Mirror(w) \/ MirrorRaises(w)

StopProceeds == StopSignals \/ StopJoins \/ StopGivesUp

AuditNext ==
  \/ \E r \in Recorders : Record(r)
  \/ \E w \in Writers : Write(w)
  \/ Stop \/ StopProceeds \/ StartAgain \/ Crash

(***************************************************************************)
(* The threads are scheduled: a request thread goes on once it has an      *)
(* event, the writer and the caller of stop() too.  Nothing makes anyone   *)
(* send a request, stop the store or kill the process.                     *)
(***************************************************************************)
AuditFairness ==
  /\ \A r \in Recorders : WF_auditVars(rec[r].at # "idle" /\ Record(r))
  /\ \A w \in Writers : WF_auditVars(Write(w))
  /\ WF_auditVars(StopProceeds)

AuditSpec == AuditInit /\ [][AuditNext]_auditVars /\ AuditFairness

-----------------------------------------------------------------------------
(***************************************************************************)
(* Properties.                                                             *)
(***************************************************************************)

(***************************************************************************)
(* Types.                                                                  *)
(***************************************************************************)
AuditTypeOK ==
  /\ made \in BOOLEAN /\ running \in BOOLEAN
  /\ faulted \in BOOLEAN /\ expired \in BOOLEAN /\ again \in BOOLEAN
  /\ holder \in Recorders \cup {NoThread}
  /\ count \in 0 .. MaxEvents
  /\ queue \in Seq(AuditEvents \cup {Sentinel}) /\ Len(queue) <= QueueMax
  /\ writers \in 0 .. MaxWriters
  /\ rec \in [Recorders -> [at : {"idle", "get", "make", "start", "check", "put"},
                            event : 0 .. MaxEvents]]
  /\ ctl \in {"up", "signal", "join", "down"}
  /\ writer \in [Writers -> [at : {"off", "loop", "commit", "mirror", "ended"},
                             batch : Seq(AuditEvents), last : BOOLEAN]]
  /\ \A w \in Writers : Len(writer[w].batch) <= BatchMax
  /\ created \in 0 .. MaxEvents /\ aged \in 0 .. MaxEvents
  /\ rows \subseteq committed /\ committed \subseteq AuditEvents /\ mirrored \subseteq AuditEvents
  /\ accepted \subseteq AuditEvents /\ owed \subseteq AuditEvents

(***************************************************************************)
(* The JSONL file mirrors the table: no event is in it that was not        *)
(* committed before, whatever flush raises and wherever the process dies.  *)
(***************************************************************************)
MirrorHasRow == mirrored \subseteq committed

(***************************************************************************)
(* _event_count tells of events that are in both sinks; while no flush     *)
(* raised, of all of them.                                                 *)
(***************************************************************************)
CountIsEarned ==
  /\ count <= Cardinality(mirrored)
  /\ ~faulted => count = Cardinality(mirrored)

(***************************************************************************)
(* Retention takes the oldest: a committed event that is gone was as old   *)
(* as one deleted for its age, or has max_events committed after it.       *)
(***************************************************************************)
RecentStays ==
  \A e \in committed \ rows :
    \/ e <= aged
    \/ Cardinality({f \in committed : f > e}) >= MaxRows

(***************************************************************************)
(* stop() flushes: when it returns from the first life of the store and    *)
(* nothing raised or timed out, every event accepted before is in both     *)
(* sinks.  (In a second life the sentinel of the first may still be        *)
(* queued and end the writer at once.)                                     *)
(***************************************************************************)
StopFlushes ==
  ctl = "down" /\ writers = 1 /\ ~again /\ ~faulted /\ ~expired => owed \subseteq mirrored

(***************************************************************************)
(* Each sink is an EventLog: an accepted event is settled once, nothing    *)
(* lost returns and nothing is in a sink that was not accepted.            *)
(***************************************************************************)
Queued == Range(queue) \ {Sentinel}
HeldIn(places) == UNION {Range(writer[w].batch) : w \in {v \in Writers : writer[v].at \in places}}

Table == INSTANCE EventLog WITH
  Events <- AuditEvents, kept <- committed,
  pending <- Queued \cup HeldIn({"loop", "commit"})
Mirrors == INSTANCE EventLog WITH
  Events <- AuditEvents, kept <- mirrored,
  pending <- Queued \cup HeldIn({"loop", "commit", "mirror"})

TableIsALog == Table!Spec
MirrorIsALog == Mirrors!Spec

(***************************************************************************)
(* record() returns: no request waits for the audit for ever, even when    *)
(* the store cannot be started.                                            *)
(***************************************************************************)
RecordReturns == \A r \in Recorders : rec[r].at # "idle" ~> rec[r].at = "idle"

(***************************************************************************)
(* stop() returns, unless its blocking put meets a full queue that no      *)
(* writer drains: one that never started, that a stale sentinel ended, or  *)
(* that left before late record() calls filled the queue.                  *)
(***************************************************************************)
Stopping == ctl \in {"signal", "join"}
StopReturns == Stopping ~> ~Stopping \/ (~HasRoom /\ ~WriterLives)

(***************************************************************************)
(* While the store runs with a live writer, an event does not stay in the  *)
(* queue or in the writer's hands.                                         *)
(***************************************************************************)
InHand(e) == e \in Queued \cup HeldIn({"loop", "commit", "mirror"})
EventsAreWritten ==
  \A e \in AuditEvents :
    InHand(e) /\ running /\ WriterLives ~> ~InHand(e) \/ ~running \/ ~WriterLives

(***************************************************************************)
(* Types; and database, JSONL file, counter, retention and a returned      *)
(* stop() agree on what was accepted, through failing flushes, crashes and *)
(* restarts.                                                               *)
(***************************************************************************)
AuditIsSound == AuditTypeOK /\ MirrorHasRow /\ CountIsEarned /\ RecentStays /\ StopFlushes

=============================================================================
