---------------------------- MODULE SiemDispatch ----------------------------
(***************************************************************************)
(* The dispatcher of audit events to SIEM systems (services/siem.py).      *)
(*                                                                         *)
(* dispatch() puts an event in a bounded queue; the "siem-dispatcher"      *)
(* thread takes them out, gathers a batch and hands it to each backend of  *)
(* the list in turn.  The list may be changed meanwhile: an added backend  *)
(* is appended to the list the thread walks, a removal makes another list. *)
(*                                                                         *)
(* A backend is a file, an HTTP hook, or a TCP socket: SyslogBackend       *)
(* forgets a socket that raised, CEFBackend keeps it.  Peers come and go.  *)
(*                                                                         *)
(* A message is the number of its creation.  The increments of _stats are  *)
(* single steps, as they are under the interpreter's lock.                 *)
(***************************************************************************)
EXTENDS Naturals, Sequences, FiniteSets, SequencesExt

CONSTANTS
  Files, Hooks, Syslogs, Cefs,  \* the backends, by class
  Callers,                      \* the threads that call dispatch()
  NoMessage,                    \* None in the queue
  MaxMessages,                  \* bound: the messages made
  MaxThreads,                   \* bound: the dispatcher threads started
  MaxChanges,                   \* bound: add_backend and remove_backend calls
  MaxFlaps,                     \* bound: the peers that go away
  InboxMax, SendMax,            \* QUEUE_MAX, BATCH_SIZE
  Stalling                      \* the backends whose peer may stop reading

ASSUME SiemAssumption ==
  /\ NoMessage \notin Nat
  /\ {MaxMessages, MaxThreads, MaxChanges, MaxFlaps} \subseteq Nat
  /\ {InboxMax, SendMax} \subseteq Nat \ {0}
  /\ Stalling \subseteq Syslogs \cup Cefs
  /\ Files \cap Hooks = {} /\ (Files \cup Hooks) \cap (Syslogs \cup Cefs) = {}
  /\ Syslogs \cap Cefs = {}

Backends == Files \cup Hooks \cup Syslogs \cup Cefs
Sockets == Syslogs \cup Cefs
Messages == 1 .. MaxMessages
Threads == 1 .. MaxThreads

VARIABLES
  backends,     \* _backends
  dispatching,  \* _running
  inbox,        \* _queue
  threads,      \* the threads started: _thread is the last
  thread,       \* of each: where it is, its batch, its walk of the backends
  caller,       \* of each caller: where it is, its message
  control,      \* the thread that calls start() and stop()
  handle,       \* of each backend: its socket or file
  up,           \* of each socket: its peer listens
  stats,        \* _stats
  messages,     \* the messages made
  changes,      \* the changes of the list made
  flaps,        \* the peers gone so far
  taken,        \* history: the messages put in the queue
  handed,       \* history: the pairs of backend and message tried
  arrived,      \* history: those of them the peer received
  refused,      \* history: the dispatch() calls that met a full queue
  after         \* history: of each socket, whether its last send raised, and
                \*   whether one did though its peer listened and the send
                \*   before it had raised

network == <<handle, up, flaps, arrived, after>>
callers == <<caller, messages, taken, refused>>
list    == <<backends, changes>>
siemVars == <<dispatching, inbox, threads, thread, control, stats, handed,
              network, callers, list>>

(***************************************************************************)
(* A thread gathers, sends, is stuck in a send or has ended.  While it     *)
(* sends: the backends left to serve, the place in the batch, how many the *)
(* backend took, and whether the list walked is still _backends.           *)
(***************************************************************************)
NotStarted == [at |-> "off", batch |-> <<>>, last |-> FALSE, todo |-> <<>>,
               pos |-> 1, sent |-> 0, same |-> FALSE]

SiemInit ==
  /\ backends = <<>> /\ dispatching = FALSE /\ inbox = <<>> /\ threads = 0
  /\ thread = [t \in Threads |-> NotStarted]
  /\ caller = [c \in Callers |-> [at |-> "idle", message |-> 0]]
  /\ control = "free"
  /\ handle = [b \in Backends |-> IF b \in Files THEN "open" ELSE "none"]
  /\ up = [b \in Sockets |-> TRUE]
  /\ stats = [dispatched |-> 0, failed |-> 0, dropped |-> 0]
  /\ messages = 0 /\ changes = 0 /\ flaps = 0
  /\ taken = {} /\ handed = {} /\ arrived = {} /\ refused = 0
  /\ after = [b \in Sockets |-> "sent"]

-----------------------------------------------------------------------------
(***************************************************************************)
(* add_backend and remove_backend.  A name is in the list once.            *)
(***************************************************************************)
Walks(t) == thread[t].at \in {"send", "stuck"} /\ thread[t].same

AddBackend(b) ==
  /\ b \notin Range(backends) /\ changes < MaxChanges
  /\ backends' = Append(backends, b)
  /\ thread' = [t \in Threads |->
       IF Walks(t) THEN [thread[t] EXCEPT !.todo = Append(@, b)] ELSE thread[t]]
  /\ changes' = changes + 1
  /\ UNCHANGED <<dispatching, inbox, threads, control, stats, handed, network, callers>>

RemoveBackend(b) ==
  /\ changes < MaxChanges
  /\ \E i \in 1 .. Len(backends) : backends[i] = b /\ backends' = RemoveAt(backends, i)
  /\ thread' = [t \in Threads |-> [thread[t] EXCEPT !.same = FALSE]]
  /\ changes' = changes + 1
  /\ UNCHANGED <<dispatching, inbox, threads, control, stats, handed, network, callers>>

-----------------------------------------------------------------------------
(***************************************************************************)
(* dispatch(): the check, then the put, which does not wait.  A call that  *)
(* fails the check changes nothing.                                        *)
(***************************************************************************)
Accepting == dispatching /\ backends # <<>>

Dispatch(c) ==
  /\ caller[c].at = "idle" /\ messages < MaxMessages
  /\ Accepting
  /\ messages' = messages + 1
  /\ caller' = [caller EXCEPT ![c] = [at |-> "put", message |-> messages + 1]]
  /\ UNCHANGED <<dispatching, inbox, threads, thread, control, stats, handed,
                 network, list, taken, refused>>

\* Mutant: off by one.
FitsOneMore == Len(inbox) <= InboxMax

Fits == Len(inbox) < InboxMax

Enqueue(c) ==
  /\ caller[c].at = "put"
  /\ caller' = [caller EXCEPT ![c] = [at |-> "idle", message |-> 0]]
  /\ \/ /\ Fits
        /\ inbox' = Append(inbox, caller[c].message)
        /\ taken' = taken \cup {caller[c].message}
        /\ UNCHANGED <<stats, refused>>
     \/ /\ ~Fits
        /\ stats' = [stats EXCEPT !.dropped = @ + 1]
        /\ refused' = refused + 1
        /\ UNCHANGED <<inbox, taken>>
  /\ UNCHANGED <<dispatching, threads, thread, control, handed, network, list, messages>>

-----------------------------------------------------------------------------
(***************************************************************************)
(* start() and stop().  stop() may be called at any time: it puts its      *)
(* sentinel even when no thread runs, with a put that waits for room.      *)
(***************************************************************************)
SiemStart ==
  /\ control = "free" /\ ~dispatching /\ threads < MaxThreads
  /\ dispatching' = TRUE
  /\ threads' = threads + 1
  /\ thread' = [thread EXCEPT ![threads + 1].at = "gather"]
  /\ UNCHANGED <<inbox, control, stats, handed, network, callers, list>>

SiemStop ==
  /\ control = "free"
  /\ dispatching' = FALSE
  /\ control' = "signal"
  /\ UNCHANGED <<inbox, threads, thread, stats, handed, network, callers, list>>

SignalEnd ==
  /\ control = "signal" /\ Fits
  /\ inbox' = Append(inbox, NoMessage)
  /\ control' = "join"
  /\ UNCHANGED <<dispatching, threads, thread, stats, handed, network, callers, list>>

(***************************************************************************)
(* The join lasts until the thread has ended or five seconds have passed.  *)
(* Then every backend of the list is closed, whoever still uses it.        *)
(***************************************************************************)
CloseAll(closed) ==
  [b \in Backends |-> IF b \notin closed THEN handle[b]
                      ELSE IF b \in Files THEN "closed" ELSE "none"]

\* Mutant: the join has no time limit.
SiemCloseJoined ==
  /\ control = "join"
  /\ \A t \in Threads : thread[t].at \in {"off", "ended"}
  /\ handle' = CloseAll(Range(backends))
  /\ control' = "free"
  /\ UNCHANGED <<dispatching, inbox, threads, thread, stats, handed, up, flaps, arrived, after,
                 callers, list>>

SiemClose ==
  /\ control = "join"
  /\ handle' = CloseAll(Range(backends))
  /\ control' = "free"
  /\ UNCHANGED <<dispatching, inbox, threads, thread, stats, handed, up, flaps, arrived, after,
                 callers, list>>

-----------------------------------------------------------------------------
(***************************************************************************)
(* _dispatch_loop: take a message, send when the interval elapsed or the   *)
(* batch is large; at the sentinel, or once stopped with an empty queue,   *)
(* send what was gathered and end.                                         *)
(***************************************************************************)
SendBatch(batch, last) ==
  IF batch = <<>> THEN [NotStarted EXCEPT !.at = "ended"]
  ELSE [at |-> "send", batch |-> batch, last |-> last, todo |-> backends,
        pos |-> 1, sent |-> 0, same |-> TRUE]

\* Mutant: nothing is taken once the dispatcher was stopped.
GatherRunning(t) ==
  /\ dispatching
  /\ thread[t].at = "gather" /\ inbox # <<>>
  /\ inbox' = Tail(inbox)
  /\ LET th == thread[t]
         batch == Append(th.batch, Head(inbox))
     IN \/ Head(inbox) = NoMessage /\ thread' = [thread EXCEPT ![t] = SendBatch(th.batch, TRUE)]
        \/ Head(inbox) # NoMessage /\ thread' = [thread EXCEPT ![t] = SendBatch(batch, FALSE)]
        \/ /\ Head(inbox) # NoMessage /\ Len(batch) < SendMax
           /\ thread' = [thread EXCEPT ![t].batch = batch]
  /\ UNCHANGED <<dispatching, threads, control, stats, handed, network, callers, list>>

Gather(t) ==
  /\ thread[t].at = "gather" /\ inbox # <<>>
  /\ inbox' = Tail(inbox)
  /\ LET th == thread[t]
         batch == Append(th.batch, Head(inbox))
     IN \/ Head(inbox) = NoMessage /\ thread' = [thread EXCEPT ![t] = SendBatch(th.batch, TRUE)]
        \/ Head(inbox) # NoMessage /\ thread' = [thread EXCEPT ![t] = SendBatch(batch, FALSE)]
        \/ /\ Head(inbox) # NoMessage /\ Len(batch) < SendMax
           /\ thread' = [thread EXCEPT ![t].batch = batch]
  /\ UNCHANGED <<dispatching, threads, control, stats, handed, network, callers, list>>

IntervalEnds(t) ==
  /\ thread[t].at = "gather" /\ inbox = <<>> /\ thread[t].batch # <<>> /\ dispatching
  /\ thread' = [thread EXCEPT ![t] = SendBatch(thread[t].batch, FALSE)]
  /\ UNCHANGED <<dispatching, inbox, threads, control, stats, handed, network, callers, list>>

LoopEnds(t) ==
  /\ thread[t].at = "gather" /\ inbox = <<>> /\ ~dispatching
  /\ thread' = [thread EXCEPT ![t] = SendBatch(thread[t].batch, TRUE)]
  /\ UNCHANGED <<dispatching, inbox, threads, control, stats, handed, network, callers, list>>

-----------------------------------------------------------------------------
(***************************************************************************)
(* _send_batch: for each backend, the batch, then the counts.  A backend   *)
(* that failed gets no second attempt.                                     *)
(***************************************************************************)
Serves(t, b) == thread[t].at = "send" /\ thread[t].todo # <<>> /\ Head(thread[t].todo) = b

\* Mutant: a batch taken in part counts as dispatched only.
CountTaken(took, size) == stats' = [stats EXCEPT !.dispatched = @ + took]

Count(took, size) ==
  stats' = [stats EXCEPT !.dispatched = @ + took, !.failed = @ + (size - took)]

(***************************************************************************)
(* One message to a file or a socket; after the last, the counts.          *)
(***************************************************************************)
Sends(t, b, ok) ==
  LET th == thread[t]
      took == th.sent + (IF ok THEN 1 ELSE 0)
      size == Len(th.batch)
  IN /\ handed' = handed \cup {<<b, th.batch[th.pos]>>}
     /\ IF th.pos < size
          THEN /\ thread' = [thread EXCEPT ![t].pos = @ + 1, ![t].sent = took]
               /\ UNCHANGED stats
          ELSE /\ thread' = [thread EXCEPT ![t].todo = Tail(@), ![t].pos = 1, ![t].sent = 0]
               /\ Count(took, size)

Arrives(t, b) == arrived' = arrived \cup {<<b, thread[t].batch[thread[t].pos]>>}

SendFile(t, b) ==
  /\ Serves(t, b) /\ b \in Files
  /\ \/ handle[b] = "open" /\ Sends(t, b, TRUE) /\ Arrives(t, b)
     \/ handle[b] = "closed" /\ Sends(t, b, FALSE) /\ UNCHANGED arrived
  /\ UNCHANGED <<dispatching, inbox, threads, control, handle, up, flaps, after, callers, list>>

(***************************************************************************)
(* A socket is connected when it is first needed; it is assigned before    *)
(* it is connected.  A send on a connection whose peer is gone raises, or  *)
(* is taken by the kernel and lost.                                        *)
(***************************************************************************)
SendSocket(t, b) ==
  /\ Serves(t, b) /\ b \in Sockets
  /\ up[b] /\ handle[b] \in {"none", "open"}
  /\ handle' = [handle EXCEPT ![b] = "open"]
  /\ after' = [after EXCEPT ![b] = "sent"]
  /\ Sends(t, b, TRUE) /\ Arrives(t, b)
  /\ UNCHANGED <<dispatching, inbox, threads, control, up, flaps, callers, list>>

SendLost(t, b) ==
  /\ Serves(t, b) /\ handle[b] = "stale"
  /\ Sends(t, b, TRUE)
  /\ UNCHANGED <<dispatching, inbox, threads, control, network, callers, list>>

\* Mutant: the socket that raised is kept.
AfterRaiseKept(b) == "broken"

AfterRaise(b) == IF b \in Syslogs THEN "none" ELSE "broken"

SendRaises(t, b) ==
  /\ Serves(t, b) /\ b \in Sockets
  /\ handle[b] \in {"stale", "broken"} \/ (handle[b] = "none" /\ ~up[b])
  /\ handle' = [handle EXCEPT ![b] = AfterRaise(b)]
  /\ after' = [after EXCEPT ![b] =
       IF @ = "missed" \/ (@ = "raised" /\ up[b]) THEN "missed" ELSE "raised"]
  /\ Sends(t, b, FALSE)
  /\ UNCHANGED <<dispatching, inbox, threads, control, up, flaps, arrived, callers, list>>

(***************************************************************************)
(* A hook gets the batch in one request: none of it is counted when the    *)
(* answer is late or is no success, even if it arrived.                    *)
(***************************************************************************)
Batch(t) == Range(thread[t].batch)

PostBatch(t, b) ==
  /\ Serves(t, b) /\ b \in Hooks
  /\ handed' = handed \cup {<<b, e>> : e \in Batch(t)}
  /\ arrived' \in {arrived, arrived \cup {<<b, e>> : e \in Batch(t)}}
  /\ \E took \in {0, Len(thread[t].batch)} :
       /\ took > 0 => arrived' # arrived
       /\ Count(took, Len(thread[t].batch))
  /\ thread' = [thread EXCEPT ![t].todo = Tail(@)]
  /\ UNCHANGED <<dispatching, inbox, threads, control, handle, up, flaps, after, callers, list>>

(***************************************************************************)
(* The walk is over when no backend is left.                               *)
(***************************************************************************)
\* Mutant: the batch is not emptied.
WalkEndsKeeps(t) ==
  /\ thread[t].at = "send" /\ thread[t].todo = <<>>
  /\ thread' = [thread EXCEPT ![t].at = IF thread[t].last THEN "ended" ELSE "gather"]
  /\ UNCHANGED <<dispatching, inbox, threads, control, stats, handed, network, callers, list>>

WalkEnds(t) ==
  /\ thread[t].at = "send" /\ thread[t].todo = <<>>
  /\ thread' = [thread EXCEPT ![t] =
       [NotStarted EXCEPT !.at = IF thread[t].last THEN "ended" ELSE "gather"]]
  /\ UNCHANGED <<dispatching, inbox, threads, control, stats, handed, network, callers, list>>

-----------------------------------------------------------------------------
(***************************************************************************)
(* The peers: one goes away or comes back, and one with a connection stops *)
(* reading, so that the send never returns (no time limit is set on it).   *)
(***************************************************************************)
PeerLeaves(b) ==
  /\ up[b] /\ flaps < MaxFlaps
  /\ flaps' = flaps + 1
  /\ up' = [up EXCEPT ![b] = FALSE]
  /\ handle' = [handle EXCEPT ![b] = IF @ = "open" THEN "stale" ELSE @]
  /\ UNCHANGED <<dispatching, inbox, threads, thread, control, stats, handed, arrived, after,
                 callers, list>>

PeerReturns(b) ==
  /\ ~up[b]
  /\ up' = [up EXCEPT ![b] = TRUE]
  /\ UNCHANGED <<dispatching, inbox, threads, thread, control, stats, handed, handle,
                 arrived, after, flaps, callers, list>>

Stalls(t, b) ==
  /\ Serves(t, b) /\ b \in Stalling /\ handle[b] = "open"
  /\ thread' = [thread EXCEPT ![t].at = "stuck"]
  /\ UNCHANGED <<dispatching, inbox, threads, control, stats, handed, network, callers, list>>

Send(t) ==
  \/ \E b \in Backends :
       SendFile(t, b) \/ SendSocket(t, b) \/ SendLost(t, b) \/ SendRaises(t, b) \/ PostBatch(t, b)
  \/ WalkEnds(t)

Loop(t) == Gather(t) \/ IntervalEnds(t) \/ LoopEnds(t) \/ Send(t)

Peers == \E b \in Sockets : PeerLeaves(b) \/ PeerReturns(b) \/ \E t \in Threads : Stalls(t, b)

SiemNext ==
  \/ \E b \in Backends : AddBackend(b) \/ RemoveBackend(b)
  \/ \E c \in Callers : Dispatch(c) \/ Enqueue(c)
  \/ SiemStart \/ SiemStop \/ SignalEnd \/ SiemClose
  \/ \E t \in Threads : Loop(t)
  \/ Peers

(***************************************************************************)
(* The threads are scheduled.  Nothing makes anyone dispatch, change the   *)
(* list or stop, and nothing brings a peer back.                           *)
(***************************************************************************)
SiemFairness ==
  /\ \A c \in Callers : WF_siemVars(Enqueue(c))
  /\ \A t \in Threads : WF_siemVars(Loop(t))
  /\ WF_siemVars(SignalEnd) /\ WF_siemVars(SiemClose)

SiemSpec == SiemInit /\ [][SiemNext]_siemVars /\ SiemFairness

-----------------------------------------------------------------------------
(***************************************************************************)
(* Properties.                                                             *)
(***************************************************************************)

(***************************************************************************)
(* Types.                                                                  *)
(***************************************************************************)
SiemTypeOK ==
  /\ Range(backends) \subseteq Backends /\ Len(backends) = Cardinality(Range(backends))
  /\ dispatching \in BOOLEAN
  /\ Range(inbox) \subseteq Messages \cup {NoMessage} /\ Len(inbox) <= InboxMax
  /\ threads \in 0 .. MaxThreads
  /\ \A t \in Threads :
       /\ thread[t].at \in {"off", "gather", "send", "stuck", "ended"}
       /\ Range(thread[t].batch) \subseteq Messages /\ Len(thread[t].batch) <= SendMax
       /\ thread[t].sent < thread[t].pos
  /\ control \in {"free", "signal", "join"}
  /\ \A b \in Backends :
       handle[b] \in IF b \in Files THEN {"open", "closed"} ELSE {"none", "open", "stale", "broken"}
  /\ \A b \in Syslogs : handle[b] # "broken"
  /\ arrived \subseteq handed /\ handed \subseteq Backends \X taken

(***************************************************************************)
(* The statistics tell all of it: a message tried on a backend is counted  *)
(* once, as dispatched or as failed, when the backend is done with its     *)
(* batch, and a message refused by a full queue as dropped.                *)
(***************************************************************************)
Uncounted(t) ==
  IF thread[t].todo = <<>> THEN {}
  ELSE {<<Head(thread[t].todo), thread[t].batch[i]>> : i \in 1 .. thread[t].pos - 1}

StatsTell ==
  /\ stats.dispatched + stats.failed = Cardinality(handed \ UNION {Uncounted(t) : t \in Threads})
  /\ stats.dropped = refused

(***************************************************************************)
(* A backend is a log of what it was handed: a message is settled once for *)
(* each backend, by one of the threads, and what failed does not return.   *)
(***************************************************************************)
Ahead(th, b) ==
  IF th.at \in {"off", "gather"} \/ (th.same /\ b \notin Range(backends)) THEN Range(th.batch)
  ELSE IF b \notin Range(th.todo) THEN {}
  ELSE IF b = Head(th.todo) THEN {th.batch[i] : i \in th.pos .. Len(th.batch)}
  ELSE Range(th.batch)

Sink(b) == INSTANCE EventLog WITH
  Events <- Messages, accepted <- taken,
  pending <- (Range(inbox) \ {NoMessage}) \cup UNION {Ahead(thread[t], b) : t \in Threads},
  kept <- {e \in Messages : <<b, e>> \in arrived}

SinksAreLogs ==
  /\ \A b \in Backends : Sink(b)!Init
  /\ [][\A b \in Backends : [Sink(b)!Next]_(Sink(b)!vars)]_siemVars

(***************************************************************************)
(* A syslog backend finds its peer again: after a send that raised, the    *)
(* next does not raise while the peer listens.                             *)
(***************************************************************************)
SyslogHeals == \A b \in Syslogs : after[b] # "missed"

(***************************************************************************)
(* stop() returns, unless its put meets a full queue no thread drains: one *)
(* that has ended or hangs in a send, or none was started.                 *)
(***************************************************************************)
Drained == \E t \in Threads : thread[t].at \in {"gather", "send"}
SiemStops == control # "free" ~> control = "free" \/ (control = "signal" /\ ~Fits /\ ~Drained)

(***************************************************************************)
(* While a thread works, a message in the queue is taken out of it.        *)
(***************************************************************************)
MessagesLeave ==
  \A e \in Messages :
    e \in Range(inbox) /\ Drained ~> e \notin Range(inbox) \/ ~Drained

(***************************************************************************)
(* Types; the statistics account for every message, and a syslog backend   *)
(* that lost its peer finds it again.                                      *)
(***************************************************************************)
SiemIsSound == SiemTypeOK /\ StatsTell /\ SyslogHeals

=============================================================================
