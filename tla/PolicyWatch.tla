----------------------------- MODULE PolicyWatch ----------------------------
(***************************************************************************)
(* PolicyWatcher (domestique_app/services/policy.py): a thread looks at    *)
(* the time of the policy file and reads it again when it has grown.       *)
(* _load reads the file first and takes its time afterwards; stop only     *)
(* clears a flag, which the thread sees at its next turn.                  *)
(***************************************************************************)
EXTENDS Naturals, FiniteSets

CONSTANTS
  Policies,   \* contents that parse
  Loops,      \* the watch threads that can be started
  MaxTime,    \* bound: the last time a file is given
  MaxEdits, MaxSwitches  \* bounds: writes of the file; starts and stops

Gone == "gone"        \* no file
Garbled == "garbled"  \* a file that does not parse
NoEngine == "none"

ASSUME WatchAssumption ==
  /\ MaxTime \in Nat \ {0} /\ {MaxEdits, MaxSwitches} \subseteq Nat
  /\ {Gone, Garbled, NoEngine} \cap Policies = {}

Starter == "starter"  \* the thread in start()
Readers == Loops \cup {Starter}

VARIABLES
  file, mtime,   \* the policy file
  engine,        \* _engine: the policy it was made from
  lastMtime,     \* _last_mtime
  running,       \* _running
  reader,        \* of each thread: "off", "rest", "read", "swap" or "stat"
  content,       \* of each thread: what it has read
  edits, switches,
  slipped,       \* history: a write fell between the reading and the stat
  backdated      \* history: a write gave the file no later time

watchVars == <<file, mtime, engine, lastMtime, running, reader, content, edits, switches, slipped,
               backdated>>

WatchInit ==
  /\ file \in Policies \cup {Gone} /\ mtime = 1
  /\ engine = NoEngine /\ lastMtime = 0
  /\ running = FALSE
  /\ reader = [r \in Readers |-> "off"]
  /\ content = [r \in Readers |-> NoEngine]
  /\ edits = 0 /\ switches = 0
  /\ slipped = FALSE /\ backdated = FALSE

\* Mutant: whatever is in the file is taken for a policy.
ParsesAll(text) == text # Gone

Parses(text) == text \in Policies
WatchGoes(r, place) == reader' = [reader EXCEPT ![r] = place]

(***************************************************************************)
(* Somebody writes, restores or removes the file.                          *)
(***************************************************************************)
Edit ==
  /\ edits < MaxEdits
  /\ edits' = edits + 1
  /\ file' \in (Policies \cup {Gone, Garbled}) \ {file}
  /\ IF file' = Gone THEN UNCHANGED mtime ELSE mtime' \in 1 .. MaxTime
  /\ slipped' = (slipped \/ \E r \in Readers : reader[r] \in {"swap", "stat"})
  /\ backdated' = (backdated \/ (file' # Gone /\ mtime' <= mtime))
  /\ UNCHANGED <<engine, lastMtime, running, reader, content, switches>>

(***************************************************************************)
(* start loads the file before it starts a thread.                         *)
(***************************************************************************)
StartWatch ==
  /\ ~running /\ reader[Starter] = "off" /\ switches < MaxSwitches
  /\ \E l \in Loops : reader[l] = "off"
  /\ switches' = switches + 1
  /\ WatchGoes(Starter, IF file = Gone THEN "rest" ELSE "read")
  /\ UNCHANGED <<file, mtime, engine, lastMtime, running, content, edits, slipped, backdated>>

Begun ==
  /\ reader[Starter] = "rest"
  /\ running' = TRUE
  /\ \E l \in Loops : /\ reader[l] = "off"
                      /\ reader' = [reader EXCEPT ![Starter] = "off", ![l] = "rest"]
  /\ UNCHANGED <<file, mtime, engine, lastMtime, content, edits, switches, slipped, backdated>>

StopWatch ==
  /\ switches < MaxSwitches /\ running
  /\ switches' = switches + 1
  /\ running' = FALSE
  /\ UNCHANGED <<file, mtime, engine, lastMtime, reader, content, edits, slipped, backdated>>

(***************************************************************************)
(* A turn of the loop.                                                     *)
(***************************************************************************)
\* Mutant: a file one tick newer is not read.
NewerThanNow == file # Gone /\ mtime > lastMtime + 1

Newer == file # Gone /\ mtime > lastMtime

Turn(l) ==
  /\ reader[l] = "rest"
  /\ \/ ~running /\ WatchGoes(l, "off")
     \/ running /\ Newer /\ WatchGoes(l, "read")
  /\ UNCHANGED <<file, mtime, engine, lastMtime, running, content, edits, switches, slipped,
                 backdated>>

(***************************************************************************)
(* _load: a file that is gone or does not parse leaves the engine and the  *)
(* time as they are.                                                       *)
(***************************************************************************)
Read(r) ==
  /\ reader[r] = "read"
  /\ IF Parses(file)
       THEN content' = [content EXCEPT ![r] = file] /\ WatchGoes(r, "swap")
       ELSE UNCHANGED content /\ WatchGoes(r, "rest")
  /\ UNCHANGED <<file, mtime, engine, lastMtime, running, edits, switches, slipped, backdated>>

Swap(r) ==
  /\ reader[r] = "swap"
  /\ engine' = content[r]
  /\ content' = [content EXCEPT ![r] = NoEngine]
  /\ WatchGoes(r, "stat")
  /\ UNCHANGED <<file, mtime, lastMtime, running, edits, switches, slipped, backdated>>

\* Mutant: the time of the reading is recorded, not that of the file.
StatNow(r) ==
  /\ reader[r] = "stat"
  /\ lastMtime' = IF file = Gone THEN lastMtime ELSE MaxTime
  /\ WatchGoes(r, "rest")
  /\ UNCHANGED <<file, mtime, engine, running, content, edits, switches, slipped, backdated>>

Stat(r) ==
  /\ reader[r] = "stat"
  /\ lastMtime' = IF file = Gone THEN lastMtime ELSE mtime
  /\ WatchGoes(r, "rest")
  /\ UNCHANGED <<file, mtime, engine, running, content, edits, switches, slipped, backdated>>

WatchNext ==
  \/ Edit \/ StartWatch \/ Begun \/ StopWatch
  \/ \E l \in Loops : Turn(l)
  \/ \E r \in Readers : Read(r) \/ Swap(r) \/ Stat(r)

(***************************************************************************)
(* The threads run; nobody has to call or to write.                        *)
(***************************************************************************)
WatchFairness ==
  /\ WF_watchVars(Begun)
  /\ \A l \in Loops : WF_watchVars(Turn(l))
  /\ \A r \in Readers : WF_watchVars(Read(r) \/ Swap(r) \/ Stat(r))

WatchSpec == WatchInit /\ [][WatchNext]_watchVars /\ WatchFairness

-----------------------------------------------------------------------------
(***************************************************************************)
(* Type invariant of the watcher.                                          *)
(***************************************************************************)
WatchTypeOK ==
  /\ file \in Policies \cup {Gone, Garbled} /\ mtime \in 1 .. MaxTime
  /\ engine \in Policies \cup {NoEngine} /\ lastMtime \in 0 .. MaxTime
  /\ running \in BOOLEAN
  /\ reader \in [Readers -> {"off", "rest", "read", "swap", "stat"}]
  /\ content \in [Readers -> Policies \cup {NoEngine}]
  /\ edits \in 0 .. MaxEdits /\ switches \in 0 .. MaxSwitches
  /\ slipped \in BOOLEAN /\ backdated \in BOOLEAN

(***************************************************************************)
(* A watcher that believes it is up to date is: once it has recorded the   *)
(* time of a file that parses, its engine is that file's, even when two    *)
(* threads load at once after a stop and a start, unless a write slipped   *)
(* in between a reading and its stat, or was dated back (_load and         *)
(* _watch_loop).                                                           *)
(***************************************************************************)
Believes == Parses(file) /\ lastMtime >= mtime

UpToDate == Believes /\ ~slipped /\ ~backdated => engine = file

(***************************************************************************)
(* A watcher left running ends with the policy of the file, or with the    *)
(* last one that parsed, under the same exceptions: an edit is seen and a  *)
(* broken file does not end the watch (_watch_loop).                       *)
(***************************************************************************)
EditsAreSeen ==
  [](running /\ Parses(file) =>
       <>(engine = file \/ ~running \/ ~Parses(file) \/ slipped \/ backdated))

(***************************************************************************)
(* Types; and a watcher that believes it has the file has it, unless a     *)
(* write slipped between its read and its look at the time.                *)
(***************************************************************************)
WatchIsSound == WatchTypeOK /\ UpToDate

=============================================================================
