----------------------------- MODULE Protection -----------------------------
(***************************************************************************)
(* Browser protection of the native application: the proxy process and the *)
(* system's PAC setting (services/proxy.py, services/interceptor.py), the  *)
(* watchdog that restarts the proxy (services/watchdog.py), and those who  *)
(* call them: the menu (native/app_delegate.py) and the dashboard          *)
(* (server/api.py).  No lock covers start() and stop(): their steps mix.   *)
(*                                                                         *)
(* A process that another one keeps from the port exits.  Health is the    *)
(* port's; the PAC server is the dashboard's and may be late to answer.    *)
(* Commands to the system (networksetup, pfctl, signals) may fail, and     *)
(* nobody looks at how they ended.  The settings are those of macOS.       *)
(* The CA is set up.  The menu's icon, which a loop repaints, is left out. *)
(* Time is the nondeterminism of time limits.                              *)
(***************************************************************************)
EXTENDS Naturals, FiniteSets

CONSTANTS
  Menus,          \* the threads of the application delegate
  Dashes,         \* the threads of the dashboard's server
  Monitors,       \* the monitor threads of the watchdog
  Interfaces, AtStart,  \* the network interfaces, those active first
  DefaultService, \* the interface listed when none is active or the listing fails
  MaxProcesses,   \* bound: the proxy processes started
  MaxCalls,       \* bound: the calls of menu and dashboard
  MaxMoves,       \* bound: the interfaces that come and go
  MaxFaults,      \* bound: the commands to the system that fail
  MaxEvents,      \* bound: calls, moves and failing commands in all
  MaxRestarts,    \* MAX_RESTART_ATTEMPTS
  FailClosed      \* FAIL_CLOSED

ASSUME ProtectionAssumption ==
  /\ {MaxProcesses, MaxCalls, MaxMoves, MaxFaults, MaxEvents, MaxRestarts} \subseteq Nat
  /\ FailClosed \in BOOLEAN /\ AtStart \subseteq Interfaces
  /\ DefaultService \in Interfaces
  /\ Menus \cap (Dashes \cup Monitors) = {} /\ Dashes \cap Monitors = {}

Processes == 1 .. MaxProcesses
Doers == Menus \cup Dashes \cup Monitors

VARIABLES
  process,     \* _process: 0 or the last process started
  proc,        \* of each process: where it is in its life
  pac,         \* the interfaces whose automatic proxy is on
  active,      \* the active interfaces
  job,         \* of each thread: what it does and where it is
  watching,    \* the watchdog's _running
  health,      \* its _state
  restarts,    \* its _restart_count
  known,       \* its _known_interfaces
  rules,       \* packet-filter rules are in place
  saved,       \* browser_interception in the configuration
  gone,        \* the application has quit
  calls, moves, faults, \* the calls, moves and failing commands so far
  overlapped,  \* history: two calls of start() or stop() overlapped
  lastDone,    \* history, until then: the last of start() and stop() that was carried out
  reach,       \* history: the interfaces that the last setting of the PAC took on
  missed,      \* history: the interfaces the monitor's last look did not cover
  survivors,   \* history: the processes that outlived the signal to end
  unblocked    \* history: since the state failed, setting the rules failed

dog     == <<watching, health, restarts, known, rules>>
service == <<process, proc, pac>>
bounds  == <<calls, moves, faults>>
past    == <<overlapped, lastDone, reach>>
slips   == <<missed, survivors, unblocked>>
protVars == <<service, active, job, dog, saved, gone, bounds, past, slips>>

IdleJob == [script |-> "none", at |-> "idle"]
Unborn == [script |-> "watch", at |-> "unborn"]

ProtInit ==
  /\ process = 0 /\ proc = [p \in Processes |-> "unborn"]
  /\ pac = {} /\ active = AtStart
  /\ job = [d \in Doers |-> IF d \in Monitors THEN Unborn ELSE IdleJob]
  /\ watching = FALSE /\ health = "stopped" /\ restarts = 0 /\ known = {} /\ rules = FALSE
  /\ saved = FALSE
  /\ gone = FALSE /\ calls = 0 /\ moves = 0 /\ faults = 0
  /\ overlapped = FALSE /\ lastDone = "stop" /\ reach = active
  /\ missed = {} /\ survivors = {} /\ unblocked = FALSE

-----------------------------------------------------------------------------
Alive(p) == proc[p] \in {"booting", "listening"}
Running == process # 0 /\ Alive(process)
Spare == calls + moves + faults < MaxEvents

Listening == \E p \in Processes : proc[p] = "listening"

At(d, place) == job[d].at = place
Go(d, place) == job' = [job EXCEPT ![d].at = place]

InStart == {"clear", "spawn", "wait", "enable"}
InStop == {"disable", "terminate", "forget"}
Busy(d) == job[d].at \in InStart \cup InStop

(***************************************************************************)
(* A thread enters start() or stop(); the first thing start() does is to   *)
(* raise when the proxy runs.                                              *)
(***************************************************************************)
\* What the properties remember of calls, as long as none overlapped.
Remember(done, S) ==
  IF overlapped' THEN lastDone' = "mixed" /\ reach' = {}
                 ELSE lastDone' = done /\ reach' = S

Overlap(d) ==
  /\ overlapped' = (overlapped \/ \E e \in Doers \ {d} : Busy(e))
  /\ Remember(lastDone, reach)

Enter(d, script, place) ==
  /\ job' = [job EXCEPT ![d] = [script |-> script, at |-> place]]
  /\ Overlap(d)

-----------------------------------------------------------------------------
(***************************************************************************)
(* What the caller does when start() has returned (ok) or raised.          *)
(***************************************************************************)
MenuStarted(d, ok) ==
  /\ job[d].script = "on"
  /\ IF ok THEN Go(d, "warm") /\ UNCHANGED saved
           ELSE Go(d, "idle") /\ saved' = FALSE
  /\ UNCHANGED <<health, restarts>>

DashStarted(d, ok) ==
  /\ job[d].script \in {"dash on", "dash restart"}
  /\ saved' = (saved \/ (ok /\ job[d].script = "dash on"))
  /\ Go(d, "idle")
  /\ UNCHANGED <<health, restarts>>

WatchStarted(d, ok) ==
  /\ job[d].script = "watch"
  /\ IF ok
       THEN /\ health' = "active" /\ restarts' = 0
            /\ IF health = "active" THEN UNCHANGED saved ELSE saved' = TRUE
       ELSE UNCHANGED <<health, restarts, saved>>
  /\ Go(d, "network")

Started(d, ok) ==
  /\ MenuStarted(d, ok) \/ DashStarted(d, ok) \/ WatchStarted(d, ok)
  /\ UNCHANGED <<watching, known, rules>>

(***************************************************************************)
(* start(): clear the port, spawn, wait until someone listens on the port, *)
(* set the PAC.  A process that died, or that stop() took away meanwhile,  *)
(* ends the wait, and so does the time limit, which also signals the       *)
(* process to end and forgets it, whether it ends or not.                  *)
(***************************************************************************)
Killed(p) == [proc EXCEPT ![p] = "dead"]

Fault == faults < MaxFaults /\ Spare /\ faults' = faults + 1

FaultUnless(fine) == IF fine THEN UNCHANGED faults ELSE Fault

Clear(d) ==
  /\ At(d, "clear")
  /\ \/ /\ proc' = [p \in Processes |-> IF proc[p] = "listening" THEN "dead" ELSE proc[p]]
        /\ UNCHANGED <<survivors, faults>>
     \/ /\ survivors' = survivors \cup {p \in Processes : proc[p] = "listening"}
        /\ UNCHANGED proc /\ Fault
  /\ Go(d, "spawn")
  /\ UNCHANGED <<process, pac, active, dog, saved, gone, calls, moves, past, missed, unblocked>>

Spawn(d) ==
  /\ At(d, "spawn")
  /\ \E p \in Processes :
       /\ proc[p] = "unborn" /\ \A q \in 1 .. p - 1 : proc[q] # "unborn"
       /\ process' = p
       /\ proc' = [proc EXCEPT ![p] = "booting"]
  /\ Go(d, "wait")
  /\ UNCHANGED <<pac, active, dog, saved, gone, bounds, past, slips>>

SpawnRaises(d) ==
  /\ At(d, "spawn")
  /\ Started(d, FALSE)
  /\ UNCHANGED <<service, active, gone, bounds, past, slips>>

WaitSees(d) ==
  /\ At(d, "wait") /\ Running /\ Listening
  /\ Go(d, "enable")
  /\ UNCHANGED <<service, active, dog, saved, gone, bounds, past, slips>>

WaitRaises(d) ==
  /\ At(d, "wait") /\ ~Running
  /\ process' = 0
  /\ Started(d, FALSE)
  /\ UNCHANGED <<proc, pac, active, gone, bounds, past, slips>>

\* Mutant: the process is not even signalled.
WaitAbandons(d) ==
  /\ At(d, "wait") /\ Running /\ ~Listening
  /\ process' = 0 /\ UNCHANGED <<survivors, faults>>
  /\ Started(d, FALSE)
  /\ UNCHANGED <<proc, pac, active, gone, calls, moves, past, missed, unblocked>>

\* Mutant: no time limit.
WaitsOn(d) == At(d, "wait") /\ Running /\ ~Listening /\ UNCHANGED protVars

WaitTimesOut(d) ==
  /\ At(d, "wait") /\ Running /\ ~Listening
  /\ \/ proc' = Killed(process) /\ UNCHANGED <<survivors, faults>>
     \/ survivors' = survivors \cup {process} /\ UNCHANGED proc /\ Fault
  /\ process' = 0
  /\ Started(d, FALSE)
  /\ UNCHANGED <<pac, active, gone, calls, moves, past, missed, unblocked>>

(***************************************************************************)
(* The PAC is set on each interface listed, and may not take on any; that  *)
(* it took on none is told to start(), which does not look.  Writing the   *)
(* PAC file raises on a full disk: the process runs on.  The watchdog's    *)
(* callback answers with is_running.                                       *)
(***************************************************************************)
ListedNow == IF active = {} THEN {DefaultService} ELSE active
Takes == (SUBSET active) \cup {{DefaultService}}

Enable(d) ==
  /\ At(d, "enable") /\ UNCHANGED overlapped
  /\ \/ /\ \E S \in Takes :
             pac' = pac \cup S /\ Remember("start", S) /\ FaultUnless(S = ListedNow)
        /\ Started(d, job[d].script = "watch" => Running)
     \/ /\ Remember("raised", {}) /\ UNCHANGED pac /\ Fault
        /\ Started(d, FALSE)
  /\ UNCHANGED <<process, proc, active, gone, calls, moves, slips>>

-----------------------------------------------------------------------------
(***************************************************************************)
(* stop(): the PAC of the interfaces active now goes first, the process    *)
(* second; _process is forgotten when the process has ended.               *)
(***************************************************************************)
Disable(d) ==
  /\ At(d, "disable") /\ UNCHANGED overlapped
  /\ \E S \in Takes :
       pac' = pac \ S /\ Remember(lastDone, S) /\ FaultUnless(S = ListedNow)
  /\ Go(d, "terminate")
  /\ UNCHANGED <<process, proc, active, dog, saved, gone, calls, moves, slips>>

Terminate(d) ==
  /\ At(d, "terminate") /\ process # 0
  /\ proc' = Killed(process)
  /\ Go(d, "forget")
  /\ UNCHANGED <<process, pac, active, dog, saved, gone, bounds, past, slips>>

(***************************************************************************)
(* What the caller does then: a restart goes on with start().              *)
(***************************************************************************)
Stopped(d) ==
  /\ CASE job[d].script = "off"      -> saved' = FALSE /\ Go(d, "idle")
       [] job[d].script = "dash off" -> saved' = FALSE /\ Go(d, "idle")
       [] job[d].script = "quit"     -> Go(d, "idle") /\ UNCHANGED saved
       [] OTHER                      -> Go(d, "clear") /\ UNCHANGED saved
  /\ gone' = (job[d].script = "quit")

Forget(d) ==
  /\ At(d, "forget") \/ (At(d, "terminate") /\ process = 0)
  /\ process' = 0 /\ UNCHANGED overlapped
  /\ Remember("stop", reach)
  /\ Stopped(d)
  /\ UNCHANGED <<proc, pac, active, dog, bounds, slips>>

(***************************************************************************)
(* A command of stop() that cannot be run raises before the process is     *)
(* ended; the menu takes the protection for stopped, the dashboard and the *)
(* watchdog's callback do not go on.                                       *)
(***************************************************************************)
DisableRaises(d) ==
  /\ At(d, "disable") /\ UNCHANGED overlapped
  /\ \E S \in Takes : pac' = pac \ S
  /\ Remember("raised", {}) /\ Fault
  /\ IF job[d].script = "watch"
       THEN Started(d, FALSE) /\ UNCHANGED gone
       ELSE /\ Go(d, "idle") /\ UNCHANGED dog
            /\ saved' = (saved /\ job[d].script # "off")
            /\ gone' = (job[d].script = "quit")
  /\ UNCHANGED <<process, proc, active, calls, moves, slips>>

-----------------------------------------------------------------------------
(***************************************************************************)
(* The menu: toggleFirewall_ stops, or starts in a thread that first loads *)
(* the models, then starts the proxy if none runs, warms the detectors and *)
(* starts the watchdog.                                                    *)
(***************************************************************************)
Toggle(m) ==
  /\ At(m, "idle") /\ calls < MaxCalls /\ Spare
  /\ calls' = calls + 1
  /\ IF Running THEN Enter(m, "off", "disable") ELSE Enter(m, "on", "load")
  /\ UNCHANGED <<service, active, dog, saved, gone, moves, faults, slips>>

Loaded(m) ==
  /\ At(m, "load")
  /\ IF Running THEN Go(m, "warm") /\ UNCHANGED past ELSE Enter(m, "on", "clear")
  /\ UNCHANGED <<service, active, dog, saved, gone, bounds, slips>>

StartDog(m) ==
  /\ watching' = TRUE /\ health' = "starting"
  /\ \E w \in Monitors :
       /\ At(w, "unborn")
       /\ job' = [job EXCEPT ![w].at = "asleep", ![m].at = "idle"]

Warmed(m) ==
  /\ At(m, "warm")
  /\ restarts' = 0
  /\ \/ watching /\ Go(m, "idle") /\ UNCHANGED <<watching, health>>
     \/ ~watching /\ StartDog(m)
  /\ saved' = TRUE
  /\ UNCHANGED <<service, active, known, rules, gone, bounds, past, slips>>

(***************************************************************************)
(* applicationWillTerminate_: the watchdog is stopped first, but a restart *)
(* it is in the middle of goes on.                                         *)
(***************************************************************************)
Quit(m) ==
  /\ At(m, "idle") /\ calls < MaxCalls /\ Spare
  /\ calls' = calls + 1
  /\ watching' = FALSE /\ health' = "stopped"
  /\ \/ rules' = (rules /\ ~FailClosed) /\ UNCHANGED faults
     \/ UNCHANGED rules /\ rules /\ Fault
  /\ IF Running THEN Enter(m, "quit", "disable") /\ UNCHANGED gone
                ELSE gone' = TRUE /\ UNCHANGED <<job, past>>
  /\ UNCHANGED <<service, active, restarts, known, saved, moves, slips>>

(***************************************************************************)
(* The dashboard.                                                          *)
(***************************************************************************)
DashOn(d) ==
  /\ ~Running
  /\ Enter(d, "dash on", "setup")

DashOff(d) == Enter(d, "dash off", "disable")

DashRestart(d) ==
  /\ Running
  /\ Enter(d, "dash restart", "disable")

Dash(d) ==
  /\ At(d, "idle") /\ calls < MaxCalls /\ Spare
  /\ calls' = calls + 1
  /\ DashOn(d) \/ DashOff(d) \/ DashRestart(d)
  /\ UNCHANGED <<service, active, dog, saved, gone, moves, faults, slips>>

SetUp(d) ==
  /\ At(d, "setup")
  /\ IF Running THEN Go(d, "idle") /\ UNCHANGED past ELSE Enter(d, "dash on", "clear")
  /\ UNCHANGED <<service, active, dog, saved, gone, bounds, slips>>

-----------------------------------------------------------------------------
(***************************************************************************)
(* The watchdog's monitor: a poll finds the proxy healthy, or recovers.    *)
(***************************************************************************)
WatchPoll(w) ==
  /\ At(w, "asleep") /\ watching /\ Listening
  /\ Go(w, "network") /\ missed' = {}
  /\ IF health = "active" THEN UNCHANGED <<health, restarts, saved>>
       ELSE health' = "active" /\ restarts' = 0 /\ saved' = TRUE
  /\ UNCHANGED <<service, active, watching, known, rules, gone, bounds, past, survivors,
                 unblocked>>

WatchPollFails(w) ==
  /\ At(w, "asleep") /\ watching
  /\ Go(w, "recover") /\ missed' = {}
  /\ UNCHANGED <<service, active, dog, saved, gone, bounds, past, survivors, unblocked>>

PollEnds(w) ==
  /\ At(w, "asleep") /\ ~watching
  /\ Go(w, "ended") /\ missed' = {}
  /\ UNCHANGED <<service, active, dog, saved, gone, bounds, past, survivors, unblocked>>

\* Mutant: off by one.
OutOfRestartsLate == restarts > MaxRestarts

OutOfRestarts == restarts >= MaxRestarts

\* Mutant: the rules are not put in place.
GiveUpOpen(w) ==
  /\ At(w, "recover") /\ OutOfRestarts
  /\ health' = "failed" /\ saved' = (saved /\ health = "failed") /\ UNCHANGED unblocked
  /\ Go(w, "network")
  /\ UNCHANGED <<service, active, watching, restarts, known, rules, gone, bounds, past, missed,
                 survivors>>

\* Mutant: the state stays degraded.
GiveUpSilently(w) ==
  /\ At(w, "recover") /\ OutOfRestarts
  /\ Go(w, "network")
  /\ UNCHANGED <<service, active, dog, saved, gone, bounds, past, slips>>

GiveUp(w) ==
  /\ At(w, "recover") /\ OutOfRestarts
  /\ IF health = "failed"
       THEN Go(w, "network") /\ UNCHANGED <<health, saved, unblocked>>
       ELSE /\ health' = "failed" /\ saved' = FALSE /\ unblocked' = FALSE
            /\ Go(w, IF FailClosed THEN "block" ELSE "network")
  /\ UNCHANGED <<service, active, watching, restarts, known, rules, gone, bounds, past, missed,
                 survivors>>

(***************************************************************************)
(* The rules are set once; without sudo, or off macOS, nothing happens and *)
(* nobody is told, and an error ends the poll.                             *)
(***************************************************************************)
Block(w) ==
  /\ At(w, "block")
  /\ \/ rules' = TRUE /\ unblocked' = FALSE /\ Go(w, "network") /\ UNCHANGED faults
     \/ /\ unblocked' = TRUE /\ UNCHANGED rules /\ Fault
        /\ Go(w, "network") \/ Go(w, "asleep")
  /\ UNCHANGED <<service, active, watching, health, restarts, known, saved, gone, calls, moves, past,
                 missed, survivors>>

BackOff(w) ==
  /\ At(w, "recover") /\ ~OutOfRestarts /\ restarts > 0
  /\ Go(w, "network")
  /\ UNCHANGED <<service, active, dog, saved, gone, bounds, past, slips>>

Attempt(w) ==
  /\ At(w, "recover") /\ ~OutOfRestarts
  /\ restarts' = restarts + 1
  /\ health' = "degraded"
  /\ Enter(w, "watch", IF Running THEN "disable" ELSE "clear")
  /\ UNCHANGED <<service, active, watching, known, rules, saved, gone, bounds,
                 slips>>

(***************************************************************************)
(* _check_network_changes: the interfaces known are those of the first     *)
(* look; when others are listed the PAC is set again, whoever is at work.  *)
(* What it did not take on is known all the same, and not tried again.     *)
(***************************************************************************)
Listings == {ListedNow, {DefaultService}}

\* Mutant: only interfaces that went away count.
ChangedByLoss(L) == known \ L # {}

Changed(L) == known # {} /\ L # known

Network(w) ==
  /\ At(w, "network")
  /\ \E L \in Listings :
       /\ ~Changed(L)
       /\ known' = L /\ missed' = active \ L /\ FaultUnless(L = ListedNow)
  /\ Go(w, "asleep")
  /\ UNCHANGED <<service, active, watching, health, restarts, rules, saved, gone, calls, moves, past,
                 survivors, unblocked>>

Reapply(w) ==
  /\ At(w, "network")
  /\ overlapped' = (overlapped \/ ~Running \/ \E d \in Doers : Busy(d))
  /\ \E L \in Listings, S \in Takes :
       /\ Changed(L)
       /\ known' = L
       /\ pac' = pac \cup S /\ missed' = active \ S /\ Remember(lastDone, S)
       /\ FaultUnless(L = ListedNow /\ S = ListedNow)
  /\ Go(w, "asleep")
  /\ UNCHANGED <<process, proc, active, watching, health, restarts, rules, saved, gone, calls, moves,
                 survivors, unblocked>>

-----------------------------------------------------------------------------
(***************************************************************************)
(* The processes and the network.                                          *)
(***************************************************************************)
Boot(p) ==
  /\ proc[p] = "booting"
  /\ proc' = [proc EXCEPT ![p] = IF Listening THEN "dead" ELSE "listening"]
  /\ UNCHANGED <<process, pac, active, job, dog, saved, gone, bounds, past, slips>>

Die(p) ==
  /\ Alive(p)
  /\ proc' = Killed(p)
  /\ UNCHANGED <<process, pac, active, job, dog, saved, gone, bounds, past, slips>>

Move(i) ==
  /\ moves < MaxMoves /\ Spare
  /\ moves' = moves + 1
  /\ active' = IF i \in active THEN active \ {i} ELSE active \cup {i}
  /\ UNCHANGED <<service, job, dog, saved, gone, calls, faults, past, slips>>

Proceed(d) ==
  \/ Clear(d) \/ Spawn(d) \/ SpawnRaises(d) \/ WaitSees(d) \/ WaitRaises(d)
  \/ WaitTimesOut(d) \/ Enable(d)
  \/ Disable(d) \/ DisableRaises(d) \/ Terminate(d) \/ Forget(d)
  \/ Loaded(d) \/ Warmed(d) \/ SetUp(d)

Monitor(w) ==
  \/ WatchPoll(w) \/ WatchPollFails(w) \/ PollEnds(w) \/ GiveUp(w) \/ Block(w) \/ BackOff(w)
  \/ Attempt(w) \/ Network(w) \/ Reapply(w)

ProtNext ==
  /\ ~gone
  /\ \/ \E m \in Menus : Toggle(m) \/ Quit(m)
     \/ \E d \in Dashes : Dash(d)
     \/ \E d \in Doers : Proceed(d)
     \/ \E w \in Monitors : Monitor(w)
     \/ \E p \in Processes : Boot(p) \/ Die(p)
     \/ \E i \in Interfaces : Move(i)

(***************************************************************************)
(* Every thread is scheduled, and a back-off ends: a monitor that recovers *)
(* again and again attempts a restart at last.  Nothing makes a process    *)
(* listen, or anyone call.                                                 *)
(***************************************************************************)
ProtFairness ==
  /\ \A d \in Doers : WF_protVars(~gone /\ Proceed(d))
  /\ \A w \in Monitors :
       WF_protVars(~gone /\ Monitor(w)) /\ SF_protVars(~gone /\ Attempt(w))

ProtSpec == ProtInit /\ [][ProtNext]_protVars /\ ProtFairness

-----------------------------------------------------------------------------
(***************************************************************************)
(* Properties.                                                             *)
(***************************************************************************)

(***************************************************************************)
(* Types.                                                                  *)
(***************************************************************************)
ProtTypeOK ==
  /\ process \in 0 .. MaxProcesses
  /\ proc \in [Processes -> {"unborn", "booting", "listening", "dead"}]
  /\ \A p, q \in Processes : proc[p] = "listening" /\ proc[q] = "listening" => p = q
  /\ pac \subseteq Interfaces /\ active \subseteq Interfaces
  /\ known \subseteq Interfaces /\ reach \subseteq Interfaces
  /\ job \in [Doers ->
       [script : {"none", "on", "off", "quit", "dash on", "dash off", "dash restart", "watch"},
        at : InStart \cup InStop \cup
             {"idle", "load", "warm", "setup", "unborn", "asleep", "recover", "block",
              "network", "ended"}]]
  /\ health \in {"stopped", "starting", "active", "degraded", "failed"}
  /\ restarts \in 0 .. MaxRestarts
  /\ watching \in BOOLEAN /\ rules \in BOOLEAN /\ saved \in BOOLEAN
  /\ gone \in BOOLEAN /\ overlapped \in BOOLEAN
  /\ missed \subseteq Interfaces /\ survivors \subseteq Processes /\ unblocked \in BOOLEAN
  /\ lastDone \in {"start", "stop", "raised", "mixed"}
  /\ calls \in 0 .. MaxCalls /\ moves \in 0 .. MaxMoves
  /\ faults \in 0 .. MaxFaults

(***************************************************************************)
(* As long as calls of start() and stop() do not overlap, process and PAC  *)
(* agree between them: no process is alive but the one the service knows   *)
(* and those that outlived a signal; unless the last call raised, after a  *)
(* start the PAC is on, and after a stop it is off and the service knows   *)
(* of no process, on every interface that the setting took on.             *)
(***************************************************************************)
Quiet == \A d \in Doers : ~Busy(d)

SerialCallsAgree ==
  ~overlapped /\ Quiet =>
    /\ \A p \in Processes : Alive(p) => p = process \/ p \in survivors
    /\ lastDone = "start" => reach \subseteq pac
    /\ lastDone = "stop" => process = 0 /\ reach \cap pac = {}

(***************************************************************************)
(* With fail-closed mode, once the watchdog has given up, and until it is  *)
(* stopped or sees the proxy again, traffic is blocked, or the one attempt *)
(* to block it since then is being made or has failed.                     *)
(***************************************************************************)
BlockedWhenFailed ==
  FailClosed /\ health = "failed" =>
    rules \/ unblocked \/ \E w \in Monitors : At(w, "block")

(***************************************************************************)
(* While the watchdog watches, an outage ends or is told of: the proxy     *)
(* listens again, or the state is failed.                                  *)
(***************************************************************************)
OutageIsTold == watching /\ ~Listening ~> Listening \/ health = "failed" \/ ~watching \/ gone

(***************************************************************************)
(* An interface that comes after the watchdog's first look gets the PAC,   *)
(* unless listing it or setting the PAC on it fails.                       *)
(***************************************************************************)
InterfacesAreCovered ==
  \A i \in Interfaces :
    watching /\ known # {} /\ i \in active \ known
      ~> i \in pac \/ i \in missed \/ i \notin active \/ ~watching

(***************************************************************************)
(* Every start() and stop() comes to an end, whatever the process does.    *)
(***************************************************************************)
CallsReturn == \A d \in Doers : Busy(d) ~> ~Busy(d) \/ gone

(***************************************************************************)
(* Types; what a call that overlapped no other left is what runs; and      *)
(* after the watchdog has given up in fail-closed mode nothing passes      *)
(* uninspected, but for the failures named.                                *)
(***************************************************************************)
ProtectionIsSound == ProtTypeOK /\ SerialCallsAgree /\ BlockedWhenFailed

(***************************************************************************)
(* Outages end or are told, interfaces that come are covered or missed and *)
(* calls return, whatever dies or is called.                               *)
(***************************************************************************)
ProtectionMovesOn == OutageIsTold /\ InterfacesAreCovered /\ CallsReturn

=============================================================================
