------------------------------- MODULE Launch -------------------------------
(***************************************************************************)
(* One launch of the portable application after another (main.py): the     *)
(* main thread, the thread that starts what the saved configuration asks   *)
(* for, the tray and dashboard switches, and the ways a launch ends.  What *)
(* a launch leaves behind is the system proxy and the child processes.     *)
(* Starts do not overlap here: Protection interleaves them.                *)
(***************************************************************************)
EXTENDS Naturals

CONSTANTS MaxLaunches, MaxDying, MaxToggles   \* bounds: launches, deaths of mitmdump, toggles

ASSUME LaunchAssumption == {MaxLaunches, MaxDying, MaxToggles} \subseteq Nat

VARIABLES app, auto, starting, mitmdump, uvicorn, routed, strays, wanted, excused, touched, counts

launchVars == <<app, auto, starting, mitmdump, uvicorn, routed, strays, wanted, excused,
                touched, counts>>

Closing == {"browser", "end", "uvicorn"}

(***************************************************************************)
(* Type invariant of a launch and of what it leaves behind (main.py).      *)
(***************************************************************************)
LaunchTypeOK ==
  /\ app \in [at : {"down", "cert", "serve", "stopped"} \cup Closing, passes : 0..3]
  /\ auto \in {"none", "api", "browser", "starting", "done"}
  /\ starting \in {"no", "spawn", "wait", "route"}
  /\ mitmdump \in {"none", "booting", "up", "dead"} /\ uvicorn \in BOOLEAN /\ routed \in BOOLEAN
  /\ strays \subseteq {"mitmdump", "uvicorn"}
  /\ wanted \in [api : BOOLEAN, browser : BOOLEAN, configured : BOOLEAN]
  /\ excused \subseteq {"route", "child", "unset", "port"} /\ touched \in BOOLEAN
  /\ counts \in [launches : 0..MaxLaunches, dead : 0..MaxDying, toggles : 0..MaxToggles]

LaunchInit ==
  /\ app = [at |-> "down", passes |-> 0] /\ auto = "none" /\ starting = "no"
  /\ mitmdump = "none" /\ uvicorn = FALSE /\ routed = FALSE /\ strays = {}
  /\ wanted \in [api : BOOLEAN, browser : {FALSE}, configured : BOOLEAN]
  /\ excused = {} /\ touched = FALSE
  /\ counts = [launches |-> 0, dead |-> 0, toggles |-> 0]

IsRunning == mitmdump \in {"booting", "up"}
Serving == app.at \in {"cert", "serve"} \cup Closing   \* the dashboard's threads run
(* A start that goes on while the launch ends may undo what the cleanup did. *)
Excuse ==
  excused' = excused \cup (IF app.at \in Closing \cup {"stopped"} THEN {"route", "child"} ELSE {})
CountUp(f, max) == counts[f] < max /\ counts' = [counts EXCEPT ![f] = @ + 1]

-----------------------------------------------------------------------------
(***************************************************************************)
(* The launch.                                                             *)
(***************************************************************************)
(* Configuration, server, atexit; then the certificate, in this thread.    *)
Up ==
  /\ app.at = "down" /\ CountUp("launches", MaxLaunches)
  /\ app' = [app EXCEPT !.at = "cert"] /\ touched' = FALSE
  /\ UNCHANGED <<auto, starting, mitmdump, uvicorn, routed, strays, wanted, excused>>

(* The authority is there, or its failure was printed: the threads start.  *)
Serve ==
  /\ app.at = "cert" /\ app' = [app EXCEPT !.at = "serve"] /\ auto' = "api"
  /\ UNCHANGED <<starting, mitmdump, uvicorn, routed, strays, wanted, excused, touched, counts>>

\* Mutant: a proxy that fails to start ends the thread.
AutoApiAlone ==
  /\ auto = "api"
  /\ \/ wanted.api /\ ~uvicorn /\ uvicorn' = TRUE /\ auto' = "browser"
     \/ wanted.api /\ ~uvicorn /\ UNCHANGED uvicorn /\ auto' = "done"
     \/ (~wanted.api \/ uvicorn) /\ UNCHANGED uvicorn /\ auto' = "browser"
  /\ Excuse
  /\ UNCHANGED <<app, starting, mitmdump, routed, strays, wanted, touched, counts>>

(* It starts, or its failure is printed. *)
AutoApi ==
  /\ auto = "api" /\ auto' = "browser"
  /\ \/ wanted.api /\ ~uvicorn /\ uvicorn' = TRUE
     \/ UNCHANGED uvicorn
  /\ Excuse
  /\ UNCHANGED <<app, starting, mitmdump, routed, strays, wanted, touched, counts>>

(* Never configured: browser protection is switched on once. *)
AutoBrowser ==
  LET now == IF wanted.configured THEN wanted
             ELSE [wanted EXCEPT !.browser = TRUE, !.configured = TRUE] IN
  /\ auto = "browser" /\ starting = "no"
  /\ wanted' = now
  /\ IF now.browser /\ ~IsRunning
     THEN starting' = "spawn" /\ auto' = "starting"
     ELSE UNCHANGED starting /\ auto' = "done"
  /\ UNCHANGED <<app, mitmdump, uvicorn, routed, strays, excused, touched, counts>>

-----------------------------------------------------------------------------
(***************************************************************************)
(* Starting and stopping mitmdump.                                         *)
(***************************************************************************)
AutoEnds == IF auto = "starting" THEN "done" ELSE auto

(* Who listens on the port is told to go first, and not waited for. *)
SpawnMitm ==
  /\ starting = "spawn" /\ starting' = "wait" /\ mitmdump' = "booting"
  /\ strays' \in {strays, strays \ {"mitmdump"}} /\ Excuse
  /\ UNCHANGED <<app, auto, uvicorn, routed, wanted, touched, counts>>

(* Somebody answers on the port: mitmdump, or a stray that has not gone. *)
StartSees ==
  /\ starting = "wait" /\ starting' = "route"
  /\ \/ mitmdump = "up" /\ excused' = excused \ {"port"}
     \/ mitmdump = "booting" /\ "mitmdump" \in strays /\ excused' = excused \cup {"port"}
  /\ UNCHANGED <<app, auto, mitmdump, uvicorn, routed, strays, wanted, touched, counts>>

(* It could not be run, went away or was stopped; or it never listened,    *)
(* was asked to end and forgotten, and may live on.                        *)
StartFails ==
  /\ starting \in {"spawn", "wait"} /\ mitmdump # "up"
  /\ starting' = "no" /\ mitmdump' = "none" /\ touched' = TRUE /\ auto' = AutoEnds
  /\ \/ UNCHANGED <<strays, excused>>
     \/ /\ mitmdump = "booting"
        /\ strays' = strays \cup {"mitmdump"} /\ excused' = excused \cup {"child"}
  /\ UNCHANGED <<app, uvicorn, routed, wanted, counts>>

(* That nothing was set is not looked at; if setting it raises, mitmdump   *)
(* runs on and a switch stays as it was.                                   *)
RouteSet ==
  /\ starting = "route" /\ starting' = "no" /\ auto' = AutoEnds
  /\ routed' \in {routed, TRUE}
  /\ excused' = (excused \ {"route", "unset"})
                 \cup (IF app.at \in Closing \cup {"stopped"} THEN {"route", "child"} ELSE {})
                 \cup (IF mitmdump = "up" THEN {} ELSE {"route"})
                 \cup (IF routed' THEN {} ELSE {"unset"})
  /\ \/ UNCHANGED wanted
     \/ auto # "starting" /\ wanted' = [wanted EXCEPT !.browser = TRUE, !.configured = TRUE]
  /\ UNCHANGED <<app, mitmdump, uvicorn, strays, touched, counts>>

\* Mutant: the child is ended without disabling the system proxy.
KeepRoute == UNCHANGED <<routed, excused>>

(* Without an active interface it is left, and nobody looks at that. *)
Unroute ==
  \/ routed' = FALSE /\ excused' = excused \ {"route"}
  \/ UNCHANGED routed /\ excused' = excused \cup (IF routed THEN {"route"} ELSE {})

(* Disabling the system proxy raised, or a killed process did not go.      *)
StopRaises == routed' \in {routed, FALSE}

SwitchOn ==
  /\ Serving /\ starting = "no" /\ ~IsRunning /\ CountUp("toggles", MaxToggles)
  /\ starting' = "spawn" /\ touched' = TRUE
  /\ UNCHANGED <<app, auto, mitmdump, uvicorn, routed, strays, wanted, excused>>

SwitchOff ==
  /\ Serving /\ starting = "no" /\ CountUp("toggles", MaxToggles)
  /\ touched' = TRUE
  /\ \/ /\ Unroute /\ mitmdump' = "none"
        /\ wanted' = [wanted EXCEPT !.browser = FALSE, !.configured = TRUE]
     \/ StopRaises /\ UNCHANGED <<mitmdump, wanted, excused>>
  /\ UNCHANGED <<app, auto, starting, uvicorn, strays>>

(* One that raises changes nothing. *)
ToggleApi ==
  /\ Serving /\ CountUp("toggles", MaxToggles)
  /\ uvicorn' = ~uvicorn /\ wanted' = [wanted EXCEPT !.api = ~uvicorn] /\ Excuse
  /\ UNCHANGED <<app, auto, starting, mitmdump, routed, strays, touched>>

-----------------------------------------------------------------------------
(***************************************************************************)
(* The end of a launch.                                                    *)
(***************************************************************************)
(* A signal cleans up in its handler, in the main thread's finally and at  *)
(* exit; the tray's quit once; an interrupt before the handlers are        *)
(* installed at exit only.                                                 *)
Signal == app.at = "serve" /\ app' = [at |-> "browser", passes |-> 3]
TrayQuit == app.at = "serve" /\ app' = [at |-> "browser", passes |-> 1]
Interrupt == app.at = "cert" /\ app' = [at |-> "browser", passes |-> 1]

\* Mutant: only a proxy that already listens is stopped.
StopsIfUp == mitmdump = "up"

StopsBrowser == IsRunning

\* Mutant: the cleanup runs once more than it is called.
PassEndsLate ==
  app' = [at |-> IF app.passes > 0 THEN "browser" ELSE "stopped", passes |-> app.passes - 1]

PassEnds ==
  app' = [at |-> IF app.passes > 1 THEN "browser" ELSE "stopped", passes |-> app.passes - 1]

(* What stop raises, the cleanup swallows, and skips the rest of itself. *)
CleanBrowser ==
  /\ app.at = "browser"
  /\ \/ StopsBrowser /\ Unroute /\ app' = [app EXCEPT !.at = "end"]
     \/ /\ StopsBrowser /\ StopRaises /\ PassEnds
        /\ excused' = excused \cup {"child"} \cup (IF routed' THEN {"route"} ELSE {})
     \/ ~StopsBrowser /\ UNCHANGED <<routed, excused>> /\ app' = [app EXCEPT !.at = "uvicorn"]
  /\ UNCHANGED <<auto, starting, mitmdump, uvicorn, strays, wanted, touched, counts>>

(* Killed and not gone two seconds later: the rest of the cleanup is skipped. *)
EndBrowser ==
  /\ app.at = "end"
  /\ \/ mitmdump' = "none" /\ app' = [app EXCEPT !.at = "uvicorn"] /\ UNCHANGED excused
     \/ PassEnds /\ excused' = excused \cup {"child"} /\ UNCHANGED mitmdump
  /\ UNCHANGED <<auto, starting, uvicorn, routed, strays, wanted, touched, counts>>

CleanApi ==
  /\ app.at = "uvicorn" /\ PassEnds
  /\ \/ uvicorn' = FALSE /\ UNCHANGED excused
     \/ uvicorn /\ UNCHANGED uvicorn /\ excused' = excused \cup {"child"}
  /\ UNCHANGED <<auto, starting, mitmdump, routed, strays, wanted, touched, counts>>

(* The threads end with the process; its children do not. *)
Leaves ==
  /\ auto' = "none" /\ starting' = "no" /\ mitmdump' = "none" /\ uvicorn' = FALSE
  /\ app' = [at |-> "down", passes |-> 0]
  /\ strays' = strays \cup (IF IsRunning THEN {"mitmdump"} ELSE {})
                       \cup (IF uvicorn THEN {"uvicorn"} ELSE {})
  /\ UNCHANGED <<routed, wanted, touched>>

Exit == app.at = "stopped" /\ Leaves /\ UNCHANGED <<excused, counts>>
KillApp == app.at # "down" /\ Leaves /\ excused' = {"route", "child"} /\ UNCHANGED counts

MitmBoots ==
  /\ mitmdump = "booting" /\ mitmdump' = "up"
  /\ UNCHANGED <<app, auto, starting, uvicorn, routed, strays, wanted, excused, touched, counts>>

(* is_running is then false, and a cleanup does not call stop. *)
MitmDies ==
  /\ IsRunning /\ CountUp("dead", MaxDying)
  /\ mitmdump' = "dead" /\ touched' = TRUE
  /\ excused' = IF routed THEN excused \cup {"route"} ELSE excused
  /\ UNCHANGED <<app, auto, starting, uvicorn, routed, strays, wanted>>

LaunchNext ==
  \/ Up \/ Serve \/ AutoApi \/ AutoBrowser
  \/ SpawnMitm \/ StartSees \/ StartFails \/ RouteSet \/ SwitchOn \/ SwitchOff \/ ToggleApi
  \/ (Signal \/ TrayQuit \/ Interrupt)
       /\ UNCHANGED <<auto, starting, mitmdump, uvicorn, routed, strays, wanted, excused,
                      touched, counts>>
  \/ CleanBrowser \/ EndBrowser \/ CleanApi \/ Exit \/ KillApp
  \/ MitmBoots \/ MitmDies

LaunchSpec == LaunchInit /\ [][LaunchNext]_launchVars

-----------------------------------------------------------------------------
(***************************************************************************)
(* Properties.                                                             *)
(***************************************************************************)
(* No launch that ends by a signal or a quit leaves the browsers pointed   *)
(* at a proxy that is gone, unless mitmdump had died before, a start was   *)
(* under way while the launch ended, or disabling the system proxy did not *)
(* do it (no active interface, or it raised).                              *)
RouteIsUndone == (app.at = "down" /\ "route" \notin excused) => ~routed

(* Nor does it leave a proxy running, unless a start was under way, a stop *)
(* raised, or a process that was asked to end or killed would not go.      *)
ChildrenEnd == (app.at = "down" /\ "child" \notin excused) => strays = {}

(* What the saved configuration asks for runs once the start-up thread is  *)
(* through, whatever became of the other proxy, as long as nobody touched  *)
(* it in this launch and its start did not fail: mitmdump listens, unless  *)
(* a stray answered for it, and is routed to, unless the start itself      *)
(* could not set the route, of which it says nothing.                      *)
ResumesAsLeft ==
  (app.at = "serve" /\ auto = "done" /\ ~touched /\ wanted.browser) =>
    /\ mitmdump = "up" \/ "port" \in excused
    /\ routed \/ "unset" \in excused

(***************************************************************************)
(* Types; an application that has ended left no proxy setting and no child *)
(* behind, and one that came up is as the last was left, but for the       *)
(* commands to the system whose failures nobody looks at.                  *)
(***************************************************************************)
LaunchIsSound == LaunchTypeOK /\ RouteIsUndone /\ ChildrenEnd /\ ResumesAsLeft

=============================================================================
