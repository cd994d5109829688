----------------------------- MODULE ConfigFile -----------------------------
(***************************************************************************)
(* The application's configuration: ConfigStore (config/store.py), the     *)
(* migrations of AppConfig.from_dict (config/schema.py), the handlers that *)
(* save (server/api.py, main.py) and the dashboard's page, which reads the *)
(* whole configuration once and posts it whole whenever a detector is      *)
(* switched (assets/dashboard.html).                                       *)
(*                                                                         *)
(* Handlers change the shared object in place and then save it; save_dict  *)
(* makes a new one.  Of the fields, on and set stand for                   *)
(* browser_interception and browser_interception_configured, other for the *)
(* rest; a file from before the flag has no set.                           *)
(***************************************************************************)
EXTENDS Naturals, Sequences

CONSTANTS
  Switches,     \* threads that switch interception: tray, /api/browser-proxy
  Pages,        \* dashboard pages that post the whole configuration
  MaxObjects,   \* bound: the AppConfig objects made
  MaxSaves,     \* bound: the switches and posts
  MaxKills,     \* bound: the times the process is killed
  Absent, Torn, \* the file when there is none, and when it cannot be parsed
  NoPage        \* a page that has not read the configuration

Flags == {"yes", "no", "missing"}
Contents == [on : BOOLEAN, set : Flags, other : 0 .. MaxSaves]

ASSUME ConfigAssumption ==
  /\ {MaxObjects, MaxSaves, MaxKills} \subseteq Nat
  /\ Switches \cap Pages = {} /\ {"launcher", "free"} \cap (Switches \cup Pages) = {}
  /\ Absent # Torn /\ {Absent, Torn} \cap Contents = {}

Launcher == "launcher"
Savers == Switches \cup Pages \cup {Launcher}

VARIABLES
  disk,      \* the file
  heap,      \* the objects made
  current,   \* _current: 0 or an object
  lock,      \* _lock: "free" or the thread in _write
  saver,     \* of each thread: where it is, the object it holds
  page,      \* of each page: the configuration it read
  saves, kills,
  meant,     \* history: the user's last choice that was saved
  overlapped,\* history: two threads were at work at once
  lost,      \* history: a process died in the middle of _write
  stale      \* history: a page posted another interception than the current

cfgVars == <<disk, heap, current, lock, saver, page, saves, kills, meant,
             overlapped, lost, stale>>

Default == [on |-> FALSE, set |-> "no", other |-> 0]
AtRest == [at |-> "idle", object |-> 0]

Choice(value) == IF value.on THEN "on" ELSE "off"

CfgInit ==
  /\ disk \in {Absent} \cup [on : BOOLEAN, set : {"missing"}, other : {0}]
  /\ heap = <<>> /\ current = 0 /\ lock = "free"
  /\ saver = [s \in Savers |-> AtRest]
  /\ page = [p \in Pages |-> NoPage]
  /\ saves = 0 /\ kills = 0
  /\ meant = IF disk = Absent THEN "nobody" ELSE Choice(disk)
  /\ overlapped = FALSE /\ lost = FALSE /\ stale = FALSE

-----------------------------------------------------------------------------
At(s, place) == saver[s].at = place
Working == {s \in Savers : saver[s].at # "idle"}
Now == heap[current]

New(value) == Append(heap, value)

\* Mutant: the bound on objects is one too high.
HasObjectTooMany == Len(heap) <= MaxObjects

HasObject == Len(heap) < MaxObjects

\* Mutant: a file without the flag counts as never configured.
FromDictUnset(value) == [value EXCEPT !.set = IF @ = "missing" THEN "no" ELSE @]

\* Mutant: save() writes the object without making it the current one.
BeginApart(s, object) ==
  /\ current' = current
  /\ disk' = Torn
  /\ lock' = s

(***************************************************************************)
(* from_dict: a file without the flag was configured by its owner.         *)
(***************************************************************************)
FromDict(value) == [value EXCEPT !.set = IF @ = "missing" THEN "yes" ELSE @]

(***************************************************************************)
(* load(): a file that is absent or cannot be parsed gives the defaults,   *)
(* which are written.                                                      *)
(***************************************************************************)
Load ==
  /\ current = 0 /\ lock = "free" /\ HasObject
  /\ heap' = New(IF disk \in {Absent, Torn} THEN Default ELSE FromDict(disk))
  /\ current' = Len(heap')
  /\ IF disk \in {Absent, Torn}
       THEN /\ disk' = Torn /\ lock' = Launcher
            /\ saver' = [saver EXCEPT ![Launcher] = [at |-> "write", object |-> Len(heap')]]
       ELSE /\ saver' = [saver EXCEPT ![Launcher] = [at |-> "auto", object |-> Len(heap')]]
            /\ UNCHANGED <<disk, lock>>
  /\ UNCHANGED <<page, saves, kills, meant, overlapped, lost, stale>>

(***************************************************************************)
(* save(): the object becomes the current one and the file is truncated,   *)
(* then written with what the object holds by then.                        *)
(***************************************************************************)
Begin(s, object) ==
  /\ current' = object
  /\ disk' = Torn
  /\ lock' = s

Save(s) ==
  /\ At(s, "save") /\ lock = "free"
  /\ Begin(s, saver[s].object)
  /\ saver' = [saver EXCEPT ![s].at = "write"]
  /\ UNCHANGED <<heap, page, saves, kills, meant, overlapped, lost, stale>>

AfterWrite(s) == IF s = Launcher /\ heap[saver[s].object].set = "no" THEN "auto" ELSE "idle"

Write(s) ==
  /\ At(s, "write")
  /\ disk' = heap[saver[s].object]
  /\ lock' = "free"
  /\ saver' = [saver EXCEPT ![s].at = AfterWrite(s)]
  /\ meant' = IF s \in Switches THEN Choice(heap[saver[s].object]) ELSE meant
  /\ UNCHANGED <<heap, current, page, saves, kills, overlapped, lost, stale>>

-----------------------------------------------------------------------------
(***************************************************************************)
(* _auto_start_proxies: a configuration nobody has set gets interception   *)
(* on, once.                                                               *)
(***************************************************************************)
AutoStart ==
  LET object == saver[Launcher].object
  IN /\ At(Launcher, "auto")
     /\ IF heap[object].set = "no"
          THEN /\ heap' = [heap EXCEPT ![object].on = TRUE, ![object].set = "yes"]
               /\ saver' = [saver EXCEPT ![Launcher].at = "save"]
          ELSE /\ saver' = [saver EXCEPT ![Launcher].at = "idle"]
               /\ UNCHANGED heap
  /\ UNCHANGED <<disk, current, lock, page, saves, kills, meant, overlapped, lost, stale>>

(***************************************************************************)
(* A switch takes the current object before it starts or stops the proxy,  *)
(* which may take long, and then changes and saves it.                     *)
(***************************************************************************)
Begins == overlapped' = (overlapped \/ Working # {})

Switch(s) ==
  /\ At(s, "idle") /\ current # 0 /\ saves < MaxSaves
  /\ saver' = [saver EXCEPT ![s] = [at |-> "switch", object |-> current]]
  /\ saves' = saves + 1
  /\ Begins
  /\ UNCHANGED <<disk, heap, current, lock, page, kills, meant, lost, stale>>

Switched(s) ==
  /\ At(s, "switch")
  /\ \E on \in BOOLEAN :
       heap' = [heap EXCEPT ![saver[s].object].on = on, ![saver[s].object].set = "yes"]
  /\ saver' = [saver EXCEPT ![s].at = "save"]
  /\ UNCHANGED <<disk, current, lock, page, saves, kills, meant, overlapped, lost, stale>>

(***************************************************************************)
(* The page reads the configuration, and posts it with another field       *)
(* changed.  save_dict takes a difference in the posted interception for   *)
(* the user's intent, and sets the flag again from the post, which has it. *)
(***************************************************************************)
ReadPage(p) ==
  /\ current # 0 /\ page[p] = NoPage
  /\ page' = [page EXCEPT ![p] = Now]
  /\ UNCHANGED <<disk, heap, current, lock, saver, saves, kills, meant, overlapped,
                 lost, stale>>

Merge(posted) == FromDict(posted)

PostPage(p) ==
  /\ At(p, "idle") /\ page[p] # NoPage /\ current # 0 /\ saves < MaxSaves /\ HasObject
  /\ saves' = saves + 1
  /\ LET posted == [page[p] EXCEPT !.other = saves + 1]
     IN /\ page' = [page EXCEPT ![p] = posted]
        /\ heap' = New(Merge(posted))
        /\ stale' = (stale \/ posted.on # Now.on \/ posted.set # Now.set)
  /\ saver' = [saver EXCEPT ![p] = [at |-> "save", object |-> Len(heap')]]
  /\ Begins
  /\ UNCHANGED <<disk, current, lock, kills, meant, lost>>

(***************************************************************************)
(* The process is killed, or quits by os._exit: the file stays as it is,   *)
(* and so does what the pages in the browser hold.                         *)
(***************************************************************************)
Kill ==
  /\ current # 0 /\ kills < MaxKills
  /\ current' = 0 /\ lock' = "free"
  /\ saver' = [s \in Savers |-> AtRest]
  /\ kills' = kills + 1
  /\ lost' = (lost \/ disk = Torn)
  /\ UNCHANGED <<disk, heap, page, saves, meant, overlapped, stale>>

CfgNext ==
  \/ Load \/ AutoStart \/ Kill
  \/ \E s \in Savers : Save(s) \/ Write(s)
  \/ \E s \in Switches : Switch(s) \/ Switched(s)
  \/ \E p \in Pages : ReadPage(p) \/ PostPage(p)

CfgSpec == CfgInit /\ [][CfgNext]_cfgVars

-----------------------------------------------------------------------------
(***************************************************************************)
(* Type invariant of the store, its file and its callers.                  *)
(***************************************************************************)
CfgTypeOK ==
  /\ disk \in {Absent, Torn} \cup Contents
  /\ heap \in Seq(Contents) /\ Len(heap) <= MaxObjects
  /\ current \in 0 .. Len(heap)
  /\ lock \in {"free"} \cup Savers
  /\ saver \in [Savers -> [at : {"idle", "auto", "switch", "save", "write"},
                           object : 0 .. Len(heap)]]
  /\ page \in [Pages -> Contents \cup {NoPage}]
  /\ saves \in 0 .. MaxSaves /\ kills \in 0 .. MaxKills
  /\ meant \in {"nobody", "on", "off"}
  /\ overlapped \in BOOLEAN /\ lost \in BOOLEAN /\ stale \in BOOLEAN

Quiet == Working = {} /\ current # 0

(***************************************************************************)
(* When nobody is saving, what the next launch will load is what this one  *)
(* runs with, however the saves, the in-place changes and the kills fell   *)
(* (ConfigStore.save and _write).                                          *)
(***************************************************************************)
MemoryIsOnDisk ==
  Quiet => /\ disk \notin {Absent, Torn}
           /\ FromDict(disk) = Now

(***************************************************************************)
(* Interception is on or off as the user last chose, over launches and     *)
(* upgrades, and on where nobody chose (the promise of                     *)
(* _auto_start_proxies), unless two savers overlapped, a kill tore the     *)
(* file, or a page posted an outdated copy.                                *)
(***************************************************************************)
AsMeant == Now.on = (meant # "off")
ChoiceIsKept == Quiet /\ ~overlapped /\ ~lost /\ ~stale => AsMeant

(***************************************************************************)
(* Types; and whatever handlers save at once, memory agrees with the file, *)
(* and a choice that met no other save, no kill and no stale page is in    *)
(* both.                                                                   *)
(***************************************************************************)
ConfigIsSound == CfgTypeOK /\ MemoryIsOnDisk /\ ChoiceIsKept

=============================================================================
