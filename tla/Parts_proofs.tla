---------------------------- MODULE Parts_proofs ----------------------------
(***************************************************************************)
(* Proofs about components that share no state: the application's          *)
(* configuration file, the PAC setting of Windows, the life of a launch,   *)
(* the certificate authority, the setup wizard, the file of coined terms,  *)
(* the dashboard's workbench, and the tiers of the detectors with the      *)
(* probe of the local model, each for any number of threads, requests or   *)
(* processes and of what its bounds count.                                 *)
(***************************************************************************)
EXTENDS ConfigFile, SystemProxy, Launch, Certificates, SetupWizard, TermFile, Workbench, TagsProbe,
        SequenceTheorems, FiniteSetTheorems, TLAPS

-----------------------------------------------------------------------------
(***************************************************************************)
(* The configuration file (ConfigFile).                                    *)
(***************************************************************************)

(***************************************************************************)
(* The lock is held by the one that writes; it writes the current object,  *)
(* and whoever works holds an object.  Without a launch nobody works.      *)
(***************************************************************************)
Hand(s) == heap[saver[s].object]

WritersHoldTheLock ==
  /\ \A s \in Savers : /\ At(s, "write") <=> lock = s
                       /\ At(s, "write") => saver[s].object = current
                       /\ ~At(s, "idle") => saver[s].object # 0 /\ current # 0
                       /\ At(s, "switch") => s \in Switches
                       /\ At(s, "auto") => s = Launcher
  /\ \A i \in DOMAIN heap : heap[i].set # "missing"

(***************************************************************************)
(* Who changed an object is going to save it: when nobody is, memory and   *)
(* file agree.                                                             *)
(***************************************************************************)
SavedUnlessSaving ==
  current # 0 /\ lock = "free" /\ (\A s \in Savers : ~At(s, "save")) =>
    disk \in Contents /\ FromDict(disk) = Now

(***************************************************************************)
(* A configuration that agrees with the user's last choice, or that nobody *)
(* has chosen yet.                                                         *)
(***************************************************************************)
Agrees(value) == IF value.set = "no" THEN meant = "nobody" ELSE value.on = (meant # "off")
Settled(value) == Agrees(value) /\ value.set # "no"

Undisturbed == ~overlapped /\ ~lost /\ ~stale

ChoiceIsCarried ==
  Undisturbed =>
    /\ \A s, r \in Working : s = r
    /\ lock = "free" => disk # Torn
    /\ disk = Absent => meant = "nobody"
    /\ disk \notin {Absent, Torn} => Agrees(disk)
    /\ current # 0 /\ Working = {} => Settled(Now)
    /\ \A s \in Savers :
         /\ saver[s].at \in {"switch", "auto"} => saver[s].object = current
         /\ At(s, "switch") => Settled(Now)
         /\ At(s, "auto") => Agrees(Now)
         /\ s \notin Switches /\ At(s, "save") => Settled(Hand(s))
         /\ s \notin Switches /\ At(s, "write") => Agrees(Hand(s))
         /\ s \in Pages /\ At(s, "write") => Settled(Hand(s))
         /\ s \in Switches /\ saver[s].at \in {"save", "write"} => Hand(s).set = "yes"

CfgInv == CfgTypeOK /\ WritersHoldTheLock /\ SavedUnlessSaving /\ ChoiceIsCarried

LEMMA CfgInitInv == CfgInit => CfgInv
<1> SUFFICES ASSUME CfgInit PROVE CfgInv
  OBVIOUS
<1> USE ConfigAssumption DEF CfgInit
<1>1. /\ heap \in Seq(Contents) /\ Len(heap) = 0 /\ current = 0 /\ DOMAIN heap = {}
      /\ disk = Absent \/ disk \in Contents
      /\ disk \in Contents => disk.set = "missing"
      /\ lock = "free" /\ Working = {}
      /\ \A s \in Savers : At(s, "idle") /\ saver[s].at = "idle"
  BY DEF Contents, Flags, Working, At, AtRest
<1>2. CfgTypeOK
  <2>1. meant \in {"nobody", "on", "off"}
    BY DEF Choice
  <2>2. /\ saves \in 0 .. MaxSaves /\ kills \in 0 .. MaxKills
        /\ saver \in [Savers -> [at : {"idle", "auto", "switch", "save", "write"}, object : {0}]]
        /\ page \in [Pages -> Contents \cup {NoPage}]
    BY DEF AtRest
  <2>3. overlapped \in BOOLEAN /\ lost \in BOOLEAN /\ stale \in BOOLEAN
    OBVIOUS
  <2> QED BY <1>1, <2>1, <2>2, <2>3 DEF CfgTypeOK
<1>3. WritersHoldTheLock /\ SavedUnlessSaving
  BY <1>1 DEF WritersHoldTheLock, SavedUnlessSaving, At, Savers, Launcher
<1>4. ChoiceIsCarried
  BY <1>1 DEF ChoiceIsCarried, Agrees, Settled, At, Choice
<1> QED BY <1>2, <1>3, <1>4 DEF CfgInv

(***************************************************************************)
(* The heap when an object is made, and when one is switched in place.     *)
(***************************************************************************)
LEMMA HeapGrows ==
  ASSUME CfgTypeOK, NEW v \in Contents, v.set # "missing", HasObject, heap' = New(v),
         \A i \in DOMAIN heap : heap[i].set # "missing"
  PROVE  /\ heap' \in Seq(Contents) /\ Len(heap') = Len(heap) + 1 /\ Len(heap') <= MaxObjects
         /\ Len(heap) \in Nat /\ DOMAIN heap = 1 .. Len(heap) /\ DOMAIN heap' = 1 .. Len(heap')
         /\ \A i \in DOMAIN heap : heap'[i] = heap[i]
         /\ heap'[Len(heap')] = v
         /\ \A i \in DOMAIN heap' : heap'[i].set # "missing"
BY ConfigAssumption DEF CfgTypeOK, HasObject, New

LEMMA HeapIsSwitched ==
  ASSUME CfgTypeOK, NEW i \in DOMAIN heap, NEW b \in BOOLEAN,
         heap' = [heap EXCEPT ![i].on = b, ![i].set = "yes"],
         \A j \in DOMAIN heap : heap[j].set # "missing"
  PROVE  /\ heap' \in Seq(Contents) /\ Len(heap') = Len(heap) /\ DOMAIN heap' = DOMAIN heap
         /\ \A j \in DOMAIN heap \ {i} : heap'[j] = heap[j]
         /\ heap'[i].on = b /\ heap'[i].set = "yes"
         /\ \A j \in DOMAIN heap' : heap'[j].set # "missing"
<1> DEFINE v == [heap[i] EXCEPT !.on = b, !.set = "yes"]
<1>1. heap[i] \in Contents
  BY DEF CfgTypeOK
<1>2. v \in Contents /\ v.on = b /\ v.set = "yes"
  BY <1>1 DEF Contents, Flags
<1>3. heap' = [heap EXCEPT ![i] = v]
  BY <1>1 DEF CfgTypeOK, Contents
<1>4. heap \in Seq(Contents) /\ i \in 1 .. Len(heap) /\ DOMAIN heap = 1 .. Len(heap)
  BY DEF CfgTypeOK
<1>5. PICK e \in Contents : heap' = [heap EXCEPT ![i] = e] /\ e.on = b /\ e.set = "yes"
  BY <1>2, <1>3
<1>6. /\ [heap EXCEPT ![i] = e] \in Seq(Contents)
      /\ Len([heap EXCEPT ![i] = e]) = Len(heap)
      /\ \A j \in 1 .. Len(heap) : [heap EXCEPT ![i] = e][j] = IF j = i THEN e ELSE heap[j]
  BY <1>4, ExceptSeq
<1>7. heap' \in Seq(Contents) /\ Len(heap') = Len(heap)
  BY <1>5, <1>6, Zenon
<1>8. DOMAIN heap' = DOMAIN heap
  BY <1>4, <1>7
<1> QED BY <1>4, <1>5, <1>7, <1>8

LEMMA FromDictIsContents ==
  ASSUME NEW v \in Contents
  PROVE  /\ FromDict(v) \in Contents /\ FromDict(v).set # "missing"
         /\ FromDict(v).on = v.on /\ FromDict(v).other = v.other
         /\ v.set # "missing" => FromDict(v) = v
         /\ FromDict(v).set = "no" <=> v.set = "no"
BY DEF FromDict, Contents, Flags

(***************************************************************************)
(* A launch loads the configuration: nobody is at work.                    *)
(***************************************************************************)
LEMMA LoadKeeps == CfgInv /\ Load => CfgInv'
<1> SUFFICES ASSUME CfgInv, Load PROVE CfgInv'
  OBVIOUS
<1> USE ConfigAssumption DEF CfgInv
<1> DEFINE v == IF disk \in {Absent, Torn} THEN Default ELSE FromDict(disk)
<1>1. v \in Contents /\ v.set # "missing" /\ heap' = New(v)
  <2>1. Default \in Contents /\ Default.set # "missing"
    BY DEF Default, Contents, Flags
  <2>2. disk \notin {Absent, Torn} => disk \in Contents
    BY DEF CfgTypeOK
  <2> QED BY <2>1, <2>2, FromDictIsContents DEF Load
<1>2. /\ heap' \in Seq(Contents) /\ Len(heap') = Len(heap) + 1 /\ Len(heap') <= MaxObjects
      /\ Len(heap) \in Nat /\ DOMAIN heap' = 1 .. Len(heap')
      /\ heap'[Len(heap')] = v
      /\ \A i \in DOMAIN heap' : heap'[i].set # "missing"
  BY <1>1, HeapGrows DEF Load, WritersHoldTheLock
<1>3. \A s \in Savers : saver[s].at = "idle" /\ saver[s].object \in 0 .. Len(heap)
  BY DEF Load, WritersHoldTheLock, CfgTypeOK, At
<1>4. /\ Launcher \in Savers /\ Launcher \notin Switches \cup Pages /\ Launcher # "free"
      /\ current' = Len(heap') /\ current' # 0
  BY <1>2 DEF Load, Savers, Launcher
<1> HIDE DEF v
<1>5. CASE disk \in {Absent, Torn}
  <2>1. /\ v = Default /\ disk' = Torn /\ lock' = Launcher
        /\ saver' = [saver EXCEPT ![Launcher] = [at |-> "write", object |-> Len(heap')]]
    BY <1>5 DEF Load, v
  <2>2. CfgTypeOK'
    BY <1>2, <1>3, <1>4, <2>1 DEF CfgTypeOK, Load
  <2>3. WritersHoldTheLock' /\ SavedUnlessSaving'
    BY <1>2, <1>3, <1>4, <2>1 DEF WritersHoldTheLock, SavedUnlessSaving, At, CfgTypeOK
  <2>4. Undisturbed => meant = "nobody"
    BY <1>5 DEF ChoiceIsCarried, Load
  <2>5. Working' = {Launcher}
    BY <1>3, <1>4, <2>1 DEF Working, CfgTypeOK
  <2>6. ChoiceIsCarried'
    BY <1>2, <1>3, <1>4, <2>1, <2>4, <2>5
       DEF ChoiceIsCarried, Undisturbed, Load, Agrees, Settled, Default, At, Hand, CfgTypeOK
  <2> QED BY <2>2, <2>3, <2>6
<1>6. CASE disk \notin {Absent, Torn}
  <2>1. /\ v = FromDict(disk) /\ disk' = disk /\ lock' = lock /\ lock = "free" /\ disk \in Contents
        /\ saver' = [saver EXCEPT ![Launcher] = [at |-> "auto", object |-> Len(heap')]]
    BY <1>6 DEF Load, v, CfgTypeOK
  <2>2. CfgTypeOK'
    BY <1>2, <1>3, <1>4, <2>1 DEF CfgTypeOK, Load
  <2>3. WritersHoldTheLock'
    BY <1>2, <1>3, <1>4, <2>1 DEF WritersHoldTheLock, At, CfgTypeOK
  <2>4. SavedUnlessSaving'
    BY <1>2, <1>3, <1>4, <2>1 DEF SavedUnlessSaving, Now
  <2>5. Working' = {Launcher}
    BY <1>3, <1>4, <2>1 DEF Working, CfgTypeOK
  <2>6. Undisturbed => Agrees(v)
    BY <2>1, FromDictIsContents DEF ChoiceIsCarried, Agrees
  <2>7. ChoiceIsCarried'
    BY <1>2, <1>3, <1>4, <1>6, <2>1, <2>5, <2>6
       DEF ChoiceIsCarried, Undisturbed, Load, Agrees, Settled, At, Hand, CfgTypeOK, Now
  <2> QED BY <2>2, <2>3, <2>4, <2>7
<1> QED BY <1>5, <1>6

(***************************************************************************)
(* A save begins, and ends.                                                *)
(***************************************************************************)
LEMMA SaveKeeps ==
  ASSUME CfgInv, NEW s \in Savers, Save(s)
  PROVE  CfgInv'
<1> USE ConfigAssumption DEF CfgInv
<1>1. /\ At(s, "save") /\ lock = "free" /\ s # "free" /\ saver[s].object \in 1 .. Len(heap)
      /\ current' = saver[s].object /\ disk' = Torn /\ lock' = s
      /\ saver' = [saver EXCEPT ![s].at = "write"]
      /\ UNCHANGED <<heap, page, saves, kills, meant, overlapped, lost, stale>>
  BY DEF Save, Begin, CfgTypeOK, WritersHoldTheLock, At, Savers, Launcher
<1>2. /\ saver'[s].at = "write" /\ saver'[s].object = saver[s].object
      /\ \A r \in Savers \ {s} : saver'[r] = saver[r]
      /\ \A r \in Savers : saver'[r].object = saver[r].object
  BY <1>1 DEF CfgTypeOK
<1>3. CfgTypeOK'
  BY <1>1 DEF CfgTypeOK
<1>4. WritersHoldTheLock'
  <2>1. \A r \in Savers : saver[r].at # "write"
    BY <1>1 DEF WritersHoldTheLock, At, Savers, Launcher
  <2> QED BY <1>1, <1>2, <2>1 DEF WritersHoldTheLock, At
<1>7. SavedUnlessSaving'
  BY <1>1 DEF SavedUnlessSaving
<1>5. Working' = Working
  BY <1>1, <1>2 DEF Working, At
<1>6. ChoiceIsCarried'
  BY <1>1, <1>2, <1>5
     DEF ChoiceIsCarried, Undisturbed, Agrees, Settled, At, Hand, Now, Working, Savers
<1> QED BY <1>3, <1>4, <1>6, <1>7

LEMMA WriteKeeps ==
  ASSUME CfgInv, NEW s \in Savers, Write(s)
  PROVE  CfgInv'
<1> USE ConfigAssumption DEF CfgInv
<1> DEFINE after == AfterWrite(s)
<1>1. /\ At(s, "write") /\ lock = s /\ saver[s].object = current
      /\ current \in 1 .. Len(heap) /\ Now \in Contents /\ Now.set # "missing"
      /\ disk' = Now /\ lock' = "free"
      /\ saver' = [saver EXCEPT ![s].at = after]
      /\ meant' = IF s \in Switches THEN Choice(Now) ELSE meant
      /\ UNCHANGED <<heap, current, page, saves, kills, overlapped, lost, stale>>
  BY DEF Write, CfgTypeOK, WritersHoldTheLock, At, Now
<1>2. /\ after = IF s = Launcher /\ Now.set = "no" THEN "auto" ELSE "idle"
      /\ after \in {"auto", "idle"}
  BY <1>1 DEF AfterWrite, Now
<1> HIDE DEF after
<1>3. /\ saver'[s].at = after /\ saver'[s].object = current
      /\ \A r \in Savers \ {s} : saver'[r] = saver[r]
      /\ \A r \in Savers : saver'[r].object = saver[r].object
  BY <1>1 DEF CfgTypeOK
<1>4. CfgTypeOK'
  BY <1>1, <1>2 DEF CfgTypeOK, Choice
<1>5. WritersHoldTheLock'
  BY <1>1, <1>2, <1>3 DEF WritersHoldTheLock, At, Savers, Launcher
<1>6. SavedUnlessSaving'
  BY <1>1, FromDictIsContents DEF SavedUnlessSaving, Now
<1>7. /\ Working' \subseteq Working
      /\ Working = {s} => Working' = IF after = "idle" THEN {} ELSE {s}
  BY <1>1, <1>2, <1>3 DEF Working, At
<1>8. ASSUME Undisturbed PROVE Working = {s} /\ Agrees(Now)' /\ (after = "idle" => Settled(Now)')
  <2>1. Working = {s}
    BY <1>1, <1>8 DEF ChoiceIsCarried, Working, At
  <2>2. CASE s \in Switches
    <3>1. Now.set = "yes" /\ meant' = Choice(Now)
      BY <1>1, <1>8, <2>2 DEF ChoiceIsCarried, Hand, Now, At
    <3> QED BY <1>1, <2>1, <3>1 DEF Agrees, Settled, Now, Choice, Contents
  <2>3. CASE s \in Pages
    BY <1>1, <1>8, <2>1, <2>3 DEF ChoiceIsCarried, Hand, Now, Agrees, Settled
  <2>4. CASE s = Launcher
    BY <1>1, <1>2, <1>8, <2>1, <2>4 DEF ChoiceIsCarried, Hand, Now, Agrees, Settled, Launcher
  <2> QED BY <2>2, <2>3, <2>4 DEF Savers
<1>9. ChoiceIsCarried'
  <2> SUFFICES ASSUME Undisturbed' PROVE ChoiceIsCarried'
    BY DEF ChoiceIsCarried
  <2>1. Undisturbed
    BY <1>1 DEF Undisturbed
  <2>2. \A r \in Savers \ {s} : saver'[r].at = "idle"
    BY <1>3, <1>8, <2>1 DEF Working
  <2>3. Now' = Now /\ (Agrees(Now)' <=> Agrees(disk)')
    BY <1>1 DEF Now, Agrees
  <2> QED BY <1>1, <1>2, <1>3, <1>7, <1>8, <2>1, <2>2, <2>3 DEF ChoiceIsCarried, At
<1> QED BY <1>4, <1>5, <1>6, <1>9

(***************************************************************************)
(* The start-up thread switches interception on where nobody chose.        *)
(***************************************************************************)
LEMMA AutoStartKeeps == CfgInv /\ AutoStart => CfgInv'
<1> SUFFICES ASSUME CfgInv, AutoStart PROVE CfgInv'
  OBVIOUS
<1> USE ConfigAssumption DEF CfgInv
<1> DEFINE o == saver[Launcher].object
<1>1. /\ Launcher \in Savers /\ Launcher \notin Switches \cup Pages /\ At(Launcher, "auto")
      /\ o \in DOMAIN heap /\ DOMAIN heap = 1 .. Len(heap)
      /\ UNCHANGED <<disk, current, lock, page, saves, kills, meant, overlapped, lost, stale>>
  BY DEF AutoStart, CfgTypeOK, WritersHoldTheLock, At, Savers, Launcher
<1>2. CASE heap[o].set = "no"
  <2>1. /\ heap' = [heap EXCEPT ![o].on = TRUE, ![o].set = "yes"]
        /\ saver' = [saver EXCEPT ![Launcher].at = "save"]
    BY <1>2 DEF AutoStart
  <2>2. /\ heap' \in Seq(Contents) /\ Len(heap') = Len(heap) /\ DOMAIN heap' = DOMAIN heap
        /\ \A j \in DOMAIN heap \ {o} : heap'[j] = heap[j]
        /\ heap'[o].on = TRUE /\ heap'[o].set = "yes"
        /\ \A j \in DOMAIN heap' : heap'[j].set # "missing"
    BY <1>1, <2>1, HeapIsSwitched DEF WritersHoldTheLock
  <2>3. /\ saver'[Launcher].at = "save" /\ saver'[Launcher].object = o
        /\ \A r \in Savers \ {Launcher} : saver'[r] = saver[r]
        /\ \A r \in Savers : saver'[r].object = saver[r].object
    BY <1>1, <2>1 DEF CfgTypeOK
  <2>4. CfgTypeOK'
    BY <1>1, <2>1, <2>2 DEF CfgTypeOK
  <2>5. WritersHoldTheLock' /\ SavedUnlessSaving'
    BY <1>1, <2>2, <2>3 DEF WritersHoldTheLock, SavedUnlessSaving, At
  <2>6. Working' = Working
    BY <1>1, <2>3 DEF Working, At
  <2>7. ASSUME Undisturbed PROVE Working = {Launcher} /\ meant = "nobody" /\ o = current
    BY <1>1, <1>2, <2>7 DEF ChoiceIsCarried, Working, At, Agrees, Now
  <2>8. ChoiceIsCarried'
    <3> SUFFICES ASSUME Undisturbed' PROVE ChoiceIsCarried'
      BY DEF ChoiceIsCarried
    <3>1. Undisturbed
      BY <1>1 DEF Undisturbed
    <3>2. \A r \in Savers \ {Launcher} : saver'[r].at = "idle"
      BY <2>3, <2>7, <3>1 DEF Working
    <3> QED BY <1>1, <2>2, <2>3, <2>6, <2>7, <3>1, <3>2
            DEF ChoiceIsCarried, At, Agrees, Settled, Hand
  <2> QED BY <2>4, <2>5, <2>8
<1>3. CASE heap[o].set # "no"
  <2>1. saver' = [saver EXCEPT ![Launcher].at = "idle"] /\ heap' = heap
    BY <1>3 DEF AutoStart
  <2>2. /\ saver'[Launcher].at = "idle" /\ saver'[Launcher].object = o
        /\ \A r \in Savers \ {Launcher} : saver'[r] = saver[r]
    BY <1>1, <2>1 DEF CfgTypeOK
  <2>3. CfgTypeOK'
    BY <1>1, <2>1 DEF CfgTypeOK
  <2>4. WritersHoldTheLock' /\ SavedUnlessSaving'
    BY <1>1, <2>1, <2>2 DEF WritersHoldTheLock, SavedUnlessSaving, At, Now
  <2>5. Undisturbed => Working = {Launcher} /\ o = current
    BY <1>1 DEF ChoiceIsCarried, Working, At
  <2>6. ChoiceIsCarried'
    BY <1>1, <1>3, <2>1, <2>2, <2>5
       DEF ChoiceIsCarried, Undisturbed, Working, At, Agrees, Settled, Now
  <2> QED BY <2>3, <2>4, <2>6
<1> QED BY <1>2, <1>3

(***************************************************************************)
(* A switch takes the current object, and changes it in place later.       *)
(***************************************************************************)
LEMMA SwitchKeeps ==
  ASSUME CfgInv, NEW s \in Switches, Switch(s)
  PROVE  CfgInv'
<1> USE ConfigAssumption DEF CfgInv
<1>1. /\ s \in Savers /\ At(s, "idle") /\ current \in 1 .. Len(heap) /\ s \notin Pages \cup {Launcher}
      /\ saves < MaxSaves /\ saves' = saves + 1
      /\ saver' = [saver EXCEPT ![s] = [at |-> "switch", object |-> current]]
      /\ UNCHANGED <<disk, heap, current, lock, page, kills, meant, lost, stale>>
  BY DEF Switch, Savers, CfgTypeOK, Launcher
<1>2. /\ saver'[s].at = "switch" /\ saver'[s].object = current
      /\ \A r \in Savers \ {s} : saver'[r] = saver[r]
  BY <1>1 DEF CfgTypeOK
<1>3. overlapped' = (overlapped \/ Working # {})
  BY DEF Switch, Begins
<1>4. overlapped' \in BOOLEAN /\ (~overlapped' => ~overlapped /\ Working = {})
  BY <1>3, Zenon
<1>5. CfgTypeOK'
  BY <1>1, <1>4 DEF CfgTypeOK
<1>6. WritersHoldTheLock' /\ SavedUnlessSaving'
  BY <1>1, <1>2 DEF WritersHoldTheLock, SavedUnlessSaving, At, Now
<1>7. ChoiceIsCarried'
  <2> SUFFICES ASSUME Undisturbed' PROVE ChoiceIsCarried'
    BY DEF ChoiceIsCarried
  <2>1. Undisturbed /\ Working = {} /\ Working' = {s}
    BY <1>1, <1>2, <1>4 DEF Undisturbed, Working
  <2>2. \A r \in Savers \ {s} : saver'[r].at = "idle"
    BY <1>2, <2>1 DEF Working
  <2> QED BY <1>1, <1>2, <2>1, <2>2 DEF ChoiceIsCarried, At, Agrees, Settled, Now
<1> QED BY <1>5, <1>6, <1>7

LEMMA SwitchedKeeps ==
  ASSUME CfgInv, NEW s \in Switches, Switched(s)
  PROVE  CfgInv'
<1> USE ConfigAssumption DEF CfgInv
<1> DEFINE o == saver[s].object
<1>1. /\ s \in Savers /\ At(s, "switch") /\ o \in DOMAIN heap /\ DOMAIN heap = 1 .. Len(heap)
      /\ saver' = [saver EXCEPT ![s].at = "save"] /\ s \notin Pages \cup {Launcher}
      /\ UNCHANGED <<disk, current, lock, page, saves, kills, meant, overlapped, lost, stale>>
  BY DEF Switched, CfgTypeOK, WritersHoldTheLock, At, Savers, Launcher
<1>2. PICK on \in BOOLEAN : heap' = [heap EXCEPT ![o].on = on, ![o].set = "yes"]
  BY DEF Switched
<1>3. /\ heap' \in Seq(Contents) /\ Len(heap') = Len(heap) /\ DOMAIN heap' = DOMAIN heap
      /\ heap'[o].set = "yes"
      /\ \A j \in DOMAIN heap' : heap'[j].set # "missing"
  BY <1>1, <1>2, HeapIsSwitched DEF WritersHoldTheLock
<1>4. /\ saver'[s].at = "save" /\ saver'[s].object = o
      /\ \A r \in Savers \ {s} : saver'[r] = saver[r]
      /\ \A r \in Savers : saver'[r].object = saver[r].object
  BY <1>1 DEF CfgTypeOK
<1>5. CfgTypeOK'
  BY <1>1, <1>3 DEF CfgTypeOK
<1>6. WritersHoldTheLock' /\ SavedUnlessSaving'
  BY <1>1, <1>3, <1>4 DEF WritersHoldTheLock, SavedUnlessSaving, At
<1>7. Working' = Working
  BY <1>1, <1>4 DEF Working, At
<1>8. ChoiceIsCarried'
  <2> SUFFICES ASSUME Undisturbed' PROVE ChoiceIsCarried'
    BY DEF ChoiceIsCarried
  <2>1. Undisturbed /\ Working = {s}
    BY <1>1 DEF Undisturbed, ChoiceIsCarried, Working, At
  <2>2. \A r \in Savers \ {s} : saver'[r].at = "idle"
    BY <1>4, <2>1 DEF Working
  <2> QED BY <1>1, <1>3, <1>4, <1>7, <2>1, <2>2 DEF ChoiceIsCarried, At, Agrees, Hand
<1> QED BY <1>5, <1>6, <1>8

(***************************************************************************)
(* A page reads the configuration, and posts it.                           *)
(***************************************************************************)
LEMMA ReadPageKeeps ==
  ASSUME CfgInv, NEW p \in Pages, ReadPage(p)
  PROVE  CfgInv'
<1> USE ConfigAssumption DEF CfgInv
<1>1. /\ Now \in Contents /\ page' = [page EXCEPT ![p] = Now]
      /\ UNCHANGED <<disk, heap, current, lock, saver, saves, kills, meant, overlapped, lost, stale>>
  BY DEF ReadPage, CfgTypeOK, Now
<1>2. CfgTypeOK'
  BY <1>1 DEF CfgTypeOK
<1>3. WritersHoldTheLock' /\ SavedUnlessSaving' /\ ChoiceIsCarried'
  BY <1>1 DEF WritersHoldTheLock, SavedUnlessSaving, ChoiceIsCarried, Undisturbed, Working, At,
     Agrees, Settled, Hand, Now
<1> QED BY <1>2, <1>3

LEMMA PostPageKeeps ==
  ASSUME CfgInv, NEW p \in Pages, PostPage(p)
  PROVE  CfgInv'
<1> USE ConfigAssumption DEF CfgInv
<1> DEFINE posted == [page[p] EXCEPT !.other = saves + 1]
           v == Merge(posted)
<1>1. /\ p \in Savers /\ At(p, "idle") /\ current \in 1 .. Len(heap) /\ p \notin Switches \cup {Launcher}
      /\ saves < MaxSaves /\ saves' = saves + 1 /\ page[p] # NoPage /\ HasObject
      /\ page' = [page EXCEPT ![p] = posted] /\ heap' = New(v)
      /\ saver' = [saver EXCEPT ![p] = [at |-> "save", object |-> Len(heap')]]
      /\ UNCHANGED <<disk, current, lock, kills, meant, lost>>
  BY DEF PostPage, Savers, CfgTypeOK, Launcher
<1>2. posted \in Contents /\ page[p] \in Contents
  <2>1. page[p] \in Contents /\ saves + 1 \in 0 .. MaxSaves
    BY <1>1 DEF CfgTypeOK
  <2> QED BY <2>1 DEF Contents
<1>3. /\ v \in Contents /\ v.set # "missing" /\ v.on = posted.on
      /\ v.set = "no" <=> posted.set = "no"
  BY <1>2, FromDictIsContents DEF Merge
<1>4. /\ overlapped' = (overlapped \/ Working # {})
      /\ stale' = (stale \/ posted.on # Now.on \/ posted.set # Now.set)
  BY DEF PostPage, Begins
<1> HIDE DEF posted, v
<1>5. /\ overlapped' \in BOOLEAN /\ (~overlapped' => ~overlapped /\ Working = {})
      /\ stale' \in BOOLEAN /\ (~stale' => ~stale /\ posted.on = Now.on /\ posted.set = Now.set)
  BY <1>4, Zenon
<1>6. /\ heap' \in Seq(Contents) /\ Len(heap') = Len(heap) + 1 /\ Len(heap') <= MaxObjects
      /\ Len(heap) \in Nat /\ DOMAIN heap = 1 .. Len(heap)
      /\ DOMAIN heap' = 1 .. Len(heap') /\ \A i \in DOMAIN heap : heap'[i] = heap[i]
      /\ heap'[Len(heap')] = v
      /\ \A i \in DOMAIN heap' : heap'[i].set # "missing"
  BY <1>1, <1>3, HeapGrows DEF WritersHoldTheLock
<1>7. /\ saver'[p].at = "save" /\ saver'[p].object = Len(heap')
      /\ \A r \in Savers \ {p} : saver'[r] = saver[r]
  BY <1>1 DEF CfgTypeOK
<1>8. CfgTypeOK'
  <2>1. /\ saver' \in [Savers -> [at : {"idle", "auto", "switch", "save", "write"},
                                object : 0 .. Len(heap')]]
        /\ page' \in [Pages -> Contents \cup {NoPage}] /\ current' \in 0 .. Len(heap')
    BY <1>1, <1>2, <1>6 DEF CfgTypeOK
  <2> QED BY <1>1, <1>5, <1>6, <2>1 DEF CfgTypeOK
<1>9. WritersHoldTheLock' /\ SavedUnlessSaving'
  BY <1>1, <1>6, <1>7 DEF WritersHoldTheLock, SavedUnlessSaving, At
<1>10. ChoiceIsCarried'
  <2> SUFFICES ASSUME Undisturbed' PROVE ChoiceIsCarried'
    BY DEF ChoiceIsCarried
  <2>1. Undisturbed /\ Working = {}
    BY <1>1, <1>5 DEF Undisturbed
  <2>2. Working' = {p} /\ \A r \in Savers \ {p} : saver'[r].at = "idle"
    BY <1>1, <1>7, <2>1 DEF Working
  <2>3. Settled(v) /\ Agrees(v)
    BY <1>1, <1>3, <1>5, <2>1 DEF ChoiceIsCarried, Undisturbed, Settled, Agrees
  <2> QED BY <1>1, <1>6, <1>7, <2>1, <2>2, <2>3 DEF ChoiceIsCarried, At, Agrees, Settled, Hand
<1> QED BY <1>8, <1>9, <1>10

(***************************************************************************)
(* A kill leaves the file as it is.                                        *)
(***************************************************************************)
LEMMA KillKeeps == CfgInv /\ Kill => CfgInv'
<1> SUFFICES ASSUME CfgInv, Kill PROVE CfgInv'
  OBVIOUS
<1> USE ConfigAssumption DEF CfgInv
<1>1. /\ current' = 0 /\ lock' = "free" /\ saver' = [s \in Savers |-> AtRest]
      /\ kills < MaxKills /\ kills' = kills + 1
      /\ UNCHANGED <<disk, heap, page, saves, meant, overlapped, stale>>
  BY DEF Kill
<1>2. lost' = (lost \/ disk = Torn)
  BY DEF Kill
<1>3. lost' \in BOOLEAN /\ (~lost' => ~lost /\ disk # Torn)
  BY <1>2, Zenon
<1>4. /\ \A s \in Savers : saver'[s].at = "idle"
      /\ saver' \in [Savers -> [at : {"idle", "auto", "switch", "save", "write"}, object : 0 .. 0]]
  BY <1>1 DEF AtRest
<1>5. CfgTypeOK'
  BY <1>1, <1>3, <1>4 DEF CfgTypeOK
<1>6. WritersHoldTheLock' /\ SavedUnlessSaving'
  BY <1>1, <1>4 DEF WritersHoldTheLock, SavedUnlessSaving, At, Savers, Launcher
<1>7. ChoiceIsCarried'
  BY <1>1, <1>3, <1>4 DEF ChoiceIsCarried, Undisturbed, Working, At, Agrees
<1> QED BY <1>5, <1>6, <1>7

LEMMA CfgStepInv == CfgInv /\ [CfgNext]_cfgVars => CfgInv'
<1> SUFFICES ASSUME CfgInv, [CfgNext]_cfgVars PROVE CfgInv'
  OBVIOUS
<1>1. CASE UNCHANGED cfgVars
  BY <1>1 DEF cfgVars, CfgInv, CfgTypeOK, WritersHoldTheLock, SavedUnlessSaving, ChoiceIsCarried,
     Undisturbed, Working, At, Agrees, Settled, Hand, Now
<1> QED BY <1>1, LoadKeeps, SaveKeeps, WriteKeeps, AutoStartKeeps, SwitchKeeps, SwitchedKeeps,
           ReadPageKeeps, PostPageKeeps, KillKeeps DEF CfgNext

(***************************************************************************)
(* For any threads, pages and kills: when nobody saves, the file is what   *)
(* the launch runs with, and an undisturbed choice of the user is in both  *)
(* (ConfigStore, _auto_start_proxies, save_dict).                          *)
(***************************************************************************)
THEOREM ConfigSound == CfgSpec => []ConfigIsSound
<1>1. CfgInv => ConfigIsSound
  <2> SUFFICES ASSUME CfgInv PROVE ConfigIsSound
    OBVIOUS
  <2>1. Quiet => lock = "free" /\ \A s \in Savers : ~At(s, "save")
    BY DEF CfgInv, CfgTypeOK, Quiet, Working, At, WritersHoldTheLock
  <2>2. MemoryIsOnDisk
    BY <2>1, ConfigAssumption DEF CfgInv, SavedUnlessSaving, MemoryIsOnDisk, Quiet
  <2>3. ChoiceIsKept
    BY DEF CfgInv, CfgTypeOK, WritersHoldTheLock, ChoiceIsCarried, ChoiceIsKept, Undisturbed,
       Quiet, AsMeant, Settled, Agrees
  <2> QED BY <2>2, <2>3 DEF CfgInv, ConfigIsSound
<1> QED BY CfgInitInv, CfgStepInv, <1>1, PTL DEF CfgSpec

-----------------------------------------------------------------------------
(***************************************************************************)
(* The PAC setting of Windows (SystemProxy), for any PACs and any number   *)
(* of calls, deaths and changes by the user.                               *)
(***************************************************************************)

(***************************************************************************)
(* The copy is made from settings that are not ours, and ours are only     *)
(* written once there is a file: without one, the settings are not ours.   *)
(***************************************************************************)
OursNeedsACopy ==
  /\ call = "open copy" => backup = NoCopy
  /\ call = "write copy" => backup = HalfCopy
  /\ call \in {"write copy", "remove copy"} => registry.url # Ours
  /\ call \in {"set url", "set enabled", "clear"} => backup # NoCopy
  /\ backup = NoCopy => registry.url # Ours
  /\ CopyIsReadable(backup) => backup.of.url # Ours

(***************************************************************************)
(* Where the user's own settings are, at every step of a call.             *)
(***************************************************************************)
OwnIsSomewhere ==
  disowned = {} =>
    \/ backup = NoCopy /\ registry = own /\ call \in {"none", "open copy"}
    \/ backup = HalfCopy /\ registry = own /\ call = "write copy"
    \/ backup = Copy(own) /\ (call = "remove copy" => registry = own)

TallyOK ==
  tally \in [enables : 0 .. MaxEnables, disables : 0 .. MaxDisables,
             deaths : 0 .. MaxDeaths, changes : 0 .. MaxUserChanges]

SysInv == SysTypeOK /\ TallyOK /\ OursNeedsACopy /\ OwnIsSomewhere

LEMMA KindsDiffer ==
  /\ NoCopy # HalfCopy
  /\ \A s : Copy(s) # NoCopy /\ Copy(s) # HalfCopy /\ CopyIsReadable(Copy(s)) /\ Copy(s).of = s
  /\ ~CopyIsReadable(NoCopy) /\ ~CopyIsReadable(HalfCopy)
BY DEF NoCopy, HalfCopy, Copy, CopyIsReadable

(***************************************************************************)
(* What a bounded counter does to the tallies.                             *)
(***************************************************************************)
LEMMA CountedKeepsTally ==
  ASSUME TallyOK,
         \/ Counted("enables", MaxEnables) \/ Counted("disables", MaxDisables)
         \/ Counted("changes", MaxUserChanges) \/ Counted("deaths", MaxDeaths)
  PROVE  TallyOK'
BY SystemProxyAssumption DEF TallyOK, Counted

LEMMA SysInitInv == SysInit => SysInv
<1> SUFFICES ASSUME SysInit PROVE SysInv
  OBVIOUS
<1> USE SystemProxyAssumption DEF SysInit
<1>1. TallyOK
  BY DEF TallyOK
<1>2. registry \in Settings /\ registry.url # Ours
  BY DEF Settings, Ours, None
<1>3. SysTypeOK
  BY <1>1, <1>2 DEF SysTypeOK, TallyOK
<1>4. OursNeedsACopy
  BY <1>2, KindsDiffer DEF OursNeedsACopy
<1>5. OwnIsSomewhere
  BY DEF OwnIsSomewhere
<1> QED BY <1>1, <1>3, <1>4, <1>5 DEF SysInv

(***************************************************************************)
(* Every step of a call, every kill and every change by the user keeps     *)
(* the invariant.                                                          *)
(***************************************************************************)
LEMMA SysStepInv == SysInv /\ [SysNext]_proxyVars => SysInv'
<1> SUFFICES ASSUME SysInv, [SysNext]_proxyVars PROVE SysInv'
  OBVIOUS
<1> USE SystemProxyAssumption DEF SysInv
<1> DEFINE Typed == /\ registry \in Settings /\ own \in Settings /\ own.url # Ours
                    /\ backup \in {NoCopy, HalfCopy} \cup {Copy(s) : s \in Settings}
                    /\ call \in {"none", "open copy", "write copy", "set url", "set enabled",
                                 "clear", "restore", "remove copy"}
                    /\ disowned \subseteq {"cut", "unasked", "changed"}
<1>t. Typed
  BY DEF SysTypeOK
<1>s. ASSUME Typed', TallyOK' PROVE SysTypeOK'
  BY <1>s DEF SysTypeOK, TallyOK
<1>c. CASE UNCHANGED proxyVars
  BY <1>c DEF proxyVars, SysTypeOK, TallyOK, OursNeedsACopy, OwnIsSomewhere
<1>1. CASE Enable
  <2>1. TallyOK'
    BY <1>1, CountedKeepsTally DEF Enable
  <2>2. Typed' /\ OursNeedsACopy' /\ OwnIsSomewhere'
    BY <1>1, <1>t, KindsDiffer DEF Enable, OursNeedsACopy, OwnIsSomewhere
  <2> QED BY <1>s, <2>1, <2>2
<1>2. CASE OpenCopy
  <2>1. TallyOK'
    BY <1>2 DEF OpenCopy, TallyOK
  <2>2. Typed' /\ OursNeedsACopy' /\ OwnIsSomewhere'
    BY <1>2, <1>t, KindsDiffer DEF OpenCopy, OursNeedsACopy, OwnIsSomewhere
  <2> QED BY <1>s, <2>1, <2>2
<1>3. CASE WriteCopy
  <2>1. TallyOK'
    BY <1>3 DEF WriteCopy, TallyOK
  <2>2. Typed' /\ OursNeedsACopy' /\ OwnIsSomewhere'
    BY <1>3, <1>t, KindsDiffer DEF WriteCopy, OursNeedsACopy, OwnIsSomewhere
  <2> QED BY <1>s, <2>1, <2>2
<1>4. CASE SetUrl
  <2>1. TallyOK'
    BY <1>4 DEF SetUrl, TallyOK
  <2>2. registry' \in Settings
    BY <1>4, <1>t DEF SetUrl, Settings
  <2>3. Typed' /\ OursNeedsACopy' /\ OwnIsSomewhere'
    BY <1>4, <1>t, <2>2, KindsDiffer DEF SetUrl, OursNeedsACopy, OwnIsSomewhere
  <2> QED BY <1>s, <2>1, <2>3
<1>5. CASE SetEnabled
  <2>1. TallyOK'
    BY <1>5 DEF SetEnabled, TallyOK
  <2>2. registry' \in Settings
    BY <1>5, <1>t DEF SetEnabled, Settings
  <2>3. Typed' /\ OursNeedsACopy' /\ OwnIsSomewhere'
    BY <1>5, <1>t, <2>2, KindsDiffer DEF SetEnabled, OursNeedsACopy, OwnIsSomewhere
  <2> QED BY <1>s, <2>1, <2>3
<1>6. CASE Clear
  <2>1. TallyOK'
    BY <1>6 DEF Clear, TallyOK
  <2>2. registry' \in Settings
    BY <1>6, <1>t DEF Clear, Settings
  <2>3. Typed' /\ OursNeedsACopy' /\ OwnIsSomewhere'
    BY <1>6, <1>t, <2>2, KindsDiffer DEF Clear, OursNeedsACopy, OwnIsSomewhere
  <2> QED BY <1>s, <2>1, <2>3
<1>7. CASE Disable
  <2>1. TallyOK'
    BY <1>7, CountedKeepsTally DEF Disable
  <2>2. Typed' /\ OursNeedsACopy' /\ OwnIsSomewhere'
    BY <1>7, <1>t, KindsDiffer DEF Disable, OursNeedsACopy, OwnIsSomewhere
  <2> QED BY <1>s, <2>1, <2>2
<1>8. CASE Restore
  <2>1. TallyOK'
    BY <1>8 DEF Restore, TallyOK
  <2>2. Cleared \in Settings /\ Cleared.url # Ours
    BY DEF Cleared, Settings, None, Ours
  <2>3. CopyIsReadable(backup) => backup.of \in Settings
    BY <1>t, KindsDiffer
  <2>4. registry' \in Settings /\ registry'.url # Ours
    BY <1>8, <2>2, <2>3 DEF Restore, Restored, OursNeedsACopy
  <2>5. Typed' /\ OursNeedsACopy'
    BY <1>8, <1>t, <2>4, KindsDiffer DEF Restore, OursNeedsACopy
  <2>6. OwnIsSomewhere'
    BY <1>8, KindsDiffer DEF Restore, Restored, OwnIsSomewhere
  <2> QED BY <1>s, <2>1, <2>5, <2>6
<1>9. CASE RemoveCopy
  <2>1. TallyOK'
    BY <1>9 DEF RemoveCopy, TallyOK
  <2>2. Typed' /\ OursNeedsACopy' /\ OwnIsSomewhere'
    BY <1>9, <1>t, KindsDiffer DEF RemoveCopy, OursNeedsACopy, OwnIsSomewhere
  <2> QED BY <1>s, <2>1, <2>2
<1>10. CASE Killed
  <2>1. TallyOK'
    BY <1>10, CountedKeepsTally DEF Killed
  <2>2. Typed' /\ OursNeedsACopy' /\ OwnIsSomewhere'
    BY <1>10, <1>t, KindsDiffer DEF Killed, OursNeedsACopy, OwnIsSomewhere
  <2> QED BY <1>s, <2>1, <2>2
<1>11. CASE UserChanges
  <2>1. TallyOK'
    BY <1>11, CountedKeepsTally DEF UserChanges
  <2>2. registry' \in Settings /\ registry'.url # Ours
    BY <1>11 DEF UserChanges, Settings, None, Ours
  <2>3. Typed' /\ OursNeedsACopy' /\ OwnIsSomewhere'
    BY <1>11, <1>t, <2>2, KindsDiffer DEF UserChanges, OursNeedsACopy, OwnIsSomewhere
  <2> QED BY <1>s, <2>1, <2>3
<1> QED
  BY <1>c, <1>1, <1>2, <1>3, <1>4, <1>5, <1>6, <1>7, <1>8, <1>9, <1>10, <1>11 DEF SysNext

LEMMA SysInvAlways == SysSpec => []SysInv
BY SysInitInv, SysStepInv, PTL DEF SysSpec

-----------------------------------------------------------------------------
(***************************************************************************)
(* The settings, the copy and the call keep their types.                   *)
(***************************************************************************)
THEOREM SysTypeCorrect == SysSpec => []SysTypeOK
<1>1. SysInv => SysTypeOK
  BY DEF SysInv
<1> QED BY <1>1, SysInvAlways, PTL

(***************************************************************************)
(* The user's settings are in place or in a readable copy however often    *)
(* enable, disable and kills follow one another, unless one of the three   *)
(* things named in disowned happened.                                      *)
(***************************************************************************)
THEOREM OwnSettingsKept == SysSpec => []SettingsAreKept
<1>1. SysInv => SettingsAreKept
  BY DEF SysInv, OwnIsSomewhere, SettingsAreKept
<1> QED BY <1>1, SysInvAlways, PTL

(***************************************************************************)
(* Without a copy and between calls the settings are never ours.           *)
(***************************************************************************)
THEOREM OursLeaves == SysSpec => []OursIsGone
<1>1. SysInv => OursIsGone
  BY DEF SysInv, OursNeedsACopy, OursIsGone
<1> QED BY <1>1, SysInvAlways, PTL

(***************************************************************************)
(* The user's settings survive, ours do not survive the copy.              *)
(***************************************************************************)
THEOREM SystemProxyHolds == SysSpec => []ProxyIsSound
<1>1. SysTypeOK /\ SettingsAreKept /\ OursIsGone => ProxyIsSound
  BY DEF ProxyIsSound
<1> QED BY <1>1, SysTypeCorrect, OwnSettingsKept, OursLeaves, PTL

-----------------------------------------------------------------------------
(***************************************************************************)
(* The launch and its cleanup (Launch).                                    *)
(***************************************************************************)

(***************************************************************************)
(* A route that is not excused leads to a proxy that listens, and once the *)
(* cleanup is past the browser's part there is none.                       *)
(***************************************************************************)
RouteLeads ==
  routed /\ "route" \notin excused =>
    mitmdump = "up" /\ app.at \notin {"end", "uvicorn", "stopped", "down"}

(***************************************************************************)
(* What the cleanup is past is gone, but for a process that would not go   *)
(* or a start under way; only an excused exit leaves a child.              *)
(***************************************************************************)
CleanupIsDone ==
  "child" \notin excused =>
    /\ strays = {}
    /\ app.at \in {"uvicorn", "stopped"} => ~IsRunning
    /\ app.at = "stopped" => ~uvicorn

PhasesAgree ==
  /\ app.at = "down" => auto = "none" /\ starting = "no" /\ mitmdump = "none" /\ ~uvicorn
  /\ app.at = "cert" => auto = "none"
  /\ app.at \in Closing => app.passes \in 1 .. 3
  /\ starting = "spawn" => ~IsRunning
  /\ starting = "route" => mitmdump # "booting" \/ "port" \in excused

(***************************************************************************)
(* How far the start-up thread has come in a launch nobody touched.        *)
(***************************************************************************)
StartupIsOnItsWay ==
  app.at \in {"down", "cert", "serve"} /\ ~touched =>
    /\ auto \in {"none", "api", "browser"} => starting = "no" /\ mitmdump = "none"
    /\ auto = "starting" => /\ starting \in {"spawn", "wait", "route"}
                            /\ starting = "route" => mitmdump = "up" \/ "port" \in excused
    /\ auto = "done" => /\ starting = "no"
                        /\ wanted.browser => /\ mitmdump = "up" \/ "port" \in excused
                                             /\ routed \/ "unset" \in excused

LaunchInv == LaunchTypeOK /\ RouteLeads /\ CleanupIsDone /\ PhasesAgree /\ StartupIsOnItsWay

LEMMA LaunchInitInv == LaunchInit => LaunchInv
<1> SUFFICES ASSUME LaunchInit PROVE LaunchInv
  OBVIOUS
<1> USE DEF LaunchInit
<1>1. LaunchTypeOK
  <2>1. /\ app \in [at : {"down", "cert", "serve", "stopped"} \cup Closing, passes : 0 .. 3]
        /\ counts \in [launches : 0 .. MaxLaunches, dead : 0 .. MaxDying, toggles : 0 .. MaxToggles]
    BY LaunchAssumption
  <2>2. wanted \in [api : BOOLEAN, browser : BOOLEAN, configured : BOOLEAN]
    OBVIOUS
  <2>3. uvicorn \in BOOLEAN /\ routed \in BOOLEAN /\ touched \in BOOLEAN
    OBVIOUS
  <2>4. /\ auto = "none" /\ starting = "no" /\ mitmdump = "none" /\ strays = {} /\ excused = {}
    OBVIOUS
  <2> QED BY <2>1, <2>2, <2>3, <2>4 DEF LaunchTypeOK
<1>2. RouteLeads /\ CleanupIsDone /\ PhasesAgree /\ StartupIsOnItsWay
  BY DEF RouteLeads, CleanupIsDone, PhasesAgree, StartupIsOnItsWay, Closing, IsRunning
<1> QED BY <1>1, <1>2 DEF LaunchInv

(***************************************************************************)
(* What counting does to the counts.                                       *)
(***************************************************************************)
LEMMA CountUpKeepsType ==
  ASSUME LaunchTypeOK,
         \/ CountUp("launches", MaxLaunches) \/ CountUp("dead", MaxDying)
         \/ CountUp("toggles", MaxToggles) \/ UNCHANGED counts
  PROVE  counts' \in [launches : 0 .. MaxLaunches, dead : 0 .. MaxDying, toggles : 0 .. MaxToggles]
BY LaunchAssumption DEF LaunchTypeOK, CountUp

(***************************************************************************)
(* The end of a pass of the cleanup.                                       *)
(***************************************************************************)
LEMMA PassEndsGoes ==
  ASSUME LaunchTypeOK, PhasesAgree, PassEnds, app.at \in {"browser", "end", "uvicorn"}
  PROVE  app' \in [at : {"browser"}, passes : 1 .. 2] \cup [at : {"stopped"}, passes : {0}]
<1>1. app.passes \in 1 .. 3
  BY DEF PhasesAgree, Closing
<1> QED BY <1>1 DEF PassEnds, LaunchTypeOK

LEMMA LaunchStepType == LaunchTypeOK /\ PhasesAgree /\ [LaunchNext]_launchVars => LaunchTypeOK'
<1> SUFFICES ASSUME LaunchTypeOK, PhasesAgree, [LaunchNext]_launchVars PROVE LaunchTypeOK'
  OBVIOUS
<1> USE LaunchAssumption DEF LaunchTypeOK, Closing
<1>c. CASE UNCHANGED launchVars
  BY <1>c DEF launchVars
<1>1. CASE Up
  <2>1. app' \in [at : {"down", "cert", "serve", "stopped"} \cup Closing, passes : 0 .. 3]
    BY <1>1 DEF Up
  <2>2. CountUp("launches", MaxLaunches)
    BY <1>1, Zenon DEF Up
  <2>3. counts' \in [launches : 0 .. MaxLaunches, dead : 0 .. MaxDying, toggles : 0 .. MaxToggles]
    BY <2>2, CountUpKeepsType
  <2> QED BY <1>1, <2>1, <2>3 DEF Up
<1>2. CASE Serve
  BY <1>2 DEF Serve
<1>3. CASE AutoApi
  <2>1. uvicorn' \in BOOLEAN /\ auto' = "browser"
    BY <1>3 DEF AutoApi
  <2>2. excused' \subseteq {"route", "child", "unset", "port"}
    BY <1>3 DEF AutoApi, Excuse
  <2> QED BY <1>3, <2>1, <2>2 DEF AutoApi
<1>4. CASE AutoBrowser
  BY <1>4 DEF AutoBrowser
<1>5. CASE SpawnMitm
  BY <1>5 DEF SpawnMitm, Excuse
<1>6. CASE StartSees
  <2>1. starting' = "route" /\ excused' \subseteq {"route", "child", "unset", "port"}
    BY <1>6 DEF StartSees
  <2> QED BY <1>6, <2>1 DEF StartSees
<1>7. CASE StartFails
  <2>1. /\ strays' \subseteq {"mitmdump", "uvicorn"}
        /\ excused' \subseteq {"route", "child", "unset", "port"}
    BY <1>7 DEF StartFails
  <2> QED BY <1>7, <2>1 DEF StartFails, AutoEnds
<1>8. CASE RouteSet
  <2>1. /\ excused' \subseteq {"route", "child", "unset", "port"} /\ routed' \in BOOLEAN
        /\ wanted' \in [api : BOOLEAN, browser : BOOLEAN, configured : BOOLEAN]
    BY <1>8 DEF RouteSet
  <2> QED BY <1>8, <2>1 DEF RouteSet, AutoEnds
<1>9. CASE SwitchOn
  BY <1>9, CountUpKeepsType DEF SwitchOn
<1>10. CASE SwitchOff
  <2>1. /\ excused' \subseteq {"route", "child", "unset", "port"} /\ routed' \in BOOLEAN
        /\ wanted' \in [api : BOOLEAN, browser : BOOLEAN, configured : BOOLEAN]
        /\ mitmdump' \in {"none", "booting", "up", "dead"} /\ touched' = TRUE
    BY <1>10 DEF SwitchOff, Unroute, StopRaises
  <2> QED BY <1>10, <2>1, CountUpKeepsType DEF SwitchOff
<1>11. CASE ToggleApi
  <2>1. CountUp("toggles", MaxToggles) /\ Excuse
    BY <1>11, Zenon DEF ToggleApi
  <2>2. counts' \in [launches : 0 .. MaxLaunches, dead : 0 .. MaxDying, toggles : 0 .. MaxToggles]
    BY <2>1, CountUpKeepsType
  <2>3. excused' \subseteq {"route", "child", "unset", "port"}
    BY <2>1 DEF Excuse
  <2>4. uvicorn' = ~uvicorn /\ wanted' = [wanted EXCEPT !.api = ~uvicorn]
    BY <1>11, Zenon DEF ToggleApi
  <2>5. uvicorn' \in BOOLEAN /\ wanted' \in [api : BOOLEAN, browser : BOOLEAN, configured : BOOLEAN]
    BY <2>4
  <2> QED BY <1>11, <2>2, <2>3, <2>5 DEF ToggleApi
<1>12. CASE Signal /\ UNCHANGED <<auto, starting, mitmdump, uvicorn, routed, strays, wanted, excused,
                touched, counts>>
  BY <1>12 DEF Signal
<1>13. CASE TrayQuit /\ UNCHANGED <<auto, starting, mitmdump, uvicorn, routed, strays, wanted, excused,
                touched, counts>>
  BY <1>13 DEF TrayQuit
<1>14. CASE Interrupt /\ UNCHANGED <<auto, starting, mitmdump, uvicorn, routed, strays, wanted, excused,
                touched, counts>>
  BY <1>14 DEF Interrupt
<1>15. CASE CleanBrowser
  <2>1. app' \in [at : {"down", "cert", "serve", "stopped"} \cup Closing, passes : 0 .. 3]
    BY <1>15, PassEndsGoes DEF CleanBrowser
  <2>2. /\ mitmdump' \in {"none", "booting", "up", "dead"} /\ uvicorn' \in BOOLEAN
        /\ routed' \in BOOLEAN /\ strays' \subseteq {"mitmdump", "uvicorn"}
        /\ excused' \subseteq {"route", "child", "unset", "port"}
    BY <1>15 DEF CleanBrowser, Unroute, StopRaises
  <2> QED BY <1>15, <2>1, <2>2 DEF CleanBrowser
<1>16. CASE EndBrowser
  <2>1. app' \in [at : {"down", "cert", "serve", "stopped"} \cup Closing, passes : 0 .. 3]
    BY <1>16, PassEndsGoes DEF EndBrowser
  <2>2. /\ mitmdump' \in {"none", "booting", "up", "dead"} /\ uvicorn' \in BOOLEAN
        /\ routed' \in BOOLEAN /\ strays' \subseteq {"mitmdump", "uvicorn"}
        /\ excused' \subseteq {"route", "child", "unset", "port"}
    BY <1>16 DEF EndBrowser
  <2> QED BY <1>16, <2>1, <2>2 DEF EndBrowser
<1>17. CASE CleanApi
  <2>1. app' \in [at : {"down", "cert", "serve", "stopped"} \cup Closing, passes : 0 .. 3]
    BY <1>17, PassEndsGoes DEF CleanApi
  <2>2. /\ mitmdump' \in {"none", "booting", "up", "dead"} /\ uvicorn' \in BOOLEAN
        /\ routed' \in BOOLEAN /\ strays' \subseteq {"mitmdump", "uvicorn"}
        /\ excused' \subseteq {"route", "child", "unset", "port"}
    BY <1>17 DEF CleanApi
  <2> QED BY <1>17, <2>1, <2>2 DEF CleanApi
<1>18. CASE Exit
  <2>1. app' \in [at : {"down", "cert", "serve", "stopped"} \cup Closing, passes : 0 .. 3]
    BY <1>18 DEF Exit, Leaves
  <2>2. /\ mitmdump' \in {"none", "booting", "up", "dead"} /\ uvicorn' \in BOOLEAN
        /\ routed' \in BOOLEAN /\ strays' \subseteq {"mitmdump", "uvicorn"}
        /\ excused' \subseteq {"route", "child", "unset", "port"}
    BY <1>18 DEF Exit, Leaves
  <2> QED BY <1>18, <2>1, <2>2 DEF Exit, Leaves
<1>19. CASE KillApp
  <2>1. app' \in [at : {"down", "cert", "serve", "stopped"} \cup Closing, passes : 0 .. 3]
    BY <1>19 DEF KillApp, Leaves
  <2>2. /\ mitmdump' \in {"none", "booting", "up", "dead"} /\ uvicorn' \in BOOLEAN
        /\ routed' \in BOOLEAN /\ strays' \subseteq {"mitmdump", "uvicorn"}
        /\ excused' \subseteq {"route", "child", "unset", "port"}
    BY <1>19 DEF KillApp, Leaves
  <2> QED BY <1>19, <2>1, <2>2 DEF KillApp, Leaves
<1>20. CASE MitmBoots
  BY <1>20 DEF MitmBoots
<1>21. CASE MitmDies
  BY <1>21, CountUpKeepsType DEF MitmDies
<1> QED BY <1>c, <1>1, <1>2, <1>3, <1>4, <1>5, <1>6, <1>7, <1>8, <1>9, <1>10, <1>11, <1>12,
      <1>13, <1>14, <1>15, <1>16, <1>17, <1>18, <1>19, <1>20, <1>21 DEF LaunchNext

(***************************************************************************)
(* Every step of a launch keeps the invariant.                             *)
(***************************************************************************)
LEMMA LaunchStepInv == LaunchInv /\ [LaunchNext]_launchVars => LaunchInv'
<1> SUFFICES ASSUME LaunchInv, [LaunchNext]_launchVars PROVE LaunchInv'
  OBVIOUS
<1>t. LaunchTypeOK'
  BY LaunchStepType DEF LaunchInv
<1> DEFINE Rest == RouteLeads /\ CleanupIsDone /\ PhasesAgree /\ StartupIsOnItsWay
<1> USE DEF LaunchInv, LaunchTypeOK, Closing, IsRunning, RouteLeads, CleanupIsDone, PhasesAgree,
        StartupIsOnItsWay
<1>c. ASSUME UNCHANGED launchVars PROVE Rest'
  BY <1>c DEF launchVars
<1>1. ASSUME Up PROVE Rest'
  BY <1>1 DEF Up
<1>2. ASSUME Serve PROVE Rest'
  BY <1>2 DEF Serve
<1>3. ASSUME AutoApi PROVE Rest'
  BY <1>3 DEF AutoApi, Excuse
<1>4. ASSUME AutoBrowser PROVE Rest'
  BY <1>4 DEF AutoBrowser
<1>5. ASSUME SpawnMitm PROVE Rest'
  BY <1>5 DEF SpawnMitm, Excuse
<1>6. ASSUME StartSees PROVE Rest'
  BY <1>6 DEF StartSees
<1>7. ASSUME StartFails PROVE Rest'
  BY <1>7 DEF StartFails, AutoEnds
<1>8. ASSUME RouteSet PROVE Rest'
  BY <1>8 DEF RouteSet, AutoEnds
<1>9. ASSUME SwitchOn PROVE Rest'
  BY <1>9 DEF SwitchOn, Serving
<1>10. ASSUME SwitchOff PROVE Rest'
  <2>1. /\ app' = app /\ auto' = auto /\ starting' = starting /\ uvicorn' = uvicorn /\ strays' = strays
        /\ starting = "no" /\ Serving /\ touched' = TRUE
    BY <1>10, Zenon DEF SwitchOff
  <2>2. CASE Unroute /\ mitmdump' = "none"
    <3>1. /\ routed' => "route" \in excused'
          /\ {e \in excused' : e # "route"} = {e \in excused : e # "route"}
      BY <2>2 DEF Unroute
    <3> QED BY <2>1, <2>2, <3>1 DEF Serving
  <2>3. CASE StopRaises /\ UNCHANGED <<mitmdump, wanted, excused>>
    <3>1. mitmdump' = mitmdump /\ excused' = excused
      BY <2>3, Zenon
    <3>2. routed' = routed \/ routed' = FALSE
      BY <2>3, Zenon DEF StopRaises
    <3>3. CASE routed' = FALSE
      BY <2>1, <3>1, <3>3 DEF Serving
    <3>4. CASE routed' = routed
      BY <2>1, <3>1, <3>4 DEF Serving
    <3> QED BY <3>2, <3>3, <3>4, Zenon
  <2> QED BY <1>10, <2>2, <2>3, Zenon DEF SwitchOff
<1>11. ASSUME ToggleApi PROVE Rest'
  BY <1>11 DEF ToggleApi, Serving, Excuse
<1>12. ASSUME Signal /\ UNCHANGED <<auto, starting, mitmdump, uvicorn, routed, strays, wanted, excused,
                touched, counts>> PROVE Rest'
  BY <1>12 DEF Signal
<1>13. ASSUME TrayQuit /\ UNCHANGED <<auto, starting, mitmdump, uvicorn, routed, strays, wanted, excused,
                touched, counts>> PROVE Rest'
  BY <1>13 DEF TrayQuit
<1>14. ASSUME Interrupt /\ UNCHANGED <<auto, starting, mitmdump, uvicorn, routed, strays, wanted, excused,
                touched, counts>> PROVE Rest'
  BY <1>14 DEF Interrupt
<1>15. ASSUME CleanBrowser PROVE Rest'
  <2>1. CASE StopsBrowser /\ Unroute /\ app' = [app EXCEPT !.at = "end"]
    BY <1>15, <2>1 DEF CleanBrowser, Unroute
  <2>2. CASE /\ StopsBrowser /\ StopRaises /\ PassEnds
             /\ excused' = excused \cup {"child"} \cup (IF routed' THEN {"route"} ELSE {})
    BY <1>15, <2>2, PassEndsGoes DEF CleanBrowser, StopRaises
  <2>3. CASE ~StopsBrowser /\ UNCHANGED <<routed, excused>> /\ app' = [app EXCEPT !.at = "uvicorn"]
    BY <1>15, <2>3 DEF CleanBrowser, StopsBrowser
  <2> QED BY <1>15, <2>1, <2>2, <2>3 DEF CleanBrowser
<1>16. ASSUME EndBrowser PROVE Rest'
  BY <1>16, PassEndsGoes DEF EndBrowser
<1>17. ASSUME CleanApi PROVE Rest'
  BY <1>17, PassEndsGoes DEF CleanApi
<1>18. ASSUME Exit PROVE Rest'
  BY <1>18 DEF Exit, Leaves
<1>19. ASSUME KillApp PROVE Rest'
  BY <1>19 DEF KillApp, Leaves
<1>20. ASSUME MitmBoots PROVE Rest'
  BY <1>20 DEF MitmBoots
<1>21. ASSUME MitmDies PROVE Rest'
  BY <1>21 DEF MitmDies
<1> QED BY <1>t, <1>c, <1>1, <1>2, <1>3, <1>4, <1>5, <1>6, <1>7, <1>8, <1>9, <1>10, <1>11,
      <1>12, <1>13, <1>14, <1>15, <1>16, <1>17, <1>18, <1>19, <1>20, <1>21 DEF LaunchNext

(***************************************************************************)
(* For any number of launches, toggles and deaths of mitmdump: a launch    *)
(* that has ended leaves no route to a proxy that is gone and no child,    *)
(* with the exceptions named, and one that came up untouched runs what its *)
(* configuration asks for (main.py's start-up thread, handlers and         *)
(* cleanup).                                                               *)
(***************************************************************************)
THEOREM LaunchSound == LaunchSpec => []LaunchIsSound
<1>1. LaunchInv => LaunchIsSound
  BY DEF LaunchInv, LaunchIsSound, RouteLeads, CleanupIsDone, StartupIsOnItsWay, RouteIsUndone,
     ChildrenEnd, ResumesAsLeft
<1> QED BY LaunchInitInv, LaunchStepInv, <1>1, PTL DEF LaunchSpec

-----------------------------------------------------------------------------
(***************************************************************************)
(* The certificate authority (Certificates).                               *)
(***************************************************************************)

(***************************************************************************)
(* A number is given to one pair only, and no stamp is of the future.      *)
(***************************************************************************)
NumbersAreSpent ==
  /\ key # NoFile => key <= made
  /\ cert # NoFile => cert.pair <= made /\ cert.at <= clock
  /\ copied.cert # NoFile => copied.cert.at <= clock
  /\ \A c \in Generators : caller[c].at = "cert" => caller[c].pair \in 1 .. made

(***************************************************************************)
(* Who is about to write the certificate wrote the key that is there.      *)
(***************************************************************************)
KeyIsTheWriters ==
  "pair" \notin clashed => \A c \in Generators : caller[c].at = "cert" => key = caller[c].pair

(***************************************************************************)
(* A copy that is not older than the certificate is of it, unless that was *)
(* put back with an old date; if key and certificate are of one pair, the  *)
(* copied key is too.                                                      *)
(***************************************************************************)
CopyIsOf(pem) ==
  /\ pem # NoFile /\ pem[2] = cert.pair
  /\ key = cert.pair => pem = <<key, cert.pair>>

FreshCopyIsOurs ==
  /\ clashed \cap {"copy", "date"} = {}
  /\ copied.cert # NoFile /\ cert # NoFile /\ copied.cert.at >= cert.at
  => CopyIsOf(copied.pem)

(***************************************************************************)
(* While mitmdump is being started, what it saw is still on disk, and what *)
(* it has copied is that.                                                  *)
(***************************************************************************)
StartSeesOurs ==
  /\ mitm.at = "cert" => copied.pem # NoFile
  /\ "copy" \notin clashed /\ mitm.at \in {"pem", "cert", "spawn"} =>
       /\ cert # NoFile
       /\ mitm.saw = IF key = NoFile THEN NoFile ELSE <<key, cert.pair>>
       /\ mitm.at = "cert" => key # NoFile /\ copied.pem = <<key, cert.pair>>
       /\ mitm.at = "spawn" /\ ~mitm.fooled => CopyIsOf(copied.pem)

CaInv ==
  /\ CaTypeOK /\ NumbersAreSpent /\ KeyIsTheWriters /\ PairIsWhole
  /\ FreshCopyIsOurs /\ StartSeesOurs /\ SignsWithOurs /\ TrustIsTrue

LEMMA CaInitInv == CaInit => CaInv
<1> SUFFICES ASSUME CaInit PROVE CaInv
  OBVIOUS
<1> USE CertificatesAssumption DEF CaInit, IdleCaller, OffMitm
<1>1. \/ /\ key = NoFile /\ cert = NoFile /\ copied = [pem |-> NoFile, cert |-> NoFile]
         /\ store = {} /\ made = 0 /\ clock = 0
      \/ /\ key \in {1, NoFile} /\ cert = [pair |-> 1, at |-> 1] /\ made = 1 /\ clock = 2
         /\ copied = [pem |-> <<1, 1>>, cert |-> [pair |-> 1, at |-> 2]]
         /\ store \subseteq {1}
  OBVIOUS
<1>2. 1 \in PairIds /\ [pair |-> 1, at |-> 1] \in Stamped /\ [pair |-> 1, at |-> 2] \in Stamped
  BY DEF PairIds, Stamped
<1>3. CaTypeOK
  <2>1. /\ key \in PairIds \cup {NoFile} /\ cert \in Stamped \cup {NoFile}
        /\ copied \in [pem : (PairIds \X PairIds) \cup {NoFile}, cert : Stamped \cup {NoFile}]
        /\ copied.cert # NoFile => copied.pem # NoFile
        /\ store \subseteq PairIds
    BY <1>1, <1>2
  <2>2. /\ caller \in [Generators -> [at : {"idle", "generate", "key", "cert", "install", "trust"},
                                    pair : PairIds \cup {NoFile}]]
        /\ mitm \in [at : {"off", "pem", "cert", "spawn", "on"},
                     saw : (PairIds \X PairIds) \cup {NoFile},
                     signs : (PairIds \X PairIds) \cup {NoFile}, fooled : BOOLEAN]
    OBVIOUS
  <2>3. made \in 0 .. MaxPairs /\ clock \in Nat /\ mishaps \in 0 .. MaxMishaps
    BY <1>1
  <2> QED BY <2>1, <2>2, <2>3 DEF CaTypeOK
<1>4. NumbersAreSpent
  BY <1>1, <1>2 DEF NumbersAreSpent
<1>5. KeyIsTheWriters /\ PairIsWhole
  BY <1>1 DEF KeyIsTheWriters, PairIsWhole, BothExist
<1>6. FreshCopyIsOurs /\ StartSeesOurs /\ SignsWithOurs /\ TrustIsTrue
  BY <1>1, <1>2 DEF FreshCopyIsOurs, StartSeesOurs, SignsWithOurs, TrustIsTrue, CopyIsOf
<1> QED BY <1>3, <1>4, <1>5, <1>6 DEF CaInv

(***************************************************************************)
(* A caller moves on without a write to a file.                            *)
(***************************************************************************)
LEMMA CallerMoves ==
  ASSUME CaInv, NEW c \in Generators,
         NEW place \in {"idle", "generate", "key", "install", "trust"},
         CallerGoes(c, place), caller[c].at # "cert",
         UNCHANGED <<platform, key, cert, copied, mitm, made, clock, clashed, mishaps>>,
         store' \subseteq PairIds, trustTold' \in Told \cup {NoFile}, TrustIsTrue'
  PROVE  CaInv'
<1> USE CertificatesAssumption DEF CaInv
<1>1. /\ caller'[c].at = place
      /\ \A d \in Generators \ {c} : caller'[d] = caller[d]
      /\ caller' \in [Generators -> [at : {"idle", "generate", "key", "cert", "install", "trust"},
                                    pair : PairIds \cup {NoFile}]]
  BY DEF CallerGoes, CaTypeOK
<1>2. CaTypeOK'
  BY <1>1 DEF CaTypeOK
<1>3. \A d \in Generators : caller'[d].at = "cert" <=> caller[d].at = "cert"
  BY <1>1
<1>4. NumbersAreSpent' /\ KeyIsTheWriters' /\ PairIsWhole'
  BY <1>1, <1>3 DEF NumbersAreSpent, KeyIsTheWriters, PairIsWhole, BothExist
<1>5. FreshCopyIsOurs' /\ StartSeesOurs' /\ SignsWithOurs'
  BY DEF FreshCopyIsOurs, StartSeesOurs, SignsWithOurs, CopyIsOf
<1> QED BY <1>2, <1>4, <1>5

(***************************************************************************)
(* What installing may do to the store, and what is told of it.            *)
(***************************************************************************)
LEMMA StoreGrows ==
  ASSUME CaTypeOK, NEW s, s \in {store} \cup Added(cert)
  PROVE  /\ s \subseteq PairIds /\ store \subseteq s
         /\ cert # NoFile => s = store \/ s = store \cup {cert.pair}
BY CertificatesAssumption DEF CaTypeOK, Added, Stamped

LEMMA TrustsTells ==
  ASSUME NEW s
  PROVE  /\ Trusts(s) \in BOOLEAN
         /\ Trusts(s) /\ platform = "macos" => cert.pair \in s
         /\ Trusts(s) /\ platform = "windows" => s # {}
BY DEF Trusts

LEMMA CallersKeep ==
  ASSUME CaInv, NEW c \in Generators,
         \/ (AskGenerate(c) \/ AskSetUp(c)) /\ trustTold' = NoFile
              /\ UNCHANGED <<platform, key, cert, copied, store, mitm, made, clock, clashed, mishaps>>
         \/ Generate(c) /\ UNCHANGED <<platform, copied, store, mitm, trustTold, mishaps>>
         \/ (Install(c) \/ Trust(c))
              /\ UNCHANGED <<platform, key, cert, copied, mitm, made, clock, clashed, mishaps>>
  PROVE  CaInv'
<1> USE CertificatesAssumption
<1>t. store \subseteq PairIds /\ trustTold \in Told \cup {NoFile} /\ TrustIsTrue
  BY DEF CaInv, CaTypeOK
<1>1. CASE /\ AskGenerate(c) \/ AskSetUp(c)
           /\ trustTold' = NoFile
           /\ UNCHANGED <<platform, key, cert, copied, store, mitm, made, clock, clashed, mishaps>>
  <2>1. \E place \in {"generate", "trust"} : CallerGoes(c, place) /\ caller[c].at # "cert"
    BY <1>1 DEF AskGenerate, AskSetUp
  <2> QED BY <1>1, <1>t, <2>1, CallerMoves DEF TrustIsTrue
<1>2. CASE Generate(c) /\ UNCHANGED <<platform, copied, store, mitm, trustTold, mishaps>>
  <2>1. \E place \in {"install", "key"} : CallerGoes(c, place) /\ caller[c].at # "cert"
    BY <1>2 DEF Generate
  <2>2. UNCHANGED <<key, cert, made, clock, clashed>>
    BY <1>2 DEF Generate
  <2> QED BY <1>2, <1>t, <2>1, <2>2, CallerMoves DEF TrustIsTrue
<1>3. CASE Install(c) /\ UNCHANGED <<platform, key, cert, copied, mitm, made, clock, clashed, mishaps>>
  <2>1. \E place \in {"trust", "idle"} : CallerGoes(c, place) /\ caller[c].at # "cert"
    BY <1>3 DEF Install, After
  <2>2. store' \in {store} \cup Added(cert) /\ trustTold' = trustTold
    BY <1>3 DEF Install
  <2>3. store' \subseteq PairIds /\ store \subseteq store'
    BY <2>2, StoreGrows DEF CaInv
  <2> QED BY <1>3, <1>t, <2>1, <2>2, <2>3, CallerMoves DEF TrustIsTrue
<1>4. CASE Trust(c) /\ UNCHANGED <<platform, key, cert, copied, mitm, made, clock, clashed, mishaps>>
  <2>1. CallerGoes(c, "idle") /\ caller[c].at # "cert"
    BY <1>4 DEF Trust
  <2>2. /\ store' \in {store} \cup Added(cert)
        /\ trustTold' = IF cert = NoFile THEN NoFile
                        ELSE [pair |-> cert.pair, trusted |-> Trusts(store'),
                              named |-> store \ {cert.pair} # {}]
    BY <1>4 DEF Trust
  <2>3. /\ store' \subseteq PairIds /\ store \subseteq store'
        /\ cert # NoFile => store' = store \/ store' = store \cup {cert.pair}
    BY <2>2, StoreGrows DEF CaInv
  <2>4. platform \in {"windows", "macos", "linux"} /\ platform' = platform
    BY <1>4 DEF CaInv, CaTypeOK
  <2>5. CASE cert = NoFile
    BY <1>4, <2>1, <2>2, <2>3, <2>5, CallerMoves DEF TrustIsTrue
  <2>6. CASE cert # NoFile
    <3>1. /\ trustTold'.pair = cert.pair /\ trustTold'.trusted = Trusts(store')
          /\ trustTold'.named = (store \ {cert.pair} # {})
      BY <2>2, <2>6
    <3>2. trustTold' \in Told
      BY <2>2, <2>6, TrustsTells DEF Told, CaInv, CaTypeOK, Stamped
    <3>3. trustTold'.trusted => \/ cert.pair \in store'
                                \/ platform = "linux"
                                \/ platform = "windows" /\ store \ {cert.pair} # {}
      <4>1. /\ Trusts(store') /\ platform = "macos" => cert.pair \in store'
            /\ Trusts(store') /\ platform = "windows" => store' # {}
        BY TrustsTells
      <4>2. ASSUME store' # {}, cert.pair \notin store' PROVE store \ {cert.pair} # {}
        <5>1. store' = store
          BY <2>3, <2>6, <4>2, Zenon
        <5>2. PICK e \in store : e # cert.pair
          BY <4>2, <5>1
        <5> QED BY <5>2
      <4>3. Trusts(store') => \/ cert.pair \in store' \/ platform = "linux"
                              \/ platform = "windows" /\ store \ {cert.pair} # {}
        BY <2>4, <4>1, <4>2
      <4>4. trustTold'.trusted => Trusts(store')
        BY <3>1, SMT
      <4> QED BY <4>3, <4>4, Zenon
    <3>4. TrustIsTrue'
      BY <2>4, <3>1, <3>3 DEF TrustIsTrue
    <3> QED BY <1>4, <2>1, <2>3, <3>2, <3>4, CallerMoves
  <2> QED BY <2>5, <2>6
<1> QED BY <1>1, <1>2, <1>3, <1>4

(***************************************************************************)
(* The key is written, then the certificate.                               *)
(***************************************************************************)
LEMMA WriteKeyKeeps ==
  ASSUME CaInv, NEW c \in Generators, WriteKey(c),
         UNCHANGED <<platform, copied, store, mitm, trustTold, mishaps>>
  PROVE  CaInv'
<1> USE CertificatesAssumption DEF CaInv
<1>1. /\ made \in 0 .. MaxPairs /\ made < MaxPairs /\ made' = made + 1 /\ key' = made'
      /\ made' \in PairIds /\ caller[c].at = "key" /\ UNCHANGED <<cert, clock>>
      /\ caller' = [caller EXCEPT ![c] = [at |-> "cert", pair |-> made']]
      /\ clashed' = clashed \cup Mixes(c)
  BY DEF WriteKey, CaTypeOK, PairIds
<1>2. /\ caller'[c].at = "cert" /\ caller'[c].pair = made'
      /\ \A d \in Generators \ {c} : caller'[d] = caller[d]
  BY <1>1 DEF CaTypeOK
<1>3. /\ \A d \in Generators \ {c} : caller[d].at = "cert" => "pair" \in clashed'
      /\ mitm.at \in {"pem", "cert", "spawn"} => "copy" \in clashed'
      /\ clashed \subseteq clashed' /\ clashed' \in SUBSET {"pair", "copy", "date"}
  BY <1>1 DEF Mixes, CaTypeOK
<1>4. CaTypeOK'
  BY <1>1, <1>3 DEF CaTypeOK
<1>5. NumbersAreSpent' /\ KeyIsTheWriters' /\ PairIsWhole'
  BY <1>1, <1>2, <1>3 DEF NumbersAreSpent, KeyIsTheWriters, PairIsWhole, CaTypeOK, PairIds, Stamped
<1>6. cert # NoFile => key' # cert.pair
  BY <1>1 DEF NumbersAreSpent, CaTypeOK, Stamped, PairIds
<1>7. FreshCopyIsOurs' /\ StartSeesOurs' /\ SignsWithOurs' /\ TrustIsTrue'
  BY <1>1, <1>3, <1>6 DEF FreshCopyIsOurs, StartSeesOurs, SignsWithOurs, TrustIsTrue, CopyIsOf
<1> QED BY <1>4, <1>5, <1>7

LEMMA WriteCertKeeps ==
  ASSUME CaInv, NEW c \in Generators, WriteCert(c),
         UNCHANGED <<platform, copied, store, mitm, trustTold, mishaps>>
  PROVE  CaInv'
<1> USE CertificatesAssumption DEF CaInv
<1>1. /\ caller[c].at = "cert" /\ clock' = clock + 1 /\ clock \in Nat
      /\ cert' = [pair |-> caller[c].pair, at |-> clock'] /\ UNCHANGED <<key, made>>
      /\ caller' = [caller EXCEPT ![c] = [at |-> "install", pair |-> NoFile]]
      /\ clashed' = (clashed \ {"date"}) \cup Mixes(c)
      /\ caller[c].pair \in PairIds /\ caller[c].pair <= made
  BY DEF WriteCert, CaTypeOK, NumbersAreSpent, PairIds
<1>2. /\ caller'[c].at = "install"
      /\ \A d \in Generators \ {c} : caller'[d] = caller[d]
  BY <1>1 DEF CaTypeOK
<1>3. /\ \A d \in Generators \ {c} : caller[d].at = "cert" => "pair" \in clashed'
      /\ mitm.at \in {"pem", "cert", "spawn"} => "copy" \in clashed'
      /\ clashed \ {"date"} \subseteq clashed' /\ clashed' \in SUBSET {"pair", "copy", "date"}
  BY <1>1 DEF Mixes, CaTypeOK
<1>4. cert' \in Stamped /\ cert'.pair = caller[c].pair /\ cert'.at = clock' /\ cert' # NoFile
  BY <1>1 DEF Stamped
<1>5. CaTypeOK'
  BY <1>1, <1>3, <1>4 DEF CaTypeOK
<1>6. NumbersAreSpent'
  BY <1>1, <1>2, <1>4 DEF NumbersAreSpent, CaTypeOK, Stamped
<1>7. KeyIsTheWriters' /\ PairIsWhole'
  BY <1>1, <1>2, <1>3, <1>4 DEF KeyIsTheWriters, PairIsWhole
<1>8. copied.cert # NoFile => copied.cert.at < cert'.at
  BY <1>1, <1>4 DEF NumbersAreSpent, CaTypeOK, Stamped
<1>9. FreshCopyIsOurs'
  BY <1>1, <1>4, <1>8 DEF FreshCopyIsOurs, CaTypeOK, Stamped
<1>10. StartSeesOurs' /\ SignsWithOurs' /\ TrustIsTrue'
  BY <1>1, <1>3 DEF StartSeesOurs, SignsWithOurs, TrustIsTrue
<1> QED BY <1>5, <1>6, <1>7, <1>9, <1>10

(***************************************************************************)
(* A start of mitmdump compares, copies twice and spawns.                  *)
(***************************************************************************)
LEMMA StartKeeps ==
  ASSUME CaInv, Compare \/ CopyPem \/ CopyCert \/ Spawned \/ MitmStops, trustTold' = NoFile,
         UNCHANGED <<platform, key, cert, store, caller, made, mishaps>>
  PROVE  CaInv'
<1> USE CertificatesAssumption DEF CaInv
<1>0. clashed' = clashed \/ clashed' = clashed \ {"date"}
  BY DEF Compare, CopyPem, CopyCert, Spawned, MitmStops
<1>1. KeyIsTheWriters' /\ PairIsWhole' /\ TrustIsTrue'
  BY <1>0 DEF KeyIsTheWriters, PairIsWhole, BothExist, TrustIsTrue
<1> DEFINE Pem == (PairIds \X PairIds) \cup {NoFile}
           Mitm == [at : {"off", "pem", "cert", "spawn", "on"}, saw : Pem, signs : Pem, fooled : BOOLEAN]
<1>t. ASSUME mitm' \in Mitm, clock' \in Nat,
             copied' \in [pem : Pem, cert : Stamped \cup {NoFile}],
             copied'.cert # NoFile => copied'.pem # NoFile
      PROVE  CaTypeOK'
  BY <1>0, <1>t DEF CaTypeOK
<1>m. mitm \in Mitm /\ clock \in Nat /\ copied \in [pem : Pem, cert : Stamped \cup {NoFile}]
      /\ (key # NoFile /\ cert # NoFile => <<key, cert.pair>> \in Pem /\ <<key, cert.pair>> # NoFile)
      /\ (cert # NoFile => cert \in Stamped /\ cert.pair \in PairIds)
  BY DEF CaTypeOK, Stamped
<1> DEFINE Same == <<key, cert.pair>>
<1>2. CASE Compare
  <2>1. /\ mitm.at = "off" /\ cert # NoFile /\ UNCHANGED <<copied, clock, clashed>>
        /\ mitm' = [mitm EXCEPT !.at = IF Stale THEN "pem" ELSE "spawn",
                                !.saw = IF key = NoFile THEN NoFile ELSE <<key, cert.pair>>,
                                !.fooled = ~Stale /\ "date" \in clashed]
    BY <1>2 DEF Compare
  <2>2. /\ mitm'.at \in {"pem", "spawn"} /\ (mitm'.at = "spawn" => ~Stale)
        /\ mitm'.saw = IF key = NoFile THEN NoFile ELSE <<key, cert.pair>>
        /\ mitm' \in Mitm /\ (mitm'.fooled <=> ~Stale /\ "date" \in clashed)
    BY <1>m, <2>1
  <2>3. clashed \cap {"copy", "date"} = {} /\ ~Stale => CopyIsOf(copied.pem)
    BY <1>m, <2>1 DEF Stale, FreshCopyIsOurs, Stamped
  <2>4. CaTypeOK' /\ NumbersAreSpent'
    BY <1>t, <1>m, <2>1, <2>2 DEF NumbersAreSpent, CaTypeOK
  <2>5. FreshCopyIsOurs' /\ StartSeesOurs' /\ SignsWithOurs'
    BY <2>1, <2>2, <2>3 DEF FreshCopyIsOurs, StartSeesOurs, SignsWithOurs, CopyIsOf
  <2> QED BY <1>1, <2>4, <2>5
<1>3. CASE CopyPem /\ BothExist
  <2>1. /\ mitm.at = "pem" /\ key # NoFile /\ cert # NoFile /\ UNCHANGED <<clock, clashed>>
        /\ copied' = [copied EXCEPT !.pem = Same] /\ mitm' = [mitm EXCEPT !.at = "cert"]
    BY <1>3 DEF CopyPem, BothExist
  <2>2. /\ copied'.pem = Same /\ copied'.cert = copied.cert
        /\ mitm'.at = "cert" /\ mitm'.saw = mitm.saw /\ mitm'.signs = mitm.signs /\ mitm' \in Mitm
        /\ copied' \in [pem : Pem, cert : Stamped \cup {NoFile}]
    BY <1>m, <2>1
  <2>3. CaTypeOK' /\ NumbersAreSpent'
    BY <1>t, <1>m, <2>1, <2>2 DEF NumbersAreSpent
  <2>4. FreshCopyIsOurs' /\ StartSeesOurs' /\ SignsWithOurs'
    BY <1>m, <2>1, <2>2 DEF FreshCopyIsOurs, StartSeesOurs, SignsWithOurs, CopyIsOf
  <2> QED BY <1>1, <2>3, <2>4
<1>4. CASE CopyCert /\ cert # NoFile
  <2>1. /\ mitm.at = "cert" /\ cert # NoFile /\ clock' = clock + 1
        /\ copied' = [copied EXCEPT !.cert = [pair |-> cert.pair, at |-> clock']]
        /\ mitm' = [mitm EXCEPT !.at = "spawn"] /\ clashed' = clashed \ {"date"}
    BY <1>4 DEF CopyCert
  <2>2. /\ copied'.pem = copied.pem /\ copied'.cert.at = clock' /\ clock' \in Nat
        /\ mitm'.at = "spawn" /\ mitm'.saw = mitm.saw /\ mitm'.signs = mitm.signs /\ mitm' \in Mitm
        /\ copied' \in [pem : Pem, cert : Stamped \cup {NoFile}]
    BY <1>m, <2>1 DEF Stamped
  <2>3. CaTypeOK'
    BY <1>t, <2>1, <2>2 DEF StartSeesOurs
  <2>4. NumbersAreSpent'
    BY <1>m, <2>1, <2>2 DEF NumbersAreSpent, Stamped
  <2>5. ASSUME "copy" \notin clashed PROVE CopyIsOf(copied.pem)
    BY <1>m, <2>1, <2>5 DEF StartSeesOurs, CopyIsOf
  <2>6. FreshCopyIsOurs' /\ StartSeesOurs' /\ SignsWithOurs'
    BY <1>m, <2>1, <2>2, <2>5 DEF FreshCopyIsOurs, StartSeesOurs, SignsWithOurs, CopyIsOf
  <2> QED BY <1>1, <2>3, <2>4, <2>6
<1>5. CASE Spawned
  <2>1. /\ mitm.at = "spawn" /\ UNCHANGED <<copied, clock, clashed>>
        /\ mitm' = [mitm EXCEPT !.at = "on", !.signs = copied.pem]
    BY <1>5 DEF Spawned
  <2>2. /\ mitm'.at = "on" /\ mitm'.saw = mitm.saw /\ mitm'.signs = copied.pem /\ mitm' \in Mitm
        /\ mitm'.fooled = mitm.fooled
    BY <1>m, <2>1
  <2>3. CaTypeOK' /\ NumbersAreSpent'
    BY <1>t, <1>m, <2>1, <2>2 DEF NumbersAreSpent, CaTypeOK
  <2>4. FreshCopyIsOurs' /\ StartSeesOurs'
    BY <2>1, <2>2 DEF FreshCopyIsOurs, StartSeesOurs, CopyIsOf
  <2>5. SignsWithOurs'
    BY <1>m, <2>1, <2>2 DEF SignsWithOurs, StartSeesOurs, CopyIsOf
  <2> QED BY <1>1, <2>3, <2>4, <2>5
<1>6. CASE mitm' = OffMitm /\ UNCHANGED <<copied, clock, clashed>>
  <2>1. mitm'.at = "off" /\ mitm' \in Mitm
    BY <1>6 DEF OffMitm
  <2>2. CaTypeOK' /\ NumbersAreSpent'
    BY <1>t, <1>m, <1>6, <2>1 DEF NumbersAreSpent, CaTypeOK
  <2>3. FreshCopyIsOurs' /\ StartSeesOurs' /\ SignsWithOurs'
    BY <1>6, <2>1 DEF FreshCopyIsOurs, StartSeesOurs, SignsWithOurs, CopyIsOf
  <2> QED BY <1>1, <2>2, <2>3
<1> QED BY <1>2, <1>3, <1>4, <1>5, <1>6 DEF CopyPem, CopyCert, MitmStops

(***************************************************************************)
(* Everything is cut off, or the user deletes or puts back files.          *)
(***************************************************************************)
LEMMA MishapsKeep ==
  ASSUME CaInv, Death \/ Delete \/ PutBack, trustTold' = NoFile,
         UNCHANGED <<platform, copied, store, made>>
  PROVE  CaInv'
<1> USE CertificatesAssumption DEF CaInv
<1>m. mishaps' \in 0 .. MaxMishaps
  BY DEF Death, Delete, PutBack, Mishap, CaTypeOK
<1>1. TrustIsTrue'
  BY DEF TrustIsTrue
<1>2. CASE Death
  <2>1. /\ mitm' = OffMitm /\ mitm'.at = "off" /\ UNCHANGED <<key, cert, clock>>
        /\ caller' = [c \in Generators |-> IdleCaller] /\ \A c \in Generators : caller'[c].at = "idle"
        /\ clashed \subseteq clashed' /\ clashed' \in SUBSET {"pair", "copy", "date"}
        /\ "pair" \notin clashed' => \A c \in Generators : caller[c].at # "cert"
    BY <1>2 DEF Death, OffMitm, IdleCaller, CaTypeOK
  <2>5. /\ caller' \in [Generators -> [at : {"idle", "generate", "key", "cert", "install", "trust"},
                                      pair : PairIds \cup {NoFile}]]
        /\ mitm' \in [at : {"off", "pem", "cert", "spawn", "on"},
                      saw : (PairIds \X PairIds) \cup {NoFile},
                      signs : (PairIds \X PairIds) \cup {NoFile}, fooled : BOOLEAN]
    BY <2>1 DEF IdleCaller, OffMitm
  <2>6. /\ copied' = copied /\ platform' = platform /\ store' = store /\ made' = made
        /\ key' = key /\ cert' = cert /\ clock' = clock /\ trustTold' = NoFile
    BY <2>1
  <2>2. CaTypeOK'
    BY <1>m, <2>5, <2>6, <2>1 DEF CaTypeOK
  <2>3. NumbersAreSpent' /\ KeyIsTheWriters' /\ PairIsWhole'
    BY <2>1 DEF NumbersAreSpent, KeyIsTheWriters, PairIsWhole, BothExist
  <2>4. FreshCopyIsOurs' /\ StartSeesOurs' /\ SignsWithOurs'
    BY <2>1 DEF FreshCopyIsOurs, StartSeesOurs, SignsWithOurs, CopyIsOf
  <2> QED BY <1>1, <2>2, <2>3, <2>4
<1>3. CASE Delete
  <2>1. /\ CaQuiet /\ UNCHANGED <<caller, mitm, clock, clashed>>
        /\ \/ key' = NoFile /\ cert' = cert
           \/ cert' = NoFile /\ key' = key
    BY <1>3 DEF Delete
  <2>2. CaTypeOK'
    BY <1>m, <2>1 DEF CaTypeOK
  <2>3. NumbersAreSpent' /\ KeyIsTheWriters' /\ PairIsWhole'
    BY <2>1 DEF NumbersAreSpent, KeyIsTheWriters, PairIsWhole, BothExist, CaQuiet
  <2>4. cert' = cert /\ cert # NoFile => cert.pair # NoFile
    BY DEF CaTypeOK, Stamped
  <2>5. FreshCopyIsOurs' /\ StartSeesOurs' /\ SignsWithOurs'
    BY <2>1, <2>4 DEF FreshCopyIsOurs, StartSeesOurs, SignsWithOurs, CopyIsOf, CaQuiet
  <2> QED BY <1>1, <2>2, <2>3, <2>5
<1>4. CASE PutBack
  <2>1. PICK p \in 1 .. made, at \in {0, clock'} :
          /\ key' = p /\ cert' = [pair |-> p, at |-> at]
          /\ clashed' = (clashed \ {"date"}) \cup (IF LooksFresh(at) THEN {"date"} ELSE {})
    BY <1>4 DEF PutBack
  <2>2. /\ CaQuiet /\ clock' = clock + 1 /\ UNCHANGED <<caller, mitm>>
        /\ made \in 0 .. MaxPairs /\ clock \in Nat
    BY <1>4 DEF PutBack, CaTypeOK
  <2>3. /\ p \in PairIds /\ p <= made /\ cert' \in Stamped /\ cert' # NoFile
        /\ cert'.pair = p /\ cert'.at = at /\ at <= clock' /\ clock' \in Nat
        /\ clashed \ {"date"} \subseteq clashed' /\ clashed' \subseteq clashed \cup {"date"}
    BY <2>1, <2>2 DEF PairIds, Stamped
  <2>4. CaTypeOK'
    BY <1>m, <2>1, <2>2, <2>3 DEF CaTypeOK
  <2>5. NumbersAreSpent'
    BY <2>1, <2>2, <2>3 DEF NumbersAreSpent, CaTypeOK, Stamped
  <2>6. KeyIsTheWriters' /\ PairIsWhole'
    BY <2>1, <2>2, <2>3 DEF KeyIsTheWriters, PairIsWhole, CaQuiet
  <2>7. "date" \notin clashed' => ~(copied.cert # NoFile /\ copied.cert.at >= cert'.at)
    BY <2>1, <2>3 DEF LooksFresh
  <2>8. FreshCopyIsOurs' /\ StartSeesOurs' /\ SignsWithOurs'
    BY <2>2, <2>3, <2>7 DEF FreshCopyIsOurs, StartSeesOurs, SignsWithOurs, CaQuiet
  <2> QED BY <1>1, <2>4, <2>5, <2>6, <2>8
<1> QED BY <1>2, <1>3, <1>4

LEMMA CaStepInv == CaInv /\ [CaNext]_caVars => CaInv'
<1> SUFFICES ASSUME CaInv, [CaNext]_caVars PROVE CaInv'
  OBVIOUS
<1>1. CASE UNCHANGED caVars
  BY <1>1 DEF caVars, CaInv, CaTypeOK, NumbersAreSpent, KeyIsTheWriters, PairIsWhole, BothExist,
     FreshCopyIsOurs, StartSeesOurs, SignsWithOurs, TrustIsTrue, CopyIsOf
<1> QED BY <1>1, CallersKeep, WriteKeyKeeps, WriteCertKeeps, StartKeeps, MishapsKeep DEF CaNext

(***************************************************************************)
(* For any callers, generations, deaths, deletions and restores: key and   *)
(* certificate are of one pair, mitmdump signs with the pair that was on   *)
(* disk (but for a start fooled by the date of a restored one), and a      *)
(* launch that says the certificate is trusted is right, with the          *)
(* exceptions named (interceptor.py, cert_manager.py, proxy.py).           *)
(***************************************************************************)
THEOREM CertificatesSound == CaSpec => []CertificatesAreSound
<1>1. CaInv => CertificatesAreSound
  BY DEF CaInv, CertificatesAreSound
<1> QED BY CaInitInv, CaStepInv, <1>1, PTL DEF CaSpec

-----------------------------------------------------------------------------
(***************************************************************************)
(* The setup wizard and the installer (SetupWizard).                       *)
(***************************************************************************)

(***************************************************************************)
(* A run has not ended well before it ends, and until then the file is     *)
(* what it was, unless the application wrote.                              *)
(***************************************************************************)
BeforeWriting ==
  /\ before.config \in Configs \cup {NoConfig, Unreadable}
  /\ wizardAt # "ended" => exit = "none" /\ (meddled \/ config = before.config)
  /\ config = NoConfig => before.config = NoConfig
  /\ wizardAt = "write" /\ ~meddled =>
       read = IF before.config = Unreadable THEN NoConfig ELSE before.config

(***************************************************************************)
(* What each step of the installs leaves for the next.                     *)
(***************************************************************************)
InstallsProgress ==
  /\ wizardAt \in {"model", "ollama", "pull", "read", "write"} => Picked \subseteq installed
  /\ wizardAt \in {"ollama", "pull", "read", "write"} /\ picks.ner => "gliner" \in installed
  /\ wizardAt = "pull" => HasOllama /\ picks.preset \in Presets
  /\ wizardAt \in {"read", "write"} /\ picks.preset # NoPreset =>
       ModelOf[picks.preset] \in installed \/ warned

(***************************************************************************)
(* A run nobody answers gets no further than the plan, and to Ollama only  *)
(* if a flag asks for the third tier; the two programs ask their own       *)
(* questions.                                                              *)
(***************************************************************************)
Unanswered ==
  ~unattended /\ ~answered /\ wizardAt # "ended" =>
    \/ wizardAt \in IF who = "setup" THEN {"preset", "browser", "confirm"} ELSE {"tier", "confirm"}
    \/ "tier" \in flags /\ wizardAt \in {"preset", "early"}

OwnQuestions ==
  IF who = "setup" THEN wizardAt \notin {"tier", "early"} ELSE wizardAt # "browser"

SetupInv ==
  /\ SetupTypeOK /\ BeforeWriting /\ InstallsProgress /\ Unanswered /\ OwnQuestions
  /\ ConfigComesLast /\ EofInstallsNothing /\ OtherSettingsStay

(***************************************************************************)
(* Until a run writes, the file it found is the file there is.             *)
(***************************************************************************)
LEMMA FileRests ==
  ASSUME SetupInv, wizardAt # "ended", UNCHANGED <<config, before, meddled>>,
         wizardAt' = "ended" \/ exit' = exit,
         wizardAt' = "write" => read' = IF config = Unreadable THEN NoConfig ELSE config
  PROVE  BeforeWriting' /\ ConfigComesLast' /\ OtherSettingsStay'
<1>1. /\ before.config \in Configs \cup {NoConfig, Unreadable}
      /\ exit = "none" /\ (~meddled => config = before.config)
      /\ config = NoConfig => before.config = NoConfig
  BY DEF SetupInv, BeforeWriting
<1>2. ~meddled' => ~meddled
  BY Zenon
<1>3. BeforeWriting'
  BY <1>1, <1>2 DEF BeforeWriting
<1>4. ConfigComesLast'
  BY <1>1, <1>2 DEF ConfigComesLast
<1>5. OtherSettingsStay'
  BY <1>1, <1>2 DEF OtherSettingsStay
<1> QED BY <1>3, <1>4, <1>5

(***************************************************************************)
(* The answer to a question: nobody's, if stdin has ended.                 *)
(***************************************************************************)
LEMMA AsksTells ==
  ASSUME SetupInv, Asks, UNCHANGED unattended
  PROVE  /\ answered' \in BOOLEAN /\ (~unattended' <=> ~unattended)
         /\ ~answered' => ~answered
         /\ ~answered' /\ ~unattended => eof
BY Zenon DEF SetupInv, SetupTypeOK, Asks

LEMMA RepliesAre ==
  ASSUME SetupInv, NEW default \in BOOLEAN
  PROVE  /\ Replies(default) \subseteq BOOLEAN
         /\ ~unattended /\ eof => Replies(default) = {FALSE}
BY DEF SetupInv, SetupTypeOK, Replies

LEMMA AnswersAre ==
  ASSUME SetupInv, NEW question
  PROVE  /\ AnswersTo(question) \subseteq BOOLEAN
         /\ ~unattended /\ eof /\ question \notin flags => AnswersTo(question) = {FALSE}
<1>1. /\ Replies(TRUE) \subseteq BOOLEAN
      /\ ~unattended /\ eof => Replies(TRUE) = {FALSE}
  BY RepliesAre
<1> QED BY <1>1 DEF AnswersTo

LEMMA AskedOrNot ==
  ASSUME SetupInv, Asks \/ UNCHANGED answered, UNCHANGED unattended
  PROVE  /\ answered' \in BOOLEAN /\ (~unattended' <=> ~unattended)
         /\ ~answered' => ~answered
<1>1. CASE Asks
  BY <1>1, AsksTells
<1>2. CASE UNCHANGED answered
  BY <1>2, Zenon DEF SetupInv, SetupTypeOK
<1> QED BY <1>1, <1>2

LEMMA QuestionKeeps ==
  ASSUME SetupInv, Asks \/ UNCHANGED answered, wizardAt \in Asking, picks' \in Stacks,
         wizardAt' \in Asking \cup {"early", "extras", "ended"},
         (wizardAt' = "ended" /\ exit' \in {"aborted"}) \/ exit' = exit,
         UNCHANGED <<talk, eof, installs, files, before, warned, meddled, bounded>>,
         Unanswered', OwnQuestions'
  PROVE  SetupInv'
<1>1. UNCHANGED <<who, unattended, flags, eof, installed, daemon, config, read, memory, before,
                  warned, meddled, setups, breaks>>
  BY DEF talk, installs, files, bounded
<1>2. /\ answered' \in BOOLEAN /\ (~unattended' <=> ~unattended)
      /\ ~answered' => ~answered
  BY <1>1, AskedOrNot
<1>3. SetupTypeOK'
  BY <1>1, <1>2 DEF SetupInv, SetupTypeOK, Asking, InstallSteps
<1>4. BeforeWriting' /\ ConfigComesLast' /\ OtherSettingsStay'
  BY <1>1, FileRests DEF Asking
<1>5. InstallsProgress'
  BY DEF InstallsProgress, Asking
<1>6. EofInstallsNothing'
  BY <1>1, <1>2 DEF SetupInv, EofInstallsNothing
<1> QED BY <1>3, <1>4, <1>5, <1>6 DEF SetupInv

LEMMA AskTierKeeps == ASSUME SetupInv, AskTier PROVE SetupInv'
<1>1. PICK n \in AnswersTo("features"), b \in AnswersTo("features"), third \in AnswersTo("tier") :
        /\ picks' = [picks EXCEPT !.ner = n, !.browser = b]
        /\ Step(IF third THEN "preset" ELSE "confirm")
  BY DEF AskTier
<1>2. /\ wizardAt = "tier"
      /\ UNCHANGED <<talk, eof, installs, files, before, warned, meddled, bounded>>
  BY DEF AskTier
<1>3. Asks \/ UNCHANGED answered
  BY DEF AskTier, AsksUnless
<1>4. n \in BOOLEAN /\ b \in BOOLEAN /\ third \in BOOLEAN
  BY AnswersAre
<1>5. picks' \in Stacks
  BY <1>1, <1>4 DEF SetupInv, SetupTypeOK, Stacks
<1>6. /\ wizardAt' \in {"preset", "confirm"} /\ exit' = exit
      /\ ~third => wizardAt' = "confirm"
  BY <1>1, <1>4 DEF Step
<1>7. UNCHANGED <<who, unattended, flags, eof>> /\ who = "installer"
  BY <1>2 DEF talk, SetupInv, OwnQuestions, SetupTypeOK
<1>8. ASSUME ~unattended, ~answered', "tier" \notin flags PROVE ~third
  <2>1. Asks
    BY <1>8 DEF AskTier, AsksUnless
  <2>2. eof
    BY <1>7, <1>8, <2>1, AsksTells
  <2> QED BY <1>8, <2>2, AnswersAre
<1>9. Unanswered'
  BY <1>6, <1>7, <1>8, Zenon DEF Unanswered
<1>10. OwnQuestions'
  BY <1>6, <1>7 DEF OwnQuestions
<1> QED BY <1>2, <1>3, <1>5, <1>6, <1>9, <1>10, QuestionKeeps DEF Asking

LEMMA PickPresetKeeps == ASSUME SetupInv, PickPreset PROVE SetupInv'
<1>1. /\ wizardAt = "preset" /\ Step(IF who = "setup" THEN "browser" ELSE "early")
      /\ UNCHANGED <<talk, eof, installs, files, before, warned, meddled, bounded>>
  BY DEF PickPreset
<1>2. PICK p \in Presets \cup {NoPreset} : picks' = [picks EXCEPT !.preset = p]
  BY DEF PickPreset
<1>3. picks' \in Stacks
  BY <1>2 DEF SetupInv, SetupTypeOK, Stacks
<1>4. /\ UNCHANGED <<who, unattended, flags, eof>> /\ exit' = exit
      /\ wizardAt' = IF who = "setup" THEN "browser" ELSE "early"
      /\ who \in {"setup", "installer"}
  BY <1>1 DEF talk, Step, SetupInv, SetupTypeOK
<1>5. Asks \/ UNCHANGED answered
  BY DEF PickPreset, AsksUnless
<1>6. Unanswered'
  <2>1. ~answered' => ~answered
    BY <1>4, <1>5, AskedOrNot
  <2>2. who = "installer" => unattended \/ answered \/ "tier" \in flags
    BY <1>1 DEF SetupInv, Unanswered
  <2> QED BY <1>4, <2>1, <2>2 DEF Unanswered
<1>7. OwnQuestions'
  BY <1>4 DEF OwnQuestions
<1> QED BY <1>1, <1>3, <1>4, <1>5, <1>6, <1>7, QuestionKeeps DEF Asking

LEMMA AskBrowserKeeps == ASSUME SetupInv, AskBrowser PROVE SetupInv'
<1>1. /\ wizardAt = "browser" /\ Asks /\ Step("confirm")
      /\ UNCHANGED <<talk, eof, installs, files, before, warned, meddled, bounded>>
  BY DEF AskBrowser
<1>2. PICK b \in BOOLEAN : picks' = [picks EXCEPT !.browser = b]
  BY RepliesAre DEF AskBrowser
<1>3. picks' \in Stacks
  BY <1>2 DEF SetupInv, SetupTypeOK, Stacks
<1>4. UNCHANGED <<who, unattended, flags, eof>> /\ exit' = exit /\ wizardAt' = "confirm"
  BY <1>1 DEF talk, Step
<1>5. Unanswered' /\ OwnQuestions'
  BY <1>4 DEF Unanswered, OwnQuestions
<1> QED BY <1>1, <1>3, <1>4, <1>5, QuestionKeeps DEF Asking

LEMMA ConfirmKeeps == ASSUME SetupInv, Confirm PROVE SetupInv'
<1>1. /\ wizardAt = "confirm" /\ Asks
      /\ UNCHANGED <<chosen, installs, files, before, warned, meddled, bounded>>
  BY DEF Confirm
<1>2. UNCHANGED <<who, unattended, flags, picks, eof>> /\ UNCHANGED talk
  BY <1>1 DEF chosen, talk
<1>3. \/ wizardAt' = "extras" /\ exit' = exit /\ (unattended \/ ~eof)
      \/ wizardAt' = "ended" /\ exit' = "aborted"
  <2>1. PICK go \in (IF unattended THEN {TRUE} ELSE Replies(TRUE)) :
          IF go THEN Step("extras") ELSE Ends("aborted")
    BY DEF Confirm
  <2>2. go \in BOOLEAN /\ (~unattended /\ eof => ~go)
    BY <2>1, RepliesAre
  <2>3. CASE go
    BY <2>1, <2>2, <2>3, Zenon DEF Step
  <2>4. CASE ~go
    BY <2>1, <2>4, Zenon DEF Ends
  <2> QED BY <2>3, <2>4
<1>4. wizardAt' = "extras" => unattended \/ answered'
  BY <1>1, <1>2, <1>3, AsksTells
<1>5. Unanswered' /\ OwnQuestions'
  BY <1>2, <1>3, <1>4 DEF Unanswered, OwnQuestions
<1>6. picks' \in Stacks
  BY <1>2 DEF SetupInv, SetupTypeOK
<1> QED BY <1>1, <1>2, <1>3, <1>4, <1>5, <1>6, QuestionKeeps DEF Asking

(***************************************************************************)
(* A step of the installs, which somebody asked for.                       *)
(***************************************************************************)
LEMMA InstallKeeps ==
  ASSUME SetupInv, wizardAt \in InstallSteps, UNCHANGED <<talk, eof, config, memory>>,
         UNCHANGED <<before, meddled, bounded>>,
         Asks \/ UNCHANGED answered, warned' \in BOOLEAN,
         picks' \in Stacks, daemon' \in BOOLEAN,
         installed' \subseteq {"ner", "browser", "gliner", "ollama"} \cup Models,
         installed' \cap Models # {} => "ollama" \in installed',
         wizardAt' \in {"confirm", "model", "ollama", "pull", "read", "write", "ended"},
         (wizardAt' = "ended" /\ exit' \in {"failed", "cancelled", "done"}) \/ exit' = exit,
         read' = read \/ read' \in Configs \cup {NoConfig},
         wizardAt' = "write" => read' = IF config = Unreadable THEN NoConfig ELSE config,
         InstallsProgress', Unanswered', EofInstallsNothing'
  PROVE  SetupInv'
<1>1. UNCHANGED <<who, unattended, flags, eof, config, memory, before, meddled, setups, breaks>>
  BY DEF talk, bounded
<1>2. answered' \in BOOLEAN
  BY <1>1, AskedOrNot
<1>3. SetupTypeOK'
  BY <1>1, <1>2 DEF SetupInv, SetupTypeOK, Asking, InstallSteps
<1>4. BeforeWriting' /\ ConfigComesLast' /\ OtherSettingsStay'
  <2>1. wizardAt # "ended"
    BY DEF InstallSteps
  <2> QED BY <1>1, <2>1, FileRests
<1>5. OwnQuestions'
  BY <1>1 DEF OwnQuestions
<1> QED BY <1>3, <1>4, <1>5 DEF SetupInv

(***************************************************************************)
(* Beyond the plan, somebody has answered, or nobody was to.               *)
(***************************************************************************)
LEMMA BeyondThePlan ==
  ASSUME SetupInv, wizardAt \in InstallSteps \ {"early"}, UNCHANGED <<unattended, answered>>
  PROVE  Unanswered' /\ EofInstallsNothing'
<1>1. unattended \/ answered
  BY DEF InstallSteps, SetupInv, Unanswered
<1>2. unattended' \/ answered'
  BY <1>1, Zenon
<1> QED BY <1>2 DEF Unanswered, EofInstallsNothing

LEMMA EarlyOllamaKeeps == ASSUME SetupInv, EarlyOllama PROVE SetupInv'
<1>1. /\ wizardAt = "early" /\ wizardAt' = "confirm" /\ exit' = exit
      /\ UNCHANGED <<talk, eof, daemon, files, before, meddled, bounded>>
  BY DEF EarlyOllama, Step
<1>2. UNCHANGED <<config, memory, read, daemon>>
  BY <1>1 DEF files
<1>3. InstallsProgress'
  BY <1>1 DEF InstallsProgress
<1>4. /\ picks \in Stacks /\ daemon \in BOOLEAN /\ warned \in BOOLEAN
      /\ installed \subseteq {"ner", "browser", "gliner", "ollama"} \cup Models
      /\ installed \cap Models # {} => "ollama" \in installed
  BY DEF SetupInv, SetupTypeOK
<1>5. [picks EXCEPT !.preset = NoPreset] \in Stacks
  BY <1>4 DEF Stacks
<1>6. /\ Asks \/ UNCHANGED answered
      /\ installed' = installed \/ installed' = installed \cup {"ollama"}
      /\ picks' \in {picks, [picks EXCEPT !.preset = NoPreset]}
      /\ warned' = warned \/ warned' = TRUE
  BY DEF EarlyOllama
<1>7. UNCHANGED <<who, unattended, flags>> /\ (~answered' => ~answered)
  <2>1. UNCHANGED <<who, unattended, flags>>
    BY <1>1 DEF talk
  <2> QED BY <1>6, <2>1, AskedOrNot
<1>8. Unanswered' /\ EofInstallsNothing'
  <2>1. ~unattended /\ ~answered => "tier" \in flags
    BY <1>1 DEF SetupInv, Unanswered
  <2>2. EofInstallsNothing'
    BY <1>1, <1>2, <1>6, <1>7, <2>1 DEF SetupInv, EofInstallsNothing
  <2>3. Unanswered'
    BY <1>1, <1>7 DEF Unanswered
  <2> QED BY <2>2, <2>3
<1>9. picks' \in Stacks /\ warned' \in BOOLEAN
  <2>1. picks' \in Stacks
    BY <1>4, <1>5, <1>6
  <2>2. warned' \in BOOLEAN
    BY <1>4, <1>6, Zenon
  <2> QED BY <2>1, <2>2
<1>10. /\ installed' \subseteq {"ner", "browser", "gliner", "ollama"} \cup Models
       /\ installed' \cap Models # {} => "ollama" \in installed'
  BY <1>4, <1>6, SetupAssumption
<1> QED BY <1>1, <1>2, <1>3, <1>4, <1>6, <1>8, <1>9, <1>10, InstallKeeps DEF InstallSteps

LEMMA InstallExtrasKeeps == ASSUME SetupInv, InstallExtras PROVE SetupInv'
<1>1. /\ wizardAt = "extras" /\ UNCHANGED <<chosen, daemon, files, story, bounded>>
      /\ \/ installed' = installed \cup Picked /\ wizardAt' = "model" /\ exit' = exit
         \/ UNCHANGED installed /\ wizardAt' = "ended" /\ exit' = "failed"
  BY DEF InstallExtras, Step, FailsAt, Ends
<1>2. UNCHANGED <<talk, unattended, eof, picks, config, memory, read, daemon, before, meddled,
                  answered, warned>>
  BY <1>1 DEF files, chosen, story, talk
<1>3. /\ picks \in Stacks /\ daemon \in BOOLEAN /\ warned \in BOOLEAN
      /\ installed \subseteq {"ner", "browser", "gliner", "ollama"} \cup Models
      /\ installed \cap Models # {} => "ollama" \in installed
  BY DEF SetupInv, SetupTypeOK
<1>4. Picked \subseteq {"ner", "browser"} /\ Picked \cap Models = {}
  BY SetupAssumption DEF Picked
<1>5. InstallsProgress'
  BY <1>1, <1>2 DEF InstallsProgress, Picked
<1> QED BY <1>1, <1>2, <1>3, <1>4, <1>5, InstallKeeps, BeyondThePlan DEF InstallSteps

LEMMA CacheModelKeeps == ASSUME SetupInv, CacheModel PROVE SetupInv'
<1>1. /\ wizardAt = "model" /\ UNCHANGED <<chosen, daemon, files, story, bounded>>
      /\ \/ /\ installed' = installed \cup (IF picks.ner THEN {"gliner"} ELSE {})
            /\ wizardAt' = "ollama" /\ exit' = exit
         \/ UNCHANGED installed /\ wizardAt' = "ended" /\ exit' = "failed"
  BY DEF CacheModel, Step, FailsAt, Ends
<1>2. UNCHANGED <<talk, unattended, eof, picks, config, memory, read, daemon, before, meddled,
                  answered, warned>>
  BY <1>1 DEF files, chosen, story, talk
<1>3. /\ picks \in Stacks /\ daemon \in BOOLEAN /\ warned \in BOOLEAN
      /\ installed \subseteq {"ner", "browser", "gliner", "ollama"} \cup Models
      /\ installed \cap Models # {} => "ollama" \in installed
  BY DEF SetupInv, SetupTypeOK
<1>4. "gliner" \notin Models
  BY SetupAssumption
<1>5. InstallsProgress'
  BY <1>1, <1>2 DEF InstallsProgress, Picked, SetupInv
<1> QED BY <1>1, <1>2, <1>3, <1>4, <1>5, InstallKeeps, BeyondThePlan DEF InstallSteps

LEMMA LateOllamaKeeps == ASSUME SetupInv, LateOllama PROVE SetupInv'
<1>1. /\ wizardAt = "ollama" /\ exit' = exit /\ wizardAt' \in {"read", "pull"}
      /\ UNCHANGED <<chosen, daemon, files, answered, before, meddled, bounded>>
      /\ installed' = installed \/ installed' = installed \cup {"ollama"}
  BY DEF LateOllama, Step
<1>2. UNCHANGED <<talk, unattended, answered, eof, picks, config, memory, read, daemon>>
  BY <1>1 DEF files, chosen, talk
<1>3. /\ picks \in Stacks /\ picks.preset \in Presets \cup {NoPreset}
      /\ daemon \in BOOLEAN /\ warned \in BOOLEAN
      /\ installed \subseteq {"ner", "browser", "gliner", "ollama"} \cup Models
      /\ installed \cap Models # {} => "ollama" \in installed
  BY DEF SetupInv, SetupTypeOK, Stacks
<1>4. warned' \in BOOLEAN
  BY <1>3, Zenon DEF LateOllama
<1>5. /\ wizardAt' = "pull" => "ollama" \in installed' /\ picks.preset \in Presets
      /\ wizardAt' = "read" => picks.preset = NoPreset \/ warned' = TRUE
  BY <1>3 DEF LateOllama, Step, HasOllama
<1>6. InstallsProgress'
  BY <1>1, <1>2, <1>5 DEF InstallsProgress, Picked, HasOllama, SetupInv
<1> QED BY <1>1, <1>2, <1>3, <1>4, <1>6, InstallKeeps, BeyondThePlan, SetupAssumption DEF InstallSteps

LEMMA PullKeeps == ASSUME SetupInv, Pull PROVE SetupInv'
<1>1. /\ wizardAt = "pull" /\ exit' = exit /\ wizardAt' = "read"
      /\ UNCHANGED <<chosen, files, answered, before, meddled, bounded>>
      /\ installed' = installed \/ installed' = installed \cup {ModelOf[picks.preset]}
  BY DEF Pull, Step, installs
<1>2. UNCHANGED <<talk, unattended, answered, eof, picks, config, memory, read>>
  BY <1>1 DEF files, chosen, talk
<1>3. /\ picks \in Stacks /\ daemon \in BOOLEAN /\ warned \in BOOLEAN
      /\ installed \subseteq {"ner", "browser", "gliner", "ollama"} \cup Models
      /\ "ollama" \in installed /\ picks.preset \in Presets /\ ModelOf[picks.preset] \in Models
  BY <1>1 DEF SetupInv, SetupTypeOK, InstallsProgress, HasOllama, Models
<1>4. daemon' \in BOOLEAN /\ warned' \in BOOLEAN
  BY <1>3, Zenon DEF Pull, installs
<1>5. ModelOf[picks.preset] \in installed' \/ warned' = TRUE
  BY DEF Pull, installs
<1>6. InstallsProgress'
  BY <1>1, <1>2, <1>5 DEF InstallsProgress, Picked, SetupInv
<1> QED BY <1>1, <1>2, <1>3, <1>4, <1>6, InstallKeeps, BeyondThePlan DEF InstallSteps

LEMMA ReadConfigKeeps == ASSUME SetupInv, ReadConfig PROVE SetupInv'
<1>1. /\ wizardAt = "read" /\ read' = IF config = Unreadable THEN NoConfig ELSE config
      /\ \/ wizardAt' = "ended" /\ exit' = "done"
         \/ wizardAt' = "write" /\ exit' = exit
      /\ UNCHANGED <<chosen, installs, config, memory, story, bounded>>
  BY DEF ReadConfig, Ends, Step
<1>2. UNCHANGED <<talk, unattended, eof, picks, installed, daemon, config, memory, before, meddled, answered,
                  warned>>
  BY <1>1 DEF chosen, installs, story, talk
<1>3. /\ picks \in Stacks /\ daemon \in BOOLEAN /\ warned \in BOOLEAN
      /\ installed \subseteq {"ner", "browser", "gliner", "ollama"} \cup Models
      /\ installed \cap Models # {} => "ollama" \in installed
      /\ config \in Configs \cup {NoConfig, Unreadable}
  BY DEF SetupInv, SetupTypeOK
<1>4. read' \in Configs \cup {NoConfig}
  BY <1>1, <1>3
<1>5. InstallsProgress'
  BY <1>1, <1>2 DEF InstallsProgress, Picked, SetupInv
<1> QED BY <1>1, <1>2, <1>3, <1>4, <1>5, InstallKeeps, BeyondThePlan DEF InstallSteps

(***************************************************************************)
(* The writes: by the run, and by the application it runs beside.          *)
(***************************************************************************)
LEMMA MergedTypes ==
  ASSUME SetupInv
  PROVE  /\ MergedInto(read) \in Configs
         /\ MergedInto(read).keys = KeysFor(picks.preset)
         /\ who = "setup" => MergedInto(read).ner = picks.ner /\ MergedInto(read).browser = picks.browser
         /\ read # NoConfig => MergedInto(read).other = read.other
<1> DEFINE old == IF read = NoConfig THEN BareConfig("default") ELSE read
<1>1. /\ picks.ner \in BOOLEAN /\ picks.browser \in BOOLEAN
      /\ picks.preset \in Presets \cup {NoPreset}
  BY DEF SetupInv, SetupTypeOK, Stacks
<1>2. old \in Configs /\ (read # NoConfig => old = read)
  BY DEF SetupInv, SetupTypeOK, Configs, BareConfig
<1>3. KeysFor(picks.preset) \subseteq StackKeys
  BY <1>1 DEF KeysFor, StackKeys
<1>4. MergedInto(read) = Choices(old)
  BY DEF MergedInto
<1> HIDE DEF old
<1> QED BY <1>1, <1>2, <1>3, <1>4 DEF Choices, Configs

LEMMA WriteConfigKeeps == ASSUME SetupInv, WriteConfig PROVE SetupInv'
<1>1. /\ wizardAt = "write" /\ wizardAt' = "ended" /\ exit' = "done"
      /\ config' = MergedInto(read)
      /\ UNCHANGED <<who, unattended, flags, picks, eof, installed, daemon, read, memory, before,
                     meddled, answered, warned, setups, breaks>>
  BY DEF WriteConfig, Ends, chosen, installs, story, bounded
<1>2. config' \in Configs /\ config' # NoConfig
  BY <1>1, MergedTypes, SetupAssumption
<1>3. SetupTypeOK'
  BY <1>1, <1>2 DEF SetupInv, SetupTypeOK
<1>4. BeforeWriting'
  BY <1>1, <1>2 DEF SetupInv, BeforeWriting
<1>5. InstallsProgress' /\ Unanswered' /\ OwnQuestions'
  BY <1>1 DEF SetupInv, InstallsProgress, Unanswered, OwnQuestions
<1>6. ConfigComesLast'
  <2>1. /\ config'.keys = KeysFor(picks.preset)
        /\ who = "setup" => config'.ner = picks.ner /\ config'.browser = picks.browser
    BY <1>1, MergedTypes
  <2>2. /\ Picked \subseteq installed /\ (picks.ner => "gliner" \in installed)
        /\ picks.preset # NoPreset => ModelOf[picks.preset] \in installed \/ warned
    BY <1>1 DEF SetupInv, InstallsProgress
  <2>3. ASSUME NEW k \in config'.keys
        PROVE  Resolves[k] \in installed \/ warned \/ Resolves[k] # ModelOf[picks.preset]
    BY <2>1, <2>2 DEF KeysFor
  <2> QED BY <1>1, <2>1, <2>2, <2>3 DEF ConfigComesLast, KeysFor, Picked
<1>7. EofInstallsNothing'
  BY <1>1 DEF SetupInv, EofInstallsNothing, Unanswered
<1>8. OtherSettingsStay'
  BY <1>1, MergedTypes DEF SetupInv, OtherSettingsStay, BeforeWriting
<1> QED BY <1>3, <1>4, <1>5, <1>6, <1>7, <1>8 DEF SetupInv

LEMMA KillInWriteKeeps == ASSUME SetupInv, KillInWrite PROVE SetupInv'
<1>1. /\ wizardAt = "write" /\ wizardAt' = "ended" /\ exit' = "killed" /\ config' = Unreadable
      /\ breaks < MaxBreaks /\ breaks' = breaks + 1
      /\ UNCHANGED <<who, unattended, flags, picks, eof, installed, daemon, read, memory, before,
                     meddled, answered, warned, setups>>
  BY DEF KillInWrite, Ends, chosen, installs, story
<1>2. breaks' \in 0 .. MaxBreaks
  BY <1>1, SetupAssumption DEF SetupInv, SetupTypeOK
<1>3. SetupTypeOK'
  BY <1>1, <1>2 DEF SetupInv, SetupTypeOK
<1>4. BeforeWriting'
  BY <1>1, SetupAssumption DEF SetupInv, BeforeWriting
<1>5. /\ InstallsProgress' /\ Unanswered' /\ OwnQuestions' /\ ConfigComesLast'
      /\ OtherSettingsStay'
  BY <1>1 DEF SetupInv, InstallsProgress, Unanswered, OwnQuestions, ConfigComesLast,
              OtherSettingsStay
<1>6. EofInstallsNothing'
  BY <1>1 DEF SetupInv, EofInstallsNothing, Unanswered
<1> QED BY <1>3, <1>4, <1>5, <1>6 DEF SetupInv

LEMMA AppSavesKeeps == ASSUME SetupInv, AppSaves PROVE SetupInv'
<1>1. /\ memory # NoConfig /\ config' = memory /\ meddled' = TRUE
      /\ UNCHANGED <<who, unattended, flags, picks, eof, wizardAt, exit, installed, daemon, read,
                     memory, before, answered, warned, setups, breaks>>
  BY DEF AppSaves, chosen, installs, bounded
<1>2. config' \in Configs /\ config' # NoConfig /\ meddled' \in BOOLEAN
  BY <1>1 DEF SetupInv, SetupTypeOK
<1>3. SetupTypeOK'
  BY <1>1, <1>2 DEF SetupInv, SetupTypeOK
<1>4. BeforeWriting' /\ ConfigComesLast' /\ OtherSettingsStay'
  BY <1>1, <1>2 DEF SetupInv, BeforeWriting, ConfigComesLast, OtherSettingsStay
<1>5. InstallsProgress' /\ Unanswered' /\ OwnQuestions' /\ EofInstallsNothing'
  BY <1>1 DEF SetupInv, InstallsProgress, Unanswered, OwnQuestions, EofInstallsNothing, Picked,
              HasOllama
<1> QED BY <1>3, <1>4, <1>5 DEF SetupInv

(***************************************************************************)
(* Steps that change nothing a run has established.                        *)
(***************************************************************************)
LEMMA AsideKeeps ==
  ASSUME SetupInv, StdinEnds \/ AppQuits \/ DaemonStops PROVE SetupInv'
<1>1. /\ UNCHANGED <<who, unattended, flags, picks, wizardAt, exit, installed, config, read, before,
                     meddled, answered, warned, setups, breaks>>
      /\ eof' = eof \/ eof' = TRUE
      /\ daemon' = daemon \/ daemon' = FALSE
      /\ memory' = memory \/ memory' = NoConfig
  BY DEF StdinEnds, AppQuits, DaemonStops, talk, chosen, installs, files, story, bounded
<1>2. eof' \in BOOLEAN /\ daemon' \in BOOLEAN
  BY <1>1, Zenon DEF SetupInv, SetupTypeOK
<1>3. SetupTypeOK'
  BY <1>1, <1>2 DEF SetupInv, SetupTypeOK
<1>4. BeforeWriting' /\ ConfigComesLast' /\ OtherSettingsStay'
  BY <1>1 DEF SetupInv, BeforeWriting, ConfigComesLast, OtherSettingsStay, Picked
<1>5. InstallsProgress' /\ Unanswered' /\ OwnQuestions' /\ EofInstallsNothing'
  BY <1>1 DEF SetupInv, InstallsProgress, Unanswered, OwnQuestions, EofInstallsNothing, Picked,
              HasOllama
<1> QED BY <1>3, <1>4, <1>5 DEF SetupInv

LEMMA CancelKeeps == ASSUME SetupInv, Cancel PROVE SetupInv'
<1>1. /\ wizardAt # "ended" /\ wizardAt' = "ended" /\ exit' = "cancelled"
      /\ UNCHANGED <<who, unattended, flags, picks, eof, installed, daemon, config, read, memory,
                     before, meddled, answered, warned, setups, breaks>>
  BY DEF Cancel, Ends, chosen, installs, files, story, bounded, Asking, InstallSteps
<1>2. SetupTypeOK'
  BY <1>1 DEF SetupInv, SetupTypeOK
<1>3. BeforeWriting' /\ ConfigComesLast' /\ OtherSettingsStay'
  BY <1>1, FileRests
<1>4. InstallsProgress' /\ Unanswered' /\ OwnQuestions' /\ EofInstallsNothing'
  BY <1>1 DEF SetupInv, InstallsProgress, Unanswered, OwnQuestions, EofInstallsNothing
<1> QED BY <1>2, <1>3, <1>4 DEF SetupInv

LEMMA BeginSetupKeeps ==
  ASSUME SetupInv, NEW w \in {"setup", "installer"}, NEW a \in BOOLEAN, BeginSetup(w, a)
  PROVE  SetupInv'
<1>1. /\ setups < MaxSetups /\ setups' = setups + 1
      /\ who' = w /\ unattended' = a /\ exit' = "none" /\ eof' \in BOOLEAN
      /\ flags' \subseteq {"features", "tier"}
      /\ wizardAt' = IF w = "setup" THEN "preset" ELSE "tier"
      /\ answered' = FALSE /\ warned' = FALSE /\ meddled' = FALSE
      /\ before' = [installed |-> installed, config |-> config]
      /\ UNCHANGED <<installed, daemon, config, read, memory, breaks>>
  BY DEF BeginSetup, installs, files
<1>2. picks' \in Stacks
  BY DEF BeginSetup, NoPicks, Stacks
<1>3. setups' \in 0 .. MaxSetups
  BY <1>1, SetupAssumption DEF SetupInv, SetupTypeOK
<1>4. unattended' \in BOOLEAN /\ answered' \in BOOLEAN /\ warned' \in BOOLEAN /\ meddled' \in BOOLEAN
  BY <1>1, Zenon
<1>5. SetupTypeOK'
  BY <1>1, <1>2, <1>3, <1>4 DEF SetupInv, SetupTypeOK, Asking
<1>6. before'.config = config /\ before'.installed = installed
  BY <1>1
<1>7. BeforeWriting' /\ ConfigComesLast' /\ OtherSettingsStay'
  BY <1>1, <1>5, <1>6 DEF BeforeWriting, ConfigComesLast, OtherSettingsStay, SetupTypeOK
<1>8. InstallsProgress' /\ Unanswered' /\ OwnQuestions' /\ EofInstallsNothing'
  BY <1>1, <1>6 DEF InstallsProgress, Unanswered, OwnQuestions, EofInstallsNothing
<1> QED BY <1>5, <1>7, <1>8 DEF SetupInv

LEMMA SetupInitInv == SetupInit => SetupInv
<1> SUFFICES ASSUME SetupInit PROVE SetupInv
  OBVIOUS
<1>1. /\ who = "setup" /\ unattended = FALSE /\ flags = {} /\ wizardAt = "ended" /\ exit = "none"
      /\ picks = NoPicks /\ eof = FALSE /\ daemon = FALSE
      /\ installed \in {{}, {"ollama"}} \cup {{"ollama", "ner", m} : m \in Models}
      /\ config \in {NoConfig, Unreadable, Earlier}
      /\ read = NoConfig /\ memory \in {NoConfig, config} /\ memory # Unreadable
      /\ answered = FALSE /\ warned = FALSE /\ meddled = FALSE
      /\ before = [installed |-> installed, config |-> config]
      /\ setups = 0 /\ breaks = 0
  BY DEF SetupInit
<1>2. picks \in Stacks
  BY <1>1 DEF NoPicks, Stacks
<1>3. /\ installed \subseteq {"ner", "browser", "gliner", "ollama"} \cup Models
      /\ installed \cap Models # {} => "ollama" \in installed
  BY <1>1, SetupAssumption
<1>4. config \in Configs \cup {NoConfig, Unreadable}
  BY <1>1 DEF Configs, Earlier, BareConfig
<1>5. SetupTypeOK
  <2>1. /\ unattended \in BOOLEAN /\ eof \in BOOLEAN /\ daemon \in BOOLEAN
        /\ answered \in BOOLEAN /\ warned \in BOOLEAN /\ meddled \in BOOLEAN
    BY <1>1, Zenon
  <2>2. {read, memory} \subseteq Configs \cup {NoConfig}
    BY <1>1, <1>4
  <2>3. setups \in 0 .. MaxSetups /\ breaks \in 0 .. MaxBreaks
    BY <1>1, SetupAssumption
  <2> QED BY <1>1, <1>2, <1>3, <1>4, <2>1, <2>2, <2>3 DEF SetupTypeOK
<1>6. BeforeWriting /\ ConfigComesLast /\ OtherSettingsStay
  BY <1>1, <1>4 DEF BeforeWriting, ConfigComesLast, OtherSettingsStay
<1>7. InstallsProgress /\ Unanswered /\ OwnQuestions /\ EofInstallsNothing
  BY <1>1 DEF InstallsProgress, Unanswered, OwnQuestions, EofInstallsNothing
<1> QED BY <1>5, <1>6, <1>7 DEF SetupInv

(***************************************************************************)
(* The configuration names what is installed, nothing is installed on an   *)
(* answer nobody gave, and other settings stay, whatever fails, is         *)
(* cancelled or killed, and whatever the application writes meanwhile.     *)
(***************************************************************************)
THEOREM SetupSound == SetupSpec => []SetupIsSound
<1>1. SetupInit => SetupInv
  BY SetupInitInv
<1>2. SetupInv /\ [SetupNext]_setupVars => SetupInv'
  <2> SUFFICES ASSUME SetupInv, [SetupNext]_setupVars PROVE SetupInv'
    OBVIOUS
  <2>1. CASE UNCHANGED setupVars
    BY <2>1 DEF setupVars, SetupInv, SetupTypeOK, BeforeWriting, InstallsProgress, Unanswered,
                OwnQuestions, ConfigComesLast, EofInstallsNothing, OtherSettingsStay, Picked,
                HasOllama
  <2>2. CASE SetupNext
    BY <2>2, BeginSetupKeeps, AskTierKeeps, PickPresetKeeps, AskBrowserKeeps, EarlyOllamaKeeps,
       ConfirmKeeps, InstallExtrasKeeps, CacheModelKeeps, LateOllamaKeeps, PullKeeps,
       ReadConfigKeeps, WriteConfigKeeps, CancelKeeps, KillInWriteKeeps, AsideKeeps,
       AppSavesKeeps DEF SetupNext
  <2> QED BY <2>1, <2>2
<1>3. SetupInv => SetupIsSound
  BY DEF SetupInv, SetupIsSound
<1> QED BY <1>1, <1>2, <1>3, PTL DEF SetupSpec

-----------------------------------------------------------------------------
(***************************************************************************)
(* The file of coined terms (TermFile).                                    *)
(***************************************************************************)

(***************************************************************************)
(* One map of terms to prefixes has what another has; and none of a map's  *)
(* prefixes is another's or a canonical one.                               *)
(***************************************************************************)
Contains(g, f) == \A t \in KnownTerms(f) : t \in KnownTerms(g) /\ g[t] = f[t]
Distinct(m) == IsInjective(m) /\ Used(m) \cap Canonical = {}

Registrations ==
  {Free} \cup [at : {"coined"}, term : Terms]
    \cup [at : {"merge"}, term : Terms, view : Maps, merged : Maps]
    \cup [at : {"replace"}, term : Terms, view : Maps]

TermVarsTyped ==
  /\ termFile \in Maps /\ faults \in 0 .. MaxFaults /\ raced \in BOOLEAN
  /\ terms \in [Processes -> Maps] /\ given \in [Processes -> Maps]
  /\ job \in [Processes -> Registrations]

(***************************************************************************)
(* What a process answered it knows; its terms and what it merges have     *)
(* prefixes of their own, and what it merges or is about to write has all  *)
(* it read.                                                                *)
(***************************************************************************)
StoreKept(p) ==
  /\ Distinct(terms[p]) /\ KnownTerms(given[p]) \subseteq KnownTerms(terms[p])
  /\ job[p].at # "free" => job[p].term \in KnownTerms(terms[p])
  /\ job[p].at = "merge" => Distinct(job[p].merged) /\ Contains(job[p].merged, job[p].view)
  /\ job[p].at = "replace" => Contains(terms[p], job[p].view)

(***************************************************************************)
(* Without faults and lost updates the file, and what a process read of    *)
(* it, has what the process answered; and all it knows when it rests.      *)
(***************************************************************************)
StoreAgrees(p) ==
  /\ Contains(termFile, given[p]) /\ Contains(terms[p], given[p])
  /\ job[p].at \in {"merge", "replace"} => Contains(job[p].view, given[p])
  /\ job[p].at = "free" => Contains(termFile, terms[p])

TermInv ==
  /\ TermVarsTyped /\ Distinct(termFile)
  /\ \A p \in Processes : StoreKept(p)
  /\ faults = 0 /\ ~raced => \A p \in Processes : StoreAgrees(p)

(***************************************************************************)
(* A map with one more term: its domain, its values, what it keeps.        *)
(***************************************************************************)
LEMMA MapFacts ==
  ASSUME NEW m \in Maps
  PROVE  /\ KnownTerms(m) \subseteq Terms /\ m \in [KnownTerms(m) -> Prefixes]
         /\ \A t \in KnownTerms(m) : m[t] \in Prefixes /\ m[t] \in Used(m)
         /\ Used(m) \subseteq Prefixes
BY DEF Maps, KnownTerms, Used, Range

LEMMA AssignFacts ==
  ASSUME NEW m \in Maps, NEW t \in Terms, NEW x \in Prefixes
  PROVE  /\ Assign(m, t, x) \in Maps
         /\ KnownTerms(Assign(m, t, x)) = KnownTerms(m) \cup {t}
         /\ Assign(m, t, x)[t] = x
         /\ \A u \in KnownTerms(m) : u # t => Assign(m, t, x)[u] = m[u]
<1>1. KnownTerms(m) \subseteq Terms /\ m \in [KnownTerms(m) -> Prefixes]
  BY MapFacts
<1>2. DOMAIN Assign(m, t, x) = KnownTerms(m) \cup {t}
  BY DEF Assign
<1>3. \A u \in KnownTerms(m) \cup {t} : Assign(m, t, x)[u] = IF u = t THEN x ELSE m[u]
  BY DEF Assign
<1>4. \A u \in KnownTerms(m) \cup {t} : Assign(m, t, x)[u] \in Prefixes
  BY <1>1, <1>3
<1>5. Assign(m, t, x) \in [KnownTerms(m) \cup {t} -> Prefixes]
  BY <1>2, <1>4 DEF Assign
<1>6. KnownTerms(m) \cup {t} \in SUBSET Terms
  BY <1>1
<1>7. Assign(m, t, x) \in Maps
  BY <1>5, <1>6 DEF Maps
<1> QED BY <1>2, <1>3, <1>7 DEF KnownTerms

LEMMA AssignAdds ==
  ASSUME NEW m \in Maps, NEW t \in Terms \ KnownTerms(m), NEW x \in Prefixes
  PROVE  /\ Contains(Assign(m, t, x), m)
         /\ Distinct(m) /\ x \notin Used(m) /\ x \notin Canonical => Distinct(Assign(m, t, x))
<1> DEFINE a == Assign(m, t, x)
<1>1. /\ KnownTerms(a) = KnownTerms(m) \cup {t} /\ a[t] = x
      /\ \A u \in KnownTerms(m) : a[u] = m[u]
  BY AssignFacts
<1> HIDE DEF a
<1>2. Contains(a, m)
  BY <1>1 DEF Contains
<1>3. ASSUME Distinct(m), x \notin Used(m), x \notin Canonical PROVE Distinct(a)
  <2>1. \A u, v \in KnownTerms(m) : m[u] = m[v] => u = v
    BY <1>3 DEF Distinct, IsInjective, KnownTerms
  <2>2. \A u \in KnownTerms(m) : m[u] # x /\ m[u] \notin Canonical
    BY <1>3, MapFacts DEF Distinct
  <2>3. IsInjective(a)
    BY <1>1, <2>1, <2>2 DEF IsInjective, KnownTerms
  <2>4. \A u \in KnownTerms(a) : a[u] \notin Canonical
    BY <1>1, <1>3, <2>2
  <2> QED BY <2>3, <2>4 DEF Distinct, Used, Range, KnownTerms
<1> QED BY <1>2, <1>3 DEF a

(***************************************************************************)
(* Every non-empty set of numbers has a least one.                         *)
(***************************************************************************)
LEMMA LeastNumber ==
  ASSUME NEW S \in SUBSET Nat, S # {}
  PROVE  \E m \in S : \A k \in S : m <= k
<1>1. PICK m \in S : \A k \in S : ~ (<<k, m>> \in OpToRel(<, Nat))
  BY NatLessThanWellFounded, WFMin
<1>2. \A k \in S : ~ (k < m)
  BY <1>1, Zenon DEF OpToRel
<1> QED
  BY <1>2

(***************************************************************************)
(* A map that lacks a term has used fewer prefixes than there are numbers: *)
(* one of any prefix's numbered forms is free.                             *)
(***************************************************************************)
LEMMA RoomForOneMore ==
  ASSUME NEW m \in Maps, NEW t \in Terms \ KnownTerms(m), NEW b \in Prefixes
  PROVE  \E n \in Numbers : Numbered[<<b, n>>] \notin Canonical \cup Used(m)
<1> SUFFICES ASSUME \A n \in Numbers : Numbered[<<b, n>>] \in Canonical \cup Used(m)
             PROVE  FALSE
  OBVIOUS
<1> DEFINE forms == {Numbered[<<b, n>>] : n \in Numbers}
<1>1. forms \in SUBSET Used(m)
  BY TermAssumption
<1>2. /\ KnownTerms(m) \in SUBSET (Terms \ {t})
      /\ IsFiniteSet(Terms) /\ Cardinality(Terms) <= Cardinality(forms)
  BY MapFacts, EnoughNumbers
<1> HIDE DEF forms
<1>3. IsFiniteSet(Terms \ {t}) /\ Cardinality(Terms \ {t}) = Cardinality(Terms) - 1
  BY <1>2, FS_RemoveElement
<1>4. IsFiniteSet(KnownTerms(m)) /\ Cardinality(KnownTerms(m)) <= Cardinality(Terms \ {t})
  BY <1>2, <1>3, FS_Subset
<1>5. m \in Surjection(KnownTerms(m), Used(m))
  <2>1. m \in [KnownTerms(m) -> Used(m)]
    BY MapFacts
  <2> QED BY <2>1 DEF Surjection, Used, Range, KnownTerms
<1>6. IsFiniteSet(Used(m)) /\ Cardinality(Used(m)) <= Cardinality(KnownTerms(m))
  BY <1>4, <1>5, FS_Surjection
<1>7. IsFiniteSet(forms) /\ Cardinality(forms) <= Cardinality(Used(m))
  BY <1>1, <1>6, FS_Subset
<1>8. /\ Cardinality(Terms) \in Nat /\ Cardinality(forms) \in Nat
      /\ Cardinality(Used(m)) \in Nat /\ Cardinality(KnownTerms(m)) \in Nat
  BY <1>2, <1>4, <1>6, <1>7, FS_CardinalityType
<1> QED BY <1>2, <1>3, <1>4, <1>6, <1>7, <1>8

(***************************************************************************)
(* What Unique gives is taken by no other term.                            *)
(***************************************************************************)
LEMMA UniqueIsFree ==
  ASSUME NEW m \in Maps, NEW t \in Terms \ KnownTerms(m), NEW b \in Prefixes,
         NEW taken, Used(m) \subseteq taken, taken \subseteq Canonical \cup Used(m),
         b \notin Canonical \/ Canonical \subseteq taken
  PROVE  LET x == Unique(b, taken)
         IN  x \in Prefixes /\ x \notin Used(m) /\ x \notin Canonical
<1> DEFINE open == {n \in Numbers : Numbered[<<b, n>>] \notin taken}
<1>1. CASE b \notin taken
  BY <1>1 DEF Unique
<1>2. CASE b \in taken
  <2>1. open \in SUBSET Nat /\ open # {}
    BY RoomForOneMore, TermAssumption
  <2> DEFINE n == CHOOSE k \in open : \A j \in open : k <= j
  <2>2. n \in open
    BY <2>1, LeastNumber
  <2>3. Unique(b, taken) = Numbered[<<b, n>>]
    BY <1>2, <2>1 DEF Unique
  <2> HIDE DEF n
  <2>4. n \in Numbers /\ Numbered[<<b, n>>] \notin taken
    BY <2>2
  <2> HIDE DEF open
  <2>5. Numbered[<<b, n>>] \in Prefixes /\ Numbered[<<b, n>>] \notin Canonical
    BY <2>4, TermAssumption
  <2> QED BY <2>3, <2>4, <2>5
<1> QED BY <1>1, <1>2

(***************************************************************************)
(* What holds of one process's store after a step of another's, which      *)
(* touches the file at most by adding to it.                               *)
(***************************************************************************)
LEMMA ContainsIsTransitive ==
  ASSUME NEW f, NEW g, NEW h, Contains(g, f), Contains(h, g)
  PROVE  Contains(h, f)
BY DEF Contains

LEMMA ContainsItself == ASSUME NEW f PROVE Contains(f, f)
BY DEF Contains

(***************************************************************************)
(* The invariant as one process's step leaves it: it is enough to look at  *)
(* that process and at what the file keeps.                                *)
(***************************************************************************)
TermRest(p) ==
  \A q \in Processes \ {p} : terms'[q] = terms[q] /\ given'[q] = given[q] /\ job'[q] = job[q]

LEMMA OneStoreMoves ==
  ASSUME TermInv, NEW p \in Processes, TermVarsTyped', Distinct(termFile)', TermRest(p),
         StoreKept(p)',
         (faults = 0 /\ ~raced)' =>
            faults = 0 /\ ~raced /\ Contains(termFile', termFile) /\ StoreAgrees(p)'
  PROVE  TermInv'
<1>1. \A q \in Processes : StoreKept(q)'
  <2> SUFFICES ASSUME NEW q \in Processes, q # p PROVE StoreKept(q)'
    OBVIOUS
  <2>1. terms'[q] = terms[q] /\ given'[q] = given[q] /\ job'[q] = job[q]
    BY DEF TermRest
  <2>2. StoreKept(q)
    BY DEF TermInv
  <2> QED BY <2>1, <2>2 DEF StoreKept
<1>2. ASSUME (faults = 0 /\ ~raced)', NEW q \in Processes PROVE StoreAgrees(q)'
  <2>1. CASE q = p
    BY <2>1, <1>2
  <2>2. CASE q # p
    <3>1. terms'[q] = terms[q] /\ given'[q] = given[q] /\ job'[q] = job[q]
      BY <2>2 DEF TermRest
    <3>2. StoreAgrees(q) /\ Contains(termFile', termFile)
      BY <1>2 DEF TermInv
    <3>3. Contains(termFile', given[q]) /\ (job[q].at = "free" => Contains(termFile', terms[q]))
      BY <3>2, ContainsIsTransitive DEF StoreAgrees
    <3> QED BY <3>1, <3>2, <3>3 DEF StoreAgrees
  <2> QED BY <2>1, <2>2
<1> QED BY <1>1, <1>2 DEF TermInv

(***************************************************************************)
(* A registration under way, by its state.                                 *)
(***************************************************************************)
LEMMA RegistrationFacts ==
  ASSUME TermVarsTyped, NEW p \in Processes
  PROVE  /\ job[p].at \in {"free", "coined", "merge", "replace"}
         /\ job[p].at # "free" => job[p].term \in Terms
         /\ job[p].at \in {"merge", "replace"} => job[p].view \in Maps
         /\ job[p].at = "merge" =>
              /\ job[p].merged \in Maps
              /\ job[p] = [at |-> "merge", term |-> job[p].term, view |-> job[p].view,
                           merged |-> job[p].merged]
<1>1. job[p] \in Registrations
  BY DEF TermVarsTyped
<1>2. CASE job[p] = Free
  BY <1>2 DEF Free
<1>3. CASE job[p] \in [at : {"coined"}, term : Terms]
  BY <1>3
<1>4. CASE job[p] \in [at : {"merge"}, term : Terms, view : Maps, merged : Maps]
  BY <1>4
<1>5. CASE job[p] \in [at : {"replace"}, term : Terms, view : Maps]
  BY <1>5
<1> QED BY <1>1, <1>2, <1>3, <1>4, <1>5 DEF Registrations

LEMMA FaultFacts ==
  ASSUME TermVarsTyped, Fault
  PROVE  faults' \in 0 .. MaxFaults /\ faults' # 0
BY TermAssumption DEF TermVarsTyped, Fault

(***************************************************************************)
(* What a step writes is typed.                                            *)
(***************************************************************************)
LEMMA WrittenTyped ==
  ASSUME TermVarsTyped, NEW p \in Processes
  PROVE  /\ \A m \in Maps : [terms EXCEPT ![p] = m] \in [Processes -> Maps]
         /\ \A m \in Maps : [given EXCEPT ![p] = m] \in [Processes -> Maps]
         /\ \A j \in Registrations : [job EXCEPT ![p] = j] \in [Processes -> Registrations]
         /\ terms[p] \in Maps /\ given[p] \in Maps /\ Free \in Registrations
         /\ Nothing \in Maps /\ KnownTerms(Nothing) = {} /\ Distinct(Nothing)
<1>1. Nothing \in [{} -> Prefixes] /\ KnownTerms(Nothing) = {}
  BY DEF Nothing, KnownTerms
<1>2. Nothing \in Maps
  BY <1>1 DEF Maps
<1>3. Distinct(Nothing)
  BY <1>1 DEF Distinct, IsInjective, Used, Range, KnownTerms
<1> QED BY <1>1, <1>2, <1>3 DEF TermVarsTyped, Registrations

(***************************************************************************)
(* An answer is the term's prefix in the store.                            *)
(***************************************************************************)
LEMMA GiveFacts ==
  ASSUME TermVarsTyped, NEW p \in Processes, NEW t \in KnownTerms(terms[p]), Give(p, t, terms[p][t]),
         KnownTerms(given[p]) \subseteq KnownTerms(terms[p])
  PROVE  /\ given' \in [Processes -> Maps]
         /\ \A q \in Processes \ {p} : given'[q] = given[q]
         /\ KnownTerms(given'[p]) \subseteq KnownTerms(terms[p])
         /\ Contains(terms[p], given[p]) => Contains(terms[p], given'[p])
<1>1. terms[p] \in Maps /\ given[p] \in Maps
  BY WrittenTyped
<1>2. t \in Terms /\ terms[p][t] \in Prefixes
  BY <1>1, MapFacts
<1> DEFINE a == Assign(given[p], t, terms[p][t])
<1>3. /\ a \in Maps /\ KnownTerms(a) = KnownTerms(given[p]) \cup {t} /\ a[t] = terms[p][t]
      /\ \A u \in KnownTerms(given[p]) : u # t => a[u] = given[p][u]
  BY <1>1, <1>2, AssignFacts
<1>4. given' = [given EXCEPT ![p] = a]
  BY DEF Give
<1> HIDE DEF a
<1>5. given' \in [Processes -> Maps]
  BY <1>3, <1>4, WrittenTyped
<1>6. given'[p] = a /\ \A q \in Processes \ {p} : given'[q] = given[q]
  BY <1>4 DEF TermVarsTyped
<1>7. Contains(terms[p], given[p]) => Contains(terms[p], a)
  BY <1>3 DEF Contains
<1> QED BY <1>3, <1>5, <1>6, <1>7

LEMMA LookupKeeps ==
  ASSUME TermInv, NEW p \in Processes, NEW t \in Terms, Lookup(p, t) PROVE TermInv'
<1>1. TermVarsTyped /\ StoreKept(p) /\ Distinct(termFile)
  BY DEF TermInv
<1>2. /\ job[p].at = "free" /\ t \in KnownTerms(terms[p]) /\ Give(p, t, terms[p][t])
      /\ termFile' = termFile /\ terms' = terms /\ job' = job /\ faults' = faults /\ raced' = raced
  BY DEF Lookup
<1>3. /\ given' \in [Processes -> Maps] /\ \A q \in Processes \ {p} : given'[q] = given[q]
      /\ KnownTerms(given'[p]) \subseteq KnownTerms(terms[p])
      /\ Contains(terms[p], given[p]) => Contains(terms[p], given'[p])
  BY <1>1, <1>2, GiveFacts DEF StoreKept
<1>4. TermVarsTyped' /\ Distinct(termFile)' /\ TermRest(p)
  BY <1>1, <1>2, <1>3 DEF TermVarsTyped, Distinct, TermRest
<1>5. StoreKept(p)'
  BY <1>1, <1>2, <1>3 DEF StoreKept
<1>6. ASSUME (faults = 0 /\ ~raced)'
      PROVE  faults = 0 /\ ~raced /\ Contains(termFile', termFile) /\ StoreAgrees(p)'
  <2>1. StoreAgrees(p)
    BY <1>2, <1>6 DEF TermInv
  <2>2. Contains(terms[p], given'[p]) /\ Contains(termFile, terms[p])
    BY <1>2, <1>3, <2>1 DEF StoreAgrees
  <2>3. Contains(termFile, given'[p])
    BY <2>2, ContainsIsTransitive
  <2>4. StoreAgrees(p)'
    BY <1>2, <2>2, <2>3 DEF StoreAgrees
  <2> QED BY <1>2, <1>6, <2>4, ContainsItself
<1> QED BY <1>4, <1>5, <1>6, OneStoreMoves

LEMMA CoinKeeps ==
  ASSUME TermInv, NEW p \in Processes, NEW t \in Terms, Coin(p, t) PROVE TermInv'
<1>1. TermVarsTyped /\ StoreKept(p) /\ Distinct(termFile) /\ terms[p] \in Maps
  BY WrittenTyped DEF TermInv
<1> DEFINE x == Unique(Derive[t], Canonical \cup Used(terms[p]))
           a == Assign(terms[p], t, x)
           j == [at |-> "coined", term |-> t]
<1>2. /\ job[p].at = "free" /\ t \notin KnownTerms(terms[p])
      /\ terms' = [terms EXCEPT ![p] = a] /\ job' = [job EXCEPT ![p] = j]
      /\ termFile' = termFile /\ given' = given /\ faults' = faults /\ raced' = raced
  BY DEF Coin, Move
<1>3. x \in Prefixes /\ x \notin Used(terms[p]) /\ x \notin Canonical
  <2>1. Derive[t] \in Prefixes
    BY TermAssumption
  <2> QED BY <1>1, <1>2, <2>1, UniqueIsFree
<1> HIDE DEF x
<1>4. /\ a \in Maps /\ KnownTerms(a) = KnownTerms(terms[p]) \cup {t}
      /\ Contains(a, terms[p]) /\ Distinct(a)
  BY <1>1, <1>2, <1>3, AssignFacts, AssignAdds DEF StoreKept
<1>5. j \in Registrations /\ j.at = "coined" /\ j.term = t
  BY DEF Registrations
<1> HIDE DEF a, j
<1>6. /\ terms' \in [Processes -> Maps] /\ job' \in [Processes -> Registrations]
      /\ terms'[p] = a /\ job'[p] = j
      /\ \A q \in Processes \ {p} : terms'[q] = terms[q] /\ job'[q] = job[q]
  BY <1>1, <1>2, <1>4, <1>5, WrittenTyped DEF TermVarsTyped
<1>7. TermVarsTyped' /\ Distinct(termFile)' /\ TermRest(p)
  BY <1>1, <1>2, <1>6 DEF TermVarsTyped, Distinct, TermRest
<1>8. StoreKept(p)'
  BY <1>1, <1>2, <1>4, <1>5, <1>6 DEF StoreKept
<1>9. ASSUME (faults = 0 /\ ~raced)'
      PROVE  faults = 0 /\ ~raced /\ Contains(termFile', termFile) /\ StoreAgrees(p)'
  <2>1. StoreAgrees(p)
    BY <1>2, <1>9 DEF TermInv
  <2>2. Contains(a, given[p])
    BY <1>4, <2>1, ContainsIsTransitive DEF StoreAgrees
  <2>3. StoreAgrees(p)'
    BY <1>2, <1>5, <1>6, <2>1, <2>2 DEF StoreAgrees
  <2> QED BY <1>2, <1>9, <2>3, ContainsItself
<1> QED BY <1>7, <1>8, <1>9, OneStoreMoves

LEMMA ReadFileKeeps ==
  ASSUME TermInv, NEW p \in Processes, ReadFile(p) PROVE TermInv'
<1>1. TermVarsTyped /\ StoreKept(p) /\ Distinct(termFile) /\ termFile \in Maps
  BY DEF TermInv, TermVarsTyped
<1> DEFINE j(view) == [at |-> "merge", term |-> job[p].term, view |-> view, merged |-> view]
<1>2. PICK view \in {termFile, Nothing} :
        /\ IF view = termFile THEN UNCHANGED faults ELSE Fault
        /\ job' = [job EXCEPT ![p] = j(view)]
  BY DEF ReadFile, Move
<1>3. /\ job[p].at = "coined" /\ termFile' = termFile /\ terms' = terms /\ given' = given
      /\ raced' = raced
  BY DEF ReadFile
<1>4. /\ view \in Maps /\ Distinct(view) /\ faults' \in 0 .. MaxFaults
      /\ faults' = 0 => faults = 0 /\ view = termFile
  <2>1. view \in Maps /\ Distinct(view)
    BY <1>1, WrittenTyped
  <2>2. CASE view = termFile
    BY <1>1, <1>2, <2>1, <2>2 DEF TermVarsTyped
  <2>3. CASE view # termFile
    BY <1>1, <1>2, <2>1, <2>3, FaultFacts
  <2> QED BY <2>2, <2>3
<1>5. job[p].term \in Terms
  BY <1>1, <1>3, RegistrationFacts
<1>6. /\ j(view) \in Registrations /\ j(view).at = "merge" /\ j(view).term = job[p].term
      /\ j(view).view = view /\ j(view).merged = view
  BY <1>4, <1>5 DEF Registrations
<1> HIDE DEF j
<1>7. /\ job' \in [Processes -> Registrations] /\ job'[p] = j(view)
      /\ \A q \in Processes \ {p} : job'[q] = job[q]
  BY <1>1, <1>2, <1>6, WrittenTyped DEF TermVarsTyped
<1>8. TermVarsTyped' /\ Distinct(termFile)' /\ TermRest(p)
  BY <1>1, <1>3, <1>4, <1>7 DEF TermVarsTyped, Distinct, TermRest
<1>9. StoreKept(p)'
  BY <1>1, <1>3, <1>4, <1>6, <1>7, ContainsItself DEF StoreKept
<1>10. ASSUME (faults = 0 /\ ~raced)'
       PROVE  faults = 0 /\ ~raced /\ Contains(termFile', termFile) /\ StoreAgrees(p)'
  <2>1. faults = 0 /\ ~raced /\ view = termFile
    BY <1>3, <1>4, <1>10
  <2>2. StoreAgrees(p)
    BY <2>1 DEF TermInv
  <2>3. StoreAgrees(p)'
    BY <1>3, <1>6, <1>7, <2>1, <2>2 DEF StoreAgrees
  <2> QED BY <1>3, <2>1, <2>3, ContainsItself
<1> QED BY <1>8, <1>9, <1>10, OneStoreMoves

LEMMA MergeTermKeeps ==
  ASSUME TermInv, NEW p \in Processes, NEW t \in Terms, MergeTerm(p, t) PROVE TermInv'
<1>1. TermVarsTyped /\ StoreKept(p) /\ Distinct(termFile) /\ terms[p] \in Maps
  BY WrittenTyped DEF TermInv
<1> DEFINE m == job[p].merged
           x == Unique(terms[p][t], Used(m))
           a == Assign(m, t, x)
<1>2. /\ job[p].at = "merge" /\ t \in KnownTerms(terms[p]) /\ t \notin KnownTerms(m)
      /\ job' = [job EXCEPT ![p].merged = a]
      /\ termFile' = termFile /\ terms' = terms /\ given' = given /\ faults' = faults /\ raced' = raced
  BY DEF MergeTerm, Unmerged
<1>3. /\ m \in Maps /\ job[p].view \in Maps /\ job[p].term \in Terms
      /\ job[p] = [at |-> "merge", term |-> job[p].term, view |-> job[p].view, merged |-> m]
  BY <1>1, <1>2, RegistrationFacts
<1>4. x \in Prefixes /\ x \notin Used(m) /\ x \notin Canonical
  <2>1. terms[p][t] \in Prefixes /\ terms[p][t] \in Used(terms[p])
    BY <1>1, <1>2, MapFacts
  <2>2. terms[p][t] \notin Canonical
    BY <1>1, <2>1 DEF StoreKept, Distinct
  <2> HIDE DEF m
  <2> QED BY <1>2, <1>3, <2>1, <2>2, UniqueIsFree
<1> HIDE DEF x
<1>5. a \in Maps /\ Contains(a, m) /\ Distinct(a)
  <2> HIDE DEF m
  <2>1. a \in Maps
    BY <1>3, <1>4, AssignFacts
  <2>2. Contains(a, m) /\ (Distinct(m) => Distinct(a))
    BY <1>2, <1>3, <1>4, AssignAdds
  <2>3. Distinct(m)
    BY <1>1, <1>2 DEF StoreKept, m
  <2> QED BY <2>1, <2>2, <2>3
<1>6. Contains(a, job[p].view)
  <2>1. Contains(m, job[p].view)
    BY <1>1, <1>2 DEF StoreKept
  <2> HIDE DEF m, a
  <2> QED BY <1>5, <2>1, ContainsIsTransitive
<1> DEFINE j == [at |-> "merge", term |-> job[p].term, view |-> job[p].view, merged |-> a]
<1> HIDE DEF a
<1>7. job' = [job EXCEPT ![p] = j]
  <2>1. [job[p] EXCEPT !.merged = a] = j
    BY <1>3
  <2> QED BY <1>2, <2>1
<1>8. /\ j \in Registrations /\ j.at = "merge" /\ j.term = job[p].term
      /\ j.view = job[p].view /\ j.merged = a
  BY <1>3, <1>5 DEF Registrations
<1> HIDE DEF j, m
<1>9. /\ job' \in [Processes -> Registrations] /\ job'[p] = j
      /\ \A q \in Processes \ {p} : job'[q] = job[q]
  BY <1>1, <1>7, <1>8, WrittenTyped DEF TermVarsTyped
<1>10. TermVarsTyped' /\ Distinct(termFile)' /\ TermRest(p)
  BY <1>1, <1>2, <1>9 DEF TermVarsTyped, Distinct, TermRest
<1>11. StoreKept(p)'
  BY <1>1, <1>2, <1>5, <1>6, <1>8, <1>9 DEF StoreKept
<1>12. ASSUME (faults = 0 /\ ~raced)'
       PROVE  faults = 0 /\ ~raced /\ Contains(termFile', termFile) /\ StoreAgrees(p)'
  <2>1. StoreAgrees(p)
    BY <1>2, <1>12 DEF TermInv
  <2>2. StoreAgrees(p)'
    BY <1>2, <1>8, <1>9, <2>1 DEF StoreAgrees
  <2> QED BY <1>2, <1>12, <2>2, ContainsItself
<1> QED BY <1>10, <1>11, <1>12, OneStoreMoves

LEMMA AdoptKeeps ==
  ASSUME TermInv, NEW p \in Processes, Adopt(p) PROVE TermInv'
<1>1. TermVarsTyped /\ StoreKept(p) /\ Distinct(termFile) /\ terms[p] \in Maps
  BY WrittenTyped DEF TermInv
<1> DEFINE m == job[p].merged
           j == [at |-> "replace", term |-> job[p].term, view |-> job[p].view]
<1>2. /\ job[p].at = "merge" /\ KnownTerms(terms[p]) \subseteq KnownTerms(m)
      /\ terms' = [terms EXCEPT ![p] = m] /\ job' = [job EXCEPT ![p] = j]
      /\ termFile' = termFile /\ given' = given /\ faults' = faults /\ raced' = raced
  BY DEF Adopt, Unmerged, Move
<1>3. m \in Maps /\ job[p].view \in Maps /\ job[p].term \in Terms
  BY <1>1, <1>2, RegistrationFacts
<1>4. Distinct(m) /\ Contains(m, job[p].view)
  BY <1>1, <1>2 DEF StoreKept
<1>5. j \in Registrations /\ j.at = "replace" /\ j.term = job[p].term /\ j.view = job[p].view
  BY <1>3 DEF Registrations
<1> HIDE DEF m, j
<1>6. /\ terms' \in [Processes -> Maps] /\ job' \in [Processes -> Registrations]
      /\ terms'[p] = m /\ job'[p] = j
      /\ \A q \in Processes \ {p} : terms'[q] = terms[q] /\ job'[q] = job[q]
  BY <1>1, <1>2, <1>3, <1>5, WrittenTyped DEF TermVarsTyped
<1>7. TermVarsTyped' /\ Distinct(termFile)' /\ TermRest(p)
  BY <1>1, <1>2, <1>6 DEF TermVarsTyped, Distinct, TermRest
<1>8. StoreKept(p)'
  BY <1>1, <1>2, <1>4, <1>5, <1>6 DEF StoreKept
<1>9. ASSUME (faults = 0 /\ ~raced)'
      PROVE  faults = 0 /\ ~raced /\ Contains(termFile', termFile) /\ StoreAgrees(p)'
  <2>1. StoreAgrees(p)
    BY <1>2, <1>9 DEF TermInv
  <2>2. Contains(m, given[p])
    BY <1>2, <1>4, <2>1, ContainsIsTransitive DEF StoreAgrees
  <2>3. StoreAgrees(p)'
    BY <1>2, <1>5, <1>6, <2>1, <2>2 DEF StoreAgrees
  <2> QED BY <1>2, <1>9, <2>3, ContainsItself
<1> QED BY <1>7, <1>8, <1>9, OneStoreMoves

(***************************************************************************)
(* A registration ends with the answer, the file written or not.           *)
(***************************************************************************)
LEMMA RegistrationEnds ==
  ASSUME TermInv, NEW p \in Processes, job[p].at # "free", job' = [job EXCEPT ![p] = Free],
         Give(p, job[p].term, terms[p][job[p].term]), terms' = terms
  PROVE  /\ given' \in [Processes -> Maps] /\ job' \in [Processes -> Registrations]
         /\ TermRest(p) /\ job'[p].at = "free" /\ StoreKept(p)'
         /\ Contains(terms[p], given[p]) => Contains(terms[p], given'[p])
<1>1. TermVarsTyped /\ StoreKept(p)
  BY DEF TermInv
<1>2. job[p].term \in KnownTerms(terms[p]) /\ KnownTerms(given[p]) \subseteq KnownTerms(terms[p])
  BY <1>1 DEF StoreKept
<1>3. /\ given' \in [Processes -> Maps] /\ \A q \in Processes \ {p} : given'[q] = given[q]
      /\ KnownTerms(given'[p]) \subseteq KnownTerms(terms[p])
      /\ Contains(terms[p], given[p]) => Contains(terms[p], given'[p])
  BY <1>1, <1>2, GiveFacts
<1>4. /\ job' \in [Processes -> Registrations] /\ job'[p] = Free
      /\ \A q \in Processes \ {p} : job'[q] = job[q]
  BY <1>1, WrittenTyped DEF TermVarsTyped
<1>5. job'[p].at = "free"
  BY <1>4 DEF Free
<1>6. StoreKept(p)'
  BY <1>1, <1>3, <1>5 DEF StoreKept
<1> QED BY <1>3, <1>4, <1>5, <1>6 DEF TermRest

LEMMA ReplaceKeeps ==
  ASSUME TermInv, NEW p \in Processes, Replace(p) PROVE TermInv'
<1>1. TermVarsTyped /\ StoreKept(p) /\ terms[p] \in Maps
  BY WrittenTyped DEF TermInv
<1>2. /\ job[p].at = "replace" /\ termFile' = terms[p]
      /\ raced' = (raced \/ termFile # job[p].view)
      /\ Give(p, job[p].term, terms[p][job[p].term])
      /\ job' = [job EXCEPT ![p] = Free] /\ terms' = terms /\ faults' = faults
  BY DEF Replace, Move
<1>3. /\ given' \in [Processes -> Maps] /\ job' \in [Processes -> Registrations]
      /\ TermRest(p) /\ job'[p].at = "free" /\ StoreKept(p)'
      /\ Contains(terms[p], given[p]) => Contains(terms[p], given'[p])
  BY <1>2, RegistrationEnds
<1>4. raced' \in BOOLEAN
  BY <1>2
<1>5. TermVarsTyped'
  BY <1>1, <1>2, <1>3, <1>4 DEF TermVarsTyped
<1>6. Distinct(termFile)'
  BY <1>1, <1>2 DEF StoreKept, Distinct
<1>7. ASSUME (faults = 0 /\ ~raced)'
      PROVE  faults = 0 /\ ~raced /\ Contains(termFile', termFile) /\ StoreAgrees(p)'
  <2>1. faults = 0 /\ ~raced /\ termFile = job[p].view
    BY <1>2, <1>7
  <2>2. Contains(termFile', termFile)
    BY <1>1, <1>2, <2>1 DEF StoreKept
  <2>3. StoreAgrees(p)
    BY <2>1 DEF TermInv
  <2>4. Contains(terms[p], given'[p])
    BY <1>3, <2>3 DEF StoreAgrees
  <2>5. StoreAgrees(p)'
    BY <1>2, <1>3, <2>4, ContainsItself DEF StoreAgrees
  <2> QED BY <2>1, <2>2, <2>5
<1> QED BY <1>3, <1>5, <1>6, <1>7, OneStoreMoves

LEMMA PersistFailsKeeps ==
  ASSUME TermInv, NEW p \in Processes, PersistFails(p) PROVE TermInv'
<1>1. TermVarsTyped /\ Distinct(termFile)
  BY DEF TermInv
<1>2. /\ job[p].at # "free" /\ Fault
      /\ Give(p, job[p].term, terms[p][job[p].term])
      /\ job' = [job EXCEPT ![p] = Free] /\ terms' = terms /\ termFile' = termFile /\ raced' = raced
  BY DEF PersistFails, Move
<1>3. /\ given' \in [Processes -> Maps] /\ job' \in [Processes -> Registrations]
      /\ TermRest(p) /\ StoreKept(p)'
  BY <1>2, RegistrationEnds
<1>4. faults' \in 0 .. MaxFaults /\ faults' # 0
  BY <1>1, <1>2, FaultFacts
<1>5. TermVarsTyped' /\ Distinct(termFile)'
  BY <1>1, <1>2, <1>3, <1>4 DEF TermVarsTyped, Distinct
<1> QED BY <1>3, <1>4, <1>5, OneStoreMoves

LEMMA RestartKeeps ==
  ASSUME TermInv, NEW p \in Processes, Restart(p) PROVE TermInv'
<1>1. TermVarsTyped /\ Distinct(termFile) /\ termFile \in Maps
  BY DEF TermInv, TermVarsTyped
<1>2. PICK view \in {termFile, Nothing} : terms' = [terms EXCEPT ![p] = view]
  BY DEF Restart
<1>3. /\ Fault /\ job' = [job EXCEPT ![p] = Free] /\ given' = [given EXCEPT ![p] = Nothing]
      /\ termFile' = termFile /\ raced' = raced
  BY DEF Restart, Move
<1>4. view \in Maps /\ Distinct(view)
  BY <1>1, WrittenTyped
<1>5. faults' \in 0 .. MaxFaults /\ faults' # 0
  BY <1>1, <1>3, FaultFacts
<1>6. /\ terms' \in [Processes -> Maps] /\ given' \in [Processes -> Maps]
      /\ job' \in [Processes -> Registrations]
      /\ terms'[p] = view /\ given'[p] = Nothing /\ job'[p] = Free /\ TermRest(p)
  BY <1>1, <1>2, <1>3, <1>4, WrittenTyped DEF TermVarsTyped, TermRest
<1>7. TermVarsTyped' /\ Distinct(termFile)'
  BY <1>1, <1>3, <1>5, <1>6 DEF TermVarsTyped, Distinct
<1>8. job'[p].at = "free"
  BY <1>6 DEF Free
<1>9. StoreKept(p)'
  BY <1>1, <1>4, <1>6, <1>8, WrittenTyped DEF StoreKept
<1> QED BY <1>5, <1>6, <1>7, <1>9, OneStoreMoves

LEMMA TermInitInv == TermInit => TermInv
<1> SUFFICES ASSUME TermInit PROVE TermInv
  OBVIOUS
<1>1. /\ Nothing \in Maps /\ KnownTerms(Nothing) = {} /\ Distinct(Nothing)
  <2>1. Nothing \in [{} -> Prefixes] /\ KnownTerms(Nothing) = {}
    BY DEF Nothing, KnownTerms
  <2>2. Distinct(Nothing)
    BY <2>1 DEF Distinct, IsInjective, Used, Range, KnownTerms
  <2> QED BY <2>1, <2>2 DEF Maps
<1>2. TermVarsTyped
  <2>1. Free \in Registrations
    BY DEF Registrations
  <2>2. 0 \in 0 .. MaxFaults
    BY TermAssumption
  <2>3. /\ terms \in [Processes -> Maps] /\ given \in [Processes -> Maps]
        /\ job \in [Processes -> Registrations]
    BY <1>1, <2>1 DEF TermInit
  <2> QED BY <1>1, <2>2, <2>3 DEF TermInit, TermVarsTyped
<1>3. Distinct(termFile) /\ Contains(Nothing, Nothing)
  BY <1>1, ContainsItself DEF TermInit
<1>4. ASSUME NEW p \in Processes PROVE StoreKept(p) /\ StoreAgrees(p)
  <2>1. terms[p] = Nothing /\ given[p] = Nothing /\ job[p].at = "free" /\ termFile = Nothing
    BY DEF TermInit, Free
  <2> QED BY <1>1, <1>3, <2>1 DEF StoreKept, StoreAgrees
<1> QED BY <1>2, <1>3, <1>4 DEF TermInv

LEMMA TermInvSound == TermInv => TermsAreSound
<1> SUFFICES ASSUME TermInv PROVE TermsAreSound
  OBVIOUS
<1>1. TermTypeOK
  <2>1. TermVarsTyped
    BY DEF TermInv
  <2>2. ASSUME NEW p \in Processes
        PROVE  /\ terms[p] \in Maps /\ given[p] \in Maps
               /\ job[p].at \in {"free", "coined", "merge", "replace"}
               /\ job[p].at # "free" => job[p].term \in KnownTerms(terms[p])
    BY <2>1, RegistrationFacts DEF TermInv, StoreKept, TermVarsTyped
  <2> QED BY <2>1, <2>2 DEF TermTypeOK, TermVarsTyped
<1>2. PrefixesAreUnique
  BY DEF TermInv, StoreKept, Distinct, PrefixesAreUnique
<1>3. AnswersStay
  BY DEF TermInv, StoreKept, StoreAgrees, Contains, AnswersStay
<1> QED BY <1>1, <1>2, <1>3 DEF TermsAreSound

(***************************************************************************)
(* However many processes coin terms in the one file, whatever reads and   *)
(* writes fail and whoever is killed: no two terms share a prefix, none    *)
(* has a canonical one, and without a lost update what a process answered  *)
(* stays the answer of all.                                                *)
(***************************************************************************)
THEOREM TermsSound == TermSpec => []TermsAreSound
<1>1. TermInit => TermInv
  BY TermInitInv
<1>2. TermInv /\ [TermNext]_termVars => TermInv'
  <2> SUFFICES ASSUME TermInv, [TermNext]_termVars PROVE TermInv'
    OBVIOUS
  <2>1. CASE UNCHANGED termVars
    BY <2>1 DEF termVars, TermInv, TermVarsTyped, Distinct, StoreKept, StoreAgrees
  <2>2. CASE TermNext
    BY <2>2, ReadFileKeeps, AdoptKeeps, ReplaceKeeps, PersistFailsKeeps, RestartKeeps,
       LookupKeeps, CoinKeeps, MergeTermKeeps DEF TermNext
  <2> QED BY <2>1, <2>2
<1>3. TermInv => TermsAreSound
  BY TermInvSound
<1> QED BY <1>1, <1>2, <1>3, PTL DEF TermSpec

-----------------------------------------------------------------------------
(***************************************************************************)
(* The pipe: the lines printed and those still owed are, in order, those   *)
(* somebody waits for, up to the warm-up line and the text of the scan     *)
(* under way; a dead worker owes nothing any more.                         *)
(***************************************************************************)
TurnText == Text(turn)

PipeBetweenScans ==
  /\ worker.inbox = <<>>
  /\ \/ waiting = <<>> /\ worker.out = <<>> /\ (worker.alive => worker.ready)
     \/ waiting = <<Warm>> /\ worker.out = <<Warm>> /\ (worker.alive => worker.ready)
     \/ waiting = <<Warm>> /\ worker.out = <<>> /\ ~worker.ready

PipeInScan ==
  \/ waiting = <<turn>> /\ worker.out = <<>>
       /\ (worker.alive => worker.ready /\ worker.inbox = <<TurnText>>)
  \/ waiting = <<turn>> /\ worker.out = <<TurnText>> /\ worker.inbox = <<>>
       /\ (worker.alive => worker.ready)
  \/ waiting = <<Warm, turn>> /\ worker.out = <<>> /\ ~worker.ready
       /\ (worker.alive => worker.inbox = <<TurnText>>)
  \/ waiting = <<Warm, turn>> /\ worker.out = <<Warm>>
       /\ (worker.alive => worker.ready /\ worker.inbox = <<TurnText>>)
  \/ waiting = <<Warm, turn>> /\ worker.out = <<Warm, TurnText>> /\ worker.inbox = <<>>
       /\ (worker.alive => worker.ready)

PipesAgree ==
  /\ ~worker.alive => ~worker.ready /\ worker.inbox = <<>>
  /\ IF scanStep = "read" THEN PipeInScan ELSE PipeBetweenScans

(***************************************************************************)
(* Who has the scanner has no answer yet; the types the rest relies on.    *)
(***************************************************************************)
ScanTypes ==
  /\ worker = [alive |-> worker.alive, ready |-> worker.ready, inbox |-> worker.inbox,
               out |-> worker.out]
  /\ turn \in Callers \cup {Nobody} /\ (turn = Nobody <=> scanStep = "free")
  /\ scanStep \in {"free", "warm up", "write", "read"}
  /\ turn # Nobody => answer[turn] = NoLine

Records == [running : BOOLEAN, source : Benches \cup {Nobody}, processed : Nat,
            report : Benches \cup {Nobody}, error : BOOLEAN]

(***************************************************************************)
(* Unless two were let in at once, one benchmark at most is between its    *)
(* check and its end, and one that has ended has left a report or an error.*)
(***************************************************************************)
OneBenchmark ==
  /\ record \in Records
  /\ \A b \in Benches : bench[b].at \in {"new", "load"} => bench[b].sample = 0
  /\ ~twice =>
       /\ \A b, c \in OnTheirWay \cup AtWork : b = c
       /\ \A b \in Benches : bench[b].at = "ended" => record.error \/ record.report # Nobody

WorkInv ==
  WorkTypeOK /\ ScanTypes /\ PipesAgree /\ AnswersAreTheirOwn /\ OneBenchmark /\ RecordTells

(***************************************************************************)
(* What the operators on sequences do to the short queues of the scanner.  *)
(***************************************************************************)
LEMMA ShortQueues ==
  ASSUME NEW x, NEW y
  PROVE  /\ Append(<<>>, x) = <<x>> /\ Append(<<x>>, y) = <<x, y>>
         /\ Head(<<x>>) = x /\ Head(<<x, y>>) = x
         /\ Tail(<<x>>) = <<>> /\ Tail(<<x, y>>) = <<y>>
         /\ Len(<<>>) = 0 /\ Len(<<x>>) = 1 /\ Len(<<x, y>>) = 2
         /\ <<x>> # <<>> /\ <<x, y>> # <<>>
<1>1. Append(<<>>, x) = <<x>>
  OBVIOUS
<1>2. Append(<<x>>, y) = <<x, y>>
  <2>1. <<x>> \in Seq({x, y}) /\ <<x, y>> \in Seq({x, y}) /\ y \in {x, y}
    OBVIOUS
  <2>2. Append(<<x>>, y) \in Seq({x, y}) /\ Len(Append(<<x>>, y)) = 2
    BY <2>1, AppendProperties
  <2>3. Append(<<x>>, y)[1] = x /\ Append(<<x>>, y)[2] = y
    BY <2>1, AppendProperties
  <2>4. Len(<<x, y>>) = 2 /\ <<x, y>>[1] = x /\ <<x, y>>[2] = y
    OBVIOUS
  <2>5. \A i \in 1 .. Len(Append(<<x>>, y)) : Append(<<x>>, y)[i] = <<x, y>>[i]
    BY <2>2, <2>3, <2>4
  <2> QED BY <2>1, <2>2, <2>4, <2>5, SeqEqual, Zenon
<1>3. Head(<<x>>) = x /\ Head(<<x, y>>) = x
  OBVIOUS
<1>4. Tail(<<x>>) = <<>>
  OBVIOUS
<1>5. Tail(<<x, y>>) = <<y>>
  OBVIOUS
<1>6. Len(<<>>) = 0 /\ Len(<<x>>) = 1 /\ Len(<<x, y>>) = 2
  OBVIOUS
<1>7. <<x>> # <<>> /\ <<x, y>> # <<>>
  OBVIOUS
<1> QED BY <1>1, <1>2, <1>3, <1>4, <1>5, <1>6, <1>7

LEMMA LinesDiffer ==
  ASSUME NEW c, NEW n
  PROVE  /\ NoLine # NoAnswer /\ NoLine # Warm /\ NoAnswer # Warm
         /\ <<c, n>> \notin {NoLine, NoAnswer, Warm}
<1>1. /\ Len(<<c, n>>) = 2 /\ Len(NoLine) = 1 /\ Len(NoAnswer) = 1 /\ Len(Warm) = 1
  BY DEF NoLine, NoAnswer, Warm
<1>2. NoLine[1] = "none" /\ NoAnswer[1] = "nothing" /\ Warm[1] = "warm"
  BY DEF NoLine, NoAnswer, Warm
<1> QED BY <1>1, <1>2

LEMMA TextIsALine ==
  ASSUME WorkTypeOK, NEW c \in Callers
  PROVE  /\ Text(c) \in Callers \X Nat
         /\ Text(c) # NoLine /\ Text(c) # NoAnswer /\ Text(c) # Warm
BY LinesDiffer DEF Text, WorkTypeOK

LEMMA WorkInitInv == WorkInit => WorkInv
<1> SUFFICES ASSUME WorkInit PROVE WorkInv
  OBVIOUS
<1> USE WorkbenchAssumption DEF WorkInit, Dead
<1>1. WorkTypeOK
  <2>1. answer \in [Callers -> {NoLine, NoAnswer} \cup (Callers \X Nat)]
    OBVIOUS
  <2>2. bench \in [Benches -> [at : {"new", "refused", "load", "run", "ended", "done"}, sample : Nat]]
    OBVIOUS
  <2>3. Len(waiting) <= 2 /\ Len(worker.inbox) + Len(worker.out) <= 2
    OBVIOUS
  <2>4. \A b \in Benches : bench[b].sample <= Samples[b]
    OBVIOUS
  <2>5. turn \in Callers \cup {Nobody} /\ (turn = Nobody <=> scanStep = "free")
    OBVIOUS
  <2>6. proc \in BOOLEAN /\ twice \in BOOLEAN
    OBVIOUS
  <2>8. workers \in 0 .. MaxWorkers
    OBVIOUS
  <2>7. worker.alive \in BOOLEAN /\ worker.ready \in BOOLEAN
    OBVIOUS
  <2> QED BY <2>1, <2>2, <2>3, <2>4, <2>5, <2>6, <2>7, <2>8 DEF WorkTypeOK
<1>2. ScanTypes
  BY DEF ScanTypes
<1>p. PipesAgree
  BY DEF PipesAgree, PipeBetweenScans
<1>3. AnswersAreTheirOwn
  BY DEF AnswersAreTheirOwn
<1>4. OneBenchmark /\ RecordTells
  BY DEF OneBenchmark, RecordTells, AtWork, OnTheirWay, Records, Idle
<1> QED BY <1>1, <1>2, <1>p, <1>3, <1>4 DEF WorkInv

(***************************************************************************)
(* A step of the scanner leaves the benchmarks and their texts alone.      *)
(***************************************************************************)
LEMMA ScannerKeepsBenches ==
  ASSUME OneBenchmark, RecordTells, UNCHANGED <<record, bench, twice>>
  PROVE  /\ OneBenchmark' /\ RecordTells'
         /\ \A c \in Callers : Text(c)' = Text(c)
BY DEF OneBenchmark, RecordTells, AtWork, OnTheirWay, Text

(***************************************************************************)
(* The caller that has the scanner has no answer, and gets one.            *)
(***************************************************************************)
LEMMA GiveBackKeeps ==
  ASSUME WorkInv, turn # Nobody, NEW line, line \in {NoAnswer, TurnText},
         GiveBack(turn, line), UNCHANGED <<record, bench, twice>>
  PROVE  /\ answer' \in [Callers -> {NoLine, NoAnswer} \cup (Callers \X Nat)]
         /\ AnswersAreTheirOwn' /\ turn' = Nobody /\ scanStep' = "free"
<1>1. turn \in Callers /\ Text(turn) \in Callers \X Nat
  BY TextIsALine DEF WorkInv, ScanTypes
<1>2. answer' = [answer EXCEPT ![turn] = line] /\ turn' = Nobody /\ scanStep' = "free"
  BY DEF GiveBack
<1>3. answer \in [Callers -> {NoLine, NoAnswer} \cup (Callers \X Nat)]
  BY DEF WorkInv, WorkTypeOK
<1>4. answer' \in [Callers -> {NoLine, NoAnswer} \cup (Callers \X Nat)]
  BY <1>1, <1>2, <1>3 DEF TurnText
<1>5. \A c \in Callers : answer'[c] = IF c = turn THEN line ELSE answer[c]
  BY <1>2, <1>3
<1>6. \A c \in Callers : Text(c)' = Text(c)
  BY DEF Text
<1>7. \A c \in Callers : answer'[c] \in {NoLine, NoAnswer, Text(c)}
  BY <1>1, <1>5 DEF TurnText, WorkInv, AnswersAreTheirOwn
<1>8. AnswersAreTheirOwn'
  BY <1>6, <1>7 DEF AnswersAreTheirOwn
<1> QED BY <1>2, <1>4, <1>8

(***************************************************************************)
(* The pipes hold at most the warm-up line and one text.                   *)
(***************************************************************************)
LEMMA PipesAreShort ==
  ASSUME PipesAgree'
  PROVE  (Len(waiting) <= 2 /\ Len(worker.inbox) + Len(worker.out) <= 2)'
<1>1. /\ Len(<<>>) = 0 /\ Len(<<turn'>>) = 1 /\ Len(<<Warm>>) = 1 /\ Len(<<Warm, turn'>>) = 2
      /\ Len(<<TurnText'>>) = 1 /\ Len(<<Warm, TurnText'>>) = 2
  BY ShortQueues DEF Warm
<1>2. /\ waiting' \in {<<>>, <<Warm>>, <<turn'>>, <<Warm, turn'>>}
      /\ worker'.inbox \in {<<>>, <<TurnText'>>}
      /\ \/ worker'.out \in {<<>>, <<Warm>>, <<TurnText'>>}
         \/ worker'.out = <<Warm, TurnText'>> /\ worker'.inbox = <<>>
  <2>1. CASE PipeInScan'
    BY <2>1 DEF PipeInScan, PipesAgree, Warm
  <2>2. CASE PipeBetweenScans'
    BY <2>2 DEF PipeBetweenScans, Warm
  <2> QED BY <2>1, <2>2 DEF PipesAgree
<1>3. Len(waiting') \in {0, 1, 2} /\ Len(worker'.inbox) \in {0, 1}
  BY <1>1, <1>2, Zenon
<1>4. Len(worker'.out) \in {0, 1} \/ (Len(worker'.out) = 2 /\ Len(worker'.inbox) = 0)
  BY <1>1, <1>2, Zenon
<1>5. \A n \in {0, 1, 2}, i \in {0, 1} : \A o \in {0, 1, 2} :
        o # 2 \/ i = 0 => n <= 2 /\ i + o <= 2
  OBVIOUS
<1>6. Len(worker'.out) \in {0, 1, 2} /\ (Len(worker'.out) # 2 \/ Len(worker'.inbox) = 0)
  <2>1. 2 # 0 /\ 2 # 1 /\ 1 # 0
    OBVIOUS
  <2> QED BY <1>4, <2>1, Zenon
<1> QED BY <1>3, <1>5, <1>6, Zenon

(***************************************************************************)
(* What a step of the scanner has to show, apart from what it leaves alone.*)
(***************************************************************************)
LEMMA ScanStep ==
  ASSUME WorkInv, UNCHANGED <<record, bench, twice>>,
         worker' = [alive |-> worker.alive, ready |-> worker.ready, inbox |-> worker.inbox,
                    out |-> worker.out]',
         (worker.alive \in BOOLEAN /\ worker.ready \in BOOLEAN)',
         (workers \in 0 .. MaxWorkers /\ proc \in BOOLEAN)',
         (turn \in Callers \cup {Nobody} /\ (turn = Nobody <=> scanStep = "free"))',
         (scanStep \in {"free", "warm up", "write", "read"})',
         (turn # Nobody => answer[turn] = NoLine)',
         (answer \in [Callers -> {NoLine, NoAnswer} \cup (Callers \X Nat)])',
         AnswersAreTheirOwn', PipesAgree'
  PROVE  WorkInv'
<1>1. OneBenchmark' /\ RecordTells'
  BY ScannerKeepsBenches DEF WorkInv
<1>2. ScanTypes'
  BY DEF ScanTypes
<1>3. (Len(waiting) <= 2 /\ Len(worker.inbox) + Len(worker.out) <= 2)'
  BY PipesAreShort
<1>4. WorkTypeOK'
  BY <1>3 DEF WorkTypeOK, WorkInv
<1> QED BY <1>1, <1>2, <1>4 DEF WorkInv

LEMMA EnsureKeeps == ASSUME WorkInv, NEW c \in Callers, Ensure(c) PROVE WorkInv'
<1>1. /\ turn = Nobody /\ scanStep = "free" /\ answer[c] = NoLine /\ c # Nobody
      /\ PipeBetweenScans /\ (~worker.alive => ~worker.ready)
  BY WorkbenchAssumption DEF Ensure, Wants, WorkInv, ScanTypes, PipesAgree
<1>2. /\ turn' = c /\ answer' = answer /\ UNCHANGED <<record, bench, twice>>
      /\ scanStep' \in {"write", "warm up"}
  BY DEF Ensure
<1>3. CASE proc /\ worker.alive
  <2>1. UNCHANGED <<worker, workers, proc, waiting>> /\ scanStep' = "write"
    BY <1>3 DEF Ensure
  <2>2. PipesAgree'
    BY <1>1, <2>1 DEF PipesAgree, PipeBetweenScans
  <2> QED BY <1>1, <1>2, <2>1, <2>2, ScanStep
        DEF WorkInv, ScanTypes, WorkTypeOK, AnswersAreTheirOwn, Text
<1>4. CASE ~(proc /\ worker.alive)
  <2>1. /\ workers < MaxWorkers /\ workers' = workers + 1 /\ proc' = TRUE
        /\ waiting' = <<Warm>>
    BY <1>4 DEF Ensure
  <2>2. worker' = [alive |-> TRUE, ready |-> FALSE, inbox |-> <<>>, out |-> <<>>]
    BY <1>4 DEF Ensure, Dead
  <2>3. PipesAgree'
    BY <1>2, <2>1, <2>2 DEF PipesAgree, PipeBetweenScans
  <2>4. workers' \in 0 .. MaxWorkers
    <3>1. workers \in 0 .. MaxWorkers
      BY DEF WorkInv, WorkTypeOK
    <3> QED BY <2>1, <3>1, WorkbenchAssumption
  <2>5. AnswersAreTheirOwn'
    BY <1>2 DEF WorkInv, AnswersAreTheirOwn, Text
  <2>6. answer' \in [Callers -> {NoLine, NoAnswer} \cup (Callers \X Nat)]
    BY <1>2 DEF WorkInv, WorkTypeOK
  <2>7. worker'.alive = TRUE /\ worker'.ready = FALSE
    BY <2>2
  <2> QED BY <1>1, <1>2, <2>1, <2>2, <2>3, <2>4, <2>5, <2>6, <2>7, ScanStep
<1> QED BY <1>3, <1>4

LEMMA NoVenvKeeps == ASSUME WorkInv, NEW c \in Callers, NoVenv(c) PROVE WorkInv'
<1>1. /\ answer' = [answer EXCEPT ![c] = NoAnswer]
      /\ UNCHANGED <<worker, workers, proc, waiting, turn, scanStep, record, bench, twice>>
      /\ turn = Nobody
  BY DEF NoVenv, scanVars
<1>2. answer' \in [Callers -> {NoLine, NoAnswer} \cup (Callers \X Nat)]
  BY <1>1 DEF WorkInv, WorkTypeOK
<1>3. \A d \in Callers : answer'[d] \in {NoAnswer, answer[d]} /\ Text(d)' = Text(d)
  BY <1>1 DEF WorkInv, WorkTypeOK, Text
<1>4. AnswersAreTheirOwn'
  BY <1>3 DEF WorkInv, AnswersAreTheirOwn
<1>5. PipesAgree'
  BY <1>1 DEF WorkInv, PipesAgree, PipeInScan, PipeBetweenScans, TurnText, Text
<1>6. worker' = [alive |-> worker.alive, ready |-> worker.ready, inbox |-> worker.inbox,
                  out |-> worker.out]'
  BY <1>1 DEF WorkInv, ScanTypes
<1> QED BY <1>1, <1>2, <1>4, <1>5, <1>6, ScanStep DEF WorkInv, ScanTypes, WorkTypeOK

LEMMA WarmedUpKeeps == ASSUME WorkInv, WarmedUp PROVE WorkInv'
<1>1. /\ scanStep = "warm up" /\ scanStep' = "write"
      /\ UNCHANGED <<worker, workers, proc, waiting, turn, answer, record, bench, twice>>
  BY DEF WarmedUp
<1>2. PipesAgree'
  BY <1>1 DEF WorkInv, PipesAgree, PipeBetweenScans
<1>3. AnswersAreTheirOwn'
  BY <1>1 DEF WorkInv, AnswersAreTheirOwn, Text
<1> QED BY <1>1, <1>2, <1>3, ScanStep DEF WorkInv, ScanTypes, WorkTypeOK

(***************************************************************************)
(* A step of the worker alone changes its pipes and nothing else.          *)
(***************************************************************************)
LEMMA WorkerStep ==
  ASSUME WorkInv,
         UNCHANGED <<workers, proc, waiting, turn, scanStep, answer, record, bench, twice>>,
         worker' = [alive |-> worker.alive, ready |-> worker.ready, inbox |-> worker.inbox,
                    out |-> worker.out]',
         (worker.alive \in BOOLEAN /\ worker.ready \in BOOLEAN)', PipesAgree'
  PROVE  WorkInv'
<1>1. AnswersAreTheirOwn'
  BY DEF WorkInv, AnswersAreTheirOwn, Text
<1> QED BY <1>1, ScanStep DEF WorkInv, ScanTypes, WorkTypeOK

LEMMA WorkerWarmsKeeps == ASSUME WorkInv, WorkerWarms PROVE WorkInv'
<1>1. /\ worker.alive /\ ~worker.ready
      /\ UNCHANGED <<workers, proc, waiting, turn, scanStep, answer, record, bench, twice>>
  BY DEF WorkerWarms
<1>2. worker' = [alive |-> worker.alive, ready |-> TRUE, inbox |-> worker.inbox,
                 out |-> Append(worker.out, Warm)]
  BY DEF WorkerWarms, WorkInv, ScanTypes
<1>3. worker.out = <<>> /\ worker'.out = <<Warm>>
  <2>1. worker.out = <<>>
    BY <1>1 DEF WorkInv, PipesAgree, PipeInScan, PipeBetweenScans
  <2> QED BY <1>2, <2>1, ShortQueues
<1>4. TurnText' = TurnText
  BY <1>1 DEF TurnText, Text
<1>5. PipesAgree'
  BY <1>1, <1>2, <1>3, <1>4 DEF WorkInv, PipesAgree, PipeInScan, PipeBetweenScans, Warm
<1>6. worker'.alive \in BOOLEAN /\ worker'.ready \in BOOLEAN
  BY <1>2 DEF WorkInv, WorkTypeOK
<1> QED BY <1>1, <1>2, <1>5, <1>6, WorkerStep

LEMMA WorkerAnswersKeeps == ASSUME WorkInv, WorkerAnswers PROVE WorkInv'
<1>1. /\ worker.alive /\ worker.ready /\ worker.inbox # <<>>
      /\ UNCHANGED <<workers, proc, waiting, turn, scanStep, answer, record, bench, twice>>
  BY DEF WorkerAnswers
<1>2. worker' = [alive |-> worker.alive, ready |-> worker.ready, inbox |-> Tail(worker.inbox),
                 out |-> Append(worker.out, Head(worker.inbox))]
  BY DEF WorkerAnswers, WorkInv, ScanTypes
<1>3. /\ scanStep = "read" /\ worker.inbox = <<TurnText>>
      /\ \/ waiting = <<turn>> /\ worker.out = <<>>
         \/ waiting = <<Warm, turn>> /\ worker.out = <<Warm>>
  BY <1>1 DEF WorkInv, PipesAgree, PipeInScan, PipeBetweenScans
<1>4. worker'.inbox = <<>> /\ worker'.alive = worker.alive /\ worker'.ready = worker.ready
  BY <1>2, <1>3, ShortQueues
<1>5. \/ waiting = <<turn>> /\ worker'.out = <<TurnText>>
      \/ waiting = <<Warm, turn>> /\ worker'.out = <<Warm, TurnText>>
  <2>1. Head(worker.inbox) = TurnText
    BY <1>3, ShortQueues
  <2>2. Append(<<>>, TurnText) = <<TurnText>> /\ Append(<<Warm>>, TurnText) = <<Warm, TurnText>>
    BY ShortQueues
  <2> QED BY <1>2, <1>3, <2>1, <2>2
<1>6. TurnText' = TurnText
  BY <1>1 DEF TurnText, Text
<1>7. PipesAgree'
  BY <1>1, <1>3, <1>4, <1>5, <1>6 DEF PipesAgree, PipeInScan, Warm
<1>8. worker'.alive \in BOOLEAN /\ worker'.ready \in BOOLEAN
  BY <1>4 DEF WorkInv, WorkTypeOK
<1> QED BY <1>1, <1>2, <1>7, <1>8, WorkerStep

LEMMA WorkerDiesKeeps == ASSUME WorkInv, WorkerDies PROVE WorkInv'
<1>1. UNCHANGED <<workers, proc, waiting, turn, scanStep, answer, record, bench, twice>>
  BY DEF WorkerDies
<1>2. worker' = [alive |-> FALSE, ready |-> FALSE, inbox |-> <<>>, out |-> worker.out]
  BY DEF WorkerDies, Dead
<1>3. /\ ~worker'.alive /\ ~worker'.ready /\ worker'.inbox = <<>> /\ worker'.out = worker.out
      /\ worker'.alive \in BOOLEAN /\ worker'.ready \in BOOLEAN
  BY <1>2
<1>4. TurnText' = TurnText
  BY <1>1 DEF TurnText, Text
<1>5. PipesAgree'
  <2>1. CASE scanStep = "read"
    <3>1. PipeInScan
      BY <2>1 DEF WorkInv, PipesAgree
    <3>2. PipeInScan'
      BY <1>1, <1>3, <1>4, <3>1 DEF PipeInScan, Warm
    <3> QED BY <1>1, <1>3, <2>1, <3>2 DEF PipesAgree
  <2>2. CASE scanStep # "read"
    <3>1. PipeBetweenScans
      BY <2>2 DEF WorkInv, PipesAgree
    <3>2. PipeBetweenScans'
      BY <1>1, <1>3, <3>1 DEF PipeBetweenScans, Warm
    <3> QED BY <1>1, <1>3, <2>2, <3>2 DEF PipesAgree
  <2> QED BY <2>1, <2>2
<1> QED BY <1>1, <1>2, <1>3, <1>5, WorkerStep

(***************************************************************************)
(* A scan that ends leaves the pipes as they are between two scans.        *)
(***************************************************************************)
LEMMA ScanEnds ==
  ASSUME WorkInv, scanStep \in {"write", "read"}, NEW line \in {NoAnswer, TurnText},
         GiveBack(turn, line), UNCHANGED <<workers, record, bench, twice>>, proc' \in BOOLEAN,
         worker' = [alive |-> worker.alive, ready |-> worker.ready, inbox |-> worker.inbox,
                    out |-> worker.out]',
         (worker.alive \in BOOLEAN /\ worker.ready \in BOOLEAN)',
         (~worker.alive => ~worker.ready /\ worker.inbox = <<>>)', PipeBetweenScans'
  PROVE  WorkInv'
<1>1. turn # Nobody
  BY DEF WorkInv, ScanTypes
<1>2. /\ answer' \in [Callers -> {NoLine, NoAnswer} \cup (Callers \X Nat)]
      /\ AnswersAreTheirOwn' /\ turn' = Nobody /\ scanStep' = "free"
  BY <1>1, GiveBackKeeps
<1>3. PipesAgree'
  BY <1>2 DEF PipesAgree
<1>4. workers' \in 0 .. MaxWorkers
  BY DEF WorkInv, WorkTypeOK
<1> QED BY <1>2, <1>3, <1>4, ScanStep

LEMMA WriteTextKeeps == ASSUME WorkInv, WriteText PROVE WorkInv'
<1>1. /\ scanStep = "write" /\ UNCHANGED <<workers, record, bench, twice>>
      /\ PipeBetweenScans /\ turn # Nobody
  BY DEF WriteText, WorkInv, PipesAgree, ScanTypes
<1>2. CASE worker.alive
  <2>1. /\ waiting' = Append(waiting, turn) /\ scanStep' = "read"
        /\ UNCHANGED <<proc, turn, answer>>
    BY <1>2 DEF WriteText
  <2>2. worker' = [alive |-> worker.alive, ready |-> worker.ready,
                   inbox |-> Append(worker.inbox, TurnText), out |-> worker.out]
    BY <1>2 DEF WriteText, WorkInv, ScanTypes, TurnText
  <2>3. worker'.inbox = <<TurnText>> /\ worker'.out = worker.out
    BY <1>1, <2>2, ShortQueues DEF PipeBetweenScans
  <2>4. worker'.alive = worker.alive /\ worker'.ready = worker.ready
    BY <2>2
  <2>5. /\ waiting = <<>> => waiting' = <<turn>>
        /\ waiting = <<Warm>> => waiting' = <<Warm, turn>>
    BY <2>1, ShortQueues
  <2>6. TurnText' = TurnText
    BY <1>1, <2>1 DEF TurnText, Text
  <2>7. PipeInScan'
    BY <1>1, <1>2, <2>1, <2>3, <2>4, <2>5, <2>6 DEF PipeInScan, PipeBetweenScans, Warm
  <2>8. PipesAgree'
    BY <1>2, <2>1, <2>4, <2>7 DEF PipesAgree
  <2>9. AnswersAreTheirOwn'
    BY <1>1, <2>1 DEF WorkInv, AnswersAreTheirOwn, Text
  <2>10. worker'.alive \in BOOLEAN /\ worker'.ready \in BOOLEAN
    BY <2>4 DEF WorkInv, WorkTypeOK
  <2>11. /\ worker' = [alive |-> worker.alive, ready |-> worker.ready, inbox |-> worker.inbox,
                      out |-> worker.out]'
    BY <2>2
  <2> QED BY <1>1, <2>1, <2>8, <2>9, <2>10, <2>11, ScanStep DEF WorkInv, ScanTypes, WorkTypeOK
<1>3. CASE ~worker.alive
  <2>1. GiveBack(turn, NoAnswer) /\ UNCHANGED <<worker, waiting, proc>>
    BY <1>3 DEF WriteText
  <2>2. PipeBetweenScans'
    BY <1>1, <2>1 DEF PipeBetweenScans, Warm
  <2> QED BY <1>1, <2>1, <2>2, ScanEnds DEF WorkInv, PipesAgree, WorkTypeOK, ScanTypes
<1> QED BY <1>2, <1>3

LEMMA ScanTimesOutKeeps == ASSUME WorkInv, ScanTimesOut PROVE WorkInv'
<1>1. /\ scanStep = "read" /\ GiveBack(turn, NoAnswer) /\ proc' = FALSE /\ waiting' = <<>>
      /\ UNCHANGED <<workers, record, bench, twice>>
  BY DEF ScanTimesOut
<1>2. worker' = [alive |-> FALSE, ready |-> FALSE, inbox |-> <<>>, out |-> <<>>]
  BY DEF ScanTimesOut, Dead
<1>3. PipeBetweenScans'
  BY <1>1, <1>2 DEF PipeBetweenScans
<1> QED BY <1>1, <1>2, <1>3, ScanEnds

LEMMA PipeEndsKeeps == ASSUME WorkInv, PipeEnds PROVE WorkInv'
<1>1. /\ ~worker.alive /\ waiting # <<>> /\ worker.out = <<>> /\ waiting' = <<>>
      /\ UNCHANGED <<worker, workers, record, bench, twice>>
      /\ ~worker.ready /\ worker.inbox = <<>>
  BY DEF PipeEnds, WorkInv, PipesAgree
<1>2. PipeBetweenScans'
  BY <1>1 DEF PipeBetweenScans
<1>3. CASE scanStep = "read"
  <2>1. GiveBack(turn, NoAnswer) /\ proc' = FALSE
    BY <1>3 DEF PipeEnds
  <2> QED BY <1>1, <1>2, <1>3, <2>1, ScanEnds DEF WorkInv, WorkTypeOK, ScanTypes
<1>4. CASE scanStep # "read"
  <2>1. UNCHANGED <<turn, scanStep, answer, proc>>
    BY <1>4 DEF PipeEnds
  <2>2. PipesAgree'
    BY <1>1, <1>2, <1>4, <2>1 DEF PipesAgree
  <2>3. AnswersAreTheirOwn'
    BY <1>1, <2>1 DEF WorkInv, AnswersAreTheirOwn, Text
  <2> QED BY <1>1, <2>1, <2>2, <2>3, ScanStep DEF WorkInv, ScanTypes, WorkTypeOK
<1> QED BY <1>3, <1>4

LEMMA LineComesKeeps == ASSUME WorkInv, LineComes PROVE WorkInv'
<1>1. /\ waiting # <<>> /\ worker.out # <<>> /\ waiting' = Tail(waiting)
      /\ UNCHANGED <<workers, proc, record, bench, twice>>
  BY DEF LineComes
<1>2. worker' = [alive |-> worker.alive, ready |-> worker.ready, inbox |-> worker.inbox,
                 out |-> Tail(worker.out)]
  BY DEF LineComes, WorkInv, ScanTypes
<1>3. /\ worker'.alive = worker.alive /\ worker'.ready = worker.ready
      /\ worker'.inbox = worker.inbox /\ worker'.out = Tail(worker.out)
      /\ worker.alive \in BOOLEAN /\ worker.ready \in BOOLEAN
  BY <1>2 DEF WorkInv, WorkTypeOK
<1>4. ~worker.alive => ~worker.ready /\ worker.inbox = <<>>
  BY DEF WorkInv, PipesAgree
<1>5. CASE scanStep # "read"
  <2>1. UNCHANGED <<turn, scanStep, answer>>
    BY <1>5 DEF LineComes
  <2>2. /\ waiting = <<Warm>> /\ worker.out = <<Warm>> /\ (worker.alive => worker.ready)
        /\ worker.inbox = <<>>
    BY <1>1, <1>5 DEF WorkInv, PipesAgree, PipeBetweenScans
  <2>3. waiting' = <<>> /\ worker'.out = <<>>
    BY <1>1, <1>3, <2>2, ShortQueues
  <2>4. PipesAgree'
    BY <1>3, <1>4, <1>5, <2>1, <2>2, <2>3 DEF PipesAgree, PipeBetweenScans
  <2>5. AnswersAreTheirOwn'
    BY <1>1, <2>1 DEF WorkInv, AnswersAreTheirOwn, Text
  <2> QED BY <1>1, <1>2, <1>3, <2>1, <2>4, <2>5, ScanStep DEF WorkInv, ScanTypes, WorkTypeOK
<1>6. CASE scanStep = "read" /\ waiting = <<turn>>
  <2>1. /\ worker.out = <<TurnText>> /\ worker.inbox = <<>> /\ (worker.alive => worker.ready)
    <3>1. <<turn>> # <<Warm, turn>>
      <4>1. Len(<<turn>>) = 1 /\ Len(<<Warm, turn>>) = 2
        BY ShortQueues
      <4> QED BY <4>1
    <3> QED BY <1>1, <1>6, <3>1 DEF WorkInv, PipesAgree, PipeInScan
  <2>2. Head(waiting) = turn /\ Head(worker.out) = TurnText
    BY <1>6, <2>1, ShortQueues
  <2>3. GiveBack(turn, TurnText)
    BY <1>6, <2>2 DEF LineComes
  <2>4. waiting' = <<>> /\ worker'.out = <<>>
    BY <1>1, <1>3, <1>6, <2>1, ShortQueues
  <2>5. PipeBetweenScans'
    BY <1>3, <2>1, <2>4 DEF PipeBetweenScans
  <2> QED BY <1>1, <1>2, <1>3, <1>4, <1>6, <2>3, <2>5, ScanEnds DEF WorkInv, WorkTypeOK
<1>7. CASE scanStep = "read" /\ waiting = <<Warm, turn>>
  <2>1. /\ \/ /\ worker.out = <<Warm>> /\ (worker.alive => worker.ready)
              /\ (worker.alive => worker.inbox = <<TurnText>>)
           \/ /\ worker.out = <<Warm, TurnText>> /\ worker.inbox = <<>>
              /\ (worker.alive => worker.ready)
    <3>1. <<turn>> # <<Warm, turn>>
      <4>1. Len(<<turn>>) = 1 /\ Len(<<Warm, turn>>) = 2
        BY ShortQueues
      <4> QED BY <4>1
    <3> QED BY <1>1, <1>7, <3>1 DEF WorkInv, PipesAgree, PipeInScan
  <2>2. Head(waiting) = Warm /\ turn # Warm
    <3>1. turn \in Callers
      BY <1>7 DEF WorkInv, ScanTypes
    <3> QED BY <1>7, <3>1, ShortQueues, WorkbenchAssumption
  <2>3. UNCHANGED <<turn, scanStep, answer>>
    BY <2>2 DEF LineComes
  <2>4. waiting' = <<turn>>
    BY <1>1, <1>7, ShortQueues
  <2>5. \/ worker'.out = <<>> /\ worker.out = <<Warm>>
        \/ worker'.out = <<TurnText>> /\ worker.out = <<Warm, TurnText>>
    <3>1. Tail(<<Warm>>) = <<>> /\ Tail(<<Warm, TurnText>>) = <<TurnText>>
      BY ShortQueues
    <3> QED BY <1>3, <2>1, <3>1
  <2>6. TurnText' = TurnText
    BY <1>1, <2>3 DEF TurnText, Text
  <2>7. <<Warm>> # <<Warm, TurnText>>
    <3>1. Len(<<Warm>>) = 1 /\ Len(<<Warm, TurnText>>) = 2
      BY ShortQueues
    <3> QED BY <3>1
  <2>8. PipeInScan'
    BY <1>3, <2>1, <2>3, <2>4, <2>5, <2>6, <2>7 DEF PipeInScan
  <2>9. PipesAgree'
    BY <1>3, <1>4, <1>7, <2>3, <2>8 DEF PipesAgree
  <2>10. AnswersAreTheirOwn'
    BY <1>1, <2>3 DEF WorkInv, AnswersAreTheirOwn, Text
  <2> QED BY <1>1, <1>2, <1>3, <2>3, <2>9, <2>10, ScanStep DEF WorkInv, ScanTypes, WorkTypeOK
<1> QED BY <1>5, <1>6, <1>7 DEF WorkInv, PipesAgree, PipeInScan

(***************************************************************************)
(* A step of a benchmark leaves the scanner, and the text it is at, alone. *)
(***************************************************************************)
LEMMA BenchStep ==
  ASSUME WorkInv, UNCHANGED scanVars, turn # Nobody => Text(turn)' = Text(turn),
         turn # Nobody => answer'[turn] = NoLine, twice' \in BOOLEAN,
         answer' \in [Callers -> {NoLine, NoAnswer} \cup (Callers \X Nat)],
         bench' \in [Benches -> [at : {"new", "refused", "load", "run", "ended", "done"},
                                 sample : Nat]],
         \A b \in Benches : bench'[b].sample <= Samples[b],
         AnswersAreTheirOwn', OneBenchmark', RecordTells'
  PROVE  WorkInv'
<1>1. UNCHANGED <<worker, workers, proc, waiting, turn, scanStep>>
  BY DEF scanVars
<1>2. WorkTypeOK'
  BY <1>1 DEF WorkInv, WorkTypeOK
<1>3. ScanTypes'
  BY <1>1 DEF WorkInv, ScanTypes
<1>4. PipesAgree'
  <2>1. scanStep = "read" => TurnText' = TurnText
    BY <1>1 DEF TurnText, WorkInv, ScanTypes, Text
  <2> QED BY <1>1, <2>1 DEF WorkInv, PipesAgree, PipeInScan, PipeBetweenScans, Warm
<1> QED BY <1>2, <1>3, <1>4 DEF WorkInv

(***************************************************************************)
(* A benchmark that goes from one place to another keeps its sample.       *)
(***************************************************************************)
LEMMA PutMoves ==
  ASSUME WorkInv, NEW b \in Benches, NEW place \in {"refused", "load", "run", "ended", "done"},
         Put(b, place)
  PROVE  /\ bench' \in [Benches -> [at : {"new", "refused", "load", "run", "ended", "done"},
                                    sample : Nat]]
         /\ \A d \in Benches : /\ bench'[d].at = IF d = b THEN place ELSE bench[d].at
                               /\ bench'[d].sample = bench[d].sample
         /\ \A d \in Benches : bench'[d].sample <= Samples[d]
         /\ \A c \in Callers : Text(c)' = Text(c)
<1>1. bench \in [Benches -> [at : {"new", "refused", "load", "run", "ended", "done"},
                             sample : Nat]]
  BY DEF WorkInv, WorkTypeOK
<1>2. bench' = [bench EXCEPT ![b].at = place]
  BY DEF Put
<1>3. bench' \in [Benches -> [at : {"new", "refused", "load", "run", "ended", "done"},
                              sample : Nat]]
  BY <1>1, <1>2
<1>4. \A d \in Benches : /\ bench'[d].at = IF d = b THEN place ELSE bench[d].at
                         /\ bench'[d].sample = bench[d].sample
  BY <1>1, <1>2
<1>5. \A d \in Benches : bench'[d].sample <= Samples[d]
  BY <1>4 DEF WorkInv, WorkTypeOK
<1>6. \A c \in Callers : Text(c)' = Text(c)
  BY <1>4 DEF Text
<1> QED BY <1>3, <1>4, <1>5, <1>6

(***************************************************************************)
(* A step that moves one benchmark on and leaves the answers alone.        *)
(***************************************************************************)
LEMMA MoveStep ==
  ASSUME WorkInv, UNCHANGED <<scanVars, answer>>, twice' \in BOOLEAN, NEW b \in Benches,
         NEW place \in {"refused", "load", "run", "ended", "done"}, Put(b, place),
         OneBenchmark', RecordTells'
  PROVE  WorkInv'
<1>1. /\ bench' \in [Benches -> [at : {"new", "refused", "load", "run", "ended", "done"},
                                 sample : Nat]]
      /\ \A d \in Benches : bench'[d].sample <= Samples[d]
      /\ \A c \in Callers : Text(c)' = Text(c)
  BY PutMoves
<1>2. AnswersAreTheirOwn'
  BY <1>1 DEF WorkInv, AnswersAreTheirOwn
<1>3. UNCHANGED scanVars /\ answer' = answer
  OBVIOUS
<1>4. answer \in [Callers -> {NoLine, NoAnswer} \cup (Callers \X Nat)]
  BY DEF WorkInv, WorkTypeOK
<1>5. /\ turn # Nobody => Text(turn)' = Text(turn)
      /\ turn # Nobody => answer'[turn] = NoLine
  <2>1. turn' = turn /\ turn \in Callers \cup {Nobody}
    BY DEF scanVars, WorkInv, ScanTypes
  <2>2. turn # Nobody => answer'[turn] = NoLine
    BY <1>3 DEF WorkInv, ScanTypes
  <2>3. CASE turn # Nobody
    <3>1. bench'[turn].sample = bench[turn].sample \/ turn \notin Benches
      BY PutMoves
    <3> QED BY <2>1, <2>2, <3>1 DEF Text
  <2> QED BY <2>2, <2>3
<1> QED BY <1>1, <1>2, <1>3, <1>4, <1>5, BenchStep

LEMMA LetInKeeps == ASSUME WorkInv, NEW b \in Benches, LetIn(b) PROVE WorkInv'
<1>1. bench[b].at = "new" /\ UNCHANGED <<scanVars, answer>> /\ record' = record
  BY DEF LetIn
<1>2. ~twice' => ~twice /\ (record.running \/ OnTheirWay = {})
  BY Zenon DEF LetIn
<1>3. twice' \in BOOLEAN
  BY Zenon DEF LetIn, WorkInv, WorkTypeOK
<1>4. PICK place \in {"refused", "load"} :
        Put(b, place) /\ (place = "load" => ~record.running)
  BY DEF LetIn
<1>5. \A d \in Benches : /\ bench'[d].at = IF d = b THEN place ELSE bench[d].at
                         /\ bench'[d].sample = bench[d].sample
  BY <1>4, PutMoves
<1>6. AtWork' = AtWork /\ OnTheirWay' \subseteq OnTheirWay \cup {b}
      /\ (place = "refused" => OnTheirWay' = OnTheirWay)
  BY <1>1, <1>5 DEF AtWork, OnTheirWay
<1>7. OneBenchmark'
  <2>1. record' \in Records
    BY <1>1 DEF WorkInv, OneBenchmark
  <2>2. \A d \in Benches : bench'[d].at \in {"new", "load"} => bench'[d].sample = 0
    BY <1>1, <1>5 DEF WorkInv, OneBenchmark
  <2>3. ASSUME ~twice' PROVE \A c, d \in OnTheirWay' \cup AtWork' : c = d
    <3>1. CASE place = "refused"
      BY <1>2, <1>6, <2>3, <3>1 DEF WorkInv, OneBenchmark
    <3>2. CASE place = "load"
      <4>1. ~record.running /\ ~twice /\ OnTheirWay = {}
        BY <1>2, <1>4, <2>3, <3>2
      <4>2. AtWork = {}
        BY <4>1 DEF WorkInv, RecordTells
      <4> QED BY <1>6, <4>1, <4>2
    <3> QED BY <3>1, <3>2
  <2>4. ~twice' => \A d \in Benches : bench'[d].at = "ended" =>
                                        record'.error \/ record'.report # Nobody
    BY <1>1, <1>2, <1>5 DEF WorkInv, OneBenchmark
  <2> QED BY <2>1, <2>2, <2>3, <2>4 DEF OneBenchmark
<1>8. RecordTells'
  <2>1. \A d \in AtWork : bench'[d].sample = bench[d].sample
    BY <1>5 DEF AtWork
  <2> QED BY <1>1, <1>2, <1>6, <2>1 DEF WorkInv, RecordTells, Idle
<1> QED BY <1>1, <1>3, <1>4, <1>7, <1>8, MoveStep

LEMMA FinishKeeps == ASSUME WorkInv, NEW b \in Benches, Finish(b) PROVE WorkInv'
<1>1. /\ bench[b].at = "ended" /\ Put(b, "done") /\ UNCHANGED <<scanVars, answer, twice>>
      /\ record' = [record EXCEPT !.running = FALSE]
  BY DEF Finish
<1>2. \A d \in Benches : /\ bench'[d].at = IF d = b THEN "done" ELSE bench[d].at
                         /\ bench'[d].sample = bench[d].sample
  BY <1>1, PutMoves
<1>3. OnTheirWay' = OnTheirWay /\ AtWork' = AtWork \ {b} /\ b \in AtWork
  BY <1>1, <1>2 DEF AtWork, OnTheirWay
<1>4. /\ record' \in Records /\ ~record'.running /\ record'.error = record.error
      /\ record'.source = record.source /\ record'.report = record.report
  BY <1>1 DEF WorkInv, OneBenchmark, Records
<1>5. OneBenchmark'
  BY <1>1, <1>2, <1>3, <1>4 DEF WorkInv, OneBenchmark
<1>6. RecordTells'
  <2>1. ~twice => AtWork' = {}
    BY <1>3 DEF WorkInv, OneBenchmark
  <2>2. ~twice => record.error \/ record.report # Nobody
    BY <1>1 DEF WorkInv, OneBenchmark
  <2> QED BY <1>1, <1>4, <2>1, <2>2 DEF WorkInv, RecordTells
<1> QED BY <1>1, <1>5, <1>6, MoveStep DEF WorkInv, WorkTypeOK

LEMMA LaunchKeeps == ASSUME WorkInv, NEW b \in Benches, Launch(b) PROVE WorkInv'
<1>1. bench[b].at = "load" /\ bench[b].sample = 0 /\ UNCHANGED <<scanVars, answer, twice>>
      /\ b # Nobody
  BY WorkbenchAssumption DEF Launch, WorkInv, OneBenchmark, Callers
<1>2. twice' \in BOOLEAN
  BY <1>1 DEF WorkInv, WorkTypeOK
<1>3. CASE Put(b, "refused") /\ UNCHANGED record
  <2>1. \A d \in Benches : /\ bench'[d].at = IF d = b THEN "refused" ELSE bench[d].at
                           /\ bench'[d].sample = bench[d].sample
    BY <1>3, PutMoves
  <2>2. OnTheirWay' = OnTheirWay \ {b} /\ AtWork' = AtWork
    BY <1>1, <2>1 DEF AtWork, OnTheirWay
  <2>3. OneBenchmark'
    BY <1>1, <1>3, <2>1, <2>2 DEF WorkInv, OneBenchmark
  <2>4. \A d \in AtWork : bench'[d].sample = bench[d].sample
    BY <2>1 DEF AtWork
  <2>5. RecordTells'
    BY <1>1, <1>3, <2>2, <2>4 DEF WorkInv, RecordTells, Idle
  <2> QED BY <1>1, <1>2, <1>3, <2>3, <2>5, MoveStep
<1>4. CASE /\ Put(b, "run")
           /\ record' = [running |-> TRUE, source |-> b, processed |-> 0, report |-> Nobody,
                         error |-> FALSE]
  <2>1. \A d \in Benches : /\ bench'[d].at = IF d = b THEN "run" ELSE bench[d].at
                           /\ bench'[d].sample = bench[d].sample
    BY <1>4, PutMoves
  <2>2. OnTheirWay' = OnTheirWay \ {b} /\ AtWork' = AtWork \cup {b} /\ b \in OnTheirWay
    BY <1>1, <2>1 DEF AtWork, OnTheirWay
  <2>3. ~twice => AtWork = {}
    <3>1. b \notin AtWork
      BY <1>1 DEF AtWork
    <3> QED BY <2>2, <3>1 DEF WorkInv, OneBenchmark
  <2>4. record' \in Records
    BY <1>4 DEF Records
  <2>5. OneBenchmark'
    <3>1. \A d \in Benches : bench'[d].at \in {"new", "load"} => bench'[d].sample = 0
      BY <2>1 DEF WorkInv, OneBenchmark
    <3>2. ~twice' => \A c, d \in OnTheirWay' \cup AtWork' : c = d
      BY <1>1, <2>2 DEF WorkInv, OneBenchmark
    <3>3. ~twice' => \A d \in Benches : bench'[d].at # "ended"
      BY <1>1, <2>1, <2>3 DEF AtWork
    <3> QED BY <2>4, <3>1, <3>2, <3>3 DEF OneBenchmark
  <2>6. ~twice' => AtWork' = {b} /\ bench'[b].sample = 0
    BY <1>1, <2>1, <2>2, <2>3
  <2>7. RecordTells'
    BY <1>4, <2>6 DEF RecordTells
  <2> QED BY <1>1, <1>2, <1>4, <2>5, <2>7, MoveStep
<1> QED BY <1>3, <1>4 DEF Launch

LEMMA ReportKeeps == ASSUME WorkInv, NEW b \in Benches, Report(b) PROVE WorkInv'
<1>1. /\ bench[b].at = "run" /\ Put(b, "ended") /\ UNCHANGED <<scanVars, answer, twice>>
      /\ record' = [record EXCEPT !.report = b] /\ b # Nobody
  BY WorkbenchAssumption DEF Report, Callers
<1>2. \A d \in Benches : /\ bench'[d].at = IF d = b THEN "ended" ELSE bench[d].at
                         /\ bench'[d].sample = bench[d].sample
  BY <1>1, PutMoves
<1>3. OnTheirWay' = OnTheirWay /\ AtWork' = AtWork /\ b \in AtWork
  BY <1>1, <1>2 DEF AtWork, OnTheirWay
<1>4. /\ record' \in Records /\ record'.running = record.running /\ record'.error = record.error
      /\ record'.source = record.source /\ record'.report = b
      /\ record'.processed = record.processed
  BY <1>1 DEF WorkInv, OneBenchmark, Records
<1>5. OneBenchmark'
  BY <1>1, <1>2, <1>3, <1>4 DEF WorkInv, OneBenchmark
<1>6. RecordTells'
  <2>1. ~twice => record.running /\ record.source = b
    BY <1>3 DEF WorkInv, RecordTells
  <2>2. \A d \in AtWork : bench'[d].sample = bench[d].sample
    BY <1>2 DEF AtWork
  <2> QED BY <1>1, <1>3, <1>4, <2>1, <2>2 DEF WorkInv, RecordTells
<1> QED BY <1>1, <1>5, <1>6, MoveStep DEF WorkInv, WorkTypeOK

LEMMA FailKeeps == ASSUME WorkInv, NEW b \in Benches, Fail(b) PROVE WorkInv'
<1>1. /\ bench[b].at = "run" /\ Put(b, "ended") /\ UNCHANGED <<scanVars, answer, twice>>
      /\ record' = [record EXCEPT !.error = TRUE]
  BY DEF Fail
<1>2. \A d \in Benches : /\ bench'[d].at = IF d = b THEN "ended" ELSE bench[d].at
                         /\ bench'[d].sample = bench[d].sample
  BY <1>1, PutMoves
<1>3. OnTheirWay' = OnTheirWay /\ AtWork' = AtWork
  BY <1>1, <1>2 DEF AtWork, OnTheirWay
<1>4. /\ record' \in Records /\ record'.running = record.running /\ record'.error
      /\ record'.source = record.source /\ record'.report = record.report
      /\ record'.processed = record.processed
  BY <1>1 DEF WorkInv, OneBenchmark, Records
<1>5. OneBenchmark'
  BY <1>1, <1>2, <1>3, <1>4 DEF WorkInv, OneBenchmark
<1>6. RecordTells'
  <2>1. \A d \in AtWork : bench'[d].sample = bench[d].sample
    BY <1>2 DEF AtWork
  <2> QED BY <1>1, <1>3, <1>4, <2>1 DEF WorkInv, RecordTells
<1> QED BY <1>1, <1>5, <1>6, MoveStep DEF WorkInv, WorkTypeOK

LEMMA NextSampleKeeps == ASSUME WorkInv, NEW b \in Benches, NextSample(b) PROVE WorkInv'
<1>1. /\ bench[b].at = "run" /\ bench[b].sample < Samples[b] /\ answer[b] # NoLine
      /\ bench' = [bench EXCEPT ![b].sample = @ + 1]
      /\ answer' = [answer EXCEPT ![b] = NoLine]
      /\ record' = [record EXCEPT !.processed = bench[b].sample + 1]
      /\ UNCHANGED <<scanVars, twice>>
  BY DEF NextSample
<1>2. /\ bench \in [Benches -> [at : {"new", "refused", "load", "run", "ended", "done"},
                                sample : Nat]]
      /\ answer \in [Callers -> {NoLine, NoAnswer} \cup (Callers \X Nat)]
      /\ b \in Callers /\ Samples[b] \in Nat /\ bench[b].sample \in Nat
  BY WorkbenchAssumption DEF WorkInv, WorkTypeOK, Callers
<1>3. bench' \in [Benches -> [at : {"new", "refused", "load", "run", "ended", "done"},
                              sample : Nat]]
  BY <1>1, <1>2
<1>4. \A d \in Benches : /\ bench'[d].at = bench[d].at
                         /\ bench'[d].sample =
                              IF d = b THEN bench[b].sample + 1 ELSE bench[d].sample
  BY <1>1, <1>2
<1>5. \A d \in Benches : bench'[d].sample <= Samples[d]
  <2>1. \A d \in Benches : bench[d].sample <= Samples[d]
    BY DEF WorkInv, WorkTypeOK
  <2>2. bench[b].sample + 1 <= Samples[b]
    BY <1>1, <1>2
  <2> QED BY <1>4, <2>1, <2>2
<1>6. /\ answer' \in [Callers -> {NoLine, NoAnswer} \cup (Callers \X Nat)]
      /\ \A c \in Callers : answer'[c] = IF c = b THEN NoLine ELSE answer[c]
  BY <1>1, <1>2
<1>7. \A c \in Callers \ {b} : Text(c)' = Text(c)
  BY <1>4 DEF Text
<1>8. AnswersAreTheirOwn'
  BY <1>6, <1>7 DEF WorkInv, AnswersAreTheirOwn
<1>9. turn' = turn /\ (turn # Nobody => turn \in Callers \ {b} /\ answer[turn] = NoLine)
  BY <1>1 DEF WorkInv, ScanTypes, scanVars
<1>10. turn # Nobody => Text(turn)' = Text(turn) /\ answer'[turn] = NoLine
  BY <1>4, <1>6, <1>9 DEF Text
<1>11. OnTheirWay' = OnTheirWay /\ AtWork' = AtWork /\ b \in AtWork
  BY <1>1, <1>4 DEF AtWork, OnTheirWay
<1>12. /\ record' \in Records /\ record'.running = record.running /\ record'.error = record.error
       /\ record'.source = record.source /\ record'.report = record.report
       /\ record'.processed = bench[b].sample + 1
  BY <1>1, <1>2 DEF WorkInv, OneBenchmark, Records
<1>13. OneBenchmark'
  BY <1>1, <1>4, <1>11, <1>12 DEF WorkInv, OneBenchmark
<1>14. RecordTells'
  <2>1. ~twice => /\ record.running /\ record.source = b
                  /\ \A d \in AtWork : d = b
    BY <1>11 DEF WorkInv, RecordTells, OneBenchmark
  <2> QED BY <1>1, <1>4, <1>11, <1>12, <2>1 DEF WorkInv, RecordTells
<1>15. UNCHANGED scanVars /\ twice' \in BOOLEAN
  BY <1>1 DEF WorkInv, WorkTypeOK
<1> QED BY <1>3, <1>5, <1>6, <1>8, <1>10, <1>13, <1>14, <1>15, BenchStep

LEMMA WorkStep == ASSUME WorkInv, [WorkNext]_benchVars PROVE WorkInv'
<1>1. CASE UNCHANGED benchVars
  <2>1. TurnText' = TurnText /\ Warm' = Warm
    BY <1>1 DEF benchVars, TurnText, Text, Warm
  <2>2. WorkTypeOK' /\ ScanTypes'
    BY <1>1 DEF benchVars, WorkInv, WorkTypeOK, ScanTypes
  <2>3. PipesAgree'
    BY <1>1, <2>1 DEF benchVars, WorkInv, PipesAgree, PipeInScan, PipeBetweenScans, Warm
  <2>4. AnswersAreTheirOwn'
    BY <1>1 DEF benchVars, WorkInv, AnswersAreTheirOwn, Text
  <2>5. OneBenchmark' /\ RecordTells'
    BY <1>1, ScannerKeepsBenches DEF benchVars, WorkInv
  <2> QED BY <2>2, <2>3, <2>4, <2>5 DEF WorkInv
<1>2. CASE WorkNext
  BY <1>2, WarmedUpKeeps, WriteTextKeeps, LineComesKeeps, PipeEndsKeeps, ScanTimesOutKeeps,
     WorkerWarmsKeeps, WorkerAnswersKeeps, WorkerDiesKeeps, EnsureKeeps, NoVenvKeeps,
     LetInKeeps, LaunchKeeps, NextSampleKeeps, ReportKeeps, FailKeeps, FinishKeeps
  DEF WorkNext
<1> QED BY <1>1, <1>2

(***************************************************************************)
(* Through slow starts, timeouts and deaths of the worker every scan gets  *)
(* its own answer or none, and the record tells of the benchmark at work.  *)
(***************************************************************************)
THEOREM WorkSound == WorkSpec => []WorkIsSound
<1>1. WorkInit => WorkInv
  BY WorkInitInv
<1>2. WorkInv /\ [WorkNext]_benchVars => WorkInv'
  BY WorkStep
<1>3. WorkInv => WorkIsSound
  BY DEF WorkInv, WorkIsSound
<1> QED BY <1>1, <1>2, <1>3, PTL DEF WorkSpec


-----------------------------------------------------------------------------
(***************************************************************************)
(* The probe of the local model (TagsProbe).  Every piece of a read takes  *)
(* less than the timeout, and a read begins before the deadline: Spent is  *)
(* how much of the time a read has used that it began with.  After a head  *)
(* that came late nothing is read.                                         *)
(***************************************************************************)
Spent(pieces) == Timeout - 1 + pieces * (Timeout - 1)

WholeRead == Block * (Timeout - 1)

TimeInv ==
  /\ headTime < Timeout =>
       /\ probeAt \in {"open", "check"} => ticks <= Spent(Block)
       /\ probeAt = "read" => ticks <= Spent(block)
  /\ ~(headTime < Timeout) => probeAt \in {"open", "check", "done"} /\ total = 0
  /\ probeAt = "open" => ticks = headTime /\ total = 0
  /\ OneReadOverdue

ReadInv ==
  /\ total \in Nat
  /\ probeAt = "read" => total < MaxPieces /\ block + 1 <= Asked
  /\ probeAt \notin {"read", "done"} => block = 0

TagsInv == TagsTypeOK /\ ProbeTells /\ TimeInv /\ ReadInv

LEMMA TimeBounds ==
  ASSUME NEW n \in Nat, n < Block
  PROVE  /\ Timeout \in Nat /\ Block \in Nat /\ MaxPieces \in Nat
         /\ Timeout > 0 /\ Block > 0 /\ MaxPieces > 0
         /\ Spent(0) = Timeout - 1 /\ \A m \in Nat : Spent(m) \in Nat
         /\ Spent(n + 1) = Spent(n) + (Timeout - 1)
         /\ Spent(n) + Timeout <= Timeout + WholeRead
         /\ Spent(n + 1) <= Spent(Block)
         /\ Spent(Block) = WholeRead + (Timeout - 1)
         /\ WholeRead \in Nat
<1> DEFINE K == Timeout - 1
<1>1. Timeout \in Nat \ {0} /\ Block \in Nat \ {0} /\ MaxPieces \in Nat \ {0} /\ K \in Nat
  BY TagsAssumption
<1>2. \A m \in Nat : m * K \in Nat
  BY <1>1
<1>3. (n + 1) * K = n * K + K /\ 0 * K = 0
  BY <1>1
<1>4. PICK d \in Nat : Block = n + 1 + d
  <2>1. Block - (n + 1) \in Nat /\ Block = n + 1 + (Block - (n + 1))
    BY <1>1
  <2> QED
    BY <2>1
<1>5. Block * K = (n + 1) * K + d * K /\ d * K \in Nat
  BY <1>1, <1>4
<1>6. Timeout = K + 1
  BY <1>1
<1> QED
  BY <1>1, <1>2, <1>3, <1>5, <1>6 DEF Spent, WholeRead

LEMMA TagsStart == TagsInit => TagsInv
<1> SUFFICES ASSUME TagsInit PROVE TagsInv
  OBVIOUS
<1>1. 0 < Block /\ 0 \in Nat
  BY TagsAssumption
<1>2. /\ Timeout \in Nat /\ Block \in Nat /\ MaxPieces \in Nat
      /\ Timeout > 0 /\ Block > 0 /\ MaxPieces > 0
      /\ WholeRead \in Nat
  BY <1>1, TimeBounds
<1>3. TagsTypeOK
  <2>1. verdict = "none" <=> probeAt # "done"
    BY DEF TagsInit
  <2>2. tags \subseteq Names /\ modelWanted \in Names
    BY DEF TagsInit
  <2>3. block \in 0 .. Block - 1 /\ total + block \in 0 .. MaxPieces
    BY <1>2 DEF TagsInit
  <2>4. ticks \in Nat /\ headTime \in Nat /\ ended \in BOOLEAN
    BY DEF TagsInit
  <2>5. probeAt \in {"open", "check", "read", "decode", "done"} /\ verdict \in {"none", "available", "unreachable", "not pulled"}
    BY DEF TagsInit
  <2> QED
    BY <2>1, <2>2, <2>3, <2>4, <2>5 DEF TagsTypeOK
<1>5. ProbeTells /\ ReadInv
  BY <1>2 DEF TagsInit, ProbeTells, ReadInv
<1>6. Spent(Block) = WholeRead + (Timeout - 1)
  BY <1>1, TimeBounds
<1>4. TimeInv
  BY <1>2, <1>6 DEF TagsInit, TimeInv, OneReadOverdue, WholeRead
<1> QED
  BY <1>3, <1>4, <1>5 DEF TagsInv

LEMMA TagsStep ==
  ASSUME TagsInv, TagsNext
  PROVE  TagsInv'
<1>0. /\ tags \subseteq Names /\ modelWanted \in Names /\ ended \in BOOLEAN
      /\ verdict \in {"none", "available", "unreachable", "not pulled"}
      /\ verdict = "none" <=> probeAt # "done"
  BY DEF TagsInv, TagsTypeOK
<1>1. /\ ticks \in Nat /\ headTime \in Nat /\ block \in Nat /\ block < Block /\ total \in Nat
      /\ total + block \in 0 .. MaxPieces
  <2>1. TagsTypeOK /\ total \in Nat
    BY DEF TagsInv, ReadInv
  <2>2. block \in 0 .. Block - 1 /\ Block \in Nat
    BY <2>1, TagsAssumption DEF TagsTypeOK
  <2>3. block \in Nat /\ block < Block
    BY <2>2
  <2> QED
    BY <2>1, <2>3 DEF TagsTypeOK
<1>2. /\ Timeout \in Nat /\ Block \in Nat /\ MaxPieces \in Nat
      /\ Timeout > 0 /\ Block > 0 /\ MaxPieces > 0 /\ WholeRead \in Nat
  BY <1>1, TimeBounds
<1>22. /\ Spent(0) = Timeout - 1 /\ \A m \in Nat : Spent(m) \in Nat
      /\ Spent(block + 1) = Spent(block) + (Timeout - 1)
      /\ Spent(block) + Timeout <= Timeout + WholeRead
      /\ Spent(block + 1) <= Spent(Block)
      /\ Spent(Block) = WholeRead + (Timeout - 1)
      /\ Spent(block) \in Nat /\ Spent(block + 1) \in Nat
  BY <1>1, TimeBounds
<1> DEFINE K == Timeout - 1
<1>3. K \in Nat /\ WholeRead \in Nat /\ Timeout = K + 1 /\ Spent(Block) = WholeRead + K
  BY <1>2, <1>22
<1>4. /\ OneReadOverdue <=> IF headTime < Timeout THEN ticks <= Timeout + WholeRead ELSE ticks = headTime
      /\ OneReadOverdue' <=>
           IF headTime' < Timeout THEN ticks' <= Timeout + WholeRead ELSE ticks' = headTime'
  BY DEF OneReadOverdue, WholeRead
<1>5. TimeInv /\ ReadInv /\ ProbeTells
  BY DEF TagsInv
<1> HIDE DEF K
<1>6. /\ probeAt = "open" => ticks = headTime /\ total = 0
      /\ probeAt = "read" => total < MaxPieces /\ block + 1 <= Asked
      /\ probeAt \notin {"read", "done"} => block = 0
      /\ ~(headTime < Timeout) => probeAt \in {"open", "check", "done"} /\ total = 0 /\ ticks = headTime
      /\ headTime < Timeout =>
           /\ probeAt = "check" => ticks <= WholeRead + K
           /\ probeAt = "read" => ticks <= Spent(block)
           /\ ticks <= Timeout + WholeRead
  BY <1>1, <1>2, <1>3, <1>4, <1>5 DEF TimeInv, ReadInv
<1>7. Asked \in Int /\ Asked <= Block /\ Asked <= MaxPieces - total
  <2>1. CASE Block <= MaxPieces - total
    BY <1>1, <1>2, <2>1 DEF Asked
  <2>2. CASE ~(Block <= MaxPieces - total)
    BY <1>1, <1>2, <2>2 DEF Asked
  <2> QED
    BY <2>1, <2>2
<1>8. ASSUME NEW v \in {"available", "unreachable", "not pulled"}, ticks' \in Nat,
             headTime' \in Nat,
             headTime' < Timeout => ticks' <= Timeout + WholeRead,
             ~(headTime' < Timeout) => ticks' = headTime' /\ total = 0,
             Concludes(v),
             UNCHANGED <<tags, modelWanted, block, total, ended>>,
             v = "available" => ended /\ (modelWanted \in tags
                                          \/ (modelWanted = "m" /\ "m:latest" \in tags)),
             v = "not pulled" => ended /\ modelWanted \notin tags
      PROVE  TagsInv'
  <2>1. TagsTypeOK'
    <3>1. verdict' = v /\ probeAt' = "done" /\ v # "none"
      BY <1>8 DEF Concludes
    <3>2. block' \in 0 .. Block - 1 /\ total' + block' \in 0 .. MaxPieces
      <4>1. block' = block /\ total' = total
        BY <1>8
      <4>2. block \in 0 .. Block - 1
        BY DEF TagsInv, TagsTypeOK
      <4>3. total + block \in 0 .. MaxPieces
        BY <1>1
      <4> QED
        BY <4>1, <4>2, <4>3, Zenon
    <3>3. /\ tags' \subseteq Names /\ modelWanted' \in Names /\ ended' \in BOOLEAN
          /\ verdict' \in {"none", "available", "unreachable", "not pulled"}
      BY <1>0, <1>1, <1>8, <3>1
    <3> QED
      BY <1>8, <3>1, <3>2, <3>3 DEF TagsTypeOK
  <2>4. verdict' = v /\ probeAt' = "done" /\ UNCHANGED <<tags, modelWanted, total, ended>>
    BY <1>8 DEF Concludes
  <2>5. ProbeTells'
    <3>1. v = "available" => ended /\ (modelWanted \in tags
                                        \/ (modelWanted = "m" /\ "m:latest" \in tags))
      BY <1>8
    <3>2. v = "not pulled" => ended /\ modelWanted \notin tags
      BY <1>8
    <3> QED
      BY <2>4, <3>1, <3>2 DEF ProbeTells
  <2>6. ReadInv'
    BY <1>1, <2>4 DEF ReadInv
  <2>2. ProbeTells' /\ ReadInv'
    BY <2>5, <2>6
  <2>3. TimeInv'
    <3>3. /\ headTime' \in Nat /\ ticks' \in Nat
          /\ headTime' < Timeout => ticks' <= Timeout + WholeRead
          /\ ~(headTime' < Timeout) => ticks' = headTime'
      BY <1>8
    <3>1. OneReadOverdue'
      <4>1. CASE headTime' < Timeout
        BY <3>3, <4>1 DEF OneReadOverdue, WholeRead
      <4>2. CASE ~(headTime' < Timeout)
        <5>1. ticks' = headTime'
          BY <1>2, <3>3, <4>2
        <5> QED
          BY <4>2, <5>1 DEF OneReadOverdue
      <4> QED
        BY <4>1, <4>2
    <3>2. ~(headTime' < Timeout) => total' = 0
      BY <1>8, <2>4
    <3> QED
      BY <2>4, <3>1, <3>2 DEF TimeInv
  <2> QED
    BY <2>1, <2>2, <2>3 DEF TagsInv
<1>9. ASSUME probeAt' \in {"check", "read", "decode"}, probeAt # "done",
             UNCHANGED <<tags, modelWanted, headTime, verdict>>, ended' \in BOOLEAN, ticks' \in Nat,
             headTime < Timeout, ticks' <= Timeout + WholeRead, total' \in Nat, block' \in Nat, block' < Block,
             total' + block' <= MaxPieces,
             probeAt' = "check" => ticks' <= WholeRead + K,
             probeAt' = "read" => /\ ticks' <= Spent(block') /\ total' < MaxPieces
                                  /\ block' + 1 <= Asked',
             probeAt' # "read" => block' = 0
      PROVE  TagsInv'
  <2>1. verdict = "none" /\ verdict' = "none"
    BY <1>0, <1>9
  <2>2. TagsTypeOK'
    <3>1. block' \in 0 .. Block - 1 /\ total' + block' \in 0 .. MaxPieces
      <4>1. /\ block' \in Nat /\ block' < Block /\ total' \in Nat
            /\ total' + block' <= MaxPieces
        BY <1>9
      <4>2. PICK n \in Nat, b \in Nat : total' = n /\ block' = b
        BY <4>1
      <4>3. n + b <= MaxPieces /\ b < Block
        BY <4>1, <4>2
      <4>4. n + b \in 0 .. MaxPieces /\ b \in 0 .. Block - 1
        BY <1>2, <4>3
      <4> QED
        BY <4>2, <4>4
    <3>2. tags' \subseteq Names /\ modelWanted' \in Names /\ probeAt' # "done"
      BY <1>0, <1>9
    <3> QED
      BY <1>1, <1>9, <2>1, <3>1, <3>2 DEF TagsTypeOK
  <2>3. ProbeTells' /\ ReadInv'
    BY <1>9, <2>1 DEF ProbeTells, ReadInv
  <2>4. TimeInv'
    BY <1>1, <1>2, <1>3, <1>4, <1>9 DEF TimeInv
  <2> QED
    BY <2>2, <2>3, <2>4 DEF TagsInv
<1>10. CASE Open
  <2>1. probeAt = "open" /\ ticks = headTime /\ block = 0 /\ total = 0 /\ headTime' = ticks'
    BY <1>6, <1>10 DEF Open
  <2>2. CASE ticks' \in {ticks, ticks + Timeout} /\ Raises
    <3>1. ticks' \in Nat
      BY <1>1, <1>2, <2>2
    <3>2. headTime' < Timeout => ticks' <= Timeout + WholeRead
      BY <1>2, <2>1, <3>1
    <3> QED
      BY <1>8, <2>1, <2>2, <3>1, <3>2 DEF Raises
  <2>3. CASE /\ \E d \in 0 .. Timeout - 1 : ticks' = ticks + d /\ ticks' <= MaxHead
             /\ probeAt' \in {"open", "check"}
             /\ UNCHANGED <<tags, modelWanted, block, total, ended, verdict>>
    <3>1. ticks' \in Nat
      BY <1>1, <1>2, <2>3
    <3>2. TagsTypeOK'
      <4>1. block' \in 0 .. Block - 1 /\ total' + block' \in 0 .. MaxPieces
        BY <1>2, <2>1, <2>3
      <4>2. verdict' = "none" /\ probeAt' # "done"
        BY <1>0, <2>1, <2>3
      <4> QED
        BY <1>0, <2>1, <2>3, <3>1, <4>1, <4>2 DEF TagsTypeOK
    <3>3. ProbeTells'
      BY <1>0, <2>1, <2>3 DEF ProbeTells
    <3>4. ReadInv'
      BY <1>1, <2>1, <2>3 DEF ReadInv
    <3>5. headTime' < Timeout => ticks' <= Spent(Block)' /\ ticks' <= Timeout + WholeRead
      BY <1>2, <1>3, <2>1, <3>1 DEF Spent
    <3>6. TimeInv'
      BY <1>2, <1>4, <2>1, <2>3, <3>1, <3>5 DEF TimeInv
    <3> QED
      BY <3>2, <3>3, <3>4, <3>6 DEF TagsInv
  <2> QED
    BY <1>10, <2>2, <2>3 DEF Open
<1>20. CASE probeAt = "check" /\ ~(headTime < Timeout) /\ Check
  <2>1. total = 0 /\ ticks = headTime /\ UNCHANGED <<ticks, headTime>> /\ PieceRoom /\ Late
    BY <1>1, <1>2, <1>6, <1>20 DEF Check, PieceRoom, Late
  <2>2. Raises
    BY <1>20, <2>1 DEF Check
  <2>3. /\ Concludes("unreachable") /\ UNCHANGED <<tags, modelWanted, block, total, ended>>
        /\ ticks' \in Nat /\ headTime' \in Nat /\ ~(headTime' < Timeout) /\ ticks' = headTime'
    BY <1>1, <1>2, <1>20, <2>1, <2>2 DEF Raises
  <2> QED
    BY <1>8, <2>1, <2>3
<1>16. ~(headTime < Timeout) => TagsInv'
  <2>1. ~(headTime < Timeout) /\ ~Open => probeAt = "check" /\ Check
    BY <1>6 DEF TagsNext, Open, Check, Piece, Stall, Eof, Decode
  <2> QED
    BY <1>10, <1>20, <2>1
<1>17. SUFFICES ASSUME headTime < Timeout PROVE TagsInv'
  BY <1>1, <1>2, <1>16
<1>11. CASE Check
  <2>1. /\ probeAt = "check" /\ UNCHANGED <<ticks, headTime>> /\ block = 0
        /\ ticks <= WholeRead + K
    BY <1>6, <1>11, <1>17 DEF Check
  <2>2. CASE Raises
    BY <1>1, <1>2, <1>6, <1>8, <1>17, <2>1, <2>2 DEF Raises
  <2>3. CASE probeAt' = "decode" /\ UNCHANGED <<tags, modelWanted, block, total, ended, verdict>>
    <3>1. /\ ticks' \in Nat /\ ticks' <= Timeout + WholeRead
      BY <1>1, <1>6, <1>17, <2>1
    <3>2. /\ total' \in Nat /\ block' \in Nat /\ block' < Block /\ total' + block' <= MaxPieces
          /\ block' = 0
      BY <1>1, <1>2, <2>1, <2>3
    <3>3. ended' \in BOOLEAN
      BY <1>0, <2>3
    <3> QED
      BY <1>9, <1>17, <2>1, <2>3, <3>1, <3>2, <3>3
  <2>4. CASE /\ PieceRoom /\ ~Late /\ probeAt' = "read" /\ block' = 0
             /\ UNCHANGED <<tags, modelWanted, total, ended, verdict>>
    <3>1. total < MaxPieces /\ ticks <= Spent(0) /\ Asked' = Asked
      BY <1>1, <1>2, <1>22, <2>1, <2>4 DEF PieceRoom, Late, Asked
    <3>2. Asked >= 1
      BY <1>1, <1>2, <3>1 DEF Asked
    <3>3. /\ ticks' \in Nat /\ ticks' <= Timeout + WholeRead
      BY <1>1, <1>6, <1>17, <2>1
    <3>4. /\ total' \in Nat /\ block' \in Nat /\ block' < Block /\ total' + block' <= MaxPieces
          /\ block' = 0 /\ total' = total
      BY <1>1, <1>2, <2>1, <2>4
    <3>5. ended' \in BOOLEAN
      BY <1>0, <2>4
    <3>6. ticks' <= Spent(block') /\ total' < MaxPieces /\ block' + 1 <= Asked'
      BY <1>7, <2>1, <3>1, <3>2, <3>4
    <3> QED
      BY <1>9, <1>17, <2>1, <2>4, <3>3, <3>4, <3>5, <3>6
  <2> QED
    BY <1>11, <2>2, <2>3, <2>4 DEF Check
<1>12. CASE Piece
  <2>1. /\ probeAt = "read" /\ ticks <= Spent(block) /\ total < MaxPieces /\ block + 1 <= Asked
        /\ UNCHANGED <<tags, modelWanted, headTime, ended, verdict>> /\ Spent(block) \in Nat
    BY <1>6, <1>12, <1>17, <1>22 DEF Piece
  <2>2. PICK d \in 0 .. Timeout - 1 : ticks' = ticks + d
    BY <1>12 DEF Piece
  <2>3. ticks' \in Nat /\ ticks' <= Spent(block + 1) /\ ticks' <= Timeout + WholeRead
    BY <1>1, <1>2, <1>22, <1>3, <2>1, <2>2
  <2>4. CASE block + 1 >= Asked
    <3>1. total' = total + block + 1 /\ block' = 0 /\ probeAt' = "check" /\ block + 1 = Asked
      BY <1>1, <1>7, <1>12, <2>1, <2>4 DEF Piece
    <3>2. total' \in Nat /\ total' <= MaxPieces /\ Spent(block + 1) \in Nat
      BY <1>1, <1>2, <1>22, <1>7, <2>1, <3>1
    <3>3. ticks' <= WholeRead + K
      BY <1>1, <1>2, <1>22, <1>3, <2>3, <3>2
    <3>4. ended' \in BOOLEAN
      BY <1>0, <2>1
    <3>5. block' \in Nat /\ block' < Block /\ total' + block' <= MaxPieces
      BY <1>1, <1>2, <3>1, <3>2
    <3> QED
      BY <1>9, <1>17, <2>1, <2>3, <3>1, <3>2, <3>3, <3>4, <3>5
  <2>5. CASE ~(block + 1 >= Asked)
    <3>1. block' = block + 1 /\ total' = total /\ probeAt' = "read" /\ Asked' = Asked
      BY <1>12, <2>1, <2>5 DEF Piece, Asked
    <3>2. block' < Block /\ block' + 1 <= Asked' /\ total' + block' <= MaxPieces /\ block' \in Nat
      BY <1>1, <1>2, <1>7, <2>5, <3>1
    <3>3. ticks' <= Spent(block')
      BY <2>3, <3>1
    <3>4. ended' \in BOOLEAN
      BY <1>0, <2>1
    <3>5. total' \in Nat /\ total' < MaxPieces
      BY <1>1, <2>1, <3>1
    <3> QED
      BY <1>9, <1>17, <2>1, <2>3, <3>1, <3>2, <3>3, <3>4, <3>5
  <2> QED
    BY <2>4, <2>5
<1>13. CASE Stall
  <2>1. /\ probeAt = "read" /\ ticks <= Spent(block) /\ ticks' = ticks + Timeout /\ Raises
        /\ headTime' = headTime
    BY <1>6, <1>13, <1>17 DEF Stall
  <2>2. ticks' \in Nat /\ ticks' <= Timeout + WholeRead
    BY <1>1, <1>2, <1>22, <2>1
  <2>3. headTime' \in Nat /\ headTime' < Timeout
    BY <1>1, <1>17, <2>1
  <2> QED
    BY <1>8, <2>1, <2>2, <2>3 DEF Raises
<1>14. CASE Eof
  <2>1. /\ probeAt = "read" /\ ticks <= Spent(block) /\ total < MaxPieces /\ ended' = TRUE
        /\ total' = total + block /\ block' = 0 /\ Spent(block) \in Nat
        /\ probeAt' = IF block = 0 THEN "decode" ELSE "check"
        /\ UNCHANGED <<tags, modelWanted, headTime, verdict>>
    BY <1>1, <1>2, <1>22, <1>6, <1>14, <1>17 DEF Eof
  <2>2. PICK d \in 0 .. (IF ended THEN 0 ELSE Timeout - 1) : ticks' = ticks + d
    BY <1>14 DEF Eof
  <2>3. d \in 0 .. Timeout - 1
    BY <1>2
  <2>4. ticks' \in Nat /\ ticks' <= Spent(block + 1) /\ Spent(block + 1) \in Nat
    BY <1>1, <1>2, <1>22, <2>1, <2>2, <2>3
  <2>5. ticks' <= WholeRead + K /\ ticks' <= Timeout + WholeRead
    BY <1>2, <1>22, <1>3, <2>4
  <2>6. total' \in Nat /\ total' + block' <= MaxPieces /\ block' < Block
    <3>1. total \in Int /\ block \in Nat /\ total + block \in 0 .. MaxPieces
      BY <1>1
    <3> QED
      BY <1>2, <2>1, <3>1
  <2>7. probeAt' \in {"check", "decode"}
    BY <2>1
  <2> QED
    BY <1>9, <1>17, <2>1, <2>4, <2>5, <2>6, <2>7
<1>15. CASE Decode
  <2>1. probeAt = "decode" /\ UNCHANGED <<ticks, headTime>>
    BY <1>15 DEF Decode
  <2>2. CASE Raises
    BY <1>1, <1>6, <1>8, <1>17, <2>1, <2>2 DEF Raises
  <2>3. CASE /\ ended /\ Concludes(IF Present(modelWanted) THEN "available" ELSE "not pulled")
             /\ UNCHANGED <<tags, modelWanted, block, total, ended>>
    <3>1. CASE Present(modelWanted)
      BY <1>1, <1>6, <1>8, <1>17, <2>1, <2>3, <3>1 DEF Present
    <3>2. CASE ~Present(modelWanted)
      BY <1>1, <1>6, <1>8, <1>17, <2>1, <2>3, <3>2 DEF Present
    <3> QED
      BY <3>1, <3>2
  <2> QED
    BY <1>15, <2>2, <2>3 DEF Decode
<1> QED
  BY <1>10, <1>11, <1>12, <1>13, <1>14, <1>15 DEF TagsNext

-----------------------------------------------------------------------------
(***************************************************************************)
(* The tiers of the detectors (DetectorTiers).  A scan past the checks has *)
(* the lock of its tier; only it changes what is known of the tier, and    *)
(* what it changes was not there before.                                   *)
(***************************************************************************)
Inside == {"locked", "construct", "prepare"}
Meetings == {"off", "absent", "uncached", "broken", "fine", "cold", "faulty"}
Places == {"new"} \cup Underway \cup Answers

TierTypes ==
  /\ server \in {"new", "refused", "strict", "open"}
  /\ loadMeets \in [Tiers -> Meetings] /\ (\A t \in Tiers : loadMeets[t] \in Machine(t))
  /\ prepared \subseteq model /\ model \subseteq Tiers /\ unavailable \subseteq Tiers
  /\ scan \in [TierScans -> Places] /\ initLock \in [Tiers -> Requests \cup {"free"}]
  /\ failures \in 0 .. MaxFailures /\ changes \in 0 .. MaxChanges
  /\ warm \subseteq TierScans /\ raisings \subseteq TierScans
  /\ loads \in [Tiers -> Nat] /\ warnings \in [Tiers -> Nat]

LocksAgree == \A s \in TierScans : scan[s] \in Inside <=> initLock[s[2]] = s[1]

TimesTell ==
  \A t \in Tiers :
    /\ loads[t] = (IF t \in model THEN 1 ELSE 0)
    /\ warnings[t] = (IF t \in unavailable THEN 1 ELSE 0)

Placed(s) ==
  /\ loadMeets[s[2]] = "off" => scan[s] = "new"
  /\ scan[s] = "construct" => s[2] \notin model /\ s[2] \notin unavailable
  /\ scan[s] = "prepare" => s[2] \in model /\ s[2] \notin prepared /\ s[2] \notin unavailable
  /\ scan[s] \in {"silent", "flag"} => s[2] \in unavailable
  /\ s[2] = "gliner" => scan[s] \notin {"silent", "swallowed"}
  /\ s \in warm => /\ s[2] \in prepared /\ s[2] \notin unavailable
                   /\ scan[s] \in {"new", "look", "analyze", "answered"}
                        \/ (s \in raisings /\ scan[s] \in {"raised", "swallowed"})

ServerTells ==
  /\ server \in {"new", "refused"} =>
       unavailable = {} /\ \A s \in TierScans : scan[s] = "new"
  /\ server = "strict" /\ changes = 0 =>
       /\ Missing(TRUE) = {}
       /\ \A t \in unavailable : t = "semantic" \/ (t = "gliner" /\ loadMeets[t] = "cold")

TierInv ==
  /\ TierTypes /\ LocksAgree /\ TimesTell /\ ServerTells
  /\ \A s \in TierScans : Placed(s)

LEMMA TierStart == TierInit => TierInv
<1> SUFFICES ASSUME TierInit PROVE TierInv
  OBVIOUS
<1>1. TierTypes
  <2>1. \A t \in Tiers : loadMeets[t] \in Machine(t) /\ Machine(t) \subseteq Meetings
    BY DEF TierInit, Machine, Meetings
  <2>2. loadMeets \in [Tiers -> Meetings]
    BY <2>1 DEF TierInit
  <2>3. 0 \in 0 .. MaxFailures /\ 0 \in 0 .. MaxChanges
    BY TierAssumption
  <2> QED
    BY <2>1, <2>2, <2>3 DEF TierInit, TierTypes, Places
<1>2. LocksAgree
  <2> SUFFICES ASSUME NEW s \in TierScans PROVE scan[s] \in Inside <=> initLock[s[2]] = s[1]
    BY DEF LocksAgree
  <2>1. s[1] \in Requests /\ s[2] \in Tiers
    BY DEF TierScans
  <2>2. scan[s] = "new" /\ initLock[s[2]] = "free" /\ s[1] # "free"
    BY <2>1, TierAssumption DEF TierInit
  <2> QED
    BY <2>2 DEF Inside
<1>3. TimesTell
  BY DEF TierInit, TimesTell
<1>4. ServerTells
  BY DEF TierInit, ServerTells
<1>5. \A s \in TierScans : Placed(s)
  BY DEF TierInit, Placed
<1> QED
  BY <1>1, <1>2, <1>3, <1>4, <1>5 DEF TierInv

(***************************************************************************)
(* What a scan's step does to the lock of its tier: nothing, take it or    *)
(* leave it.                                                               *)
(***************************************************************************)
LockGoes(s, to) ==
  \/ (scan[s] \in Inside <=> to \in Inside) /\ initLock' = initLock
  \/ to \in Inside /\ initLock[s[2]] = "free" /\ initLock' = [initLock EXCEPT ![s[2]] = s[1]]
  \/ scan[s] \in Inside /\ to \notin Inside /\ initLock' = [initLock EXCEPT ![s[2]] = "free"]

LEMMA LockFollows ==
  ASSUME TierInv, NEW s \in TierScans, NEW to \in Places, scan' = [scan EXCEPT ![s] = to],
         LockGoes(s, to)
  PROVE  /\ scan' \in [TierScans -> Places] /\ scan'[s] = to
         /\ \A u \in TierScans : u # s => scan'[u] = scan[u]
         /\ initLock' \in [Tiers -> Requests \cup {"free"}] /\ LocksAgree'
<1>1. /\ scan \in [TierScans -> Places] /\ initLock \in [Tiers -> Requests \cup {"free"}]
      /\ \A u \in TierScans : scan[u] \in Inside <=> initLock[u[2]] = u[1]
  BY DEF TierInv, TierTypes, LocksAgree
<1>2. \A u \in TierScans : u[1] \in Requests /\ u[2] \in Tiers /\ u = <<u[1], u[2]>>
  BY DEF TierScans
<1>3. /\ scan' \in [TierScans -> Places] /\ scan'[s] = to
      /\ \A u \in TierScans : u # s => scan'[u] = scan[u]
  BY <1>1
<1>4. initLock' \in [Tiers -> Requests \cup {"free"}]
  BY <1>1, <1>2 DEF LockGoes
<1>5. ASSUME NEW u \in TierScans
      PROVE  scan'[u] \in Inside <=> initLock'[u[2]] = u[1]
  <2>1. u[1] # "free" /\ s[1] # "free"
    BY <1>2, TierAssumption
  <2>2. u # s /\ u[2] = s[2] => u[1] # s[1]
    BY <1>2
  <2>3. CASE (scan[s] \in Inside <=> to \in Inside) /\ initLock' = initLock
    BY <1>1, <1>3, <2>3
  <2>4. CASE to \in Inside /\ initLock[s[2]] = "free"
             /\ initLock' = [initLock EXCEPT ![s[2]] = s[1]]
    <3>1. CASE u = s
      BY <1>1, <1>2, <1>3, <2>4, <3>1
    <3>2. CASE u # s /\ u[2] = s[2]
      BY <1>1, <1>2, <1>3, <2>1, <2>2, <2>4, <3>2
    <3>3. CASE u[2] # s[2]
      BY <1>1, <1>2, <1>3, <2>4, <3>3
    <3> QED
      BY <3>1, <3>2, <3>3
  <2>5. CASE scan[s] \in Inside /\ to \notin Inside
             /\ initLock' = [initLock EXCEPT ![s[2]] = "free"]
    <3>1. CASE u = s
      BY <1>1, <1>2, <1>3, <2>1, <2>5, <3>1
    <3>2. CASE u # s /\ u[2] = s[2]
      BY <1>1, <1>2, <1>3, <2>1, <2>2, <2>5, <3>2
    <3>3. CASE u[2] # s[2]
      BY <1>1, <1>2, <1>3, <2>5, <3>3
    <3> QED
      BY <3>1, <3>2, <3>3
  <2> QED
    BY <2>3, <2>4, <2>5 DEF LockGoes
<1> QED
  BY <1>3, <1>4, <1>5 DEF LocksAgree

(***************************************************************************)
(* A step of one scan: what it makes known about its tier is not taken     *)
(* back, and if it is new the scan has the lock, so that no other scan is  *)
(* inside.                                                                 *)
(***************************************************************************)
LEMMA ScanSteps ==
  ASSUME TierInv, NEW s \in TierScans, NEW to \in Places, scan' = [scan EXCEPT ![s] = to],
         LockGoes(s, to), scan[s] # "new", UNCHANGED <<setting, warm>>,
         failures' \in 0 .. MaxFailures, raisings \subseteq raisings', raisings' \subseteq TierScans,
         prepared' \subseteq model', model' \subseteq Tiers, unavailable' \subseteq Tiers,
         loads' \in [Tiers -> Nat], warnings' \in [Tiers -> Nat], TimesTell', Placed(s)',
         model \subseteq model', prepared \subseteq prepared', unavailable \subseteq unavailable',
         model' \subseteq model \cup {s[2]}, prepared' \subseteq prepared \cup {s[2]},
         unavailable' \subseteq unavailable \cup {s[2]},
         scan[s] \in Inside \/ UNCHANGED <<model, prepared, unavailable>>,
         s[2] \in unavailable' => s[2] \in unavailable \/ s[2] \notin prepared,
         s[2] \in unavailable' /\ s[2] \notin unavailable /\ server = "strict" /\ changes = 0 =>
           s[2] = "semantic" \/ (s[2] = "gliner" /\ loadMeets[s[2]] = "cold")
  PROVE  TierInv'
<1>1. /\ scan' \in [TierScans -> Places] /\ scan'[s] = to
      /\ \A u \in TierScans : u # s => scan'[u] = scan[u]
      /\ initLock' \in [Tiers -> Requests \cup {"free"}] /\ LocksAgree'
  BY LockFollows
<1>2. loadMeets' = loadMeets /\ changes' = changes /\ server' = server /\ warm' = warm
  BY DEF setting
<1>3. TierTypes'
  BY <1>1, <1>2 DEF TierInv, TierTypes
<1>4. ServerTells'
  <2>1. server \notin {"new", "refused"}
    BY DEF TierInv, ServerTells
  <2>2. Missing(TRUE)' = Missing(TRUE)
    BY <1>2 DEF Missing, Configured, Available
  <2>3. ASSUME server = "strict", changes = 0, NEW t \in unavailable'
        PROVE  t = "semantic" \/ (t = "gliner" /\ loadMeets[t] = "cold")
    BY <2>3 DEF TierInv, ServerTells
  <2> QED
    BY <1>2, <2>1, <2>2, <2>3 DEF TierInv, ServerTells
<1>5. ASSUME NEW u \in TierScans
      PROVE  Placed(u)'
  <2>1. CASE u = s
    BY <2>1
  <2>2. CASE u # s
    <3>1. scan'[u] = scan[u] /\ Placed(u)
      BY <1>1, <2>2 DEF TierInv
    <3>2. CASE u[2] # s[2]
      BY <1>2, <3>1, <3>2 DEF Placed
    <3>3. CASE u[2] = s[2] /\ UNCHANGED <<model, prepared, unavailable>>
      BY <1>2, <3>1, <3>3 DEF Placed
    <3>4. CASE u[2] = s[2] /\ scan[s] \in Inside
      <4>1. scan[u] \notin Inside
        <5>1. u = <<u[1], u[2]>> /\ s = <<s[1], s[2]>>
          BY DEF TierScans
        <5> QED
          BY <2>2, <3>4, <5>1 DEF TierInv, LocksAgree
      <4>2. scan[u] \notin {"construct", "prepare"}
        BY <4>1 DEF Inside
      <4>3. u \in warm => s[2] \in prepared /\ s[2] \notin unavailable
        BY <3>1, <3>4 DEF Placed
      <4> QED
        BY <1>2, <3>1, <3>4, <4>2, <4>3 DEF Placed
    <3> QED
      BY <3>2, <3>3, <3>4
  <2> QED
    BY <2>1, <2>2
<1> QED
  BY <1>1, <1>3, <1>4, <1>5 DEF TierInv

(***************************************************************************)
(* The machine changes; the server starts.                                 *)
(***************************************************************************)
LEMMA ChangesKeep ==
  ASSUME TierInv, NEW t \in Tiers, Changes(t)
  PROVE  TierInv'
<1>1. PICK m \in Machine(t) \ {"off"} : loadMeets' = [loadMeets EXCEPT ![t] = m]
  BY DEF Changes
<1>2. /\ changes < MaxChanges /\ changes' = changes + 1 /\ loadMeets[t] # "off"
      /\ UNCHANGED <<server, loader, scan, failures, histories>>
  BY DEF Changes, Configured
<1>3. changes \in 0 .. MaxChanges /\ MaxChanges \in Nat
  BY TierAssumption DEF TierInv, TierTypes
<1>4. changes' \in 0 .. MaxChanges /\ changes' # 0
  BY <1>2, <1>3
<1>5. /\ loadMeets \in [Tiers -> Meetings]
      /\ \A u \in Tiers : loadMeets[u] \in Machine(u)
  BY DEF TierInv, TierTypes
<1>6. m \in Meetings
  BY DEF Machine, Meetings
<1>7. /\ loadMeets' \in [Tiers -> Meetings] /\ loadMeets'[t] = m
      /\ \A u \in Tiers : u # t => loadMeets'[u] = loadMeets[u]
  BY <1>1, <1>5, <1>6
<1>8. \A u \in Tiers : loadMeets'[u] \in Machine(u)' /\ (loadMeets'[u] = "off" => loadMeets[u] = "off")
  BY <1>1, <1>5, <1>7 DEF Machine
<1>9. TierTypes'
  BY <1>2, <1>4, <1>7, <1>8 DEF TierInv, TierTypes, loader, histories
<1>10. LocksAgree' /\ TimesTell'
  BY <1>2 DEF TierInv, LocksAgree, TimesTell, loader
<1>11. ServerTells'
  BY <1>2, <1>4 DEF TierInv, ServerTells, loader
<1>12. ASSUME NEW s \in TierScans
       PROVE  Placed(s)'
  <2>1. Placed(s) /\ s[2] \in Tiers
    BY DEF TierInv, TierScans
  <2>2. loadMeets'[s[2]] = "off" => loadMeets[s[2]] = "off"
    BY <1>8, <2>1
  <2> QED
    BY <1>2, <2>1, <2>2 DEF Placed, loader, histories
<1> QED
  BY <1>9, <1>10, <1>11, <1>12 DEF TierInv

LEMMA TierStartKeeps ==
  ASSUME TierInv, NEW strict \in BOOLEAN, Start(strict)
  PROVE  TierInv'
<1>1. /\ server = "new" /\ UNCHANGED <<loadMeets, changes, loader, scan, failures, histories>>
      /\ server' = IF ~strict THEN "open" ELSE IF Missing(TRUE) # {} THEN "refused" ELSE "strict"
  BY DEF Start
<1>2. TierTypes' /\ LocksAgree' /\ TimesTell'
  BY <1>1 DEF TierInv, TierTypes, LocksAgree, TimesTell, loader, histories
<1>3. ServerTells'
  <2>1. unavailable' = {} /\ (\A s \in TierScans : scan'[s] = "new")
    BY <1>1 DEF TierInv, ServerTells, loader
  <2>2. Missing(TRUE)' = Missing(TRUE)
    BY <1>1 DEF Missing, Configured, Available
  <2>3. server' = "strict" => Missing(TRUE) = {}
    BY <1>1
  <2> QED
    BY <2>1, <2>2, <2>3 DEF ServerTells
<1>4. \A s \in TierScans : Placed(s)'
  BY <1>1 DEF TierInv, Placed, loader, histories
<1> QED
  BY <1>2, <1>3, <1>4 DEF TierInv

(***************************************************************************)
(* A request begins and ends all of its scans at once.                     *)
(***************************************************************************)
LEMMA RequestsKeep ==
  ASSUME TierInv, NEW r \in Requests, Inspect(r) \/ Judge(r)
  PROVE  TierInv'
<1>1. /\ scan \in [TierScans -> Places] /\ raisings \subseteq TierScans
      /\ prepared \subseteq Tiers /\ warm \subseteq TierScans
      /\ \A s \in TierScans : s = <<s[1], s[2]>> /\ s[1] \in Requests /\ s[2] \in Tiers
  BY DEF TierInv, TierTypes, TierScans
<1>2. UNCHANGED <<setting, loader, failures>>
  BY DEF Inspect, Judge
<1>3. \A s \in TierScans : scan'[s] = scan[s] \/ (scan'[s] \in {"new", "look"} /\ scan[s] \notin Inside)
  <2>1. CASE Inspect(r)
    BY <1>1, <2>1 DEF Inspect, StandsAt, Inside
  <2>2. CASE Judge(r)
    <3> SUFFICES ASSUME NEW s \in TierScans, s[1] = r PROVE scan[s] \notin Inside
      BY <1>1, <2>2 DEF Judge
    <3>1. CASE s[2] \in Configured
      BY <1>1, <2>2, <3>1 DEF Judge, Answers, Inside
    <3>2. CASE s[2] \notin Configured
      <4>1. Placed(s) /\ loadMeets[s[2]] = "off"
        BY <1>1, <3>2 DEF TierInv, Configured
      <4> QED
        BY <4>1 DEF Placed, Inside
    <3> QED
      BY <3>1, <3>2
  <2> QED
    BY <2>1, <2>2
<1>4. scan' \in [TierScans -> Places]
  BY <1>1 DEF Inspect, Judge, Places, Underway
<1>5. raisings' \subseteq TierScans /\ warm' \subseteq TierScans
  BY <1>1, <1>2 DEF Inspect, Judge, TierScans
<1>6. TierTypes'
  BY <1>2, <1>4, <1>5 DEF TierInv, TierTypes, setting, loader
<1>7. LocksAgree'
  <2> SUFFICES ASSUME NEW s \in TierScans PROVE scan'[s] \in Inside <=> initLock'[s[2]] = s[1]
    BY DEF LocksAgree
  <2>1. scan'[s] \in Inside <=> scan[s] \in Inside
    BY <1>3 DEF Inside
  <2> QED
    BY <1>2, <2>1 DEF TierInv, LocksAgree, loader
<1>8. TimesTell'
  BY <1>2 DEF TierInv, TimesTell, loader
<1>9. ServerTells'
  <2>1. Missing(TRUE)' = Missing(TRUE)
    BY <1>2 DEF Missing, Configured, Available, setting
  <2>2. server \in {"new", "refused"} => \A s \in TierScans : scan'[s] = "new"
    <3>1. CASE Inspect(r)
      BY <3>1 DEF Inspect
    <3>2. CASE Judge(r)
      BY <1>1, <3>2 DEF Judge, TierInv, ServerTells
    <3> QED
      BY <3>1, <3>2
  <2> QED
    BY <1>2, <2>1, <2>2 DEF TierInv, ServerTells, setting, loader
<1>10. ASSUME NEW s \in TierScans
       PROVE  Placed(s)'
  <2>1. Placed(s)
    BY DEF TierInv
  <2>2. UNCHANGED <<loadMeets, model, prepared, unavailable>>
    BY <1>2 DEF setting, loader
  <2>3. CASE s[1] # r
    <3>1. scan'[s] = scan[s]
      BY <1>1, <2>3 DEF Inspect, Judge
    <3>2. (s \in warm' <=> s \in warm) /\ (s \in raisings' <=> s \in raisings)
      BY <1>1, <2>3 DEF Inspect, Judge
    <3> QED
      BY <2>1, <2>2, <3>1, <3>2 DEF Placed
  <2>4. CASE s[1] = r /\ Inspect(r)
    <3>1. scan[s] = "new" /\ scan'[s] = (IF loadMeets[s[2]] # "off" THEN "look" ELSE "new")
      BY <1>1, <2>4 DEF Inspect, StandsAt, Configured
    <3>2. s \in warm' => s[2] \in prepared /\ s[2] \notin unavailable
      BY <1>1, <2>1, <2>4 DEF Inspect, Placed
    <3> QED
      BY <2>2, <3>1, <3>2 DEF Placed
  <2>5. CASE s[1] = r /\ Judge(r)
    <3>1. scan'[s] = "new" /\ s \notin warm'
      BY <1>1, <2>5 DEF Judge
    <3> QED
      BY <2>2, <3>1 DEF Placed
  <2> QED
    BY <2>3, <2>4, <2>5
<1> QED
  BY <1>6, <1>7, <1>8, <1>9, <1>10 DEF TierInv

(***************************************************************************)
(* A step that makes nothing known about the tier.                         *)
(***************************************************************************)
LEMMA ScanOnly ==
  ASSUME TierInv, NEW s \in TierScans, NEW to \in Places, scan' = [scan EXCEPT ![s] = to],
         LockGoes(s, to), scan[s] # "new",
         UNCHANGED <<setting, warm, model, prepared, unavailable, loads, warnings>>,
         failures' \in 0 .. MaxFailures, raisings \subseteq raisings', raisings' \subseteq TierScans,
         Placed(s)'
  PROVE  TierInv'
<1>1. /\ UNCHANGED <<model, prepared, unavailable, loads, warnings>>
      /\ UNCHANGED <<setting, warm>>
  OBVIOUS
<1>2. TimesTell'
  BY <1>1 DEF TierInv, TimesTell
<1>3. /\ prepared' \subseteq model' /\ model' \subseteq Tiers /\ unavailable' \subseteq Tiers
      /\ loads' \in [Tiers -> Nat] /\ warnings' \in [Tiers -> Nat]
  BY <1>1 DEF TierInv, TierTypes
<1> QED
  BY <1>1, <1>2, <1>3, ScanSteps

LEMMA TierFacts ==
  ASSUME TierInv, NEW s \in TierScans
  PROVE  /\ s[1] \in Requests /\ s[2] \in Tiers /\ scan \in [TierScans -> Places]
         /\ failures \in 0 .. MaxFailures /\ raisings \subseteq TierScans
         /\ initLock \in [Tiers -> Requests \cup {"free"}]
         /\ scan[s] \in Inside <=> initLock[s[2]] = s[1]
         /\ prepared \subseteq model /\ model \subseteq Tiers /\ unavailable \subseteq Tiers
         /\ loads \in [Tiers -> Nat] /\ warnings \in [Tiers -> Nat]
         /\ loadMeets[s[2]] \in Machine(s[2]) /\ Placed(s)
         /\ scan[s] # "new" => loadMeets[s[2]] # "off" /\ server \notin {"new", "refused"}
BY DEF TierInv, TierTypes, LocksAgree, TierScans, Placed, ServerTells

LEMMA PassedKeeps ==
  ASSUME TierInv, NEW s \in TierScans, scan[s] \in {"look", "locked"}, NEW otherwise,
         otherwise \in {"lock", "construct"}, otherwise = "construct" <=> scan[s] = "locked",
         Passed(s, otherwise), UNCHANGED <<setting, warm, model, prepared, unavailable, loads, warnings>>,
         UNCHANGED <<failures, raisings>>,
         scan[s] = "look" => UNCHANGED initLock,
         scan[s] = "locked" =>
           IF s[2] \in model \cup unavailable THEN Unheld(s[2]) ELSE UNCHANGED initLock
  PROVE  TierInv'
<1> DEFINE to == IF s[2] \in unavailable THEN Absence(s[2])
                 ELSE IF s[2] \in model THEN "analyze" ELSE otherwise
<1>1. scan' = [scan EXCEPT ![s] = to]
  BY DEF Passed, ScanGoes
<1>2. to \in Places
  BY DEF Absence, Places, Underway, Answers
<1>3. LockGoes(s, to)
  <2>1. CASE scan[s] = "look"
    BY <2>1 DEF LockGoes, Inside, Absence
  <2>2. CASE scan[s] = "locked" /\ s[2] \in model \cup unavailable
    BY <2>2 DEF LockGoes, Inside, Absence, Unheld
  <2>3. CASE scan[s] = "locked" /\ s[2] \notin model \cup unavailable
    BY <2>3 DEF LockGoes, Inside
  <2> QED
    BY <2>1, <2>2, <2>3
<1>4. scan'[s] = to
  BY <1>1, TierFacts
<1>5. Placed(s)'
  <2>1. Placed(s) /\ loadMeets[s[2]] # "off" /\ UNCHANGED <<loadMeets, model, prepared, unavailable, warm>>
    BY TierFacts DEF setting
  <2>2. to \in {"lock", "construct", "analyze", "silent", "flag"}
    BY DEF Absence
  <2>3. to \in {"silent", "flag"} <=> s[2] \in unavailable
    BY DEF Absence
  <2>4. to = "construct" => s[2] \notin model /\ s[2] \notin unavailable
    BY DEF Absence
  <2>5. s[2] = "gliner" => to # "silent"
    BY DEF Absence
  <2>6. s \in warm => to = "analyze"
    <3>1. s \in warm => s[2] \in model /\ s[2] \notin unavailable
      BY <2>1, TierFacts DEF Placed
    <3> QED
      BY <3>1
  <2> HIDE DEF to
  <2> QED
    BY <1>4, <2>1, <2>2, <2>3, <2>4, <2>5, <2>6 DEF Placed
<1> HIDE DEF to
<1>6. /\ failures' \in 0 .. MaxFailures /\ raisings \subseteq raisings' /\ raisings' \subseteq TierScans
  BY TierFacts
<1> QED
  BY <1>1, <1>2, <1>3, <1>5, <1>6, ScanOnly

LEMMA ChecksKeep ==
  ASSUME TierInv, NEW s \in TierScans, LookUp(s) \/ Checked(s)
  PROVE  TierInv'
<1>1. UNCHANGED <<setting, warm, model, prepared, unavailable, loads, warnings>>
      /\ UNCHANGED <<failures, raisings>>
  BY DEF LookUp, Checked, loader, histories
<1>2. CASE LookUp(s)
  <2>1. scan[s] = "look" /\ Passed(s, "lock") /\ UNCHANGED initLock
    BY <1>2 DEF LookUp, StandsAt, loader
  <2> QED
    BY <1>1, <2>1, PassedKeeps
<1>3. CASE Checked(s)
  <2>1. /\ scan[s] = "locked" /\ Passed(s, "construct")
        /\ IF s[2] \in model \cup unavailable THEN Unheld(s[2]) ELSE UNCHANGED initLock
    BY <1>3 DEF Checked, StandsAt
  <2> QED
    BY <1>1, <2>1, PassedKeeps
<1> QED
  BY <1>2, <1>3

LEMMA EnterKeeps ==
  ASSUME TierInv, NEW s \in TierScans, Enter(s)
  PROVE  TierInv'
<1>1. /\ UNCHANGED <<setting, warm, model, prepared, unavailable, loads, warnings>>
      /\ UNCHANGED <<failures, raisings>>
  BY DEF Enter, histories
<1>2. scan[s] = "lock" /\ scan' = [scan EXCEPT ![s] = "locked"] /\ LockGoes(s, "locked")
  BY DEF Enter, StandsAt, ScanGoes, LockGoes, Inside
<1>3. "locked" \in Places /\ scan'[s] = "locked"
  BY <1>2, TierFacts DEF Places, Underway
<1>4. Placed(s)'
  <2>1. Placed(s) /\ loadMeets[s[2]] # "off" /\ UNCHANGED <<loadMeets, model, prepared, unavailable, warm>>
    BY <1>1, <1>2, TierFacts DEF setting
  <2> QED
    BY <1>2, <1>3, <2>1 DEF Placed
<1>5. failures' \in 0 .. MaxFailures /\ raisings \subseteq raisings' /\ raisings' \subseteq TierScans
  BY <1>1, TierFacts
<1> QED
  BY <1>1, <1>2, <1>3, <1>4, <1>5, ScanOnly

LEMMA AnalyzeKeeps ==
  ASSUME TierInv, NEW s \in TierScans, Analyze(s)
  PROVE  TierInv'
<1>1. /\ UNCHANGED <<setting, warm, model, prepared, unavailable, loads, warnings, initLock>>
      /\ scan[s] = "analyze"
  BY DEF Analyze, loader, StandsAt
<1>2. /\ Placed(s) /\ loadMeets[s[2]] # "off" /\ UNCHANGED <<loadMeets, model, prepared, unavailable, warm>>
      /\ scan \in [TierScans -> Places] /\ raisings \subseteq TierScans /\ failures \in 0 .. MaxFailures
  BY <1>1, TierFacts DEF setting
<1>3. PICK to \in {"flag", "answered", "raised", "swallowed"} :
        /\ scan' = [scan EXCEPT ![s] = to]
        /\ to = "flag" => s[2] \in unavailable
        /\ s[2] = "gliner" => to # "swallowed"
        /\ to \in {"raised", "swallowed"} /\ s \notin raisings' => s[2] \notin prepared
        /\ failures' \in {failures, failures + 1} /\ (failures' # failures => failures < MaxFailures)
        /\ raisings' \in {raisings, raisings \cup {s}}
  <2>1. CASE s[2] = "gliner" /\ s[2] \in unavailable /\ ScanGoes(s, "flag")
             /\ UNCHANGED <<failures, raisings>>
    BY <2>1 DEF ScanGoes
  <2>2. CASE ScanGoes(s, "answered") /\ UNCHANGED <<failures, raisings>>
    BY <2>2 DEF ScanGoes
  <2>3. CASE s[2] = "semantic" /\ s[2] \notin prepared /\ ScanGoes(s, Fails(s[2]))
             /\ UNCHANGED <<failures, raisings>>
    <3>1. Fails(s[2]) = "swallowed" /\ s[2] # "gliner"
      BY <2>3 DEF Fails
    <3> QED
      BY <2>3, <3>1 DEF ScanGoes
  <2>4. CASE failures < MaxFailures /\ failures' = failures + 1 /\ ScanGoes(s, Fails(s[2]))
             /\ raisings' = raisings \cup {s}
    <3>1. Fails(s[2]) \in {"raised", "swallowed"} /\ (s[2] = "gliner" => Fails(s[2]) = "raised")
      BY DEF Fails
    <3> QED
      BY <2>4, <3>1 DEF ScanGoes
  <2> QED
    BY <2>1, <2>2, <2>3, <2>4 DEF Analyze
<1>4. to \in Places /\ scan'[s] = to /\ LockGoes(s, to)
  BY <1>1, <1>2, <1>3 DEF Places, Answers, LockGoes, Inside
<1>5. Placed(s)'
  <2>1. s \in warm => s[2] \in prepared /\ s[2] \notin unavailable
    BY <1>2 DEF Placed
  <2> QED
    BY <1>2, <1>3, <1>4, <2>1 DEF Placed
<1>6. failures' \in 0 .. MaxFailures
  BY <1>2, <1>3, TierAssumption
<1>7. raisings \subseteq raisings' /\ raisings' \subseteq TierScans
  BY <1>2, <1>3
<1> QED
  BY <1>1, <1>3, <1>4, <1>5, <1>6, <1>7, ScanOnly

(***************************************************************************)
(* The load: only one load of a tier succeeds and only one is warned of,   *)
(* since it was checked under the lock that neither had happened.          *)
(***************************************************************************)
LEMMA TimesFollow ==
  ASSUME TierInv, NEW t \in Tiers,
         \/ t \notin model /\ model' = model \cup {t} /\ loads' = [loads EXCEPT ![t] = @ + 1]
         \/ UNCHANGED <<model, loads>>,
         \/ /\ t \notin unavailable /\ unavailable' = unavailable \cup {t}
            /\ warnings' = [warnings EXCEPT ![t] = @ + 1]
         \/ UNCHANGED <<unavailable, warnings>>
  PROVE  TimesTell' /\ loads' \in [Tiers -> Nat] /\ warnings' \in [Tiers -> Nat]
<1>1. /\ loads \in [Tiers -> Nat] /\ warnings \in [Tiers -> Nat]
      /\ \A u \in Tiers : /\ loads[u] = (IF u \in model THEN 1 ELSE 0)
                          /\ warnings[u] = (IF u \in unavailable THEN 1 ELSE 0)
  BY DEF TierInv, TierTypes, TimesTell
<1>2. /\ loads' \in [Tiers -> Nat]
      /\ \A u \in Tiers : loads'[u] = (IF u \in model' THEN 1 ELSE 0)
  <2>1. CASE t \notin model /\ model' = model \cup {t} /\ loads' = [loads EXCEPT ![t] = @ + 1]
    BY <1>1, <2>1
  <2>2. CASE UNCHANGED <<model, loads>>
    BY <1>1, <2>2
  <2> QED
    BY <2>1, <2>2
<1>3. /\ warnings' \in [Tiers -> Nat]
      /\ \A u \in Tiers : warnings'[u] = (IF u \in unavailable' THEN 1 ELSE 0)
  <2>1. CASE t \notin unavailable /\ unavailable' = unavailable \cup {t}
             /\ warnings' = [warnings EXCEPT ![t] = @ + 1]
    BY <1>1, <2>1
  <2>2. CASE UNCHANGED <<unavailable, warnings>>
    BY <1>1, <2>2
  <2> QED
    BY <2>1, <2>2
<1> QED
  BY <1>2, <1>3 DEF TimesTell

LEMMA DisablesKeeps ==
  ASSUME TierInv, NEW s \in TierScans, scan[s] \in {"construct", "prepare"}, Disables(s),
         Unheld(s[2]), UNCHANGED <<setting, warm, model, prepared, loads>>,
         UNCHANGED <<failures, raisings>>,
         server = "strict" /\ changes = 0 =>
           s[2] = "semantic" \/ (s[2] = "gliner" /\ loadMeets[s[2]] = "cold")
  PROVE  TierInv'
<1> DEFINE to == Absence(s[2])
<1>1. /\ unavailable' = unavailable \cup {s[2]} /\ scan' = [scan EXCEPT ![s] = to]
      /\ warnings' = [warnings EXCEPT ![s[2]] = @ + 1]
  BY DEF Disables, ScanGoes
<1>2. to \in {"silent", "flag"} /\ (s[2] = "gliner" => to = "flag")
  BY DEF Absence
<1> HIDE DEF to
<1>3. to \in Places /\ scan'[s] = to /\ LockGoes(s, to)
  BY <1>1, <1>2, TierFacts DEF Places, Answers, LockGoes, Inside, Unheld
<1>4. /\ s[2] \in Tiers /\ s[2] \notin unavailable /\ s[2] \notin prepared /\ s \notin warm
      /\ loadMeets[s[2]] # "off"
  BY TierFacts DEF Placed
<1>5. TimesTell' /\ loads' \in [Tiers -> Nat] /\ warnings' \in [Tiers -> Nat]
  BY <1>1, <1>4, TimesFollow
<1>6. Placed(s)'
  <2>1. loadMeets' = loadMeets /\ warm' = warm /\ s[2] \in unavailable'
    BY <1>1 DEF setting
  <2> QED
    BY <1>2, <1>3, <1>4, <2>1 DEF Placed
<1>7. /\ prepared' \subseteq model' /\ model' \subseteq Tiers /\ unavailable' \subseteq Tiers
      /\ failures' \in 0 .. MaxFailures /\ raisings \subseteq raisings' /\ raisings' \subseteq TierScans
      /\ model \subseteq model' /\ prepared \subseteq prepared' /\ unavailable \subseteq unavailable'
      /\ model' \subseteq model \cup {s[2]} /\ prepared' \subseteq prepared \cup {s[2]}
      /\ unavailable' \subseteq unavailable \cup {s[2]}
      /\ scan[s] \in Inside /\ scan[s] # "new"
  BY <1>1, <1>4, TierFacts DEF Inside
<1> QED
  BY <1>1, <1>3, <1>4, <1>5, <1>6, <1>7, ScanSteps

LEMMA ConstructKeeps ==
  ASSUME TierInv, NEW s \in TierScans, Construct(s)
  PROVE  TierInv'
<1> DEFINE t == s[2]
<1>1. scan[s] = "construct" /\ UNCHANGED <<setting, failures, histories>>
  BY DEF Construct, StandsAt
<1>2. /\ t \in Tiers /\ t \notin model /\ t \notin unavailable /\ t \notin prepared /\ s \notin warm
      /\ loadMeets[t] # "off" /\ scan[s] \in Inside
  BY <1>1, TierFacts DEF Placed, Inside
<1>3. UNCHANGED <<setting, warm>> /\ UNCHANGED <<failures, raisings>> /\ loadMeets' = loadMeets
  BY <1>1 DEF histories, setting
<1>4. failures' \in 0 .. MaxFailures /\ raisings \subseteq raisings' /\ raisings' \subseteq TierScans
  BY <1>3, TierFacts
<1>5. CASE loadMeets[t] \in {"absent", "uncached"} /\ Disables(s) /\ Unheld(t)
           /\ UNCHANGED <<model, prepared, loads>>
  <2>1. ASSUME server = "strict", changes = 0 PROVE t = "semantic"
    <3>1. t \in Configured /\ Missing(TRUE) = {}
      BY <1>2, <2>1 DEF Configured, TierInv, ServerTells
    <3>2. Available(t, TRUE)
      BY <3>1 DEF Missing
    <3> QED
      BY <1>5, <3>2 DEF Available
  <2> QED
    BY <1>1, <1>3, <1>5, <2>1, DisablesKeeps
<1>6. CASE ScanGoes(s, "raised") /\ Unheld(t)
           /\ UNCHANGED <<model, prepared, loads, unavailable, warnings>>
  <2>1. scan' = [scan EXCEPT ![s] = "raised"] /\ "raised" \in Places /\ LockGoes(s, "raised")
    BY <1>2, <1>6 DEF ScanGoes, Places, Answers, LockGoes, Inside, Unheld
  <2>2. scan'[s] = "raised"
    BY <2>1, TierFacts
  <2>3. Placed(s)'
    BY <1>2, <1>3, <2>2 DEF Placed
  <2> QED
    BY <1>1, <1>3, <1>4, <1>6, <2>1, <2>3, ScanOnly
<1>7. CASE /\ model' = model \cup {t} /\ loads' = [loads EXCEPT ![t] = @ + 1]
           /\ IF t = "pii" THEN prepared' = prepared \cup {t} /\ ScanGoes(s, "analyze") /\ Unheld(t)
                           ELSE ScanGoes(s, "prepare") /\ UNCHANGED <<prepared, initLock>>
           /\ UNCHANGED <<unavailable, warnings>>
  <2>1. TimesTell' /\ loads' \in [Tiers -> Nat] /\ warnings' \in [Tiers -> Nat]
    BY <1>2, <1>7, TimesFollow
  <2>2. PICK to \in {"analyze", "prepare"} :
          /\ scan' = [scan EXCEPT ![s] = to] /\ LockGoes(s, to)
          /\ prepared' = (IF to = "analyze" THEN prepared \cup {t} ELSE prepared)
    <3>1. CASE t = "pii"
      BY <1>2, <1>7, <3>1 DEF ScanGoes, LockGoes, Inside, Unheld
    <3>2. CASE t # "pii"
      BY <1>1, <1>7, <3>2 DEF ScanGoes, LockGoes, Inside
    <3> QED
      BY <3>1, <3>2
  <2>3. to \in Places /\ scan'[s] = to
    BY <2>2, TierFacts DEF Places, Underway
  <2>4. Placed(s)'
    BY <1>2, <1>3, <1>7, <2>2, <2>3 DEF Placed
  <2>5. /\ prepared' \subseteq model' /\ model' \subseteq Tiers /\ unavailable' \subseteq Tiers
        /\ model \subseteq model' /\ prepared \subseteq prepared' /\ unavailable \subseteq unavailable'
        /\ model' \subseteq model \cup {t} /\ prepared' \subseteq prepared \cup {t}
        /\ unavailable' \subseteq unavailable \cup {t}
        /\ t \notin unavailable'
    BY <1>2, <1>7, <2>2, TierFacts
  <2> QED
    BY <1>1, <1>2, <1>3, <1>4, <2>1, <2>2, <2>3, <2>4, <2>5, ScanSteps
<1> QED
  BY <1>5, <1>6, <1>7 DEF Construct

LEMMA PrepareKeeps ==
  ASSUME TierInv, NEW s \in TierScans, Prepare(s)
  PROVE  TierInv'
<1> DEFINE t == s[2]
<1>1. scan[s] = "prepare" /\ UNCHANGED <<setting, model, failures, loads, histories>> /\ Unheld(t)
  BY DEF Prepare, StandsAt
<1>2. /\ t \in Tiers /\ t \in model /\ t \notin unavailable /\ t \notin prepared /\ s \notin warm
      /\ loadMeets[t] # "off" /\ scan[s] \in Inside
  BY <1>1, TierFacts DEF Placed, Inside
<1>3. UNCHANGED <<setting, warm>> /\ UNCHANGED <<failures, raisings>> /\ loadMeets' = loadMeets
  BY <1>1 DEF histories, setting
<1>4. failures' \in 0 .. MaxFailures /\ raisings \subseteq raisings' /\ raisings' \subseteq TierScans
  BY <1>3, TierFacts
<1>5. CASE loadMeets[t] = "cold" /\ Disables(s) /\ UNCHANGED prepared
  <2>1. t = "semantic" \/ t = "gliner"
    <3>1. t # "pii"
      BY <1>5, TierFacts DEF Machine
    <3> QED
      BY <1>2, <3>1, TierAssumption
  <2> QED
    BY <1>1, <1>3, <1>5, <2>1, DisablesKeeps
<1>6. CASE ScanGoes(s, "raised") /\ UNCHANGED <<prepared, unavailable, warnings>>
  <2>1. scan' = [scan EXCEPT ![s] = "raised"] /\ "raised" \in Places /\ LockGoes(s, "raised")
    BY <1>1, <1>2, <1>6 DEF ScanGoes, Places, Answers, LockGoes, Inside, Unheld
  <2>2. scan'[s] = "raised"
    BY <2>1, TierFacts
  <2>3. Placed(s)'
    BY <1>2, <1>3, <2>2 DEF Placed
  <2> QED
    BY <1>1, <1>3, <1>4, <1>6, <2>1, <2>3, ScanOnly
<1>7. CASE prepared' = prepared \cup {t} /\ ScanGoes(s, "analyze") /\ UNCHANGED <<unavailable, warnings>>
  <2>1. TimesTell' /\ loads' \in [Tiers -> Nat] /\ warnings' \in [Tiers -> Nat]
    BY <1>1, <1>2, <1>7, TimesFollow
  <2>2. scan' = [scan EXCEPT ![s] = "analyze"] /\ "analyze" \in Places /\ LockGoes(s, "analyze")
    BY <1>1, <1>2, <1>7 DEF ScanGoes, Places, Underway, LockGoes, Inside, Unheld
  <2>3. scan'[s] = "analyze"
    BY <2>2, TierFacts
  <2>4. Placed(s)'
    BY <1>2, <1>3, <2>3 DEF Placed
  <2>5. /\ prepared' \subseteq model' /\ model' \subseteq Tiers /\ unavailable' \subseteq Tiers
        /\ model \subseteq model' /\ prepared \subseteq prepared' /\ unavailable \subseteq unavailable'
        /\ model' \subseteq model \cup {t} /\ prepared' \subseteq prepared \cup {t}
        /\ unavailable' \subseteq unavailable \cup {t} /\ t \notin unavailable'
    BY <1>1, <1>2, <1>7, TierFacts
  <2> QED
    BY <1>1, <1>2, <1>3, <1>4, <2>1, <2>2, <2>4, <2>5, ScanSteps
<1> QED
  BY <1>5, <1>6, <1>7 DEF Prepare

LEMMA TierStep ==
  ASSUME TierInv, TierNext
  PROVE  TierInv'
<1>1. CASE \E t \in Tiers : Changes(t)
  BY <1>1, ChangesKeep
<1>2. CASE \E strict \in BOOLEAN : Start(strict)
  BY <1>2, TierStartKeeps
<1>3. CASE \E r \in Requests : Inspect(r) \/ Judge(r)
  BY <1>3, RequestsKeep
<1>4. CASE \E s \in TierScans : \/ LookUp(s) \/ Enter(s) \/ Checked(s)
                                \/ Construct(s) \/ Prepare(s) \/ Analyze(s)
  BY <1>4, ChecksKeep, EnterKeeps, ConstructKeeps, PrepareKeeps, AnalyzeKeeps
<1> QED
  BY <1>1, <1>2, <1>3, <1>4 DEF TierNext

(***************************************************************************)
(* What the invariants are for.                                            *)
(***************************************************************************)
LEMMA TierInvSound ==
  TierInv => TierTypeOK /\ LoadedOnce /\ AbsenceIsTold /\ LoadedTiersAnswer /\ StrictIsLoaded
<1> SUFFICES ASSUME TierInv
             PROVE  TierTypeOK /\ LoadedOnce /\ AbsenceIsTold /\ LoadedTiersAnswer /\ StrictIsLoaded
  OBVIOUS
<1>1. TierTypeOK
  <2>1. ASSUME NEW t \in Tiers
        PROVE  {r \in Requests : scan[<<r, t>>] \in {"locked", "construct", "prepare"}}
                 = (IF initLock[t] = "free" THEN {} ELSE {initLock[t]})
    <3>1. \A r \in Requests : scan[<<r, t>>] \in Inside <=> initLock[t] = r
      BY DEF TierInv, LocksAgree, TierScans
    <3>2. initLock[t] \in Requests \cup {"free"} /\ "free" \notin Requests
      BY TierAssumption DEF TierInv, TierTypes
    <3> QED
      BY <3>1, <3>2 DEF Inside
  <2> QED
    BY <2>1 DEF TierInv, TierTypes, TierTypeOK, Places
<1>2. LoadedOnce
  BY DEF TierInv, TimesTell, LoadedOnce
<1>3. AbsenceIsTold
  <2> SUFFICES ASSUME NEW s \in TierScans
               PROVE  /\ scan[s] \in {"silent", "flag"} => warnings[s[2]] = 1
                      /\ s[2] = "gliner" => scan[s] \notin {"silent", "swallowed"}
    BY DEF AbsenceIsTold
  <2> QED
    BY TierFacts DEF TierInv, TimesTell, Placed
<1>4. LoadedTiersAnswer
  <2> SUFFICES ASSUME NEW s \in warm, scan[s] \in Answers
               PROVE  scan[s] = "answered" \/ s \in raisings
    BY DEF LoadedTiersAnswer
  <2>1. s \in TierScans /\ Placed(s)
    BY DEF TierInv, TierTypes
  <2> QED
    BY <2>1 DEF Placed, Answers
<1>5. StrictIsLoaded
  BY DEF TierInv, ServerTells, Placed, StrictIsLoaded
<1> QED
  BY <1>1, <1>2, <1>3, <1>4, <1>5

LEMMA TiersRest ==
  /\ TierInv /\ UNCHANGED tierVars => TierInv'
  /\ TagsInv /\ UNCHANGED tagsVars => TagsInv'
<1>1. TierInv /\ UNCHANGED tierVars => TierInv'
  BY DEF TierInv, tierVars, TierTypes, LocksAgree, TimesTell, ServerTells, Placed, Missing,
         Configured, Available
<1>2. TagsInv /\ UNCHANGED tagsVars => TagsInv'
  <2> SUFFICES ASSUME TagsInv, UNCHANGED tagsVars PROVE TagsInv'
    OBVIOUS
  <2>1. TagsTypeOK' /\ ProbeTells'
    BY DEF TagsInv, tagsVars, TagsTypeOK, ProbeTells
  <2>2. TimeInv'
    BY DEF TagsInv, tagsVars, TimeInv, OneReadOverdue, Spent
  <2>3. ReadInv'
    BY DEF TagsInv, tagsVars, ReadInv, Asked
  <2> QED
    BY <2>1, <2>2, <2>3 DEF TagsInv
<1> QED
  BY <1>1, <1>2

(***************************************************************************)
(* Requests that meet a tier before it is loaded load it once, a tier that *)
(* has no model says so and one that has answers, a strict start means it  *)
(* is there; and the probe tells what the daemon lists, no later than one  *)
(* read after its deadline.                                                *)
(***************************************************************************)
THEOREM TiersSound == TierSpec /\ TagsSpec => []TiersAreSound
<1>1. TierSpec => []TierInv
  <2>1. TierInv /\ [TierNext]_tierVars => TierInv'
    BY TierStep, TiersRest
  <2> QED
    BY TierStart, <2>1, PTL DEF TierSpec
<1>2. TagsSpec => []TagsInv
  <2>1. TagsInv /\ [TagsNext]_tagsVars => TagsInv'
    BY TagsStep, TiersRest
  <2> QED
    BY TagsStart, <2>1, PTL DEF TagsSpec
<1>3. TierInv /\ TagsInv => TiersAreSound
  BY TierInvSound DEF TagsInv, TimeInv, TiersAreSound
<1> QED
  BY <1>1, <1>2, <1>3, PTL

=============================================================================
