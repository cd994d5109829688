---------------------------- MODULE SetupWizard ----------------------------
(***************************************************************************)
(* domestique setup and the installer script (setup_wizard.py): questions, *)
(* a plan that is confirmed, installs and downloads that may fail, and the *)
(* choices written to config.json, which a running application holds in    *)
(* memory and saves.  GLiNER stands for the tiers with an extra and a      *)
(* model, the browser proxy for the extras without one.                    *)
(***************************************************************************)
EXTENDS Naturals, FiniteSets

CONSTANTS
  Presets, NoPreset,   \* choices of the third tier, and none
  ModelOf, StackKeyOf, \* a preset's model, and its key in the configuration
  Resolves,            \* the model that runs for a key, on this machine
  NoConfig, Unreadable,\* no file, and a file that is no JSON
  MaxSetups, MaxBreaks \* bounds: runs, and kills while the file is written

VARIABLES
  who, unattended,   \* "setup" or "installer"; --yes
  flags,             \* what the installer's flags answer
  wizardAt, exit,
  picks, eof,    \* the choices; stdin has ended
  installed,     \* what is installed or downloaded
  daemon,        \* the Ollama server answers
  config, read, memory,   \* the file; what the run read; what the application holds
  answered, before, warned, meddled,   \* history of the run
  setups, breaks

setupVars == <<who, unattended, flags, wizardAt, exit, picks, eof, installed, daemon,
               config, read, memory, answered, before, warned, meddled, setups, breaks>>

talk == <<who, unattended, flags>>
chosen == <<who, unattended, flags, picks, eof>>
story == <<answered, before, warned, meddled>>
installs == <<installed, daemon>>
files == <<config, read, memory>>
bounded == <<setups, breaks>>

Models == {ModelOf[p] : p \in Presets}
StackKeys == {StackKeyOf[p] : p \in Presets}

Stacks == [ner : BOOLEAN, preset : Presets \cup {NoPreset}, browser : BOOLEAN]
(* The file names a preset and, for the third tier, switches keys on. *)
Configs == [ner : BOOLEAN, preset : Presets \cup {NoPreset}, browser : BOOLEAN,
            keys : SUBSET StackKeys, other : {"own", "default"}]

ASSUME SetupAssumption ==
  /\ Presets # {} /\ NoPreset \notin Presets
  /\ Models \cap {"ner", "browser", "gliner", "ollama"} = {}
  /\ NoConfig # Unreadable /\ {NoConfig, Unreadable} \cap Configs = {}
  /\ {MaxSetups, MaxBreaks} \subseteq Nat

NoPicks == [ner |-> FALSE, preset |-> NoPreset, browser |-> FALSE]
BareConfig(other) ==
  [ner |-> FALSE, preset |-> NoPreset, browser |-> FALSE, keys |-> {}, other |-> other]

(* What the user left: all detection is switched on.                       *)
Earlier == [BareConfig("own") EXCEPT !.ner = TRUE, !.keys = StackKeys]

SetupInit ==
  /\ who = "setup" /\ unattended = FALSE /\ flags = {} /\ wizardAt = "ended" /\ exit = "none"
  /\ picks = NoPicks /\ eof = FALSE
  /\ installed \in {{}, {"ollama"}} \cup {{"ollama", "ner", m} : m \in Models} /\ daemon = FALSE
  /\ config \in {NoConfig, Unreadable, Earlier}
  /\ read = NoConfig /\ memory \in {NoConfig, config} \ {Unreadable}
  /\ answered = FALSE /\ warned = FALSE /\ meddled = FALSE
  /\ before = [installed |-> installed, config |-> config]
  /\ setups = 0 /\ breaks = 0

Ends(how) == wizardAt' = "ended" /\ exit' = how
Step(at) == wizardAt' = at /\ UNCHANGED exit

-----------------------------------------------------------------------------
(***************************************************************************)
(* The questions.  A stream that has ended answers no; the installer's     *)
(* --features, and --preset or --no-local-llm, answer in place of the user.*)
(***************************************************************************)
BeginSetup(w, a) ==
  /\ wizardAt = "ended" /\ setups < MaxSetups /\ setups' = setups + 1
  /\ who' = w /\ unattended' = a /\ exit' = "none" /\ eof' \in BOOLEAN
  /\ flags' \in (IF w = "installer" THEN SUBSET {"features", "tier"} ELSE {{}})
  /\ \E roomy \in BOOLEAN : picks' = [NoPicks EXCEPT !.ner = w = "setup" /\ roomy]
  /\ wizardAt' = IF w = "setup" THEN "preset" ELSE "tier"
  /\ answered' = FALSE /\ warned' = FALSE /\ meddled' = FALSE
  /\ before' = [installed |-> installed, config |-> config]
  /\ UNCHANGED <<installs, files, breaks>>

\* Mutant: a stream that has ended accepts the default.
RepliesAccepting(default) == IF unattended \/ eof THEN {default} ELSE BOOLEAN

Replies(default) == IF unattended THEN {default} ELSE IF eof THEN {FALSE} ELSE BOOLEAN

Asks == answered' = (answered \/ (~unattended /\ ~eof))

AsksUnless(given) == IF given THEN UNCHANGED answered ELSE Asks
AnswersTo(question) == IF question \in flags THEN BOOLEAN ELSE Replies(TRUE)

(* The installer asks for each feature, and whether to have the third tier. *)
AskTier ==
  /\ wizardAt = "tier" /\ AsksUnless({"features", "tier"} \subseteq flags)
  /\ \E n, b \in AnswersTo("features"), third \in AnswersTo("tier") :
       /\ picks' = [picks EXCEPT !.ner = n, !.browser = b]
       /\ Step(IF third THEN "preset" ELSE "confirm")
  /\ UNCHANGED <<talk, eof, installs, files, before, warned, meddled, bounded>>

(* The one picked, or recommended for the hardware: that may be any.       *)
PickPreset ==
  /\ wizardAt = "preset" /\ AsksUnless("tier" \in flags)
  /\ \E p \in Presets \cup
            (IF who = "setup" /\ ~unattended /\ ~eof THEN {NoPreset} ELSE {}) :
       picks' = [picks EXCEPT !.preset = p]
  /\ Step(IF who = "setup" THEN "browser" ELSE "early")
  /\ UNCHANGED <<talk, eof, installs, files, before, warned, meddled, bounded>>

AskBrowser ==
  /\ wizardAt = "browser" /\ Asks
  /\ \E b \in Replies(FALSE) : picks' = [picks EXCEPT !.browser = b]
  /\ Step("confirm")
  /\ UNCHANGED <<talk, eof, installs, files, before, warned, meddled, bounded>>

\* Mutant: a pull is tried without it.
HasOllamaAlways == TRUE

HasOllama == "ollama" \in installed

(* The installer installs Ollama before the plan is confirmed. *)
EarlyOllama ==
  /\ wizardAt = "early" /\ Step("confirm")
  /\ \/ HasOllama /\ UNCHANGED <<installed, picks, answered, warned>>
     \/ installed' = installed \cup {"ollama"} /\ UNCHANGED <<picks, answered, warned>>
     \/ /\ ~HasOllama /\ UNCHANGED installed
        /\ warned' = TRUE /\ Asks
        /\ \E go \in (IF unattended THEN {TRUE} ELSE Replies(FALSE)) :
             picks' = IF go THEN picks ELSE [picks EXCEPT !.preset = NoPreset]
  /\ UNCHANGED <<talk, eof, daemon, files, before, meddled, bounded>>

Confirm ==
  /\ wizardAt = "confirm" /\ Asks
  /\ \E go \in (IF unattended THEN {TRUE} ELSE Replies(TRUE)) :
       IF go THEN Step("extras") ELSE Ends("aborted")
  /\ UNCHANGED <<chosen, installs, files, before, warned, meddled, bounded>>

-----------------------------------------------------------------------------
(***************************************************************************)
(* The installs: a command that fails ends the run.                        *)
(***************************************************************************)
\* Mutant: a command that fails is passed over.
FailsOn(next) == Step(next)

FailsAt(next) == Ends("failed")

Picked == (IF picks.ner THEN {"ner"} ELSE {}) \cup (IF picks.browser THEN {"browser"} ELSE {})

InstallExtras ==
  /\ wizardAt = "extras"
  /\ \/ installed' = installed \cup Picked /\ Step("model")
     \/ Picked # {} /\ UNCHANGED installed /\ FailsAt("model")
  /\ UNCHANGED <<chosen, daemon, files, story, bounded>>

CacheModel ==
  /\ wizardAt = "model"
  /\ \/ installed' = installed \cup (IF picks.ner THEN {"gliner"} ELSE {}) /\ Step("ollama")
     \/ picks.ner /\ UNCHANGED installed /\ FailsAt("ollama")
  /\ UNCHANGED <<chosen, daemon, files, story, bounded>>

(* The walkthrough installs Ollama now; without it the choice stays, with  *)
(* a warning.                                                              *)
LateOllama ==
  /\ wizardAt = "ollama"
  /\ \/ picks.preset = NoPreset /\ Step("read") /\ UNCHANGED <<installed, warned>>
     \/ picks.preset # NoPreset /\ HasOllama /\ Step("pull") /\ UNCHANGED <<installed, warned>>
     \/ /\ picks.preset # NoPreset /\ who = "setup"
        /\ installed' = installed \cup {"ollama"} /\ Step("pull") /\ UNCHANGED warned
     \/ /\ picks.preset # NoPreset /\ ~HasOllama
        /\ Step("read") /\ warned' = TRUE /\ UNCHANGED installed
  /\ UNCHANGED <<chosen, daemon, files, answered, before, meddled, bounded>>

(* The daemon is started if it does not answer; where it still does not,   *)
(* the model is left for later with a warning.  The pull's own failure is  *)
(* shown by the command (external) and not looked at.                      *)
Pull ==
  /\ wizardAt = "pull" /\ Step("read")
  /\ \/ ModelOf[picks.preset] \in installed /\ UNCHANGED <<installs, warned>>
     \/ ModelOf[picks.preset] \notin installed /\ ~daemon /\ warned' = TRUE /\ UNCHANGED installs
     \/ /\ ModelOf[picks.preset] \notin installed /\ daemon' = TRUE
        /\ \/ installed' = installed \cup {ModelOf[picks.preset]} /\ UNCHANGED warned
           \/ warned' = TRUE /\ UNCHANGED installed
  /\ UNCHANGED <<chosen, files, answered, before, meddled, bounded>>

-----------------------------------------------------------------------------
(***************************************************************************)
(* The configuration: read, merged, written over the file.                 *)
(***************************************************************************)
ReadConfig ==
  /\ wizardAt = "read"
  /\ read' = IF config = Unreadable THEN NoConfig ELSE config
  /\ IF who = "installer" /\ picks.preset = NoPreset THEN Ends("done") ELSE Step("write")
  /\ UNCHANGED <<chosen, installs, config, memory, story, bounded>>

KeysFor(preset) == IF preset = NoPreset THEN {} ELSE {StackKeyOf[preset]}

(* The walkthrough writes all its answers, and leaves the name of a preset *)
(* when it has none; the installer writes the third tier alone.            *)
Choices(old) ==
  [old EXCEPT !.keys = KeysFor(picks.preset),
              !.preset = IF picks.preset = NoPreset THEN @ ELSE picks.preset,
              !.ner = IF who = "setup" THEN picks.ner ELSE @,
              !.browser = IF who = "setup" THEN picks.browser ELSE @]

\* Mutant: the file is written anew.
MergedAnew(old) == Choices(BareConfig("default"))

MergedInto(old) == Choices(IF old = NoConfig THEN BareConfig("default") ELSE old)

WriteConfig ==
  /\ wizardAt = "write"
  /\ config' = MergedInto(read) /\ Ends("done")
  /\ UNCHANGED <<chosen, installs, read, memory, story, bounded>>

-----------------------------------------------------------------------------
(***************************************************************************)
(* Control-C, a kill within the write, stdin, the application, Ollama.     *)
(***************************************************************************)
Asking == {"tier", "preset", "browser", "confirm"}
InstallSteps == {"early", "extras", "model", "ollama", "pull", "read"}

Cancel ==
  /\ wizardAt \in Asking \cup InstallSteps /\ Ends("cancelled")
  /\ UNCHANGED <<chosen, installs, files, story, bounded>>

(* The installer writes only what has changed. *)
KillInWrite ==
  /\ wizardAt = "write" /\ (who = "setup" \/ MergedInto(read) # read)
  /\ breaks < MaxBreaks /\ breaks' = breaks + 1
  /\ config' = Unreadable /\ Ends("killed")
  /\ UNCHANGED <<chosen, installs, read, memory, story, setups>>

StdinEnds ==
  /\ ~eof /\ wizardAt \in Asking /\ eof' = TRUE
  /\ UNCHANGED <<talk, wizardAt, exit, picks, installs, files, story, bounded>>

(* It saves what it holds, whatever the file says by now. *)
AppSaves ==
  /\ memory # NoConfig /\ config # memory
  /\ config' = memory /\ meddled' = TRUE
  /\ UNCHANGED <<chosen, wizardAt, exit, installs, read, memory, answered, before, warned, bounded>>

AppQuits ==
  /\ memory # NoConfig /\ memory' = NoConfig
  /\ UNCHANGED <<chosen, wizardAt, exit, installs, config, read, story>>
  /\ UNCHANGED bounded

DaemonStops ==
  /\ daemon /\ wizardAt = "ended" /\ daemon' = FALSE
  /\ UNCHANGED <<chosen, wizardAt, exit, installed, files, story, bounded>>

SetupNext ==
  \/ \E w \in {"setup", "installer"}, a \in BOOLEAN : BeginSetup(w, a)
  \/ AskTier \/ PickPreset \/ AskBrowser \/ EarlyOllama \/ Confirm
  \/ InstallExtras \/ CacheModel \/ LateOllama \/ Pull \/ ReadConfig \/ WriteConfig
  \/ Cancel \/ KillInWrite \/ StdinEnds \/ AppSaves \/ AppQuits \/ DaemonStops

SetupSpec == SetupInit /\ [][SetupNext]_setupVars

-----------------------------------------------------------------------------
(***************************************************************************)
(* Properties.                                                             *)
(***************************************************************************)
SetupTypeOK ==
  /\ who \in {"setup", "installer"} /\ flags \subseteq {"features", "tier"}
  /\ unattended \in BOOLEAN /\ eof \in BOOLEAN
  /\ wizardAt \in Asking \cup InstallSteps \cup {"write", "ended"}
  /\ exit \in {"none", "done", "aborted", "failed", "cancelled", "killed"}
  /\ picks \in Stacks /\ daemon \in BOOLEAN
  /\ installed \subseteq {"ner", "browser", "gliner", "ollama"} \cup Models
  /\ installed \cap Models # {} => "ollama" \in installed
  /\ config \in Configs \cup {NoConfig, Unreadable}
  /\ {read, memory} \subseteq Configs \cup {NoConfig}
  /\ answered \in BOOLEAN /\ warned \in BOOLEAN /\ meddled \in BOOLEAN
  /\ setups \in 0 .. MaxSetups /\ breaks \in 0 .. MaxBreaks

(* Whatever step fails or is interrupted, a run changes the configuration  *)
(* only after everything it switches on is there: the extra and the model  *)
(* of GLiNER, the browser proxy, and the preset's model unless the user    *)
(* was told that it is missing.  The file has the preset's key alone, and  *)
(* the model that runs for it is there too, or its absence was told, where *)
(* the key stands for the model of that preset: "quality" pulls one model  *)
(* and switches on another's key, and an Apple machine runs a third.       *)
ConfigComesLast ==
  config \notin {before.config, Unreadable} /\ ~meddled =>
    /\ config.keys = KeysFor(picks.preset)
    /\ who = "setup" => config.ner = picks.ner /\ config.browser = picks.browser
    /\ Picked \subseteq installed /\ (picks.ner => "gliner" \in installed)
    /\ picks.preset # NoPreset => ModelOf[picks.preset] \in installed \/ warned
    /\ \A k \in config.keys :
         Resolves[k] \in installed \/ warned \/ Resolves[k] # ModelOf[picks.preset]

(* An interactive run whose questions nobody answered, because stdin had   *)
(* ended, installs and changes nothing (the comments at prompt_yes_no and  *)
(* at the first-run offer), but for Ollama where --preset asks for the     *)
(* third tier: the plan is put to the user after that.                     *)
EofInstallsNothing ==
  ~unattended /\ ~answered =>
    /\ installed \subseteq before.installed \cup (IF "tier" \in flags THEN {"ollama"} ELSE {})
    /\ meddled \/ config = before.config

(* A run that ends well leaves the user's other settings in the file as    *)
(* they were, unless the file could not be read or the application wrote.  *)
OtherSettingsStay ==
  exit = "done" /\ ~meddled /\ before.config \notin {NoConfig, Unreadable} =>
    config.other = before.config.other

(***************************************************************************)
(* Types; the configuration names what is installed, nothing is installed  *)
(* on an answer nobody gave, and other settings stay.                      *)
(***************************************************************************)
SetupIsSound == SetupTypeOK /\ ConfigComesLast /\ EofInstallsNothing /\ OtherSettingsStay

=============================================================================
