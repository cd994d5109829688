---------------------------- MODULE SystemProxy ----------------------------
(***************************************************************************)
(* The user's proxy settings on Windows and the copy that                  *)
(* services/interceptor.py keeps of them while interception is on:         *)
(* enable_system_proxy backs them up once and overwrites them,             *)
(* disable_system_proxy writes them back and removes the copy.  Each call  *)
(* is a series of registry and file operations, and the process can be     *)
(* killed between any two.  BrowserProxyService and the watchdog call      *)
(* enable; stop calls disable, running or not.                             *)
(***************************************************************************)
EXTENDS Naturals

CONSTANTS
  Urls,        \* PACs the user may have
  MaxEnables, MaxDisables, MaxUserChanges, MaxDeaths  \* bounds

Ours == "domestique"
None == "none"

ASSUME SystemProxyAssumption ==
  /\ {MaxEnables, MaxDisables, MaxUserChanges, MaxDeaths} \subseteq Nat
  /\ Ours \notin Urls

NoCopy == [kind |-> "absent"]
HalfCopy == [kind |-> "cut off"]
Settings == [url : Urls \cup {Ours, None}, enabled : BOOLEAN, blanket : BOOLEAN]
Copy(s) == [kind |-> "copy", of |-> s]
CopyIsReadable(c) == c.kind = "copy"

VARIABLES
  registry,   \* AutoConfigURL, ProxyEnable, ProxyServer with ProxyOverride
  backup,     \* windows_proxy_backup.json
  call,       \* the call under way and the step it is at
  tally,      \* [enables, disables, changes, deaths] so far
  own,        \* history: the settings as the user last made them
  disowned    \* history: why own may be gone: "cut", "unasked", "changed"

proxyVars == <<registry, backup, call, tally, own, disowned>>

\* Mutant: one more of each.
CountedOneMore(k, max) == tally[k] <= max /\ tally' = [tally EXCEPT ![k] = @ + 1]

Counted(k, max) == tally[k] < max /\ tally' = [tally EXCEPT ![k] = @ + 1]

SysInit ==
  /\ registry \in [url : Urls \cup {None}, enabled : BOOLEAN, blanket : BOOLEAN]
  /\ backup = NoCopy /\ call = "none"
  /\ tally = [enables |-> 0, disables |-> 0, changes |-> 0, deaths |-> 0]
  /\ own = registry /\ disowned = {}

-----------------------------------------------------------------------------
(***************************************************************************)
(* enable: no copy is made when there is a file already.                   *)
(***************************************************************************)
\* Mutant: the settings are copied whenever interception is enabled.
EnableCopiesAgain ==
  /\ call = "none" /\ Counted("enables", MaxEnables)
  /\ call' = "open copy"
  /\ UNCHANGED <<registry, backup, own, disowned>>

Enable ==
  /\ call = "none" /\ Counted("enables", MaxEnables)
  /\ call' = IF backup = NoCopy THEN "open copy" ELSE "set url"
  /\ UNCHANGED <<registry, backup, own, disowned>>

OpenCopy ==
  /\ call = "open copy"
  /\ backup' = HalfCopy /\ call' = "write copy"
  /\ UNCHANGED <<registry, tally, own, disowned>>

WriteCopy ==
  /\ call = "write copy"
  /\ backup' = Copy(registry) /\ call' = "set url"
  /\ UNCHANGED <<registry, tally, own, disowned>>

SetUrl ==
  /\ call = "set url"
  /\ registry' = [registry EXCEPT !.url = Ours]
  /\ call' = "set enabled"
  /\ UNCHANGED <<backup, tally, own, disowned>>

SetEnabled ==
  /\ call = "set enabled"
  /\ registry' = [registry EXCEPT !.enabled = TRUE]
  /\ call' = "clear"
  /\ UNCHANGED <<backup, tally, own, disowned>>

Clear ==
  /\ call = "clear"
  /\ registry' = [registry EXCEPT !.blanket = FALSE]
  /\ call' = "none"
  /\ UNCHANGED <<backup, tally, own, disowned>>

-----------------------------------------------------------------------------
(***************************************************************************)
(* disable: without a readable copy the settings are cleared.              *)
(***************************************************************************)
Cleared == [url |-> None, enabled |-> FALSE, blanket |-> FALSE]

Disable ==
  /\ call = "none" /\ Counted("disables", MaxDisables)
  /\ call' = "restore"
  /\ disowned' = IF backup = NoCopy THEN disowned \cup {"unasked"} ELSE disowned
  /\ UNCHANGED <<registry, backup, own>>

\* Mutant: without a readable copy nothing is written.
RestoredIfCopied == IF CopyIsReadable(backup) THEN backup.of ELSE registry

Restored == IF CopyIsReadable(backup) THEN backup.of ELSE Cleared

Restore ==
  /\ call = "restore"
  /\ registry' = Restored /\ call' = "remove copy"
  /\ UNCHANGED <<backup, tally, own, disowned>>

RemoveCopy ==
  /\ call = "remove copy"
  /\ backup' = NoCopy /\ call' = "none"
  /\ UNCHANGED <<registry, tally, own, disowned>>

-----------------------------------------------------------------------------
(***************************************************************************)
(* The process is killed, between two calls or in one.                     *)
(***************************************************************************)
Killed ==
  /\ Counted("deaths", MaxDeaths)
  /\ call' = "none"
  /\ disowned' = IF backup = HalfCopy THEN disowned \cup {"cut"} ELSE disowned
  /\ UNCHANGED <<registry, backup, own>>

(***************************************************************************)
(* The user changes the settings, in place of ours or while a copy of      *)
(* older ones lies about.                                                  *)
(***************************************************************************)
UserChanges ==
  /\ call = "none" /\ Counted("changes", MaxUserChanges)
  /\ registry' \in [url : Urls \cup {None}, enabled : BOOLEAN, blanket : BOOLEAN]
  /\ own' = registry'
  /\ disowned' = IF backup = NoCopy THEN disowned ELSE disowned \cup {"changed"}
  /\ UNCHANGED <<backup, call>>

SysNext ==
  \/ Enable \/ OpenCopy \/ WriteCopy \/ SetUrl \/ SetEnabled \/ Clear
  \/ Disable \/ Restore \/ RemoveCopy
  \/ Killed \/ UserChanges

SysSpec == SysInit /\ [][SysNext]_proxyVars

-----------------------------------------------------------------------------
(***************************************************************************)
(* Type invariant of the settings and their copy.                          *)
(***************************************************************************)
SysTypeOK ==
  /\ registry \in Settings /\ own \in Settings /\ own.url # Ours
  /\ backup \in {NoCopy, HalfCopy} \cup {Copy(s) : s \in Settings}
  /\ call \in {"none", "open copy", "write copy", "set url", "set enabled", "clear",
               "restore", "remove copy"}
  /\ tally.enables \in 0 .. MaxEnables /\ tally.disables \in 0 .. MaxDisables
  /\ tally.changes \in 0 .. MaxUserChanges /\ tally.deaths \in 0 .. MaxDeaths
  /\ disowned \subseteq {"cut", "unasked", "changed"}

(***************************************************************************)
(* The user's settings are never lost: they are in place or in a readable  *)
(* copy, through enabling twice and through kills at any step, unless a    *)
(* kill cut the copy off, a stop found no copy, or the user changed them   *)
(* while a copy of the older ones was kept.                                *)
(***************************************************************************)
SettingsAreKept ==
  disowned = {} => registry = own \/ backup = Copy(own)

(***************************************************************************)
(* After a call to disable that had a copy, no trace of ours is left:      *)
(* traffic does not go to a port nobody listens on.                        *)
(***************************************************************************)
OursIsGone ==
  call = "none" /\ backup = NoCopy => registry.url # Ours

(***************************************************************************)
(* Types; the user's proxy settings survive enables, stops and kills, and  *)
(* ours do not survive the copy.                                           *)
(***************************************************************************)
ProxyIsSound == SysTypeOK /\ SettingsAreKept /\ OursIsGone

=============================================================================
