---------------------------- MODULE Certificates ----------------------------
(***************************************************************************)
(* The interception certificate authority: generated by interceptor.py,    *)
(* trusted by cert_manager.py, copied into mitmdump's directory by         *)
(* proxy.py.  A pair is the number of the generation that made it; a file  *)
(* holds the pair of its content and, where the code compares it, the time *)
(* of its last change.  The callers are threads and processes (the launch, *)
(* the dashboard's handlers, fix-cert) that share the files and no lock.   *)
(***************************************************************************)
EXTENDS Naturals, FiniteSets

CONSTANTS Generators, Launchers,   \* who generates; who goes on to trust what it generated
          NoFile,               \* no file, no answer
          MaxPairs, MaxMishaps  \* bounds: generations, and deaths, deletions and restores

VARIABLES platform, key, cert, copied, store, caller, mitm, made, clock, clashed, trustTold, mishaps

caVars == <<platform, key, cert, copied, store, caller, mitm, made, clock, clashed,
            trustTold, mishaps>>

PairIds == 1..MaxPairs
Stamped == [pair : PairIds, at : Nat]
Told == [pair : PairIds, trusted : BOOLEAN, named : BOOLEAN]

ASSUME CertificatesAssumption ==
  /\ MaxPairs \in Nat \ {0} /\ MaxMishaps \in Nat
  /\ NoFile \notin PairIds \cup Stamped \cup (PairIds \X PairIds) \cup Told

(***************************************************************************)
(* Type invariant; the copies are made in order, the pair before the       *)
(* certificate (proxy.py).                                                 *)
(***************************************************************************)
CaTypeOK ==
  /\ platform \in {"windows", "macos", "linux"}
  /\ key \in PairIds \cup {NoFile} /\ cert \in Stamped \cup {NoFile}
  /\ copied \in [pem : (PairIds \X PairIds) \cup {NoFile}, cert : Stamped \cup {NoFile}]
  /\ copied.cert # NoFile => copied.pem # NoFile
  /\ store \subseteq PairIds
  /\ caller \in [Generators -> [at : {"idle", "generate", "key", "cert", "install", "trust"},
                             pair : PairIds \cup {NoFile}]]
  /\ mitm \in [at : {"off", "pem", "cert", "spawn", "on"}, saw : (PairIds \X PairIds) \cup {NoFile},
               signs : (PairIds \X PairIds) \cup {NoFile}, fooled : BOOLEAN]
  /\ made \in 0..MaxPairs /\ clock \in Nat /\ clashed \in SUBSET {"pair", "copy", "date"}
  /\ trustTold \in Told \cup {NoFile}
  /\ mishaps \in 0..MaxMishaps

IdleCaller == [at |-> "idle", pair |-> NoFile]
OffMitm == [at |-> "off", saw |-> NoFile, signs |-> NoFile, fooled |-> FALSE]

(* The program was never installed, or it ran here before, and its key may *)
(* have been lost since.                                                   *)
CaInit ==
  /\ platform \in {"windows", "macos", "linux"}
  /\ caller = [c \in Generators |-> IdleCaller] /\ mitm = OffMitm
  /\ clashed = {} /\ trustTold = NoFile /\ mishaps = 0
  /\ \/ /\ key = NoFile /\ cert = NoFile /\ copied = [pem |-> NoFile, cert |-> NoFile]
        /\ store = {} /\ made = 0 /\ clock = 0
     \/ /\ key \in {1, NoFile} /\ cert = [pair |-> 1, at |-> 1] /\ made = 1 /\ clock = 2
        /\ copied = [pem |-> <<1, 1>>, cert |-> [pair |-> 1, at |-> 2]]
        /\ store = IF platform = "linux" THEN {} ELSE {1}

CallerGoes(c, at) == caller' = [caller EXCEPT ![c].at = at]

-----------------------------------------------------------------------------
(***************************************************************************)
(* setup(): generate, install, write the PAC file.                         *)
(***************************************************************************)
(* Found by its name, whichever generation it is. *)
IsInstalled == platform # "linux" /\ store # {}
IsSetup == cert # NoFile /\ IsInstalled

(* Most callers ask is_setup first; the setup handler and fix-cert do not. *)
AskGenerate(c) == caller[c].at = "idle" /\ CallerGoes(c, "generate")
AskSetUp(c) ==
  /\ caller[c].at = "idle" /\ c \in Launchers /\ IsSetup /\ CallerGoes(c, "trust")

BothExist == key # NoFile /\ cert # NoFile

Generate(c) ==
  /\ caller[c].at = "generate"
  /\ CallerGoes(c, IF BothExist THEN "install" ELSE "key")
  /\ UNCHANGED <<key, cert, made, clock, clashed>>

(* While another generation or a start of mitmdump is between its reads   *)
(* and its writes, the files of the two may mix.                          *)
Mixes(c) ==
  (IF \E d \in Generators \ {c} : caller[d].at \in {"key", "cert"} THEN {"pair"} ELSE {}) \cup
  (IF mitm.at \in {"pem", "cert", "spawn"} THEN {"copy"} ELSE {})

WriteKey(c) ==
  /\ caller[c].at = "key" /\ made < MaxPairs
  /\ made' = made + 1 /\ key' = made'
  /\ caller' = [caller EXCEPT ![c] = [at |-> "cert", pair |-> made']]
  /\ clashed' = clashed \cup Mixes(c)
  /\ UNCHANGED <<cert, clock>>

\* Mutant: a certificate that is there is kept.
WriteCertIfNone(c) ==
  /\ caller[c].at = "cert"
  /\ clock' = clock + 1
  /\ cert' = IF cert # NoFile THEN cert ELSE [pair |-> caller[c].pair, at |-> clock']
  /\ caller' = [caller EXCEPT ![c] = [at |-> "install", pair |-> NoFile]]
  /\ clashed' = (clashed \ {"date"}) \cup Mixes(c)
  /\ UNCHANGED <<key, made>>

WriteCert(c) ==
  /\ caller[c].at = "cert"
  /\ clock' = clock + 1 /\ cert' = [pair |-> caller[c].pair, at |-> clock']
  /\ caller' = [caller EXCEPT ![c] = [at |-> "install", pair |-> NoFile]]
  /\ clashed' = (clashed \ {"date"}) \cup Mixes(c)
  /\ UNCHANGED <<key, made>>

After(c) == IF c \in Launchers THEN "trust" ELSE "idle"

(* certutil or security may refuse: the user says no to the dialog. *)
Added(files) ==
  IF platform = "linux" \/ files = NoFile THEN {store} ELSE {store, store \cup {files.pair}}

Install(c) ==
  /\ caller[c].at = "install"
  /\ store' \in (IF IsInstalled THEN {store} ELSE Added(cert))
  /\ CallerGoes(c, After(c)) /\ UNCHANGED trustTold

\* Mutant: macOS too looks for the name.
TrustsByName(s) == cert # NoFile /\ (platform # "linux" => s # {})

(* is_cert_trusted looks at the certificate on macOS, at the name on       *)
(* Windows, and says yes on Linux.                                         *)
Trusts(s) ==
  /\ cert # NoFile
  /\ CASE platform = "macos" -> cert.pair \in s [] platform = "windows" -> s # {} [] OTHER -> TRUE

Trust(c) ==
  /\ caller[c].at = "trust"
  /\ store' \in (IF Trusts(store) THEN {store} ELSE Added(cert))
  /\ trustTold' = IF cert = NoFile THEN NoFile
             ELSE [pair |-> cert.pair, trusted |-> Trusts(store'), named |-> store \ {cert.pair} # {}]
  /\ CallerGoes(c, "idle")

-----------------------------------------------------------------------------
(***************************************************************************)
(* start(): refresh mitmdump's copy, then run it on the copy.  A start is  *)
(* fooled that keeps the copy because the certificate was put back with a  *)
(* date no newer than the copy's.                                          *)
(***************************************************************************)
Stale ==
  \/ copied.cert = NoFile \/ copied.pem = NoFile
  \/ copied.cert # NoFile /\ cert # NoFile /\ copied.cert.at < cert.at

Compare ==
  /\ mitm.at = "off" /\ cert # NoFile
  /\ mitm' = [mitm EXCEPT !.at = IF Stale THEN "pem" ELSE "spawn",
                          !.saw = IF key = NoFile THEN NoFile ELSE <<key, cert.pair>>,
                          !.fooled = ~Stale /\ "date" \in clashed]
  /\ UNCHANGED <<copied, clock, clashed>>

\* Mutant: the certificate alone is written first, the combined file after it.
CopyPemLast ==
  /\ mitm.at = "pem"
  /\ IF BothExist
     THEN /\ clock' = clock + 1
          /\ copied' = [copied EXCEPT !.cert = [pair |-> cert.pair, at |-> clock']]
          /\ mitm' = [mitm EXCEPT !.at = "cert"]
     ELSE mitm' = OffMitm /\ UNCHANGED <<copied, clock>>
  /\ UNCHANGED clashed

(* A file that went away raises, and the start is over. *)
CopyPem ==
  /\ mitm.at = "pem"
  /\ IF BothExist
     THEN /\ copied' = [copied EXCEPT !.pem = <<key, cert.pair>>]
          /\ mitm' = [mitm EXCEPT !.at = "cert"]
     ELSE mitm' = OffMitm /\ UNCHANGED copied
  /\ UNCHANGED <<clock, clashed>>

CopyCert ==
  /\ mitm.at = "cert"
  /\ IF cert # NoFile
     THEN /\ clock' = clock + 1
          /\ copied' = [copied EXCEPT !.cert = [pair |-> cert.pair, at |-> clock']]
          /\ mitm' = [mitm EXCEPT !.at = "spawn"] /\ clashed' = clashed \ {"date"}
     ELSE mitm' = OffMitm /\ UNCHANGED <<copied, clock, clashed>>

Spawned ==
  /\ mitm.at = "spawn"
  /\ mitm' = [mitm EXCEPT !.at = "on", !.signs = copied.pem]
  /\ UNCHANGED <<copied, clock, clashed>>

MitmStops == mitm.at = "on" /\ mitm' = OffMitm /\ UNCHANGED <<copied, clock, clashed>>

-----------------------------------------------------------------------------
(***************************************************************************)
(* The machine.  What a launch said is looked at when it says it.          *)
(***************************************************************************)
Mishap == mishaps < MaxMishaps /\ mishaps' = mishaps + 1

(* Every caller and mitmdump's start end where they are. *)
Death ==
  /\ Mishap
  /\ caller' = [c \in Generators |-> IdleCaller] /\ mitm' = OffMitm
  /\ clashed' = clashed \cup (IF \E c \in Generators : caller[c].at = "cert" THEN {"pair"} ELSE {})
  /\ UNCHANGED <<key, cert, clock>>

CaQuiet == mitm.at \in {"off", "on"} /\ \A c \in Generators : caller[c].at = "idle"

(* The user deletes either file. *)
Delete ==
  /\ Mishap /\ CaQuiet
  /\ \/ key' = NoFile /\ UNCHANGED cert
     \/ cert' = NoFile /\ UNCHANGED key
  /\ UNCHANGED <<caller, mitm, clock, clashed>>

LooksFresh(at) == copied.cert # NoFile /\ copied.cert.at >= at

(* The user puts a saved pair back, by a copy that takes the time of day   *)
(* or by one that preserves a time of the past: before the copy's, or the  *)
(* restore is as good as a new one.                                        *)
PutBack ==
  /\ Mishap /\ CaQuiet /\ clock' = clock + 1
  /\ \E p \in 1..made, at \in {0, clock'} :
       /\ key' = p /\ cert' = [pair |-> p, at |-> at]
       /\ clashed' = (clashed \ {"date"}) \cup (IF LooksFresh(at) THEN {"date"} ELSE {})
  /\ UNCHANGED <<caller, mitm>>

CaNext ==
  \/ \E c \in Generators :
       \/ (AskGenerate(c) \/ AskSetUp(c)) /\ trustTold' = NoFile
            /\ UNCHANGED <<platform, key, cert, copied, store, mitm, made, clock, clashed, mishaps>>
       \/ (Generate(c) \/ WriteKey(c) \/ WriteCert(c))
            /\ UNCHANGED <<platform, copied, store, mitm, trustTold, mishaps>>
       \/ (Install(c) \/ Trust(c))
            /\ UNCHANGED <<platform, key, cert, copied, mitm, made, clock, clashed, mishaps>>
  \/ (Compare \/ CopyPem \/ CopyCert \/ Spawned \/ MitmStops) /\ trustTold' = NoFile
       /\ UNCHANGED <<platform, key, cert, store, caller, made, mishaps>>
  \/ /\ Death \/ Delete \/ PutBack
     /\ trustTold' = NoFile /\ UNCHANGED <<platform, copied, store, made>>

CaSpec == CaInit /\ [][CaNext]_caVars

-----------------------------------------------------------------------------
(***************************************************************************)
(* Properties.                                                             *)
(***************************************************************************)
(* Key and certificate on disk belong together once nobody is between the  *)
(* two writes, whatever was deleted or put back, unless two generations    *)
(* overlapped or one was cut off: nothing repairs a mixed pair, since      *)
(* generate_ca then finds both files.                                      *)
PairIsWhole ==
  BothExist /\ "pair" \notin clashed /\ (\A c \in Generators : caller[c].at # "cert") =>
    key = cert.pair

(* mitmdump signs with the pair that was on disk when its start began,     *)
(* although it reads copies that are refreshed by date and written one     *)
(* after the other, with deaths, deletions and restores in between, unless *)
(* the pair was being replaced during a start, or that start was fooled.   *)
(* A copy that was kept for its date is mended by the next generation,     *)
(* restore with a new date, or copy.                                       *)
SignsWithOurs ==
  (/\ mitm.at = "on" /\ ~mitm.fooled /\ "copy" \notin clashed
   /\ mitm.saw # NoFile /\ mitm.saw[1] = mitm.saw[2])
    => mitm.signs = mitm.saw

(* A launch that says the certificate is trusted left this certificate in  *)
(* the store, on Linux excepted and, on Windows, where an older one of the *)
(* same name is there.                                                     *)
TrustIsTrue ==
  (trustTold # NoFile /\ trustTold.trusted) =>
    \/ trustTold.pair \in store
    \/ platform = "linux"
    \/ platform = "windows" /\ trustTold.named

(***************************************************************************)
(* Types; key and certificate are of one pair, mitmdump signs with it, and *)
(* what is told of the trust in it is so.                                  *)
(***************************************************************************)
CertificatesAreSound == CaTypeOK /\ PairIsWhole /\ SignsWithOurs /\ TrustIsTrue

=============================================================================
