------------------------------ MODULE TermFile ------------------------------
(***************************************************************************)
(* The file of coined terms shared by the processes (domestique/           *)
(* taxonomy_store.py).  Each process keeps its own copy, taken when its    *)
(* store is made, and registers a new term by choosing a prefix, reading   *)
(* the file, merging, and replacing the file; its lock keeps its own       *)
(* threads apart, nothing keeps the processes apart.                       *)
(***************************************************************************)
EXTENDS Naturals, FiniteSets, Functions

CONSTANTS
  Processes,
  Terms,       \* terms that are not canonical and look like labels
  Prefixes,
  Derive,      \* _derive_prefix of each term
  Numbered,    \* [base, n] -> the base cut and numbered
  Canonical,   \* _CANONICAL_PREFIXES
  Numbers,     \* the numbers tried, from 2 on
  MaxTerms,    \* _MAX_COINED_TERMS
  MaxFaults    \* bound: kills, failing reads and failing writes

ASSUME TermAssumption ==
  /\ Derive \in [Terms -> Prefixes]
  /\ Numbered \in [Prefixes \X Numbers -> Prefixes]
  /\ Numbers \subseteq Nat /\ MaxTerms \in Nat /\ MaxFaults \in Nat
  /\ Canonical \subseteq Prefixes
  /\ \A x \in Prefixes \X Numbers : Numbered[x] \notin Canonical

(***************************************************************************)
(* As many numbered forms of a prefix as there are terms.  The code tries  *)
(* 998 numbers, and a process coins no term beyond the 512th it knows; a   *)
(* file that several processes filled beyond 998 is left out, since there  *)
(* Unique gives a prefix twice.                                            *)
(***************************************************************************)
ASSUME EnoughNumbers ==
  /\ IsFiniteSet(Terms)
  /\ \A b \in Prefixes : Cardinality(Terms) <= Cardinality({Numbered[<<b, n>>] : n \in Numbers})

VARIABLES
  termFile,   \* the file: a partial function from terms to prefixes
  terms,      \* of each process: _terms
  job,        \* of each process: the registration under way
  given,      \* history: what each process answered since it started
  faults,
  raced       \* history: a file was replaced that had changed since it was read

termVars == <<termFile, terms, job, given, faults, raced>>

Nothing == <<>>
Free == [at |-> "free"]

TermInit ==
  /\ termFile = Nothing
  /\ terms = [p \in Processes |-> Nothing]
  /\ job = [p \in Processes |-> Free]
  /\ given = [p \in Processes |-> Nothing]
  /\ faults = 0 /\ raced = FALSE

KnownTerms(f) == DOMAIN f
Used(f) == Range(f)
Assign(f, t, prefix) == [x \in KnownTerms(f) \cup {t} |-> IF x = t THEN prefix ELSE f[x]]

(***************************************************************************)
(* The base, or the base with the least number that is free; the base      *)
(* again when every number is taken.                                       *)
(***************************************************************************)
Unique(base, taken) ==
  LET open == {n \in Numbers : Numbered[<<base, n>>] \notin taken}
  IN IF base \notin taken \/ open = {} THEN base
     ELSE Numbered[<<base, CHOOSE n \in open : \A m \in open : n <= m>>]

Move(p, next) == job' = [job EXCEPT ![p] = next]
\* Mutant: one fault too many.
FaultOneMore == faults <= MaxFaults /\ faults' = faults + 1

Fault == faults < MaxFaults /\ faults' = faults + 1
Give(p, t, prefix) == given' = [given EXCEPT ![p] = Assign(@, t, prefix)]

(***************************************************************************)
(* register: a known term has its prefix; a new one gets one, unless the   *)
(* store is full: then the answer is the base, and nothing is kept.        *)
(***************************************************************************)
Lookup(p, t) ==
  /\ job[p].at = "free" /\ t \in KnownTerms(terms[p])
  /\ Give(p, t, terms[p][t])
  /\ UNCHANGED <<termFile, terms, job, faults, raced>>

Coin(p, t) ==
  /\ job[p].at = "free" /\ t \notin KnownTerms(terms[p])
  /\ Cardinality(KnownTerms(terms[p])) < MaxTerms
  /\ terms' = [terms EXCEPT ![p] =
                 Assign(@, t, Unique(Derive[t], Canonical \cup Used(@)))]
  /\ Move(p, [at |-> "coined", term |-> t])
  /\ UNCHANGED <<termFile, given, faults, raced>>

(***************************************************************************)
(* _persist_locked: an unreadable file counts as empty; when anything      *)
(* fails the process goes on with what it has in memory.                   *)
(***************************************************************************)
ReadFile(p) ==
  /\ job[p].at = "coined"
  /\ \E view \in {termFile, Nothing} :
       /\ IF view = termFile THEN UNCHANGED faults ELSE Fault
       /\ Move(p, [at |-> "merge", term |-> job[p].term, view |-> view, merged |-> view])
  /\ UNCHANGED <<termFile, terms, given, raced>>

(***************************************************************************)
(* _merge_preserving_uniqueness: the file's terms as they are, and of this *)
(* process's others one after the other, in some order, each with its      *)
(* prefix or a free one.                                                   *)
(***************************************************************************)
Unmerged(p) == KnownTerms(terms[p]) \ KnownTerms(job[p].merged)

\* Mutant: a plain union of the two maps.
MergeTermAsItIs(p, t) ==
  /\ job[p].at = "merge" /\ t \in Unmerged(p)
  /\ job' = [job EXCEPT ![p].merged = Assign(@, t, terms[p][t])]
  /\ UNCHANGED <<termFile, terms, given, faults, raced>>

MergeTerm(p, t) ==
  /\ job[p].at = "merge" /\ t \in Unmerged(p)
  /\ job' = [job EXCEPT ![p].merged = Assign(@, t, Unique(terms[p][t], Used(@)))]
  /\ UNCHANGED <<termFile, terms, given, faults, raced>>

\* Mutant: the last writer discards what the others coined.
AdoptNothing(p) ==
  /\ job[p].at = "merge" /\ Unmerged(p) = {}
  /\ Move(p, [at |-> "replace", term |-> job[p].term, view |-> job[p].view])
  /\ UNCHANGED <<termFile, terms, given, faults, raced>>

Adopt(p) ==
  /\ job[p].at = "merge" /\ Unmerged(p) = {}
  /\ terms' = [terms EXCEPT ![p] = job[p].merged]
  /\ Move(p, [at |-> "replace", term |-> job[p].term, view |-> job[p].view])
  /\ UNCHANGED <<termFile, given, faults, raced>>

Replace(p) ==
  /\ job[p].at = "replace"
  /\ termFile' = terms[p]
  /\ raced' = (raced \/ termFile # job[p].view)
  /\ Give(p, job[p].term, terms[p][job[p].term])
  /\ Move(p, Free)
  /\ UNCHANGED <<terms, faults>>

PersistFails(p) ==
  /\ job[p].at \in {"coined", "replace"}
  /\ Fault
  /\ Give(p, job[p].term, terms[p][job[p].term])
  /\ Move(p, Free)
  /\ UNCHANGED <<termFile, terms, raced>>

(***************************************************************************)
(* A process is killed and comes back with a new store: _load, to which an *)
(* unreadable file is an empty one too.                                    *)
(***************************************************************************)
Restart(p) ==
  /\ Fault
  /\ \E view \in {termFile, Nothing} : terms' = [terms EXCEPT ![p] = view]
  /\ Move(p, Free)
  /\ given' = [given EXCEPT ![p] = Nothing]
  /\ UNCHANGED <<termFile, raced>>

TermNext ==
  \E p \in Processes :
    \/ ReadFile(p) \/ Adopt(p) \/ Replace(p) \/ PersistFails(p) \/ Restart(p)
    \/ \E t \in Terms : Lookup(p, t) \/ Coin(p, t) \/ MergeTerm(p, t)

TermSpec == TermInit /\ [][TermNext]_termVars

-----------------------------------------------------------------------------
(***************************************************************************)
(* Type invariant of the file and the stores.                              *)
(***************************************************************************)
Maps == UNION {[S -> Prefixes] : S \in SUBSET Terms}

TermTypeOK ==
  /\ termFile \in Maps
  /\ \A p \in Processes :
       /\ terms[p] \in Maps /\ given[p] \in Maps
       /\ job[p].at \in {"free", "coined", "merge", "replace"}
       /\ job[p].at # "free" => job[p].term \in KnownTerms(terms[p])
  /\ faults \in 0 .. MaxFaults /\ raced \in BOOLEAN

(***************************************************************************)
(* No two terms of the file, or of a process, share a prefix, and none has *)
(* a canonical one, whatever the processes do to one another's writes      *)
(* (taxonomy.py: a collision merges two categories' token counters).       *)
(***************************************************************************)
PrefixesAreUnique ==
  /\ IsInjective(termFile) /\ Used(termFile) \cap Canonical = {}
  /\ \A p \in Processes : IsInjective(terms[p]) /\ Used(terms[p]) \cap Canonical = {}

(***************************************************************************)
(* A prefix that was answered stays the term's, in the process that gave   *)
(* it and in the file for every other, until a replacement loses another   *)
(* process's write or a write fails (register and _persist_locked).        *)
(***************************************************************************)
AnswersStay ==
  ~raced => \A p \in Processes : \A t \in KnownTerms(given[p]) :
    /\ t \in KnownTerms(terms[p])
    /\ faults = 0 => /\ terms[p][t] = given[p][t]
                     /\ t \in KnownTerms(termFile) /\ termFile[t] = given[p][t]

(***************************************************************************)
(* Types; and of several processes that coin terms in one file none gives  *)
(* two terms one prefix or answers a term in two ways.                     *)
(***************************************************************************)
TermsAreSound == TermTypeOK /\ PrefixesAreUnique /\ AnswersStay

=============================================================================
