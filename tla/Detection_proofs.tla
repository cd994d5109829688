-------------------------- MODULE Detection_proofs --------------------------
(***************************************************************************)
(* Proofs about the users of the detectors, for any numbers of requests,   *)
(* texts, detectors and findings.                                          *)
(*                                                                         *)
(* The interceptor (DetectorLifecycle) fails closed, its retry lock is     *)
(* never left behind, and until a construction fails every request is      *)
(* inspected by a pipeline of the current configuration.  The callers of   *)
(* the library (Callers) drop no finding, audit what they do, replace each *)
(* span in its place, and of what the callback redacts nothing goes out    *)
(* and all comes back.                                                     *)
(***************************************************************************)
EXTENDS DetectorLifecycle, Callers, FiniteSetTheorems, SequenceTheorems, TLAPS

-----------------------------------------------------------------------------
(***************************************************************************)
(* The event loop is kept by exactly the request that compares or reloads, *)
(* and the reload builder works for it.                                    *)
(***************************************************************************)
LoopInv ==
  /\ \A r \in Requests : loop = r <=> pc[r] \in {"compare", "reload"}
  /\ step["reload"] # "idle" <=> loop # NoRequest /\ pc[loop] = "reload"

(***************************************************************************)
(* Once a builder has set _detector there is one for ever; the loop is     *)
(* only kept, and a request only inspected, when there is one.             *)
(***************************************************************************)
DetectorInv ==
  /\ \A b \in Builders : step[b] = "hash" => detector # NoDetector
  /\ loop # NoRequest => ready /\ detector # NoDetector
  /\ ready <=> step["init"] = "idle"

ControlInv == TypeOK /\ LoopInv /\ DetectorInv /\ RetryOwnsLock /\ NothingUninspected

(***************************************************************************)
(* As long as nothing has failed: whenever the loop is free, an up-to-date *)
(* modification time means an up-to-date pipeline, and a reload under way  *)
(* will make it so.                                                        *)
(***************************************************************************)
QuietInv ==
  /\ ~initError
  /\ step["retry"] = "idle"
  /\ ~ready => seen = 0
  /\ step["init"] = "hash" => detector = raw["init"]

LoadedInv ==
  ready /\ loop = NoRequest =>
    /\ detector # NoDetector
    /\ hash = detector
    /\ seen = mtime => detector = config

ReloadInv ==
  loop # NoRequest =>
    /\ config \in during[loop]
    /\ pc[loop] = "compare" => hash = detector
    /\ step["reload"] \in {"build", "hash"} =>
         raw["reload"] \in during[loop] /\ (seen = mtime => raw["reload"] = config)
    /\ step["reload"] = "hash" => detector = raw["reload"]

FreshInv ==
  failed \/ (QuietInv /\ LoadedInv /\ ReloadInv /\ InspectedByCurrentConfig)

-----------------------------------------------------------------------------
(***************************************************************************)
(* The initial state has every part of the invariant.                      *)
(***************************************************************************)
LEMMA ControlInit == Init => ControlInv
  <1> SUFFICES ASSUME Init PROVE ControlInv
    OBVIOUS
  <1> USE LifecycleAssumption DEF Init, Builders
  <1>0. Flags
    BY Zenon DEF Flags
  <1>1. TypeOK
    BY <1>0 DEF TypeOK, Steps, Phases
  <1>2. LoopInv /\ DetectorInv /\ RetryOwnsLock /\ NothingUninspected
    BY DEF LoopInv, DetectorInv, RetryOwnsLock, NothingUninspected
  <1> QED BY <1>1, <1>2 DEF ControlInv

(***************************************************************************)
(* Every step keeps the Boolean variables Boolean.                         *)
(***************************************************************************)
LEMMA FlagsStep == Flags /\ [Next]_vars => Flags'
  <1> SUFFICES ASSUME Flags, [Next]_vars PROVE Flags'
    OBVIOUS
  <1> USE DEF Flags, file, pipeline, health, requests, failures
  <1>1. CASE SaveOpens \/ \E c \in Configs : SaveFills(c)
    BY <1>1, Zenon DEF SaveOpens, SaveFills, Write
  <1>2. CASE Breaks \/ BackoffEnds
    BY <1>2, Zenon DEF Breaks, BackoffEnds
  <1>3. ASSUME NEW b \in Builders, BuildReads(b) \/ BuildSucceeds(b) PROVE Flags'
    BY <1>3, Zenon DEF BuildReads, BuildSucceeds
  <1>4. ASSUME NEW b \in Builders, BuildFails(b) PROVE Flags'
    BY <1>4, Zenon DEF BuildFails, InitEnds, RetryEnds, ReloadRaises
  <1>5. ASSUME NEW b \in Builders, BuildEnds(b) PROVE Flags'
    BY <1>5, Zenon DEF BuildEnds, InitEnds, RetryEnds, StartInspection
  <1>6. ASSUME NEW r \in Requests, Arrive(r) \/ Handle(r) PROVE Flags'
    <2>1. CASE Arrive(r) \/ CheckMtime(r) \/ Compare(r) \/ Answer(r)
      BY <2>1, Zenon DEF Arrive, CheckMtime, Compare, Answer
    <2>2. CASE NotReady(r)
      BY <2>2, Zenon DEF NotReady, MaybeRetry
    <2> QED BY <1>6, <2>1, <2>2, Zenon DEF Handle
  <1>7. CASE UNCHANGED vars
    BY <1>7, Zenon DEF vars
  <1> QED BY <1>1, <1>2, <1>3, <1>4, <1>5, <1>6, <1>7, Zenon DEF Next, Build

(***************************************************************************)
(* Every step keeps the control part: who holds the loop, who builds, and  *)
(* that there is a pipeline where one is used.                             *)
(***************************************************************************)
LEMMA ControlStep == ControlInv /\ [Next]_vars => ControlInv'
  <1> SUFFICES ASSUME ControlInv, [Next]_vars PROVE ControlInv'
    OBVIOUS
  <1> USE LifecycleAssumption
      DEF ControlInv, TypeOK, LoopInv, DetectorInv, RetryOwnsLock, NothingUninspected,
          Builders, Steps, Phases, file, pipeline, health, requests, failures
  <1>0. Flags'
    BY FlagsStep
  <1> USE <1>0
  <1>1. ASSUME NEW c \in Configs, Write(c) PROVE ControlInv'
    BY <1>1 DEF Write
  <1>2. CASE SaveOpens
    BY <1>1, <1>2 DEF SaveOpens
  <1>3. CASE \E c \in Configs : SaveFills(c)
    BY <1>1, <1>3 DEF SaveFills
  <1>4. CASE Breaks \/ BackoffEnds
    BY <1>4 DEF Breaks, BackoffEnds
  <1>5. ASSUME NEW b \in Builders, Build(b) PROVE ControlInv'
    <2>1. CASE BuildReads(b)
      BY <2>1 DEF BuildReads
    <2>2. CASE BuildSucceeds(b)
      BY <2>2 DEF BuildSucceeds
    <2>3. CASE BuildFails(b)
      BY <2>3 DEF BuildFails, InitEnds, RetryEnds, ReloadRaises, Goto
    <2>4. CASE BuildEnds(b)
      BY <2>4 DEF BuildEnds, InitEnds, RetryEnds, StartInspection, Goto
    <2> QED BY <1>5, <2>1, <2>2, <2>3, <2>4 DEF Build
  <1>6. ASSUME NEW r \in Requests, Arrive(r) PROVE ControlInv'
    BY <1>6 DEF Arrive, Goto
  <1>7. ASSUME NEW r \in Requests, Handle(r) PROVE ControlInv'
    <2>1. CASE NotReady(r)
      BY <2>1 DEF NotReady, MaybeRetry, StartBuild, Goto
    <2>2. CASE CheckMtime(r)
      BY <2>2 DEF CheckMtime, StartInspection, Goto
    <2>3. CASE Compare(r)
      BY <2>3 DEF Compare, StartInspection, StartBuild, Goto
    <2>4. CASE Answer(r)
      BY <2>4 DEF Answer, Goto
    <2> QED BY <1>7, <2>1, <2>2, <2>3, <2>4 DEF Handle
  <1>8. CASE UNCHANGED vars
    BY <1>8 DEF vars
  <1> QED BY <1>2, <1>3, <1>4, <1>5, <1>6, <1>7, <1>8 DEF Next

LEMMA ControlAlways == Spec => []ControlInv
  BY ControlInit, ControlStep, PTL DEF Spec

-----------------------------------------------------------------------------
(***************************************************************************)
(* Every step keeps the pipeline current as long as nothing fails.         *)
(***************************************************************************)
LEMMA FreshInit == Init => FreshInv
  BY LifecycleAssumption
  DEF Init, Builders, FreshInv, QuietInv, LoadedInv, ReloadInv, InspectedByCurrentConfig

LEMMA FreshStep == ControlInv /\ FreshInv /\ [Next]_vars => FreshInv'
  <1> SUFFICES ASSUME ControlInv, FreshInv, [Next]_vars, ~failed' PROVE FreshInv'
    BY DEF FreshInv
  <1> USE LifecycleAssumption
      DEF ControlInv, TypeOK, LoopInv, DetectorInv, RetryOwnsLock, Builders, Steps, Phases,
          FreshInv, QuietInv, LoadedInv, ReloadInv, InspectedByCurrentConfig,
          file, pipeline, health, requests, failures
  <1>1. ASSUME NEW c \in Configs, Write(c) PROVE FreshInv'
    BY <1>1 DEF Write
  <1>2. CASE SaveOpens
    BY <1>1, <1>2 DEF SaveOpens
  <1>3. CASE \E c \in Configs : SaveFills(c)
    BY <1>1, <1>3 DEF SaveFills
  <1>4. CASE Breaks \/ BackoffEnds
    BY <1>4 DEF Breaks, BackoffEnds
  <1>5. ASSUME NEW b \in Builders, Build(b) PROVE FreshInv'
    <2>1. CASE BuildReads(b)
      BY <2>1 DEF BuildReads
    <2>2. CASE BuildSucceeds(b)
      BY <2>2 DEF BuildSucceeds
    <2>3. CASE BuildFails(b)
      BY <2>3 DEF BuildFails
    <2>4. CASE BuildEnds(b)
      BY <2>4 DEF BuildEnds, InitEnds, StartInspection, Goto
    <2> QED BY <1>5, <2>1, <2>2, <2>3, <2>4 DEF Build
  <1>6. ASSUME NEW r \in Requests, Arrive(r) PROVE FreshInv'
    BY <1>6 DEF Arrive, Goto
  <1>7. ASSUME NEW r \in Requests, Handle(r) PROVE FreshInv'
    <2>1. CASE NotReady(r)
      BY <2>1 DEF NotReady, Goto
    <2>2. CASE CheckMtime(r)
      BY <2>2 DEF CheckMtime, StartInspection, Goto
    <2>3. CASE Compare(r)
      BY <2>3 DEF Compare, StartInspection, StartBuild, Goto
    <2>4. CASE Answer(r)
      BY <2>4 DEF Answer, Goto
    <2> QED BY <1>7, <2>1, <2>2, <2>3, <2>4 DEF Handle
  <1>8. CASE UNCHANGED vars
    BY <1>8 DEF vars
  <1> QED BY <1>2, <1>3, <1>4, <1>5, <1>6, <1>7, <1>8 DEF Next

-----------------------------------------------------------------------------
(***************************************************************************)
(* Every variable keeps its type; the time seen is never ahead of the file.*)
(***************************************************************************)
THEOREM LifecycleTypesHold == Spec => []TypeOK
  BY ControlAlways, PTL DEF ControlInv

(***************************************************************************)
(* Fail closed: no request passes that no pipeline has looked at, whatever *)
(* the three builders are doing or have failed to do.                      *)
(***************************************************************************)
THEOREM FailsClosed == Spec => []NothingUninspected
  BY ControlAlways, PTL DEF ControlInv

(***************************************************************************)
(* The retry lock is held exactly while the retry thread runs.             *)
(***************************************************************************)
THEOREM RetryLockIsReleased == Spec => []RetryOwnsLock
  BY ControlAlways, PTL DEF ControlInv

(***************************************************************************)
(* Until a construction fails, every request is inspected by a pipeline    *)
(* built from what the file held since the request checked it.             *)
(***************************************************************************)
THEOREM CurrentUntilFailure == Spec => []CurrentUnlessFailed
  <1>1. FreshInv => CurrentUnlessFailed
    BY DEF FreshInv, CurrentUnlessFailed
  <1> QED BY <1>1, ControlAlways, FreshInit, FreshStep, PTL DEF Spec

(***************************************************************************)
(* Types and the ownership of the retry lock, as the runs check them.      *)
(***************************************************************************)
THEOREM LifecycleHolds == Spec => []LifecycleIsSound
  <1>1. TypeOK /\ RetryOwnsLock => LifecycleIsSound
    BY DEF LifecycleIsSound
  <1> QED BY <1>1, LifecycleTypesHold, RetryLockIsReleased, PTL

-----------------------------------------------------------------------------
(***************************************************************************)
(* Facts about numbers.                                                    *)
(***************************************************************************)
LEMMA LeastOne ==
  ASSUME NEW S \in SUBSET Nat, S # {}
  PROVE  \E m \in S : \A k \in S : m <= k
<1>1. PICK m \in S : \A k \in S : ~ (<<k, m>> \in OpToRel(<, Nat))
  BY NatLessThanWellFounded, WFMin
<1>2. \A k \in S : ~ (k < m)
  BY <1>1, Zenon DEF OpToRel
<1> QED
  BY <1>2

(***************************************************************************)
(* What holds of 0 and of every number up to n whose predecessor it holds  *)
(* of, holds up to n.                                                      *)
(***************************************************************************)
LEMMA UpToInduction ==
  ASSUME NEW n \in Nat, NEW P \in SUBSET (0 .. n), 0 \in P,
         \A k \in 1 .. n : k - 1 \in P => k \in P
  PROVE  \A k \in 0 .. n : k \in P
<1> SUFFICES ASSUME NEW k \in 0 .. n, k \notin P PROVE FALSE
  OBVIOUS
<1> DEFINE rest == (0 .. n) \ P
<1>1. rest \in SUBSET Nat /\ rest # {}
  OBVIOUS
<1> HIDE DEF rest
<1>2. PICK m \in rest : \A j \in rest : m <= j
  BY <1>1, LeastOne
<1>3. m \in 0 .. n /\ m \notin P
  BY <1>2 DEF rest
<1>4. m # 0
  BY <1>3
<1>5. m \in 1 .. n /\ m - 1 \in 0 .. n /\ ~(m <= m - 1)
  BY <1>3, <1>4
<1>6. m - 1 \in P
  BY <1>2, <1>5 DEF rest
<1> QED BY <1>3, <1>5, <1>6

-----------------------------------------------------------------------------
(***************************************************************************)
(* The library's redaction (LibraryRedaction).                             *)
(***************************************************************************)

(***************************************************************************)
(* The values an engine minted tokens for, each once in its category; one  *)
(* engine has grown out of another.                                        *)
(***************************************************************************)
Engines == [PatternCategories -> Seq(WordValues)]
MintsOnce(e) ==
  \A c \in PatternCategories : \A i, j \in 1 .. Len(e[c]) : e[c][i] = e[c][j] => i = j
GrownFrom(g, e) ==
  \A c \in PatternCategories :
    Len(e[c]) <= Len(g[c]) /\ \A j \in 1 .. Len(e[c]) : g[c][j] = e[c][j]

(***************************************************************************)
(* A word t that stands for the word w: a token of its category whose      *)
(* number is that of the value, or the word itself.                        *)
(***************************************************************************)
TokenFor(t, w, e) ==
  /\ t = [c |-> w.c, v |-> "token", n |-> t.n]
  /\ t.n \in 1 .. Len(e[w.c]) /\ e[w.c][t.n] = w.v
StandsFor(t, w, e) == IF Exposed(w) THEN TokenFor(t, w, e) ELSE t = w

LEMMA GrownKeeps ==
  ASSUME NEW e \in Engines, NEW g \in Engines, GrownFrom(g, e), NEW t, NEW w \in Words,
         StandsFor(t, w, e)
  PROVE  StandsFor(t, w, g)
<1>1. CASE Exposed(w)
  <2>1. w.c \in PatternCategories /\ TokenFor(t, w, e)
    BY <1>1 DEF Exposed, StandsFor
  <2>2. Len(e[w.c]) \in Nat /\ Len(g[w.c]) \in Nat
    BY <2>1 DEF Engines
  <2>3. Len(e[w.c]) <= Len(g[w.c]) /\ g[w.c][t.n] = e[w.c][t.n]
    BY <2>1 DEF GrownFrom, TokenFor
  <2>4. TokenFor(t, w, g)
    BY <2>1, <2>2, <2>3 DEF TokenFor
  <2> QED BY <1>1, <2>4 DEF StandsFor
<1>2. CASE ~Exposed(w)
  BY <1>2 DEF StandsFor
<1> QED BY <1>1, <1>2

LEMMA GrownIsTransitive ==
  ASSUME NEW e \in Engines, NEW g \in Engines, NEW h \in Engines, GrownFrom(g, e), GrownFrom(h, g)
  PROVE  GrownFrom(h, e)
<1> SUFFICES ASSUME NEW c \in PatternCategories
             PROVE  /\ Len(e[c]) <= Len(h[c])
                    /\ \A j \in 1 .. Len(e[c]) : h[c][j] = e[c][j]
  BY DEF GrownFrom
<1>1. Len(e[c]) \in Nat /\ Len(g[c]) \in Nat /\ Len(h[c]) \in Nat
  BY DEF Engines
<1>2. /\ Len(e[c]) <= Len(g[c]) /\ \A j \in 1 .. Len(e[c]) : g[c][j] = e[c][j]
      /\ Len(g[c]) <= Len(h[c]) /\ \A j \in 1 .. Len(g[c]) : h[c][j] = g[c][j]
  BY DEF GrownFrom
<1> QED BY <1>1, <1>2

(***************************************************************************)
(* Minting keeps the numbers there are, and gives the value one.           *)
(***************************************************************************)
LEMMA MintedFacts ==
  ASSUME NEW e \in Engines, MintsOnce(e), NEW w \in Words, Exposed(w)
  PROVE  /\ Minted(e, w) \in Engines /\ MintsOnce(Minted(e, w)) /\ GrownFrom(Minted(e, w), e)
         /\ Number(Minted(e, w), w) \in 1 .. Len(Minted(e, w)[w.c])
         /\ Minted(e, w)[w.c][Number(Minted(e, w), w)] = w.v
<1> DEFINE g == Minted(e, w)
<1>1. w.c \in PatternCategories /\ w.v \in WordValues
  BY DEF Exposed, Words
<1>2. e[w.c] \in Seq(WordValues) /\ DOMAIN e[w.c] = 1 .. Len(e[w.c]) /\ Len(e[w.c]) \in Nat
  BY <1>1 DEF Engines
<1>3. CASE \E i \in DOMAIN e[w.c] : e[w.c][i] = w.v
  <2>1. g = e
    BY <1>3 DEF Minted
  <2>2. GrownFrom(g, e)
    BY <2>1 DEF GrownFrom, Engines
  <2>3. \E i \in DOMAIN g[w.c] : g[w.c][i] = w.v
    BY <1>3, <2>1
  <2>4. Number(g, w) \in DOMAIN g[w.c] /\ g[w.c][Number(g, w)] = w.v
    BY <2>3 DEF Number
  <2> QED BY <1>2, <2>1, <2>2, <2>4
<1>4. CASE ~\E i \in DOMAIN e[w.c] : e[w.c][i] = w.v
  <2> DEFINE longer == Append(e[w.c], w.v)
  <2>1. g = [e EXCEPT ![w.c] = longer]
    BY <1>4 DEF Minted
  <2>2. /\ longer \in Seq(WordValues) /\ Len(longer) = Len(e[w.c]) + 1
        /\ longer[Len(longer)] = w.v /\ \A j \in 1 .. Len(e[w.c]) : longer[j] = e[w.c][j]
    BY <1>1, <1>2
  <2> HIDE DEF longer
  <2>3. /\ g \in Engines /\ g[w.c] = longer
        /\ \A c \in PatternCategories : c # w.c => g[c] = e[c]
    BY <1>1, <2>1, <2>2 DEF Engines
  <2> HIDE DEF g
  <2>4. MintsOnce(g)
    <3> SUFFICES ASSUME NEW c \in PatternCategories, NEW i \in 1 .. Len(g[c]),
                        NEW j \in 1 .. Len(g[c]), g[c][i] = g[c][j]
                 PROVE  i = j
      BY DEF MintsOnce
    <3>1. CASE c # w.c
      BY <2>3, <3>1 DEF MintsOnce
    <3>2. CASE c = w.c
      <4>1. \A k, l \in 1 .. Len(e[w.c]) : e[w.c][k] = e[w.c][l] => k = l
        BY <1>1 DEF MintsOnce
      <4>2. \A k \in 1 .. Len(e[w.c]) : e[w.c][k] # w.v
        BY <1>2, <1>4
      <4>3. i \in 1 .. Len(e[w.c]) + 1 /\ j \in 1 .. Len(e[w.c]) + 1 /\ longer[i] = longer[j]
        BY <2>2, <2>3, <3>2
      <4> QED BY <1>2, <2>2, <4>1, <4>2, <4>3
    <3> QED BY <3>1, <3>2
  <2>5. GrownFrom(g, e)
    <3> SUFFICES ASSUME NEW c \in PatternCategories
                 PROVE  /\ Len(e[c]) <= Len(g[c])
                        /\ \A j \in 1 .. Len(e[c]) : g[c][j] = e[c][j]
      BY DEF GrownFrom
    <3>1. Len(e[c]) \in Nat
      BY DEF Engines
    <3>2. CASE c = w.c
      BY <1>2, <2>2, <2>3, <3>2
    <3>3. CASE c # w.c
      BY <2>3, <3>1, <3>3
    <3> QED BY <3>2, <3>3
  <2>6. g[w.c][Len(longer)] = w.v /\ Len(longer) \in DOMAIN g[w.c] /\ DOMAIN g[w.c] = 1 .. Len(g[w.c])
    BY <1>2, <2>2, <2>3
  <2>7. Number(g, w) \in DOMAIN g[w.c] /\ g[w.c][Number(g, w)] = w.v
    BY <2>6 DEF Number
  <2> QED BY <2>3, <2>4, <2>5, <2>6, <2>7 DEF g
<1> QED BY <1>3, <1>4

(***************************************************************************)
(* What redaction has done when it has worked through the last k words.    *)
(***************************************************************************)
RedactionStates == [words : Seq(Words), engine : Engines]

RedactedFrom(s, words, e, k) ==
  /\ Len(s.words) = Len(words) /\ MintsOnce(s.engine) /\ GrownFrom(s.engine, e)
  /\ \A i \in 1 .. Len(words) :
       IF i <= Len(words) - k THEN s.words[i] = words[i]
                              ELSE StandsFor(s.words[i], words[i], s.engine)

LEMMA RedactWordFacts ==
  ASSUME NEW words \in Seq(Words), NEW e \in Engines, NEW k \in 1 .. Len(words),
         NEW s \in RedactionStates, RedactedFrom(s, words, e, k - 1)
  PROVE  LET i == Len(words) + 1 - k
             t == RedactWord(s, words[i], i)
         IN  t \in RedactionStates /\ RedactedFrom(t, words, e, k)
<1> DEFINE i == Len(words) + 1 - k
           w == words[i]
           t == RedactWord(s, w, i)
<1>1. Len(words) \in Nat /\ i \in 1 .. Len(words) /\ w \in Words
  OBVIOUS
<1>2. /\ s.words \in Seq(Words) /\ s.engine \in Engines /\ Len(s.words) = Len(words)
      /\ MintsOnce(s.engine) /\ GrownFrom(s.engine, e)
      /\ \A j \in 1 .. Len(words) : j < i + 1 => s.words[j] = words[j]
      /\ \A j \in 1 .. Len(words) : j >= i + 1 => StandsFor(s.words[j], words[j], s.engine)
  <2>1. \A j \in 1 .. Len(words) : (j <= Len(words) - (k - 1)) <=> j < i + 1
    BY <1>1
  <2>2. i \in Int /\ \A j \in 1 .. Len(words) : ~(j < i + 1) <=> j >= i + 1
    BY <1>1
  <2> HIDE DEF i
  <2> QED BY <2>1, <2>2 DEF RedactionStates, RedactedFrom
<1>3. \A j \in 1 .. Len(words) :
        /\ (j <= Len(words) - k) <=> j < i
        /\ j = i \/ j < i \/ j >= i + 1
  BY <1>1
<1>4. CASE ~Exposed(w)
  <2>1. t = s
    BY <1>4 DEF RedactWord
  <2>2. StandsFor(s.words[i], words[i], s.engine)
    <3>1. i \in 1 .. Len(words) /\ i < i + 1
      BY <1>1
    <3> HIDE DEF i
    <3> QED BY <1>2, <1>4, <3>1 DEF StandsFor
  <2> HIDE DEF t, w, i
  <2>3. \A j \in 1 .. Len(words) :
          /\ j < i => s.words[j] = words[j]
          /\ ~(j < i) => StandsFor(s.words[j], words[j], s.engine)
    BY <1>1, <1>2, <1>3, <2>2
  <2>4. RedactedFrom(s, words, e, k)
    BY <1>2, <1>3, <2>3 DEF RedactedFrom
  <2> QED BY <2>1, <2>4 DEF t, w, i
<1>5. CASE Exposed(w)
  <2> DEFINE g == Minted(s.engine, w)
             x == [c |-> w.c, v |-> "token", n |-> Number(g, w)]
             r == [s.words EXCEPT ![i] = x]
  <2>1. t = [words |-> r, engine |-> g]
    BY <1>5 DEF RedactWord
  <2>2. /\ g \in Engines /\ MintsOnce(g) /\ GrownFrom(g, s.engine)
        /\ Number(g, w) \in 1 .. Len(g[w.c]) /\ g[w.c][Number(g, w)] = w.v
    BY <1>1, <1>2, <1>5, MintedFacts
  <2> HIDE DEF g
  <2>3. x \in Words /\ StandsFor(x, w, g)
    <3>1. w.c \in PatternCategories
      BY <1>5 DEF Exposed
    <3>2. Number(g, w) \in Nat /\ "token" \in WordValues
      BY <2>2, <3>1 DEF Engines, WordValues
    <3>3. x \in Words
      BY <3>1, <3>2 DEF Words
    <3>4. TokenFor(x, w, g)
      BY <2>2 DEF TokenFor
    <3> QED BY <1>5, <3>3, <3>4 DEF StandsFor
  <2> HIDE DEF x
  <2>4. /\ r \in Seq(Words) /\ Len(r) = Len(words) /\ r[i] = x
        /\ \A j \in 1 .. Len(words) : j # i => r[j] = s.words[j]
    BY <1>1, <1>2, <2>3
  <2>5. GrownFrom(g, e)
    BY <1>2, <2>2, GrownIsTransitive
  <2>6. \A j \in 1 .. Len(words) : j >= i + 1 => StandsFor(s.words[j], words[j], g)
    BY <1>2, <2>2, GrownKeeps
  <2> HIDE DEF r
  <2>7. \A j \in 1 .. Len(words) :
          /\ j < i => r[j] = words[j]
          /\ ~(j < i) => StandsFor(r[j], words[j], g)
    <3> SUFFICES ASSUME NEW j \in 1 .. Len(words)
                 PROVE  /\ j < i => r[j] = words[j]
                        /\ ~(j < i) => StandsFor(r[j], words[j], g)
      OBVIOUS
    <3>1. CASE j = i
      BY <1>1, <2>3, <2>4, <3>1
    <3>2. CASE j # i
      <4>1. r[j] = s.words[j] /\ (j < i => s.words[j] = words[j])
        BY <1>1, <1>2, <2>4, <3>2
      <4>2. ~(j < i) => j >= i + 1
        BY <1>3, <3>2
      <4> HIDE DEF w, i
      <4> QED BY <2>6, <4>1, <4>2
    <3> QED BY <3>1, <3>2
  <2> HIDE DEF t, w, i
  <2>8. t \in RedactionStates
    BY <2>1, <2>2, <2>4 DEF RedactionStates
  <2>9. RedactedFrom(t, words, e, k)
    BY <1>3, <2>1, <2>2, <2>4, <2>5, <2>7 DEF RedactedFrom
  <2> QED BY <2>8, <2>9 DEF t, w, i
<1> QED BY <1>4, <1>5

(***************************************************************************)
(* The function that Redaction is defined by exists.                       *)
(***************************************************************************)
LEMMA RedactionUnfolds ==
  ASSUME NEW words \in Seq(Words), NEW e
  PROVE  \E f : /\ Redaction(words, e) = f[Len(words)]
                /\ f[0] = [words |-> words, engine |-> e]
                /\ \A k \in 1 .. Len(words) :
                     f[k] = RedactWord(f[k - 1], words[Len(words) + 1 - k], Len(words) + 1 - k)
<1> DEFINE n == Len(words)
           start == [words |-> words, engine |-> e]
           next(s, k) == RedactWord(s, words[n + 1 - k], n + 1 - k)
           Run(f, m) == f = [k \in 0 .. m |-> IF k = 0 THEN start ELSE next(f[k - 1], k)]
           after == CHOOSE f : Run(f, n)
           P == {m \in 0 .. n : \E f : Run(f, m)}
<1>1. Redaction(words, e) = after[n]
  BY DEF Redaction
<1>2. n \in Nat
  OBVIOUS
<1> HIDE DEF start, next, n
<1>3. 0 \in P
  <2>1. Run([k \in 0 .. 0 |-> start], 0)
    OBVIOUS
  <2> HIDE DEF Run
  <2> QED BY <1>2, <2>1
<1>4. ASSUME NEW m \in 1 .. n, m - 1 \in P PROVE m \in P
  <2>1. PICK f : Run(f, m - 1)
    BY <1>4
  <2> DEFINE g == [k \in 0 .. m |-> IF k = m THEN next(f[m - 1], m) ELSE f[k]]
  <2>2. m \in Nat /\ m > 0
    BY <1>2
  <2>3. \A k \in 0 .. m - 1 : f[k] = IF k = 0 THEN start ELSE next(f[k - 1], k)
    BY <2>1
  <2>4. \A k \in 0 .. m - 1 : g[k] = f[k]
    BY <2>2
  <2>5. \A k \in 0 .. m : g[k] = IF k = 0 THEN start ELSE next(g[k - 1], k)
    <3> SUFFICES ASSUME NEW k \in 0 .. m PROVE g[k] = IF k = 0 THEN start ELSE next(g[k - 1], k)
      OBVIOUS
    <3>1. CASE k = m
      <4>1. g[k] = next(f[m - 1], m) /\ m - 1 \in 0 .. m - 1
        BY <2>2, <3>1
      <4> HIDE DEF g
      <4> QED BY <2>2, <2>4, <3>1, <4>1
    <3>2. CASE k # m
      <4>1. k \in 0 .. m - 1 /\ (k # 0 => k - 1 \in 0 .. m - 1)
        BY <2>2, <3>2
      <4> HIDE DEF g
      <4> QED BY <2>3, <2>4, <4>1
    <3> QED BY <3>1, <3>2
  <2>6. g = [k \in 0 .. m |-> g[k]]
    OBVIOUS
  <2> HIDE DEF g
  <2>7. Run(g, m)
    BY <2>5, <2>6
  <2> HIDE DEF Run
  <2>8. m \in 0 .. n
    BY <1>2
  <2> QED BY <2>7, <2>8
<1>5. n \in P
  <2>1. P \in SUBSET (0 .. n) /\ n \in 0 .. n
    BY <1>2
  <2> HIDE DEF P
  <2> QED BY <1>2, <1>3, <1>4, <2>1, UpToInduction
<1>6. Run(after, n)
  <2> HIDE DEF Run
  <2> QED BY <1>5
<1>7. after[0] = start /\ \A k \in 1 .. n : after[k] = next(after[k - 1], k)
  <2> HIDE DEF after
  <2> QED BY <1>2, <1>6
<1> HIDE DEF after
<1> QED BY <1>1, <1>7 DEF start, next, n

(***************************************************************************)
(* Redaction leaves a token in the place of every exposed value and every  *)
(* other word as it was.                                                   *)
(***************************************************************************)
LEMMA RedactionFacts ==
  ASSUME NEW words \in Seq(Words), NEW e \in Engines, MintsOnce(e)
  PROVE  /\ Redaction(words, e) \in RedactionStates
         /\ RedactedFrom(Redaction(words, e), words, e, Len(words))
<1>1. PICK f : /\ Redaction(words, e) = f[Len(words)]
               /\ f[0] = [words |-> words, engine |-> e]
               /\ \A k \in 1 .. Len(words) :
                    f[k] = RedactWord(f[k - 1], words[Len(words) + 1 - k], Len(words) + 1 - k)
  BY RedactionUnfolds
<1>2. PICK n \in Nat : n = Len(words)
  OBVIOUS
<1> DEFINE P == {k \in 0 .. n : f[k] \in RedactionStates /\ RedactedFrom(f[k], words, e, k)}
<1>3. 0 \in P
  <2>1. GrownFrom(e, e)
    BY DEF GrownFrom, Engines
  <2>2. \A i \in 1 .. Len(words) : i <= Len(words) - 0
    BY <1>2
  <2> QED BY <1>1, <1>2, <2>1, <2>2 DEF RedactionStates, RedactedFrom
<1>4. ASSUME NEW k \in 1 .. n, k - 1 \in P PROVE k \in P
  <2>1. f[k] = RedactWord(f[k - 1], words[Len(words) + 1 - k], Len(words) + 1 - k)
    BY <1>1, <1>2
  <2>2. f[k - 1] \in RedactionStates /\ RedactedFrom(f[k - 1], words, e, k - 1)
    BY <1>4
  <2>3. k \in 1 .. Len(words) /\ k \in 0 .. n
    BY <1>2
  <2>4. f[k] \in RedactionStates /\ RedactedFrom(f[k], words, e, k)
    BY <2>1, <2>2, <2>3, RedactWordFacts
  <2> QED BY <2>3, <2>4
<1>5. n \in P
  <2>1. P \in SUBSET (0 .. n) /\ n \in 0 .. n
    BY <1>2
  <2> HIDE DEF P
  <2> QED BY <1>2, <1>3, <1>4, <2>1, UpToInduction
<1> QED BY <1>1, <1>2, <1>5

(***************************************************************************)
(* A message is as it was written, or one engine put tokens in the places  *)
(* of all its values; those of the call under way came from the engine of  *)
(* the call.                                                               *)
(***************************************************************************)
Messages == [scanned : BOOLEAN, words : Seq(Words), original : Seq(Words), by : Nat \X Nat]

Redacting(m, e) ==
  \A i \in 1 .. Len(m.original) : StandsFor(m.words[i], m.original[i], e)

MessageKept(m, k) ==
  /\ Len(m.words) = Len(m.original)
  /\ m.by = Nowhere => m.words = m.original
  /\ m.by # Nowhere =>
       /\ m.scanned /\ CategoriesIn(m.words) = {}
       /\ m.by[1] \in 1 .. callsMade /\ m.by[2] \in {0, k}
       /\ mode = "block" => ~Blocks(m.original)
       /\ \E e \in Engines : Redacting(m, e)
  /\ m.by = <<callsMade, 0>> /\ callsMade > 0 => Redacting(m, redactor)

LibraryTypes ==
  /\ mode \in {"block", "redact"} /\ outcome \in {"none", "sent", "raised"}
  /\ messages \in Seq(Messages) /\ redactor \in Engines /\ MintsOnce(redactor)
  /\ cursor \in 0 .. Len(messages) + 1 /\ callsMade \in 0 .. MaxCompletions
  /\ cursor > 0 => callsMade > 0

PassedIsClean ==
  cursor > 0 => \A k \in 1 .. Len(messages) :
                  k < cursor /\ messages[k].scanned => CategoriesIn(messages[k].words) = {}

LibraryInv ==
  /\ LibraryTypes /\ PassedIsClean /\ (\A k \in 1 .. Len(messages) : MessageKept(messages[k], k))
  /\ NothingGoesOut /\ TokensTellValues /\ RestoreUndoes

(***************************************************************************)
(* Tokens of one engine tell values apart, and only values.                *)
(***************************************************************************)
LEMMA TokensTell ==
  ASSUME NEW e \in Engines, MintsOnce(e), NEW w \in Words, NEW x \in Words, NEW t, NEW u,
         StandsFor(t, w, e), StandsFor(u, x, e), t # w, u # x
  PROVE  t = u <=> w = x
<1>1. Exposed(w) /\ Exposed(x) /\ TokenFor(t, w, e) /\ TokenFor(u, x, e)
  BY DEF StandsFor
<1>2. w.c \in PatternCategories /\ x.c \in PatternCategories /\ w.n = 0 /\ x.n = 0
  BY <1>1 DEF Exposed
<1>3. w = [c |-> w.c, v |-> w.v, n |-> w.n] /\ x = [c |-> x.c, v |-> x.v, n |-> x.n]
  BY DEF Words
<1>4. /\ t = [c |-> w.c, v |-> "token", n |-> t.n] /\ t.n \in 1 .. Len(e[w.c]) /\ e[w.c][t.n] = w.v
      /\ u = [c |-> x.c, v |-> "token", n |-> u.n] /\ u.n \in 1 .. Len(e[x.c]) /\ e[x.c][u.n] = x.v
  BY <1>1 DEF TokenFor
<1>5. ASSUME t = u PROVE w = x
  <2>1. t.c = w.c /\ u.c = x.c
    BY <1>4
  <2>2. w.c = x.c /\ w.v = x.v
    BY <1>4, <1>5, <2>1
  <2> QED BY <1>2, <1>3, <2>2
<1>6. ASSUME w = x PROVE t = u
  <2>1. t.n = u.n
    BY <1>2, <1>4, <1>6 DEF MintsOnce
  <2> QED BY <1>4, <1>6, <2>1
<1> QED BY <1>5, <1>6

(***************************************************************************)
(* A word that stands for another is not exposed, is that word or a token  *)
(* of its category.                                                        *)
(***************************************************************************)
LEMMA StandsForFacts ==
  ASSUME NEW e \in Engines, NEW w \in Words, NEW t, StandsFor(t, w, e)
  PROVE  /\ ~Exposed(t)
         /\ t = w \/ (Exposed(w) /\ t.c = w.c /\ t.v = "token" /\ t.n \in Nat /\ t.n > 0)
<1>1. CASE Exposed(w)
  <2>1. w.c \in PatternCategories /\ TokenFor(t, w, e)
    BY <1>1 DEF StandsFor, Exposed
  <2>2. Len(e[w.c]) \in Nat
    BY <2>1 DEF Engines
  <2>3. t = [c |-> w.c, v |-> "token", n |-> t.n] /\ t.n \in 1 .. Len(e[w.c])
    BY <2>1 DEF TokenFor
  <2>4. t.n \in Nat /\ t.n > 0
    BY <2>2, <2>3
  <2>5. t.c = w.c /\ t.v = "token"
    BY <2>3
  <2> QED BY <1>1, <2>4, <2>5 DEF Exposed
<1>2. CASE ~Exposed(w)
  BY <1>2 DEF StandsFor
<1> QED BY <1>1, <1>2

LEMMA NothingExposed ==
  ASSUME NEW words \in Seq(Words), \A i \in 1 .. Len(words) : ~Exposed(words[i])
  PROVE  CategoriesIn(words) = {}
<1>1. DOMAIN words = 1 .. Len(words)
  OBVIOUS
<1> QED BY <1>1 DEF CategoriesIn

LEMMA SomethingExposed ==
  ASSUME NEW words \in Seq(Words), Blocks(words)
  PROVE  CategoriesIn(words) # {}
BY DEF Blocks

(***************************************************************************)
(* The redaction of a message.                                             *)
(***************************************************************************)
LEMMA RedactedMessage ==
  ASSUME NEW words \in Seq(Words), NEW e \in Engines, MintsOnce(e)
  PROVE  LET r == Redaction(words, e)
         IN  /\ r.words \in Seq(Words) /\ r.engine \in Engines /\ MintsOnce(r.engine)
             /\ GrownFrom(r.engine, e) /\ Len(r.words) = Len(words)
             /\ \A i \in 1 .. Len(words) : StandsFor(r.words[i], words[i], r.engine)
             /\ CategoriesIn(r.words) = {}
<1> DEFINE r == Redaction(words, e)
<1>1. r \in RedactionStates /\ RedactedFrom(r, words, e, Len(words))
  BY RedactionFacts
<1> HIDE DEF r
<1>2. PICK n \in Nat : n = Len(words)
  OBVIOUS
<1>3. \A i \in 1 .. n : ~(i <= n - n)
  OBVIOUS
<1>4. /\ r.words \in Seq(Words) /\ r.engine \in Engines /\ MintsOnce(r.engine)
      /\ GrownFrom(r.engine, e) /\ Len(r.words) = Len(words)
      /\ \A i \in 1 .. Len(words) : StandsFor(r.words[i], words[i], r.engine)
  BY <1>1, <1>2, <1>3 DEF RedactionStates, RedactedFrom
<1>5. \A i \in 1 .. Len(r.words) : ~Exposed(r.words[i])
  <2> SUFFICES ASSUME NEW i \in 1 .. Len(r.words) PROVE ~Exposed(r.words[i])
    OBVIOUS
  <2>1. words[i] \in Words /\ StandsFor(r.words[i], words[i], r.engine)
    BY <1>4
  <2> QED BY <1>4, <2>1, StandsForFacts
<1>6. CategoriesIn(r.words) = {}
  BY <1>4, <1>5, NothingExposed
<1> QED BY <1>4, <1>6 DEF r

LEMMA RedactingGrows ==
  ASSUME NEW m \in Messages, NEW e \in Engines, NEW g \in Engines, GrownFrom(g, e), Redacting(m, e)
  PROVE  Redacting(m, g)
<1> SUFFICES ASSUME NEW i \in 1 .. Len(m.original) PROVE StandsFor(m.words[i], m.original[i], g)
  BY DEF Redacting
<1>1. m.original[i] \in Words
  BY DEF Messages
<1> QED BY <1>1, GrownKeeps DEF Redacting

(***************************************************************************)
(* A message that is not touched is kept while the engine of the call      *)
(* grows, or when the next call begins.                                    *)
(***************************************************************************)
LEMMA MessageRests ==
  ASSUME LibraryTypes, NEW k \in 1 .. Len(messages), MessageKept(messages[k], k),
         messages'[k] = messages[k], mode' = mode, redactor' \in Engines,
         \/ callsMade' = callsMade /\ GrownFrom(redactor', redactor)
         \/ callsMade' = callsMade + 1
  PROVE  MessageKept(messages[k], k)'
<1> DEFINE m == messages[k]
<1>1. m \in Messages /\ redactor \in Engines /\ callsMade \in Nat
  BY DEF LibraryTypes
<1>2. CASE callsMade' = callsMade /\ GrownFrom(redactor', redactor)
  <2>1. Redacting(m, redactor) => Redacting(m, redactor')
    BY <1>1, <1>2, RedactingGrows
  <2>2. MessageKept(m, k)
    OBVIOUS
  <2>3. messages'[k] = m
    OBVIOUS
  <2> HIDE DEF m
  <2> QED BY <1>2, <2>1, <2>2, <2>3 DEF MessageKept, Redacting
<1>3. CASE callsMade' = callsMade + 1
  <2>1. MessageKept(m, k) /\ messages'[k] = m
    OBVIOUS
  <2>2. m.by # <<callsMade', 0>>
    <3>1. m.by = Nowhere \/ m.by[1] \in 1 .. callsMade
      BY DEF MessageKept
    <3>2. m.by \in Nat \X Nat /\ callsMade' \in Nat /\ callsMade' > callsMade
      BY <1>1, <1>3 DEF Messages
    <3>3. m.by[1] <= callsMade
      BY <1>1, <3>1 DEF Nowhere
    <3> QED BY <1>1, <3>2, <3>3
  <2>3. 1 .. callsMade \subseteq 1 .. callsMade'
    BY <1>1, <1>3
  <2> HIDE DEF m
  <2> QED BY <2>1, <2>2, <2>3 DEF MessageKept, Redacting
<1> QED BY <1>2, <1>3

(***************************************************************************)
(* The steps that touch no message.                                        *)
(***************************************************************************)
LEMMA MessagesRest ==
  ASSUME LibraryInv, messages' = messages, mode' = mode, redactor' \in Engines,
         \/ callsMade' = callsMade /\ redactor' = redactor
         \/ callsMade' = callsMade + 1
  PROVE  (\A k \in 1 .. Len(messages) : MessageKept(messages[k], k))' /\ TokensTellValues'
<1>1. LibraryTypes /\ GrownFrom(redactor, redactor)
  BY DEF LibraryInv, LibraryTypes, GrownFrom, Engines
<1>2. ASSUME NEW k \in 1 .. Len(messages) PROVE MessageKept(messages[k], k)'
  BY <1>1, MessageRests DEF LibraryInv
<1>3. TokensTellValues'
  BY DEF LibraryInv, TokensTellValues, WasRedacted
<1> QED BY <1>2, <1>3

LEMMA CallKeeps == ASSUME LibraryInv, CallLLM PROVE LibraryInv'
<1>1. LibraryTypes
  BY DEF LibraryInv
<1>2. /\ cursor' = 1 /\ redactor' = Fresh /\ callsMade' = callsMade + 1 /\ outcome' = "none"
      /\ messages' = messages /\ mode' = mode /\ sdkResult' = sdkResult
      /\ callsMade < MaxCompletions /\ outgoing' = <<>>
  BY DEF CallLLM
<1>3. redactor' \in Engines /\ MintsOnce(redactor')
  <2>1. Fresh \in Engines /\ \A c \in PatternCategories : Len(Fresh[c]) = 0
    BY DEF Fresh, Engines
  <2> QED BY <1>2, <2>1 DEF MintsOnce
<1>4. LibraryTypes'
  <2>1. callsMade' \in 0 .. MaxCompletions /\ callsMade' > 0
    BY <1>1, <1>2, LibraryAssumption DEF LibraryTypes
  <2>2. cursor' \in 0 .. Len(messages) + 1
    BY <1>1, <1>2 DEF LibraryTypes
  <2> QED BY <1>1, <1>2, <1>3, <2>1, <2>2 DEF LibraryTypes
<1>5. PassedIsClean'
  BY <1>2 DEF PassedIsClean
<1>6. (\A k \in 1 .. Len(messages) : MessageKept(messages[k], k))' /\ TokensTellValues'
  BY <1>2, <1>3, MessagesRest
<1>7. NothingGoesOut' /\ RestoreUndoes'
  BY <1>2 DEF LibraryInv, NothingGoesOut, RestoreUndoes
<1> QED BY <1>4, <1>5, <1>6, <1>7 DEF LibraryInv

LEMMA SkipKeeps == ASSUME LibraryInv, Skip PROVE LibraryInv'
<1>1. LibraryTypes
  BY DEF LibraryInv
<1>2. /\ cursor' = cursor + 1 /\ redactor' = redactor /\ callsMade' = callsMade
      /\ outcome' = outcome /\ outgoing' = outgoing
      /\ messages' = messages /\ mode' = mode /\ sdkResult' = sdkResult
      /\ cursor \in 1 .. Len(messages)
      /\ messages[cursor].scanned => CategoriesIn(messages[cursor].words) = {}
  BY <1>1 DEF Skip, Passes, Pending, Current, LibraryTypes
<1>3. redactor' \in Engines
  BY <1>1, <1>2 DEF LibraryTypes
<1>4. LibraryTypes'
  BY <1>1, <1>2 DEF LibraryTypes
<1>5. PassedIsClean'
  <2>1. \A k \in 1 .. Len(messages) : k < cursor + 1 => k < cursor \/ k = cursor
    BY <1>2
  <2>2. cursor > 0
    BY <1>2
  <2> QED BY <1>2, <2>1, <2>2 DEF LibraryInv, PassedIsClean
<1>6. (\A k \in 1 .. Len(messages) : MessageKept(messages[k], k))' /\ TokensTellValues'
  BY <1>2, <1>3, MessagesRest
<1>7. NothingGoesOut' /\ RestoreUndoes'
  BY <1>2 DEF LibraryInv, NothingGoesOut, RestoreUndoes
<1> QED BY <1>4, <1>5, <1>6, <1>7 DEF LibraryInv

LEMMA RefuseKeeps == ASSUME LibraryInv, Refuse PROVE LibraryInv'
<1>1. LibraryTypes
  BY DEF LibraryInv
<1>2. /\ cursor' = 0 /\ redactor' = redactor /\ callsMade' = callsMade
      /\ outcome' = "raised" /\ outgoing' = outgoing
      /\ messages' = messages /\ mode' = mode /\ sdkResult' = sdkResult
  BY DEF Refuse, Refuses
<1>3. redactor' \in Engines
  BY <1>1, <1>2 DEF LibraryTypes
<1>4. LibraryTypes'
  <2>1. 0 \in 0 .. Len(messages) + 1
    BY <1>1 DEF LibraryTypes
  <2> QED BY <1>1, <1>2, <2>1 DEF LibraryTypes
<1>5. PassedIsClean'
  BY <1>2 DEF PassedIsClean
<1>6. (\A k \in 1 .. Len(messages) : MessageKept(messages[k], k))' /\ TokensTellValues'
  BY <1>2, <1>3, MessagesRest
<1>7. NothingGoesOut' /\ RestoreUndoes'
  BY <1>2 DEF LibraryInv, NothingGoesOut, RestoreUndoes
<1> QED BY <1>4, <1>5, <1>6, <1>7 DEF LibraryInv

LEMMA SendKeeps == ASSUME LibraryInv, Send PROVE LibraryInv'
<1>1. LibraryTypes
  BY DEF LibraryInv
<1>2. /\ cursor' = 0 /\ redactor' = redactor /\ callsMade' = callsMade
      /\ outcome' = "sent" /\ outgoing' = messages /\ cursor > Len(messages)
      /\ messages' = messages /\ mode' = mode /\ sdkResult' = sdkResult
  BY DEF Send
<1>3. redactor' \in Engines
  BY <1>1, <1>2 DEF LibraryTypes
<1>4. LibraryTypes'
  <2>1. 0 \in 0 .. Len(messages) + 1
    BY <1>1 DEF LibraryTypes
  <2> QED BY <1>1, <1>2, <2>1 DEF LibraryTypes
<1>5. PassedIsClean'
  BY <1>2 DEF PassedIsClean
<1>6. (\A k \in 1 .. Len(messages) : MessageKept(messages[k], k))' /\ TokensTellValues'
  BY <1>2, <1>3, MessagesRest
<1>7. NothingGoesOut'
  <2> SUFFICES ASSUME NEW k \in DOMAIN messages, messages[k].scanned
               PROVE  /\ CategoriesIn(messages[k].words) = {}
                      /\ mode = "block" => ~Blocks(messages[k].original)
    BY <1>2 DEF NothingGoesOut
  <2>1. k \in 1 .. Len(messages) /\ k < cursor /\ cursor > 0
    BY <1>1, <1>2 DEF LibraryTypes
  <2>2. CategoriesIn(messages[k].words) = {}
    BY <2>1 DEF LibraryInv, PassedIsClean
  <2>3. MessageKept(messages[k], k) /\ messages[k] \in Messages
    BY <1>1, <2>1 DEF LibraryInv, LibraryTypes
  <2>4. CASE messages[k].by = Nowhere
    <3>1. messages[k].words = messages[k].original
      BY <2>3, <2>4 DEF MessageKept
    <3>2. messages[k].original \in Seq(Words)
      BY <2>3 DEF Messages
    <3> QED BY <2>2, <3>1, <3>2, SomethingExposed
  <2>5. CASE messages[k].by # Nowhere
    BY <2>2, <2>3, <2>5 DEF MessageKept
  <2> QED BY <2>4, <2>5
<1>8. RestoreUndoes'
  BY <1>2 DEF LibraryInv, RestoreUndoes
<1> QED BY <1>4, <1>5, <1>6, <1>7, <1>8 DEF LibraryInv

LEMMA SayKeeps ==
  ASSUME LibraryInv, NEW scanned \in BOOLEAN, NEW words \in Writings, Say(scanned, words)
  PROVE  LibraryInv'
<1> DEFINE said == [scanned |-> scanned, words |-> words, original |-> words, by |-> Nowhere]
<1>1. LibraryTypes /\ messages \in Seq(Messages) /\ cursor = 0 /\ redactor \in Engines
  BY DEF LibraryInv, LibraryTypes, Say
<1>2. /\ messages' = Append(messages, said) /\ mode' = mode /\ redactor' = redactor
      /\ cursor' = 0 /\ callsMade' = callsMade /\ outcome' = outcome /\ outgoing' = outgoing
      /\ sdkResult' = sdkResult
  BY <1>1 DEF Say
<1>3. said \in Messages
  <2>1. words \in Seq(Words) /\ Nowhere \in Nat \X Nat
    BY LibraryAssumption DEF Nowhere
  <2> QED BY <2>1 DEF Messages
<1>4. /\ said.words = said.original /\ said.by = Nowhere
  OBVIOUS
<1> HIDE DEF said
<1>5. PICK n \in Nat : n = Len(messages)
  BY <1>1
<1>6. /\ messages' \in Seq(Messages) /\ Len(messages') = n + 1 /\ messages'[n + 1] = said
      /\ \A k \in 1 .. n : messages'[k] = messages[k]
      /\ DOMAIN messages' = 1 .. n + 1 /\ DOMAIN messages = 1 .. n
  BY <1>1, <1>2, <1>3, <1>5
<1>7. \A k \in 1 .. n + 1 : k \in 1 .. n \/ k = n + 1
  BY <1>5
<1>8. LibraryTypes'
  <2>1. 0 \in 0 .. n + 1 + 1
    BY <1>5
  <2> QED BY <1>1, <1>2, <1>6, <2>1 DEF LibraryTypes
<1>9. PassedIsClean'
  BY <1>2 DEF PassedIsClean
<1>10. (\A k \in 1 .. Len(messages) : MessageKept(messages[k], k))'
  <2>1. ASSUME NEW k \in 1 .. n PROVE MessageKept(messages[k], k)'
    <3>1. GrownFrom(redactor', redactor)
      BY <1>1, <1>2 DEF GrownFrom, Engines
    <3>2. k \in 1 .. Len(messages) /\ MessageKept(messages[k], k) /\ messages'[k] = messages[k]
      BY <1>5, <1>6 DEF LibraryInv
    <3> QED BY <1>1, <1>2, <3>1, <3>2, MessageRests
  <2>2. MessageKept(messages[n + 1], n + 1)'
    <3>1. callsMade \in Nat /\ (callsMade > 0 => Nowhere # <<callsMade, 0>>)
      BY <1>1 DEF LibraryTypes, Nowhere
    <3> QED BY <1>2, <1>4, <1>6, <3>1 DEF MessageKept
  <2> QED BY <1>6, <1>7, <2>1, <2>2
<1>11. TokensTellValues'
  <2> SUFFICES ASSUME NEW j \in 1 .. n + 1, NEW k \in 1 .. n + 1,
                      messages'[j].by = messages'[k].by, messages'[j].by # Nowhere,
                      NEW i \in DOMAIN messages'[j].words, NEW l \in DOMAIN messages'[k].words,
                      WasRedacted(messages'[j], i), WasRedacted(messages'[k], l)
               PROVE  (messages'[j].words[i] = messages'[k].words[l]
                         <=> messages'[j].original[i] = messages'[k].original[l])
    BY <1>6 DEF TokensTellValues, WasRedacted
  <2>1. j \in 1 .. n /\ k \in 1 .. n
    BY <1>4, <1>6, <1>7
  <2> QED BY <1>6, <2>1 DEF LibraryInv, TokensTellValues, WasRedacted
<1>12. NothingGoesOut' /\ RestoreUndoes'
  BY <1>2 DEF LibraryInv, NothingGoesOut, RestoreUndoes
<1> QED BY <1>8, <1>9, <1>10, <1>11, <1>12 DEF LibraryInv

(***************************************************************************)
(* The step that rewrites the current message: with the engine of the call *)
(* (b = 0) or with one of its own (b the place of the message).            *)
(***************************************************************************)
Rewriting(e, b) ==
  /\ Pending /\ ~Passes /\ (mode = "block" => ~Blocks(Current.words))
  /\ Rewrites(Redaction(Current.words, e).words, <<callsMade, b>>)
  /\ b = 0 => e = redactor /\ redactor' = Redaction(Current.words, e).engine
  /\ b # 0 => redactor' = redactor
  /\ mode' = mode /\ cursor' = cursor + 1 /\ callsMade' = callsMade
  /\ outcome' = outcome /\ outgoing' = outgoing /\ sdkResult' = sdkResult

LEMMA RewritingKeeps ==
  ASSUME LibraryInv, NEW e \in Engines, MintsOnce(e), NEW b \in {0, cursor}, Rewriting(e, b)
  PROVE  LibraryInv'
<1> DEFINE c == cursor
           m == messages[cursor]
           r == Redaction(m.words, e)
           t == messages'[cursor]
<1>1. /\ LibraryTypes /\ messages \in Seq(Messages) /\ c \in 1 .. Len(messages)
      /\ redactor \in Engines /\ MintsOnce(redactor) /\ m \in Messages /\ MessageKept(m, c)
      /\ callsMade \in Nat /\ callsMade > 0
  BY DEF LibraryInv, LibraryTypes, Rewriting, Pending
<1>2. PICK n \in Nat : n = Len(messages)
  BY <1>1
<1>3. /\ m.scanned /\ CategoriesIn(m.words) # {} /\ (mode = "block" => ~Blocks(m.words))
      /\ messages' = [messages EXCEPT ![cursor].words = r.words,
                                      ![cursor].by = <<callsMade, b>>]
  BY DEF Rewriting, Passes, Current, Rewrites
<1>4. /\ b = 0 => e = redactor /\ redactor' = r.engine
      /\ b # 0 => redactor' = redactor
      /\ mode' = mode /\ cursor' = c + 1 /\ callsMade' = callsMade
      /\ outcome' = outcome /\ outgoing' = outgoing /\ sdkResult' = sdkResult
  BY DEF Rewriting, Current
<1>5. m.by = Nowhere /\ m.words = m.original /\ m.words \in Seq(Words)
  BY <1>1, <1>3 DEF MessageKept, Messages
<1>6. /\ r.words \in Seq(Words) /\ r.engine \in Engines /\ MintsOnce(r.engine)
      /\ GrownFrom(r.engine, e) /\ Len(r.words) = Len(m.words)
      /\ \A i \in 1 .. Len(m.words) : StandsFor(r.words[i], m.words[i], r.engine)
      /\ CategoriesIn(r.words) = {}
  BY <1>5, RedactedMessage
<1> HIDE DEF r
<1>7. /\ DOMAIN messages = 1 .. n /\ c \in 1 .. n /\ b \in Nat
      /\ t = [m EXCEPT !.words = r.words, !.by = <<callsMade, b>>]
      /\ DOMAIN messages' = 1 .. n
      /\ \A k \in 1 .. n : k # c => messages'[k] = messages[k]
  <2>1. DOMAIN messages = 1 .. n /\ c \in 1 .. n /\ b \in Nat
    BY <1>1, <1>2
  <2>2. messages' = [messages EXCEPT ![c] = [m EXCEPT !.words = r.words, !.by = <<callsMade, b>>]]
    BY <1>3, <2>1
  <2> HIDE DEF m, c
  <2>3. /\ messages'[c] = [m EXCEPT !.words = r.words, !.by = <<callsMade, b>>]
        /\ DOMAIN messages' = 1 .. n
        /\ \A k \in 1 .. n : k # c => messages'[k] = messages[k]
    BY <2>1, <2>2
  <2> QED BY <2>1, <2>3 DEF c
<1>8. /\ t \in Messages /\ t.words = r.words /\ t.by = <<callsMade, b>>
      /\ t.original = m.original /\ t.scanned = m.scanned
  <2>1. m \in Messages /\ <<callsMade, b>> \in Nat \X Nat /\ r.words \in Seq(Words)
    BY <1>1, <1>6, <1>7
  <2> HIDE DEF m, t
  <2> QED BY <1>7, <2>1 DEF Messages
<1> HIDE DEF t
<1>9. messages' \in Seq(Messages) /\ Len(messages') = n
  <2>1. \A k \in 1 .. n : messages'[k] \in Messages
    BY <1>1, <1>2, <1>7, <1>8 DEF t
  <2>2. messages' = [messages EXCEPT ![c] = t]
    BY <1>3, <1>7
  <2>3. DOMAIN messages' = 1 .. Len(messages)
    BY <1>2, <1>7
  <2> QED BY <1>1, <1>2, <1>8, <2>2
<1> HIDE DEF m, c
<1>10. /\ t.by # Nowhere /\ Len(t.original) = Len(m.words) /\ t.original = m.words
       /\ messages'[c] = t
  BY <1>1, <1>5, <1>8 DEF Nowhere, t, c
<1>11. redactor' \in Engines /\ MintsOnce(redactor') /\ GrownFrom(redactor', redactor)
  <2>1. GrownFrom(redactor, redactor)
    BY <1>1 DEF GrownFrom, Engines
  <2> QED BY <1>1, <1>4, <1>6, <2>1
<1>12. Redacting(t, r.engine)
  BY <1>6, <1>8, <1>10 DEF Redacting
<1>13. LibraryTypes'
  <2>1. c + 1 \in 0 .. n + 1 /\ c + 1 > 0
    BY <1>2, <1>7
  <2> QED BY <1>1, <1>2, <1>4, <1>9, <1>11, <2>1 DEF LibraryTypes, c
<1>14. PassedIsClean'
  <2> SUFFICES ASSUME NEW k \in 1 .. n, k < c + 1, messages'[k].scanned
               PROVE  CategoriesIn(messages'[k].words) = {}
    BY <1>4, <1>9 DEF PassedIsClean
  <2>1. CASE k = c
    BY <1>6, <1>8, <1>10, <2>1
  <2>2. CASE k # c
    <3>1. k < c /\ c > 0
      BY <1>7, <2>2
    <3> QED BY <1>2, <1>7, <2>2, <3>1 DEF LibraryInv, PassedIsClean, c
  <2> QED BY <2>1, <2>2
<1>15. ASSUME NEW k \in 1 .. n PROVE MessageKept(messages[k], k)'
  <2>1. CASE k # c
    <3>1. k \in 1 .. Len(messages) /\ MessageKept(messages[k], k) /\ messages'[k] = messages[k]
      BY <1>2, <1>7, <2>1 DEF LibraryInv
    <3> QED BY <1>1, <1>4, <1>11, <3>1, MessageRests
  <2>2. CASE k = c
    <3>1. t.by[1] \in 1 .. callsMade /\ t.by[2] \in {0, c}
      BY <1>1, <1>8 DEF c
    <3>2. mode = "block" => ~Blocks(t.original)
      BY <1>3, <1>10
    <3>3. t.by = <<callsMade, 0>> => Redacting(t, redactor')
      BY <1>4, <1>8, <1>12
    <3>4. \E g \in Engines : Redacting(t, g)
      BY <1>6, <1>12
    <3>5. t.scanned /\ CategoriesIn(t.words) = {} /\ Len(t.words) = Len(t.original)
      BY <1>3, <1>6, <1>8, <1>10
    <3>6. messages'[k]= t /\ callsMade' = callsMade /\ mode' = mode
      BY <1>4, <1>10, <2>2
    <3> QED BY <1>10, <2>2, <3>1, <3>2, <3>3, <3>4, <3>5, <3>6 DEF MessageKept, Redacting
  <2> QED BY <2>1, <2>2
<1>16. TokensTellValues'
  <2> SUFFICES ASSUME NEW j \in 1 .. n, NEW k \in 1 .. n,
                      messages'[j].by = messages'[k].by, messages'[j].by # Nowhere,
                      NEW i \in DOMAIN messages'[j].words, NEW l \in DOMAIN messages'[k].words,
                      WasRedacted(messages'[j], i), WasRedacted(messages'[k], l)
               PROVE  (messages'[j].words[i] = messages'[k].words[l]
                         <=> messages'[j].original[i] = messages'[k].original[l])
    BY <1>7 DEF TokensTellValues, WasRedacted
  <2>1. CASE j # c /\ k # c
    BY <1>7, <2>1 DEF LibraryInv, TokensTellValues, WasRedacted
  <2>2. CASE j = c \/ k = c
    <3>1. ASSUME NEW x \in 1 .. n, messages'[x].by = t.by
          PROVE  messages'[x] \in Messages /\ Redacting(messages'[x], r.engine)
      <4>1. CASE x = c
        BY <1>8, <1>10, <1>12, <4>1
      <4>2. CASE x # c
        <5>1. messages'[x] = messages[x] /\ messages[x] \in Messages /\ MessageKept(messages[x], x)
          BY <1>1, <1>2, <1>7, <4>2 DEF LibraryInv
        <5>2. messages[x].by = <<callsMade, b>> /\ messages[x].by # Nowhere
          BY <1>8, <1>10, <3>1, <5>1
        <5>3. b \in {0, x} /\ b \in {0, c}
          BY <5>1, <5>2 DEF MessageKept, c
        <5>4. b = 0
          BY <4>2, <5>3
        <5>5. Redacting(messages[x], redactor)
          BY <1>1, <5>1, <5>2, <5>4 DEF MessageKept
        <5> QED BY <1>4, <1>6, <5>1, <5>4, <5>5, RedactingGrows
      <4> QED BY <4>1, <4>2
    <3>2. messages'[j].by = t.by /\ messages'[k].by = t.by
      BY <1>10, <2>2
    <3>3. /\ messages'[j] \in Messages /\ Redacting(messages'[j], r.engine)
          /\ messages'[k] \in Messages /\ Redacting(messages'[k], r.engine)
      BY <3>1, <3>2
    <3>4. Len(messages'[j].words) = Len(messages'[j].original)
          /\ Len(messages'[k].words) = Len(messages'[k].original)
      BY <1>15 DEF MessageKept
    <3>5. /\ i \in 1 .. Len(messages'[j].original) /\ messages'[j].original[i] \in Words
          /\ l \in 1 .. Len(messages'[k].original) /\ messages'[k].original[l] \in Words
      <4>1. \A x \in Messages : /\ DOMAIN x.words = 1 .. Len(x.words)
                               /\ \A y \in 1 .. Len(x.original) : x.original[y] \in Words
        BY DEF Messages
      <4>2. i \in 1 .. Len(messages'[j].original) /\ l \in 1 .. Len(messages'[k].original)
        BY <3>3, <3>4, <4>1
      <4> QED BY <3>3, <4>1, <4>2
    <3>6. /\ StandsFor(messages'[j].words[i], messages'[j].original[i], r.engine)
          /\ StandsFor(messages'[k].words[l], messages'[k].original[l], r.engine)
      BY <3>3, <3>5 DEF Redacting
    <3> QED BY <1>6, <3>5, <3>6, TokensTell DEF WasRedacted
  <2> QED BY <2>1, <2>2
<1>17. NothingGoesOut' /\ RestoreUndoes'
  BY <1>4 DEF LibraryInv, NothingGoesOut, RestoreUndoes
<1>18. (\A k \in 1 .. Len(messages) : MessageKept(messages[k], k))'
  BY <1>9, <1>15
<1> QED BY <1>13, <1>14, <1>16, <1>17, <1>18 DEF LibraryInv

LEMMA FreshFacts == Fresh \in Engines /\ MintsOnce(Fresh)
<1>1. Fresh \in Engines /\ \A c \in PatternCategories : Len(Fresh[c]) = 0
  BY DEF Fresh, Engines
<1> QED BY <1>1 DEF MintsOnce

LEMMA RedactKeeps == ASSUME LibraryInv, RedactMessage PROVE LibraryInv'
<1>1. Rewriting(redactor, 0)
  BY DEF RedactMessage, Redacts, Rewriting
<1>2. redactor \in Engines /\ MintsOnce(redactor)
  BY DEF LibraryInv, LibraryTypes
<1> QED BY <1>1, <1>2, RewritingKeeps

LEMMA EnforceKeeps == ASSUME LibraryInv, Enforce PROVE LibraryInv'
<1>1. cursor # 0
  BY DEF LibraryInv, LibraryTypes, Enforce, Pending
<1>2. Rewriting(Fresh, cursor)
  BY <1>1 DEF Enforce, Rewriting
<1> QED BY <1>2, FreshFacts, RewritingKeeps

(***************************************************************************)
(* A token that is restored is the word it stands for.                     *)
(***************************************************************************)
LEMMA RestoredWord ==
  ASSUME NEW w \in Words, NEW e \in Engines, NEW t, StandsFor(t, w, e), w.n = 0
  PROVE  (IF t.n \in (IF t.c = Plain THEN {} ELSE DOMAIN e[t.c])
          THEN [c |-> t.c, v |-> e[t.c][t.n], n |-> 0] ELSE t) = w
<1>1. w = [c |-> w.c, v |-> w.v, n |-> 0] /\ w.c \in PatternCategories \cup {Plain}
  BY DEF Words
<1>2. Plain \notin PatternCategories
  BY LibraryAssumption
<1>3. CASE Exposed(w)
  <2>1. /\ w.c \in PatternCategories /\ t.n \in 1 .. Len(e[w.c]) /\ e[w.c][t.n] = w.v
        /\ t = [c |-> w.c, v |-> "token", n |-> t.n]
    BY <1>3 DEF Exposed, StandsFor, TokenFor
  <2>2. t.c = w.c /\ w.c # Plain /\ DOMAIN e[w.c] = 1 .. Len(e[w.c])
    BY <1>2, <2>1 DEF Engines
  <2> QED BY <1>1, <2>1, <2>2
<1>4. CASE ~Exposed(w)
  <2>1. t = w /\ w.c = Plain
    BY <1>1, <1>4 DEF StandsFor, Exposed
  <2> QED BY <2>1
<1> QED BY <1>3, <1>4

LEMMA SdkKeeps ==
  ASSUME LibraryInv, NEW said \in Writings, SdkRedact(said)
  PROVE  LibraryInv'
<1> DEFINE r == IF Blocks(said) THEN [words |-> said, engine |-> Fresh]
                                ELSE Redaction(said, Fresh)
<1>1. LibraryTypes /\ redactor' \in Engines
  BY DEF LibraryInv, LibraryTypes, SdkRedact
<1>2. /\ sdkResult' = [text |-> said, words |-> r.words, engine |-> r.engine]
      /\ mode' = mode /\ messages' = messages /\ redactor' = redactor /\ cursor' = cursor
      /\ callsMade' = callsMade /\ outcome' = outcome /\ outgoing' = outgoing
  BY DEF SdkRedact
<1>3. said \in Seq(Words)
  BY LibraryAssumption
<1>4. /\ r.words \in Seq(Words) /\ r.engine \in Engines /\ Len(r.words) = Len(said)
      /\ \A i \in 1 .. Len(said) : \/ StandsFor(r.words[i], said[i], r.engine)
                                   \/ r.words[i] = said[i] /\ r.engine = Fresh
  <2>1. CASE Blocks(said)
    BY <1>3, <2>1, FreshFacts
  <2>2. CASE ~Blocks(said)
    BY <1>3, <2>2, FreshFacts, RedactedMessage
  <2> QED BY <2>1, <2>2
<1> HIDE DEF r
<1>5. RestoreUndoes'
  <2> SUFFICES ASSUME \A i \in DOMAIN said : said[i].n = 0
               PROVE  RestoredText(r.words, r.engine) = said
    BY <1>2 DEF RestoreUndoes
  <2>1. DOMAIN r.words = 1 .. Len(said) /\ DOMAIN said = 1 .. Len(said)
    BY <1>3, <1>4
  <2>2. ASSUME NEW i \in 1 .. Len(said)
        PROVE  (IF r.words[i].n \in (IF r.words[i].c = Plain THEN {} ELSE DOMAIN r.engine[r.words[i].c])
                THEN [c |-> r.words[i].c, v |-> r.engine[r.words[i].c][r.words[i].n], n |-> 0]
                ELSE r.words[i]) = said[i]
    <3>1. said[i] \in Words /\ said[i].n = 0
      BY <1>3, <2>1
    <3>2. CASE StandsFor(r.words[i], said[i], r.engine)
      BY <1>4, <3>1, <3>2, RestoredWord
    <3>3. CASE r.words[i] = said[i] /\ r.engine = Fresh
      <4>1. said[i].c # Plain => DOMAIN Fresh[said[i].c] = {}
        BY <3>1 DEF Fresh, Words
      <4> QED BY <3>1, <3>3, <4>1
    <3> QED BY <1>4, <3>2, <3>3
  <2>3. RestoredText(r.words, r.engine) = [i \in 1 .. Len(said) |-> said[i]]
    BY <2>1, <2>2 DEF RestoredText
  <2> QED BY <1>3, <2>3
<1>6. LibraryTypes' /\ PassedIsClean' /\ NothingGoesOut'
  BY <1>1, <1>2 DEF LibraryInv, LibraryTypes, PassedIsClean, NothingGoesOut
<1>7. (\A k \in 1 .. Len(messages) : MessageKept(messages[k], k))' /\ TokensTellValues'
  BY <1>1, <1>2, MessagesRest
<1> QED BY <1>5, <1>6, <1>7 DEF LibraryInv

LEMMA LibraryStarts == LibraryInit => LibraryInv
<1> SUFFICES ASSUME LibraryInit PROVE LibraryInv
  OBVIOUS
<1>1. messages = <<>> /\ redactor = Fresh /\ cursor = 0 /\ callsMade = 0 /\ outcome = "none"
  BY DEF LibraryInit
<1>2. LibraryTypes
  BY <1>1, FreshFacts, LibraryAssumption DEF LibraryInit, LibraryTypes
<1>3. PassedIsClean /\ NothingGoesOut /\ TokensTellValues
  BY <1>1 DEF PassedIsClean, NothingGoesOut, TokensTellValues
<1>4. \A k \in 1 .. Len(messages) : MessageKept(messages[k], k)
  BY <1>1
<1>5. RestoreUndoes
  BY DEF LibraryInit, RestoreUndoes, RestoredText
<1> QED BY <1>2, <1>3, <1>4, <1>5 DEF LibraryInv

LEMMA LibrarySteps == LibraryInv /\ [LibraryNext]_libraryVars => LibraryInv'
<1> SUFFICES ASSUME LibraryInv, [LibraryNext]_libraryVars PROVE LibraryInv'
  OBVIOUS
<1>1. ASSUME NEW scanned \in BOOLEAN, NEW words \in Writings, Say(scanned, words)
      PROVE  LibraryInv'
  BY <1>1, SayKeeps
<1>2. CASE CallLLM
  BY <1>2, CallKeeps
<1>3. CASE Skip
  BY <1>3, SkipKeeps
<1>4. CASE RedactMessage
  BY <1>4, RedactKeeps
<1>5. CASE Refuse
  BY <1>5, RefuseKeeps
<1>6. CASE Enforce
  BY <1>6, EnforceKeeps
<1>7. CASE Send
  BY <1>7, SendKeeps
<1>8. ASSUME NEW said \in Writings, SdkRedact(said) PROVE LibraryInv'
  BY <1>8, SdkKeeps
<1>9. CASE UNCHANGED libraryVars
  <2>1. /\ mode' = mode /\ messages' = messages /\ redactor' = redactor /\ cursor' = cursor
        /\ callsMade' = callsMade /\ outcome' = outcome /\ outgoing' = outgoing
        /\ sdkResult' = sdkResult
    BY <1>9 DEF libraryVars
  <2>2. LibraryTypes' /\ redactor' \in Engines
    BY <2>1 DEF LibraryInv, LibraryTypes
  <2>3. (\A k \in 1 .. Len(messages) : MessageKept(messages[k], k))' /\ TokensTellValues'
    BY <2>1, <2>2, MessagesRest
  <2>4. PassedIsClean' /\ NothingGoesOut' /\ RestoreUndoes'
    BY <2>1 DEF LibraryInv, PassedIsClean, NothingGoesOut, RestoreUndoes
  <2> QED BY <2>2, <2>3, <2>4 DEF LibraryInv
<1> QED BY <1>1, <1>2, <1>3, <1>4, <1>5, <1>6, <1>7, <1>8, <1>9 DEF LibraryNext

(***************************************************************************)
(* What is kept of the messages is their type invariant.                   *)
(***************************************************************************)
LEMMA LibraryTypesHold == LibraryInv => LibraryTypeOK
<1> SUFFICES ASSUME LibraryInv PROVE LibraryTypeOK
  OBVIOUS
<1>1. LibraryTypes
  BY DEF LibraryInv
<1>2. ASSUME NEW k \in DOMAIN messages
      PROVE  /\ DOMAIN messages[k].words = DOMAIN messages[k].original
             /\ \A i \in DOMAIN messages[k].words :
                  \/ messages[k].words[i] = messages[k].original[i]
                  \/ /\ messages[k].scanned /\ Exposed(messages[k].original[i])
                     /\ messages[k].words[i].c = messages[k].original[i].c
                     /\ messages[k].words[i].v = "token" /\ messages[k].words[i].n > 0
  <2> DEFINE m == messages[k]
  <2>1. k \in 1 .. Len(messages) /\ m \in Messages
    BY <1>1 DEF LibraryTypes
  <2>2. MessageKept(m, k)
    BY <2>1 DEF LibraryInv
  <2> HIDE DEF m
  <2>3. /\ Len(m.words) = Len(m.original) /\ m.original \in Seq(Words)
        /\ DOMAIN m.words = 1 .. Len(m.original) /\ DOMAIN m.original = 1 .. Len(m.original)
    BY <2>1, <2>2 DEF MessageKept, Messages
  <2>4. CASE m.by = Nowhere
    BY <2>2, <2>3, <2>4 DEF MessageKept, m
  <2>5. CASE m.by # Nowhere
    <3>1. m.scanned /\ \E e \in Engines : Redacting(m, e)
      BY <2>2, <2>5 DEF MessageKept
    <3>2. PICK e \in Engines : Redacting(m, e)
      BY <3>1
    <3>3. ASSUME NEW i \in 1 .. Len(m.original)
          PROVE  \/ m.words[i] = m.original[i]
                 \/ /\ Exposed(m.original[i]) /\ m.words[i].c = m.original[i].c
                    /\ m.words[i].v = "token" /\ m.words[i].n > 0
      BY <2>3, <3>2, StandsForFacts DEF Redacting
    <3> QED BY <2>3, <3>1, <3>3 DEF m
  <2> QED BY <2>4, <2>5
<1> QED BY <1>1, <1>2 DEF LibraryTypeOK, LibraryTypes

-----------------------------------------------------------------------------
(***************************************************************************)
(* The firewall (Firewall).                                                *)
(***************************************************************************)

(***************************************************************************)
(* The order of the spans, and the place of each: every number up to that  *)
(* of the spans is the place of one of them.                               *)
(***************************************************************************)
Precedes(s, j, i) == s[j].start > s[i].start \/ (j < i /\ ~(s[i].start > s[j].start))
Preceding(s, i) == {j \in DOMAIN s : Precedes(s, j, i)}
Place(s, i) == 1 + Cardinality(Preceding(s, i))

LEMMA SpansAreOrdered ==
  ASSUME NEW s \in Seq(Findings)
  PROVE  /\ \A i \in 1 .. Len(s) : ~Precedes(s, i, i)
         /\ \A i, j \in 1 .. Len(s) : i # j => Precedes(s, i, j) \/ Precedes(s, j, i)
         /\ \A i, j, k \in 1 .. Len(s) :
              Precedes(s, i, j) /\ Precedes(s, j, k) => Precedes(s, i, k)
         /\ \A i, j \in 1 .. Len(s) : Precedes(s, i, j) => s[i].start >= s[j].start
<1>1. \A i \in 1 .. Len(s) : s[i] \in Findings
  OBVIOUS
<1>2. \A x \in Findings : x.start \in Nat
  BY DEF Findings
<1>3. \A i \in 1 .. Len(s) : s[i].start \in Nat
  BY <1>1, <1>2
<1>4. Len(s) \in Nat
  OBVIOUS
<1> QED BY <1>3, <1>4 DEF Precedes

LEMMA PlaceFacts ==
  ASSUME NEW s \in Seq(Findings), NEW i \in 1 .. Len(s)
  PROVE  /\ Place(s, i) \in 1 .. Len(s)
         /\ \A k \in 1 .. Len(s) : Precedes(s, i, k) => Place(s, i) < Place(s, k)
<1>1. PICK n \in Nat : n = Len(s)
  OBVIOUS
<1>2. DOMAIN s = 1 .. n /\ i \in 1 .. n
  BY <1>1
<1>3. IsFiniteSet(1 .. n) /\ Cardinality(1 .. n) = n
  BY FS_Interval
<1>4. ASSUME NEW k \in 1 .. n
      PROVE  /\ IsFiniteSet(Preceding(s, k)) /\ Cardinality(Preceding(s, k)) \in Nat
             /\ Cardinality(Preceding(s, k)) <= n - 1 /\ k \notin Preceding(s, k)
  <2>1. k \notin Preceding(s, k)
    BY <1>1, SpansAreOrdered DEF Preceding
  <2>2. Preceding(s, k) \in SUBSET ((1 .. n) \ {k})
    BY <1>2, <2>1 DEF Preceding
  <2>3. IsFiniteSet((1 .. n) \ {k}) /\ Cardinality((1 .. n) \ {k}) = n - 1
    BY <1>3, FS_RemoveElement
  <2>4. IsFiniteSet(Preceding(s, k)) /\ Cardinality(Preceding(s, k)) <= n - 1
    BY <2>2, <2>3, FS_Subset
  <2>5. Cardinality(Preceding(s, k)) \in Nat
    BY <2>4, FS_CardinalityType
  <2> QED BY <2>1, <2>4, <2>5
<1>5. Place(s, i) \in 1 .. n
  <2>1. PICK x \in Nat : x = Cardinality(Preceding(s, i)) /\ x <= n - 1
    BY <1>2, <1>4
  <2> QED BY <1>2, <2>1 DEF Place
<1>6. ASSUME NEW k \in 1 .. n, Precedes(s, i, k)
      PROVE  Place(s, i) < Place(s, k)
  <2>1. Preceding(s, i) \cup {i} \in SUBSET Preceding(s, k)
    BY <1>1, <1>2, <1>6, SpansAreOrdered DEF Preceding
  <2>2. Cardinality(Preceding(s, i) \cup {i}) = Cardinality(Preceding(s, i)) + 1
    BY <1>2, <1>4, FS_AddElement
  <2>3. Cardinality(Preceding(s, i) \cup {i}) <= Cardinality(Preceding(s, k))
    BY <1>4, <2>1, FS_Subset
  <2>4. PICK x \in Nat : x = Cardinality(Preceding(s, i))
    BY <1>2, <1>4
  <2>5. PICK y \in Nat : y = Cardinality(Preceding(s, k))
    BY <1>4
  <2> QED BY <2>2, <2>3, <2>4, <2>5 DEF Place
<1> QED BY <1>1, <1>5, <1>6

LEMMA EveryPlaceIsTaken ==
  ASSUME NEW s \in Seq(Findings), NEW k \in 1 .. Len(s)
  PROVE  \E i \in 1 .. Len(s) : Place(s, i) = k
<1> DEFINE f == [i \in 1 .. Len(s) |-> Place(s, i)]
<1>1. PICK n \in Nat : n = Len(s)
  OBVIOUS
<1>2. f \in [1 .. n -> 1 .. n] /\ \A i \in 1 .. n : f[i] = Place(s, i)
  BY <1>1, PlaceFacts
<1> HIDE DEF f
<1>3. ASSUME NEW i \in 1 .. n, NEW j \in 1 .. n, f[i] = f[j] PROVE i = j
  <2>1. Place(s, i) \in 1 .. n /\ Place(s, j) = Place(s, i)
    BY <1>1, <1>2, <1>3, PlaceFacts
  <2>2. PICK x \in Nat : x = Place(s, i) /\ x = Place(s, j)
    BY <2>1
  <2>3. /\ Precedes(s, i, j) => Place(s, i) < Place(s, j)
        /\ Precedes(s, j, i) => Place(s, j) < Place(s, i)
    BY <1>1, PlaceFacts
  <2>4. ~(x < x)
    OBVIOUS
  <2>5. ~Precedes(s, i, j) /\ ~Precedes(s, j, i)
    BY <2>2, <2>3, <2>4
  <2> QED BY <1>1, <2>5, SpansAreOrdered
<1>4. f \in Injection(1 .. n, 1 .. n)
  BY <1>2, <1>3 DEF Injection, IsInjective
<1>5. IsFiniteSet(1 .. n)
  BY FS_Interval
<1>6. f \in Surjection(1 .. n, 1 .. n)
  BY <1>4, <1>5, FS_Injection
<1> QED BY <1>1, <1>2, <1>6 DEF Surjection

(***************************************************************************)
(* Sorted spans are those there are, each once, by falling starts.         *)
(***************************************************************************)
SortedFrom(t, s, from) ==
  /\ t \in Seq(Findings) /\ Len(t) = Len(s) /\ from \in [1 .. Len(s) -> 1 .. Len(s)]
  /\ \A k \in 1 .. Len(s) : t[k] = s[from[k]]
  /\ \A k, l \in 1 .. Len(s) : k < l => t[k].start >= t[l].start /\ from[k] # from[l]
  /\ \A i \in 1 .. Len(s) : \E k \in 1 .. Len(s) : from[k] = i

LEMMA InOrderSorts ==
  ASSUME NEW s \in Seq(Findings)
  PROVE  \E from : SortedFrom(InOrder(s), s, from)
<1> DEFINE from == [k \in 1 .. Len(s) |-> CHOOSE i \in DOMAIN s : Place(s, i) = k]
           t == InOrder(s)
<1>1. t = [k \in DOMAIN s |-> s[CHOOSE i \in DOMAIN s : Place(s, i) = k]]
  BY DEF InOrder, SortSeqBy, Place, Preceding, Precedes
<1>2. PICK n \in Nat : n = Len(s)
  OBVIOUS
<1>3. DOMAIN s = 1 .. n
  BY <1>2
<1>4. ASSUME NEW k \in 1 .. n PROVE from[k] \in 1 .. n /\ Place(s, from[k]) = k
  <2>1. \E i \in DOMAIN s : Place(s, i) = k
    BY <1>2, <1>3, EveryPlaceIsTaken
  <2> QED BY <1>2, <1>3, <2>1
<1>5. \A k \in 1 .. n : t[k] = s[from[k]]
  BY <1>1, <1>2, <1>3
<1>6. DOMAIN t = 1 .. n /\ t = [k \in 1 .. n |-> t[k]]
  BY <1>1, <1>3
<1>7. from \in [1 .. n -> 1 .. n]
  BY <1>2, <1>4
<1> HIDE DEF t, from
<1>8. \A k \in 1 .. n : t[k] \in Findings
  BY <1>2, <1>4, <1>5
<1>9. t \in Seq(Findings) /\ Len(t) = n
  BY <1>6, <1>8
<1>10. ASSUME NEW k \in 1 .. n, NEW l \in 1 .. n, k < l
       PROVE  t[k].start >= t[l].start /\ from[k] # from[l]
  <2>1. from[k] # from[l]
    BY <1>4, <1>10
  <2>2. ~Precedes(s, from[l], from[k])
    <3>1. Precedes(s, from[l], from[k]) => Place(s, from[l]) < Place(s, from[k])
      BY <1>2, <1>4, PlaceFacts
    <3>2. ~(l < k)
      BY <1>10
    <3> QED BY <1>4, <3>1, <3>2
  <2>3. s[from[k]].start >= s[from[l]].start
    BY <1>2, <1>4, <2>1, <2>2, SpansAreOrdered
  <2> QED BY <1>5, <2>1, <2>3
<1>11. ASSUME NEW i \in 1 .. n PROVE \E k \in 1 .. n : from[k] = i
  <2>1. PICK k \in 1 .. n : k = Place(s, i)
    BY <1>2, PlaceFacts
  <2>2. from[k] \in 1 .. n /\ Place(s, from[k]) = k
    BY <1>4
  <2>3. ~Precedes(s, i, from[k]) /\ ~Precedes(s, from[k], i)
    <3>1. ~(k < k)
      OBVIOUS
    <3> QED BY <1>2, <2>1, <2>2, <3>1, PlaceFacts
  <2> QED BY <1>2, <2>2, <2>3, SpansAreOrdered
<1>12. SortedFrom(t, s, from)
  BY <1>2, <1>5, <1>7, <1>9, <1>10, <1>11 DEF SortedFrom
<1> QED BY <1>12 DEF t

(***************************************************************************)
(* The functions that InField, Redacted and Wanted are defined by exist.   *)
(***************************************************************************)
LEMMA InFieldUnfolds ==
  ASSUME NEW f
  PROVE  \E h : /\ InField(f) = h[Cardinality(Detectors)]
                /\ h[0] = <<>>
                /\ \A k \in 1 .. Cardinality(Detectors) : h[k] = h[k - 1] \o Returned(<<f, k>>)
<1> DEFINE n == Cardinality(Detectors)
           start == <<>>
           next(x, k) == x \o Returned(<<f, k>>)
           Run(h, m) == h = [k \in 0 .. m |-> IF k = 0 THEN start ELSE next(h[k - 1], k)]
           upTo == CHOOSE h : Run(h, n)
           P == {m \in 0 .. n : \E h : Run(h, m)}
<1>1. InField(f) = upTo[n]
  BY DEF InField
<1>2. n \in Nat
  BY FirewallAssumption, FS_CardinalityType
<1> HIDE DEF start, next, n
<1>3. 0 \in P
  <2>1. Run([k \in 0 .. 0 |-> start], 0)
    OBVIOUS
  <2> HIDE DEF Run
  <2> QED BY <1>2, <2>1
<1>4. ASSUME NEW m \in 1 .. n, m - 1 \in P PROVE m \in P
  <2>1. PICK h : Run(h, m - 1)
    BY <1>4
  <2> DEFINE g == [k \in 0 .. m |-> IF k = m THEN next(h[m - 1], m) ELSE h[k]]
  <2>2. m \in Nat /\ m > 0
    BY <1>2
  <2>3. \A k \in 0 .. m - 1 : h[k] = IF k = 0 THEN start ELSE next(h[k - 1], k)
    BY <2>1
  <2>4. \A k \in 0 .. m - 1 : g[k] = h[k]
    BY <2>2
  <2>5. \A k \in 0 .. m : g[k] = IF k = 0 THEN start ELSE next(g[k - 1], k)
    <3> SUFFICES ASSUME NEW k \in 0 .. m PROVE g[k] = IF k = 0 THEN start ELSE next(g[k - 1], k)
      OBVIOUS
    <3>1. CASE k = m
      <4>1. g[k] = next(h[m - 1], m) /\ m - 1 \in 0 .. m - 1
        BY <2>2, <3>1
      <4> HIDE DEF g
      <4> QED BY <2>2, <2>4, <3>1, <4>1
    <3>2. CASE k # m
      <4>1. k \in 0 .. m - 1 /\ (k # 0 => k - 1 \in 0 .. m - 1)
        BY <2>2, <3>2
      <4> HIDE DEF g
      <4> QED BY <2>3, <2>4, <4>1
    <3> QED BY <3>1, <3>2
  <2>6. g = [k \in 0 .. m |-> g[k]]
    OBVIOUS
  <2> HIDE DEF g
  <2>7. Run(g, m)
    BY <2>5, <2>6
  <2> HIDE DEF Run
  <2>8. m \in 0 .. n
    BY <1>2
  <2> QED BY <2>7, <2>8
<1>5. n \in P
  <2>1. P \in SUBSET (0 .. n) /\ n \in 0 .. n
    BY <1>2
  <2> HIDE DEF P
  <2> QED BY <1>2, <1>3, <1>4, <2>1, UpToInduction
<1>6. Run(upTo, n)
  <2> HIDE DEF Run
  <2> QED BY <1>5
<1>7. upTo[0] = start /\ \A k \in 1 .. n : upTo[k] = next(upTo[k - 1], k)
  <2> HIDE DEF upTo
  <2> QED BY <1>2, <1>6
<1> HIDE DEF upTo
<1> QED BY <1>1, <1>7 DEF start, next, n

LEMMA RedactedUnfolds ==
  ASSUME NEW f, NEW s \in Seq(Findings)
  PROVE  \E h : /\ Redacted(f, s) = h[Len(s)]
                /\ h[0] = Original[f]
                /\ \A k \in 1 .. Len(s) : h[k] = Replaced(h[k - 1], InOrder(s)[k])
<1> DEFINE n == Len(s)
           start == Original[f]
           next(x, k) == Replaced(x, InOrder(s)[k])
           Run(h, m) == h = [k \in 0 .. m |-> IF k = 0 THEN start ELSE next(h[k - 1], k)]
           after == CHOOSE h : Run(h, n)
           P == {m \in 0 .. n : \E h : Run(h, m)}
<1>1. Redacted(f, s) = after[n]
  BY DEF Redacted
<1>2. n \in Nat
  OBVIOUS
<1> HIDE DEF start, next, n
<1>3. 0 \in P
  <2>1. Run([k \in 0 .. 0 |-> start], 0)
    OBVIOUS
  <2> HIDE DEF Run
  <2> QED BY <1>2, <2>1
<1>4. ASSUME NEW m \in 1 .. n, m - 1 \in P PROVE m \in P
  <2>1. PICK h : Run(h, m - 1)
    BY <1>4
  <2> DEFINE g == [k \in 0 .. m |-> IF k = m THEN next(h[m - 1], m) ELSE h[k]]
  <2>2. m \in Nat /\ m > 0
    BY <1>2
  <2>3. \A k \in 0 .. m - 1 : h[k] = IF k = 0 THEN start ELSE next(h[k - 1], k)
    BY <2>1
  <2>4. \A k \in 0 .. m - 1 : g[k] = h[k]
    BY <2>2
  <2>5. \A k \in 0 .. m : g[k] = IF k = 0 THEN start ELSE next(g[k - 1], k)
    <3> SUFFICES ASSUME NEW k \in 0 .. m PROVE g[k] = IF k = 0 THEN start ELSE next(g[k - 1], k)
      OBVIOUS
    <3>1. CASE k = m
      <4>1. g[k] = next(h[m - 1], m) /\ m - 1 \in 0 .. m - 1
        BY <2>2, <3>1
      <4> HIDE DEF g
      <4> QED BY <2>2, <2>4, <3>1, <4>1
    <3>2. CASE k # m
      <4>1. k \in 0 .. m - 1 /\ (k # 0 => k - 1 \in 0 .. m - 1)
        BY <2>2, <3>2
      <4> HIDE DEF g
      <4> QED BY <2>3, <2>4, <4>1
    <3> QED BY <3>1, <3>2
  <2>6. g = [k \in 0 .. m |-> g[k]]
    OBVIOUS
  <2> HIDE DEF g
  <2>7. Run(g, m)
    BY <2>5, <2>6
  <2> HIDE DEF Run
  <2>8. m \in 0 .. n
    BY <1>2
  <2> QED BY <2>7, <2>8
<1>5. n \in P
  <2>1. P \in SUBSET (0 .. n) /\ n \in 0 .. n
    BY <1>2
  <2> HIDE DEF P
  <2> QED BY <1>2, <1>3, <1>4, <2>1, UpToInduction
<1>6. Run(after, n)
  <2> HIDE DEF Run
  <2> QED BY <1>5
<1>7. after[0] = start /\ \A k \in 1 .. n : after[k] = next(after[k - 1], k)
  <2> HIDE DEF after
  <2> QED BY <1>2, <1>6
<1> HIDE DEF after
<1> QED BY <1>1, <1>7 DEF start, next, n

LEMMA WantedUnfolds ==
  ASSUME NEW spans, NEW length \in Nat
  PROVE  \E h : /\ Wanted(spans, length) = h[length + 1]
                /\ h[0] = <<>>
                /\ \A k \in 1 .. length + 1 : h[k] = h[k - 1] \o PieceAt(spans, length, k - 1)
<1> DEFINE n == length + 1
           start == <<>>
           next(x, k) == x \o PieceAt(spans, length, k - 1)
           Run(h, m) == h = [k \in 0 .. m |-> IF k = 0 THEN start ELSE next(h[k - 1], k)]
           upTo == CHOOSE h : Run(h, n)
           P == {m \in 0 .. n : \E h : Run(h, m)}
<1>1. Wanted(spans, length) = upTo[n]
  BY DEF Wanted
<1>2. n \in Nat
  OBVIOUS
<1> HIDE DEF start, next, n
<1>3. 0 \in P
  <2>1. Run([k \in 0 .. 0 |-> start], 0)
    OBVIOUS
  <2> HIDE DEF Run
  <2> QED BY <1>2, <2>1
<1>4. ASSUME NEW m \in 1 .. n, m - 1 \in P PROVE m \in P
  <2>1. PICK h : Run(h, m - 1)
    BY <1>4
  <2> DEFINE g == [k \in 0 .. m |-> IF k = m THEN next(h[m - 1], m) ELSE h[k]]
  <2>2. m \in Nat /\ m > 0
    BY <1>2
  <2>3. \A k \in 0 .. m - 1 : h[k] = IF k = 0 THEN start ELSE next(h[k - 1], k)
    BY <2>1
  <2>4. \A k \in 0 .. m - 1 : g[k] = h[k]
    BY <2>2
  <2>5. \A k \in 0 .. m : g[k] = IF k = 0 THEN start ELSE next(g[k - 1], k)
    <3> SUFFICES ASSUME NEW k \in 0 .. m PROVE g[k] = IF k = 0 THEN start ELSE next(g[k - 1], k)
      OBVIOUS
    <3>1. CASE k = m
      <4>1. g[k] = next(h[m - 1], m) /\ m - 1 \in 0 .. m - 1
        BY <2>2, <3>1
      <4> HIDE DEF g
      <4> QED BY <2>2, <2>4, <3>1, <4>1
    <3>2. CASE k # m
      <4>1. k \in 0 .. m - 1 /\ (k # 0 => k - 1 \in 0 .. m - 1)
        BY <2>2, <3>2
      <4> HIDE DEF g
      <4> QED BY <2>3, <2>4, <4>1
    <3> QED BY <3>1, <3>2
  <2>6. g = [k \in 0 .. m |-> g[k]]
    OBVIOUS
  <2> HIDE DEF g
  <2>7. Run(g, m)
    BY <2>5, <2>6
  <2> HIDE DEF Run
  <2>8. m \in 0 .. n
    BY <1>2
  <2> QED BY <2>7, <2>8
<1>5. n \in P
  <2>1. P \in SUBSET (0 .. n) /\ n \in 0 .. n
    BY <1>2
  <2> HIDE DEF P
  <2> QED BY <1>2, <1>3, <1>4, <2>1, UpToInduction
<1>6. Run(upTo, n)
  <2> HIDE DEF Run
  <2> QED BY <1>5
<1>7. upTo[0] = start /\ \A k \in 1 .. n : upTo[k] = next(upTo[k - 1], k)
  <2> HIDE DEF upTo
  <2> QED BY <1>2, <1>6
<1> HIDE DEF upTo
<1> QED BY <1>1, <1>7 DEF start, next, n

Joined(v, s, t, m, k) ==
  /\ Len(v) = m + k
  /\ \A i \in 1 .. m : v[i] = s[i]
  /\ \A i \in 1 .. k : v[m + i] = t[i]
  /\ \A i \in 1 .. m + k : i \in 1 .. m \/ \E j \in 1 .. k : i = m + j

LEMMA ConcatFacts ==
  ASSUME NEW S, NEW s \in Seq(S), NEW t \in Seq(S)
  PROVE  s \o t \in Seq(S) /\ Joined(s \o t, s, t, Len(s), Len(t))
<1>1. PICK m \in Nat : m = Len(s)
  OBVIOUS
<1>2. PICK k \in Nat : k = Len(t)
  OBVIOUS
<1>3. /\ s \o t \in Seq(S) /\ Len(s \o t) = m + k
      /\ \A i \in 1 .. m + k : (s \o t)[i] = IF i <= m THEN s[i] ELSE t[i - m]
  BY <1>1, <1>2, ConcatProperties
<1>4. \A i \in 1 .. m : i \in 1 .. m + k /\ i <= m
  OBVIOUS
<1>5. \A i \in 1 .. k : m + i \in 1 .. m + k /\ ~(m + i <= m) /\ m + i - m = i
  OBVIOUS
<1>6. ASSUME NEW i \in 1 .. m + k PROVE i \in 1 .. m \/ \E j \in 1 .. k : i = m + j
  <2>1. ~(i \in 1 .. m) => i - m \in 1 .. k /\ i = m + (i - m)
    OBVIOUS
  <2> QED BY <2>1
<1>7. Joined(s \o t, s, t, m, k)
  BY <1>3, <1>4, <1>5, <1>6 DEF Joined
<1> QED BY <1>1, <1>2, <1>3, <1>7

(***************************************************************************)
(* The offsets that are left of a text from a up to b, and a placeholder.  *)
(***************************************************************************)
Chars == Nat \cup {Mark}
Kept(a, b) == [i \in 1 .. b - a |-> a + i - 1]

LEMMA KeptFacts ==
  ASSUME NEW a \in Nat, NEW b \in Nat, a <= b
  PROVE  /\ Kept(a, b) \in Seq(Chars) /\ Len(Kept(a, b)) = b - a
         /\ \A i \in 1 .. b - a : Kept(a, b)[i] = a + i - 1
<1> DEFINE s == Kept(a, b)
<1>1. PICK n \in Nat : n = b - a
  OBVIOUS
<1>2. s = [i \in 1 .. n |-> a + i - 1]
  BY <1>1 DEF Kept
<1>3. \A i \in 1 .. n : s[i] = a + i - 1 /\ s[i] \in Chars
  BY <1>2 DEF Chars
<1> HIDE DEF s
<1>4. s \in Seq(Chars) /\ Len(s) = n
  BY <1>2, <1>3
<1> QED BY <1>1, <1>3, <1>4 DEF s

LEMMA KeptFromTheStart ==
  ASSUME NEW c \in Nat
  PROVE  /\ Kept(0, c) \in Seq(Chars) /\ Len(Kept(0, c)) = c
         /\ \A i \in 1 .. c : Kept(0, c)[i] = i - 1
<1>1. Kept(0, c) = [i \in 1 .. c |-> i - 1]
  BY DEF Kept
<1>2. \A i \in 1 .. c : i - 1 \in Chars
  BY DEF Chars
<1> QED BY <1>1, <1>2

LEMMA KeptGrows ==
  ASSUME NEW a \in Nat, NEW b \in Nat, a <= b
  PROVE  Kept(a, b) \o <<b>> = Kept(a, b + 1)
<1>1. Kept(a, b) \in Seq(Chars) /\ Len(Kept(a, b)) = b - a
      /\ \A i \in 1 .. b - a : Kept(a, b)[i] = a + i - 1
  BY KeptFacts
<1>2. Kept(a, b + 1) \in Seq(Chars) /\ Len(Kept(a, b + 1)) = b + 1 - a
      /\ \A i \in 1 .. b + 1 - a : Kept(a, b + 1)[i] = a + i - 1
  BY KeptFacts
<1>3. PICK n \in Nat : n = b - a
  OBVIOUS
<1>4. <<b>> \in Seq(Chars) /\ Len(<<b>>) = 1 /\ <<b>>[1] = b
  BY DEF Chars
<1>5. PICK t : t = Kept(a, b) \o <<b>>
  OBVIOUS
<1>6. t \in Seq(Chars) /\ Joined(t, Kept(a, b), <<b>>, n, 1)
  BY <1>1, <1>3, <1>4, <1>5, ConcatFacts
<1>7. /\ Len(t) = n + 1
      /\ \A i \in 1 .. n : t[i] = a + i - 1
      /\ t[n + 1] = b
  <2>1. \A i \in 1 .. n : t[i] = Kept(a, b)[i]
    BY <1>6 DEF Joined
  <2>2. t[n + 1] = <<b>>[1] /\ Len(t) = n + 1
    BY <1>6 DEF Joined
  <2>3. \A i \in 1 .. n : Kept(a, b)[i] = a + i - 1
    BY <1>1, <1>3
  <2> QED BY <1>4, <2>1, <2>2, <2>3
<1>8. \A i \in 1 .. n + 1 : t[i] = a + i - 1
  BY <1>3, <1>7
<1>9. t = Kept(a, b + 1)
  <2>1. Len(Kept(a, b + 1)) = n + 1 /\ \A i \in 1 .. n + 1 : Kept(a, b + 1)[i] = a + i - 1
    BY <1>2, <1>3
  <2> QED BY <1>2, <1>6, <1>7, <1>8, <2>1, SeqEqual
<1> QED BY <1>5, <1>9

LEMMA PlaceholderFacts ==
  ASSUME NEW c \in DOMAIN Decides, NEW S, Mark \in S
  PROVE  /\ Placeholder(c) \in Seq(S) /\ Len(Placeholder(c)) >= 1
         /\ Placeholder(c)[1] = Mark
<1>1. PICK n \in Nat : n = MarkLength[c] /\ n >= 1
  BY FirewallAssumption
<1>2. Placeholder(c) = [i \in 1 .. n |-> Mark]
  BY <1>1 DEF Placeholder
<1> QED BY <1>1, <1>2

(***************************************************************************)
(* What is replaced leaves the text before the span as it was, and the     *)
(* first character of its placeholder behind it.                           *)
(***************************************************************************)
LEMMA ReplacedFacts ==
  ASSUME NEW S, Mark \in S, NEW body \in Seq(S), NEW p \in Findings, p.start <= Len(body)
  PROVE  /\ Replaced(body, p) \in Seq(S) /\ Len(Replaced(body, p)) > p.start
         /\ Replaced(body, p)[p.start + 1] = Mark
<1> DEFINE x == SubSeq(body, 1, p.start)
           y == Placeholder(p.category)
           z == SubSeq(body, p.end + 1, Len(body))
<1>1. p.start \in Nat /\ p.end \in Nat /\ p.category \in DOMAIN Decides
  BY DEF Findings
<1>2. x \in Seq(S) /\ Len(x) = p.start
  <2>1. \A i \in 1 .. p.start : body[i] \in S
    BY <1>1
  <2>2. 1 \in Int /\ p.start \in Int
    BY <1>1
  <2>3. x \in Seq(S) /\ Len(x) = IF 1 <= p.start THEN p.start - 1 + 1 ELSE 0
    BY <2>1, <2>2, SubSeqProperties
  <2> HIDE DEF x
  <2> QED BY <1>1, <2>3
<1>3. y \in Seq(S) /\ Len(y) >= 1 /\ y[1] = Mark
  BY <1>1, PlaceholderFacts
<1>4. z \in Seq(S)
  <2>1. \A i \in p.end + 1 .. Len(body) : body[i] \in S
    BY <1>1
  <2>2. p.end + 1 \in Int /\ Len(body) \in Int
    BY <1>1
  <2> QED BY <2>1, <2>2, SubSeqProperties
<1>5. Replaced(body, p) = (x \o y) \o z
  BY DEF Replaced
<1> HIDE DEF x, y, z
<1>6. /\ x \o y \in Seq(S) /\ Len(x \o y) = p.start + Len(y) /\ (x \o y)[p.start + 1] = Mark
  <2>1. PICK k \in Nat : k = Len(y) /\ k >= 1
    BY <1>3
  <2>2. /\ x \o y \in Seq(S) /\ Len(x \o y) = p.start + k
        /\ \A i \in 1 .. k : (x \o y)[p.start + i] = y[i]
    <3>1. x \o y \in Seq(S) /\ Joined(x \o y, x, y, p.start, k)
      BY <1>2, <1>3, <2>1, ConcatFacts
    <3> QED BY <3>1 DEF Joined
  <2>3. 1 \in 1 .. k
    BY <2>1
  <2> QED BY <1>3, <2>1, <2>2, <2>3
<1>7. PICK v : v = x \o y
  OBVIOUS
<1>8. v \in Seq(S) /\ Len(v) >= p.start + 1 /\ v[p.start + 1] = Mark /\ Len(v) \in Nat
  <2>1. Len(y) \in Nat
    BY <1>3
  <2> QED BY <1>1, <1>3, <1>6, <1>7, <2>1
<1>9. PICK l \in Nat : l = Len(v)
  BY <1>8
<1>10. PICK j \in Nat : j = Len(z)
  BY <1>4
<1>11. /\ v \o z \in Seq(S) /\ Len(v \o z) = l + j
       /\ \A i \in 1 .. l : (v \o z)[i] = v[i]
  <2>1. v \o z \in Seq(S) /\ Joined(v \o z, v, z, l, j)
    BY <1>4, <1>8, <1>9, <1>10, ConcatFacts
  <2> QED BY <2>1 DEF Joined
<1>12. p.start + 1 \in 1 .. l /\ l + j > p.start
  BY <1>1, <1>8, <1>9, <1>10
<1> QED BY <1>5, <1>7, <1>8, <1>11, <1>12

LEMMA ReplacedKept ==
  ASSUME NEW c \in Nat, NEW X \in Seq(Chars), NEW p \in Findings, p.start <= p.end, p.end <= c
  PROVE  Replaced(Kept(0, c) \o X, p)
           = (Kept(0, p.start) \o Placeholder(p.category)) \o (Kept(p.end, c) \o X)
<1> DEFINE body == Kept(0, c) \o X
<1>1. p.start \in Nat /\ p.end \in Nat
  BY DEF Findings
<1>2. PICK n \in Nat : n = Len(X)
  OBVIOUS
<1>3. /\ Kept(0, c) \in Seq(Chars) /\ Len(Kept(0, c)) = c
      /\ \A i \in 1 .. c : Kept(0, c)[i] = i - 1
  BY KeptFromTheStart
<1>4. /\ body \in Seq(Chars) /\ Len(body) = c + n
      /\ \A i \in 1 .. c : body[i] = Kept(0, c)[i]
      /\ \A i \in 1 .. n : body[c + i] = X[i]
  <2>1. body \in Seq(Chars) /\ Joined(body, Kept(0, c), X, c, n)
    BY <1>2, <1>3, ConcatFacts
  <2> HIDE DEF body
  <2> QED BY <2>1 DEF Joined
<1>5. Replaced(body, p) = (SubSeq(body, 1, p.start) \o Placeholder(p.category))
                            \o SubSeq(body, p.end + 1, Len(body))
  BY DEF Replaced
<1> HIDE DEF body
<1>6. SubSeq(body, 1, p.start) = Kept(0, p.start)
  <2> DEFINE x == SubSeq(body, 1, p.start)
  <2>1. 1 \in Int /\ p.start \in Int /\ \A i \in 1 .. p.start : body[i] \in Chars
    BY <1>1, <1>4
  <2>2. /\ x \in Seq(Chars) /\ Len(x) = (IF 1 <= p.start THEN p.start - 1 + 1 ELSE 0)
        /\ \A i \in 1 .. p.start - 1 + 1 : x[i] = body[1 + i - 1]
    BY <2>1, SubSeqProperties
  <2> HIDE DEF x
  <2>3. Len(x) = p.start /\ \A i \in 1 .. p.start : x[i] = i - 1
    <3>1. \A i \in 1 .. p.start : 1 + i - 1 = i /\ i \in 1 .. p.start - 1 + 1 /\ i \in 1 .. c /\ i \in 1 .. c + n /\ i <= c
      BY <1>1
    <3>2. Len(x) = p.start
      BY <1>1, <2>2
    <3> QED BY <1>3, <1>4, <2>2, <3>1, <3>2
  <2>4. /\ Kept(0, p.start) \in Seq(Chars) /\ Len(Kept(0, p.start)) = p.start
        /\ \A i \in 1 .. p.start : Kept(0, p.start)[i] = i - 1
    BY <1>1, KeptFromTheStart
  <2>6. x = Kept(0, p.start)
    BY <2>2, <2>3, <2>4, SeqEqual
  <2> QED BY <2>6 DEF x
<1>7. SubSeq(body, p.end + 1, Len(body)) = Kept(p.end, c) \o X
  <2> DEFINE x == SubSeq(body, p.end + 1, c + n)
             y == Kept(p.end, c) \o X
  <2>1. PICK k \in Nat : k = c - p.end
    BY <1>1
  <2>2. /\ p.end + 1 \in Int /\ c + n \in Int
        /\ \A i \in p.end + 1 .. c + n : body[i] \in Chars
    BY <1>1, <1>4
  <2>3. /\ x \in Seq(Chars)
        /\ Len(x) = (IF p.end + 1 <= c + n THEN c + n - (p.end + 1) + 1 ELSE 0)
        /\ \A i \in 1 .. c + n - (p.end + 1) + 1 : x[i] = body[p.end + 1 + i - 1]
    BY <2>2, SubSeqProperties
  <2> HIDE DEF x
  <2>4. Len(x) = k + n
    BY <1>1, <2>1, <2>3
  <2>5. \A i \in 1 .. k + n : x[i] = body[p.end + i]
    <3>1. \A i \in 1 .. k + n : p.end + 1 + i - 1 = p.end + i /\ i \in 1 .. c + n - (p.end + 1) + 1
      BY <1>1, <2>1
    <3> QED BY <2>3, <3>1
  <2>6. /\ Kept(p.end, c) \in Seq(Chars) /\ Len(Kept(p.end, c)) = k
        /\ \A i \in 1 .. k : Kept(p.end, c)[i] = p.end + i - 1
    BY <1>1, <2>1, KeptFacts
  <2>7. /\ y \in Seq(Chars) /\ Len(y) = k + n
        /\ \A i \in 1 .. k : y[i] = Kept(p.end, c)[i]
        /\ \A i \in 1 .. n : y[k + i] = X[i]
        /\ \A i \in 1 .. k + n : i \in 1 .. k \/ \E j \in 1 .. n : i = k + j
    <3>1. y \in Seq(Chars) /\ Joined(y, Kept(p.end, c), X, k, n)
      BY <1>2, <2>6, ConcatFacts
    <3> HIDE DEF y
    <3> QED BY <3>1 DEF Joined
  <2> HIDE DEF y
  <2>8. ASSUME NEW i \in 1 .. k + n PROVE x[i] = y[i]
    <3>1. p.end + i \in 1 .. c + n /\ x[i] = body[p.end + i]
      BY <1>1, <2>1, <2>5
    <3>2. CASE i \in 1 .. k
      <4>1. p.end + i \in 1 .. c
        BY <1>1, <2>1, <3>2
      <4>2. body[p.end + i] = p.end + i - 1
        <5>1. PICK j \in 1 .. c : j = p.end + i
          BY <4>1
        <5>2. body[j] = j - 1
          BY <1>3, <1>4
        <5> QED BY <1>1, <5>1, <5>2
      <4> QED BY <2>6, <2>7, <3>1, <3>2, <4>2
    <3>3. ASSUME NEW j \in 1 .. n, i = k + j PROVE x[i] = y[i]
      <4>1. p.end + i = c + j
        <5>1. p.end + k = c /\ j \in Int
          BY <1>1, <2>1
        <5> QED BY <1>1, <3>3, <5>1
      <4>2. body[p.end + i] = X[j] /\ y[i] = X[j]
        BY <1>4, <2>7, <3>3, <4>1
      <4> QED BY <3>1, <4>2
    <3> QED BY <2>7, <3>2, <3>3
  <2>9. x = y
    BY <2>3, <2>4, <2>7, <2>8, SeqEqual
  <2> QED BY <1>4, <2>9 DEF x, y
<1> QED BY <1>5, <1>6, <1>7 DEF body

(***************************************************************************)
(* The pieces of the text that is wanted.  Spans that are apart leave the  *)
(* offsets between them as they were.                                      *)
(***************************************************************************)
AllApart(spans, length) ==
  /\ \A p \in spans : p \in Findings /\ p.start <= p.end /\ p.end <= length
  /\ \A p, q \in spans : p = q \/ AreApart(p, q)

Upto(o, length) == IF o > length THEN length ELSE o

LEMMA BarePiece ==
  ASSUME NEW length \in Nat, NEW spans, AllApart(spans, length), NEW o \in 0 .. length,
         \A p \in spans : p.start # o
  PROVE  PieceAt(spans, length, o)
           = IF o = length \/ \E p \in spans : p.start <= o /\ o < p.end THEN <<>> ELSE <<o>>
<1> DEFINE rest == IF o = length \/ \E p \in spans : p.start <= o /\ o < p.end THEN <<>> ELSE <<o>>
<1>1. {p \in spans : p.start = o} = {}
  OBVIOUS
<1>2. PieceAt(spans, length, o) = <<>> \o rest
  BY <1>1 DEF PieceAt
<1>3. rest \in Seq(Nat)
  OBVIOUS
<1> HIDE DEF rest
<1>4. <<>> \o rest = rest
  BY <1>3, ConcatEmptySeq
<1> QED BY <1>2, <1>4 DEF rest

LEMMA MarkedPiece ==
  ASSUME NEW length \in Nat, NEW spans, AllApart(spans, length), NEW p \in spans
  PROVE  PieceAt(spans, length, p.start)
           = Placeholder(p.category)
               \o (IF p.start = length \/ p.start < p.end THEN <<>> ELSE <<p.start>>)
<1> DEFINE starts == {q \in spans : q.start = p.start}
           inside == \E q \in spans : q.start <= p.start /\ p.start < q.end
<1>1. /\ p \in Findings /\ p.start \in Nat /\ p.end \in Nat /\ p.start <= p.end
      /\ \A q \in spans : q \in Findings /\ q.start \in Nat /\ q.end \in Nat /\ q.start <= q.end
      /\ \A q \in spans : q = p \/ AreApart(p, q)
  BY DEF AllApart, Findings
<1>2. starts = {p}
  BY <1>1 DEF AreApart
<1>3. (CHOOSE q \in starts : TRUE) = p /\ starts # {}
  BY <1>2
<1>4. inside <=> p.start < p.end
  <2>1. ASSUME p.start < p.end PROVE inside
    BY <1>1, <2>1
  <2>2. ASSUME NEW q \in spans, q.start <= p.start, p.start < q.end PROVE p.start < p.end
    <3>1. CASE q = p
      BY <2>2, <3>1
    <3>2. CASE q # p
      BY <1>1, <2>2, <3>2 DEF AreApart
    <3> QED BY <3>1, <3>2
  <2> QED BY <2>1, <2>2
<1>5. PieceAt(spans, length, p.start)
        = (IF starts = {} THEN <<>> ELSE Placeholder((CHOOSE q \in starts : TRUE).category))
            \o (IF p.start = length \/ inside THEN <<>> ELSE <<p.start>>)
  BY DEF PieceAt
<1> HIDE DEF starts, inside
<1> QED BY <1>3, <1>4, <1>5

(***************************************************************************)
(* What is left of the text from e up to o, and the next offset.           *)
(***************************************************************************)
KeptFrom(e, o, length) == IF Upto(o, length) < e THEN <<>> ELSE Kept(e, Upto(o, length))
NextKept(e, o, length) == IF o = length \/ o < e THEN <<>> ELSE <<o>>

LEMMA KeptNothing ==
  ASSUME NEW a \in Nat
  PROVE  Kept(a, a) = <<>>
<1>1. Kept(a, a) \in Seq(Chars) /\ Len(Kept(a, a)) = 0
  <2>1. Kept(a, a) \in Seq(Chars) /\ Len(Kept(a, a)) = a - a
    BY KeptFacts
  <2> QED BY <2>1
<1> QED BY <1>1, EmptySeq

LEMMA KeptFromFacts ==
  ASSUME NEW length \in Nat, NEW e \in Nat, e <= length, NEW o \in 0 .. length
  PROVE  /\ KeptFrom(e, o, length) \in Seq(Chars) /\ NextKept(e, o, length) \in Seq(Chars)
         /\ KeptFrom(e, o, length) \o NextKept(e, o, length) = KeptFrom(e, o + 1, length)
<1>1. o \in Nat /\ o <= length /\ Upto(o, length) = o
  BY DEF Upto
<1>2. KeptFrom(e, o, length) \in Seq(Chars)
  <2>1. CASE o < e
    <3>1. <<>> \in Seq(Chars)
      BY EmptySeq
    <3> QED BY <1>1, <2>1, <3>1 DEF KeptFrom
  <2>2. CASE ~(o < e)
    <3>1. e <= o
      BY <1>1, <2>2
    <3>2. Kept(e, o) \in Seq(Chars)
      BY <1>1, <3>1, KeptFacts
    <3> QED BY <1>1, <2>2, <3>2 DEF KeptFrom
  <2> QED BY <2>1, <2>2
<1>3. NextKept(e, o, length) \in Seq(Chars)
  <2>1. o \in Chars
    BY <1>1 DEF Chars
  <2>2. <<o>> \in Seq(Chars) /\ <<>> \in Seq(Chars)
    BY <2>1
  <2> QED BY <2>2 DEF NextKept
<1>4. KeptFrom(e, o, length) \o NextKept(e, o, length) = KeptFrom(e, o + 1, length)
  <2>1. CASE o < e
    <3>1. Upto(o + 1, length) = o + 1 /\ (o + 1 < e \/ o + 1 = e) /\ ~(e < e)
      BY <1>1, <2>1 DEF Upto
    <3>2. KeptFrom(e, o + 1, length) = <<>>
      <4>1. CASE o + 1 < e
        BY <3>1, <4>1 DEF KeptFrom
      <4>2. CASE o + 1 = e
        BY <3>1, <4>2, KeptNothing DEF KeptFrom
      <4> QED BY <3>1, <4>1, <4>2
    <3>3. NextKept(e, o, length) = <<>> /\ KeptFrom(e, o, length) = <<>>
      BY <1>1, <2>1 DEF NextKept, KeptFrom
    <3> QED BY <1>2, <3>2, <3>3, ConcatEmptySeq
  <2>2. CASE ~(o < e) /\ o = length
    <3>1. Upto(o + 1, length) = o
      BY <1>1, <2>2 DEF Upto
    <3>2. NextKept(e, o, length) = <<>> /\ KeptFrom(e, o + 1, length) = KeptFrom(e, o, length)
      BY <1>1, <2>2, <3>1 DEF NextKept, KeptFrom
    <3> QED BY <1>2, <3>2, ConcatEmptySeq
  <2>3. CASE ~(o < e) /\ o # length
    <3>1. Upto(o + 1, length) = o + 1 /\ e <= o /\ ~(o + 1 < e)
      BY <1>1, <2>3 DEF Upto
    <3>2. Kept(e, o) \o <<o>> = Kept(e, o + 1)
      BY <1>1, <3>1, KeptGrows
    <3> QED BY <1>1, <2>3, <3>1, <3>2 DEF NextKept, KeptFrom
  <2> QED BY <2>1, <2>2, <2>3
<1> QED BY <1>2, <1>3, <1>4

(***************************************************************************)
(* What is added between b, with no span behind it, and the span p before. *)
(***************************************************************************)
LastBefore(p, b, spans) ==
  /\ p \in spans /\ p.start < b /\ p.end <= b
  /\ \A q \in spans : q = p \/ q.start >= b \/ (q.start < p.start /\ q.end <= p.start)

Pieces(h, spans, length) ==
  h[0] = <<>> /\ \A k \in 1 .. length + 1 : h[k] = h[k - 1] \o PieceAt(spans, length, k - 1)

LEMMA OnePiece ==
  ASSUME NEW length \in Nat, NEW spans, NEW h, Pieces(h, spans, length), NEW o \in 0 .. length
  PROVE  h[o + 1] = h[o] \o PieceAt(spans, length, o)
<1>1. PICK k \in 1 .. length + 1 : k = o + 1 /\ k - 1 = o
  OBVIOUS
<1>2. h[k] = h[k - 1] \o PieceAt(spans, length, k - 1)
  BY DEF Pieces
<1> QED BY <1>1, <1>2

LEMMA CharsJoin ==
  \A s, t \in Seq(Chars) : s \o t \in Seq(Chars)
<1> SUFFICES ASSUME NEW s \in Seq(Chars), NEW t \in Seq(Chars) PROVE s \o t \in Seq(Chars)
  OBVIOUS
<1> QED BY ConcatFacts

Associates(s, t, u) == (s \o t) \o u = s \o (t \o u)

LEMMA CharsAssociate ==
  ASSUME NEW s \in Seq(Chars), NEW t \in Seq(Chars), NEW u \in Seq(Chars)
  PROVE  Associates(s, t, u)
<1> DEFINE S == Chars
<1>1. s \in Seq(S) /\ t \in Seq(S) /\ u \in Seq(S)
  OBVIOUS
<1> HIDE DEF S
<1>2. (s \o t) \o u = s \o (t \o u)
  BY <1>1, ConcatAssociative
<1> QED BY <1>2 DEF Associates

Regrouped(s, t, u, v) ==
  (s \o t) \o (u \o v) = s \o (t \o (u \o v)) /\ (s \o (t \o u)) \o v = s \o (t \o (u \o v))

LEMMA Regroups ==
  ASSUME NEW s \in Seq(Chars), NEW t \in Seq(Chars), NEW u \in Seq(Chars), NEW v \in Seq(Chars)
  PROVE  Regrouped(s, t, u, v)
<1>1. u \o v \in Seq(Chars) /\ t \o u \in Seq(Chars)
  BY CharsJoin
<1>2. Associates(s, t, u \o v) /\ Associates(s, t \o u, v) /\ Associates(t, u, v)
  BY <1>1, CharsAssociate
<1> QED BY <1>2 DEF Regrouped, Associates

SplicedIn(x, y, s, r, t, u, v) == x = (s \o t) \o (u \o v) /\ y = (r \o (t \o u)) \o v
SameBehind(x, y, s, r) == \E z \in Seq(Chars) : x = s \o z /\ y = r \o z

LEMMA JoinedBehind ==
  ASSUME NEW s \in Seq(Chars), NEW r \in Seq(Chars), NEW t \in Seq(Chars), NEW u \in Seq(Chars),
         NEW v \in Seq(Chars), NEW x, NEW y, SplicedIn(x, y, s, r, t, u, v)
  PROVE  SameBehind(x, y, s, r)
<1>1. u \o v \in Seq(Chars) /\ t \o (u \o v) \in Seq(Chars)
  BY CharsJoin
<1>2. Regrouped(s, t, u, v) /\ Regrouped(r, t, u, v)
  BY Regroups
<1> QED BY <1>1, <1>2 DEF SplicedIn, SameBehind, Regrouped

LEMMA PiecesBetween ==
  ASSUME NEW length \in Nat, NEW spans, AllApart(spans, length),
         NEW b \in 1 .. length + 1, NEW p, LastBefore(p, b, spans),
         NEW h, Pieces(h, spans, length), h[p.start] \in Seq(Chars)
  PROVE  h[b] = h[p.start] \o (Placeholder(p.category) \o Kept(p.end, Upto(b, length)))
<1>1. /\ p \in Findings /\ p.start \in Nat /\ p.end \in Nat /\ p.start <= p.end
      /\ p.end <= length /\ p.start < b /\ p.end <= b /\ p \in spans
      /\ p.category \in DOMAIN Decides /\ b \in Nat
      /\ \A q \in spans : q \in Findings /\ q.start \in Nat /\ q.end \in Nat /\ q.start <= q.end
  BY DEF AllApart, LastBefore, Findings
<1>2. PICK a \in Nat : a = p.start
  BY <1>1
<1>3. PICK e \in Nat : e = p.end
  BY <1>1
<1>4. PICK marks \in Seq(Chars) : marks = Placeholder(p.category)
  BY <1>1, PlaceholderFacts DEF Chars
<1>5. PICK A \in Seq(Chars) : A = h[a]
  BY <1>2
<1>6. a <= e /\ e <= length /\ a < b /\ e <= b /\ a \in 0 .. length
  BY <1>1, <1>2, <1>3
<1>7. ASSUME NEW o \in 0 .. length PROVE KeptFrom(e, o, length) \in Seq(Chars)
  BY <1>6, KeptFromFacts
<1>8. h[a + 1] = A \o (marks \o KeptFrom(e, a + 1, length))
  <2>1. h[a + 1] = A \o PieceAt(spans, length, a)
    BY <1>5, <1>6, OnePiece
  <2>2. PieceAt(spans, length, a) = marks \o NextKept(e, a, length)
    BY <1>1, <1>2, <1>3, <1>4, MarkedPiece DEF NextKept
  <2>3. KeptFrom(e, a, length) = <<>>
    <3>1. Upto(a, length) = a /\ (a < e \/ a = e) /\ ~(e < e)
      BY <1>6 DEF Upto
    <3>2. CASE a < e
      BY <3>1, <3>2 DEF KeptFrom
    <3>3. CASE a = e
      BY <3>1, <3>3, KeptNothing DEF KeptFrom
    <3> QED BY <3>1, <3>2, <3>3
  <2>4. NextKept(e, a, length) = KeptFrom(e, a + 1, length)
    <3>1. /\ NextKept(e, a, length) \in Seq(Chars)
          /\ KeptFrom(e, a, length) \o NextKept(e, a, length) = KeptFrom(e, a + 1, length)
      BY <1>6, KeptFromFacts
    <3>2. <<>> \o NextKept(e, a, length) = NextKept(e, a, length)
      BY <3>1, ConcatEmptySeq
    <3> QED BY <2>3, <3>1, <3>2
  <2> QED BY <2>1, <2>2, <2>4
<1>9. ASSUME NEW o \in 0 .. length, a < o, o < b, h[o] = A \o (marks \o KeptFrom(e, o, length))
      PROVE  h[o + 1] = A \o (marks \o KeptFrom(e, o + 1, length))
  <2>1. h[o + 1] = h[o] \o PieceAt(spans, length, o)
    BY OnePiece
  <2>2. ASSUME NEW q \in spans PROVE q.start # o
    <3>1. q = p \/ q.start >= b \/ q.start < p.start
      BY DEF LastBefore
    <3>2. q.start \in Nat /\ a < o /\ o < b
      BY <1>1, <1>9
    <3>3. q = p => q.start = a
      BY <1>2
    <3> QED BY <1>1, <1>2, <3>1, <3>2, <3>3
  <2>3. (\E q \in spans : q.start <= o /\ o < q.end) <=> o < e
    <3>1. ASSUME o < e PROVE \E q \in spans : q.start <= o /\ o < q.end
      BY <1>1, <1>2, <1>3, <1>9, <3>1
    <3>2. ASSUME NEW q \in spans, q.start <= o, o < q.end PROVE o < e
      <4>1. q = p \/ q.start >= b \/ (q.start < a /\ q.end <= a)
        BY <1>2 DEF LastBefore
      <4>2. ~(q.start >= b) /\ ~(q.end <= a)
        BY <1>1, <1>9, <3>2
      <4> QED BY <1>3, <3>2, <4>1, <4>2
    <3> QED BY <3>1, <3>2
  <2>4. PieceAt(spans, length, o) = NextKept(e, o, length)
    BY <2>2, <2>3, BarePiece DEF NextKept
  <2>5. PICK x \in Seq(Chars) : x = KeptFrom(e, o, length)
    BY <1>7
  <2>6. PICK y \in Seq(Chars) : y = NextKept(e, o, length)
    BY <1>6, KeptFromFacts
  <2>7. x \o y = KeptFrom(e, o + 1, length)
    BY <1>6, <2>5, <2>6, KeptFromFacts
  <2>8. (A \o (marks \o x)) \o y = A \o (marks \o (x \o y))
    <3>1. marks \o x \in Seq(Chars)
      BY CharsJoin
    <3>2. Associates(marks, x, y) /\ Associates(A, marks \o x, y)
      BY <3>1, CharsAssociate
    <3> QED BY <3>2 DEF Associates
  <2> QED BY <1>9, <2>1, <2>4, <2>5, <2>6, <2>7, <2>8
<1>10. PICK n \in Nat : a + 1 + n = b
  <2>1. b - (a + 1) \in Nat /\ a + 1 + (b - (a + 1)) = b
    BY <1>1, <1>6
  <2> QED BY <2>1
<1> DEFINE P == {j \in 0 .. n : h[a + 1 + j] = A \o (marks \o KeptFrom(e, a + 1 + j, length))}
<1>11. 0 \in P
  <2>1. a + 1 + 0 = a + 1 /\ 0 \in 0 .. n
    OBVIOUS
  <2> QED BY <1>8, <2>1
<1>12. ASSUME NEW j \in 1 .. n, j - 1 \in P PROVE j \in P
  <2>1. PICK o \in 0 .. length : o = a + j
    BY <1>6, <1>10
  <2>2. a < o /\ o < b /\ a + 1 + (j - 1) = o /\ a + 1 + j = o + 1 /\ j \in 0 .. n
    BY <1>10, <2>1
  <2>3. h[o] = A \o (marks \o KeptFrom(e, o, length))
    BY <1>12, <2>2
  <2>4. h[o + 1] = A \o (marks \o KeptFrom(e, o + 1, length))
    BY <1>9, <2>2, <2>3
  <2> QED BY <2>2, <2>4
<1>13. n \in P
  <2>1. P \in SUBSET (0 .. n)
    OBVIOUS
  <2> HIDE DEF P
  <2>2. n \in 0 .. n
    OBVIOUS
  <2> QED BY <1>11, <1>12, <2>1, <2>2, UpToInduction
<1>14. h[b] = A \o (marks \o KeptFrom(e, b, length))
  BY <1>10, <1>13
<1>15. KeptFrom(e, b, length) = Kept(e, Upto(b, length))
  <2>1. ~(Upto(b, length) < e)
    BY <1>1, <1>6 DEF Upto
  <2> QED BY <2>1 DEF KeptFrom
<1> QED BY <1>2, <1>3, <1>4, <1>5, <1>14, <1>15

(***************************************************************************)
(* Sorted spans that are apart fall, each before the one that went before. *)
(***************************************************************************)
Fall(t, n, spans) ==
  /\ \A k \in 1 .. n : t[k] \in spans
  /\ \A k, l \in 1 .. n : k < l => t[l].start < t[k].start /\ t[l].end <= t[k].start
  /\ \A q \in spans : \E k \in 1 .. n : q = t[k]

Bound(t, k, length) == IF k = 0 THEN length + 1 ELSE t[k].start

Spaced(s, length) ==
  /\ \A i \in 1 .. Len(s) : s[i].start <= s[i].end /\ s[i].end <= length
  /\ \A i, j \in 1 .. Len(s) : i = j \/ AreApart(s[i], s[j])

LEMMA SortedSpansFall ==
  ASSUME NEW length \in Nat, NEW s \in Seq(Findings), Spaced(s, length)
  PROVE  /\ AllApart({s[i] : i \in 1 .. Len(s)}, length)
         /\ Fall(InOrder(s), Len(s), {s[i] : i \in 1 .. Len(s)})
<1> DEFINE spans == {s[i] : i \in 1 .. Len(s)}
<1>1. PICK n \in Nat : n = Len(s)
  OBVIOUS
<1>2. PICK from : SortedFrom(InOrder(s), s, from)
  BY InOrderSorts
<1>3. PICK t : t = InOrder(s)
  OBVIOUS
<1>4. /\ from \in [1 .. n -> 1 .. n]
      /\ \A k \in 1 .. n : t[k] = s[from[k]]
      /\ \A k, l \in 1 .. n : k < l => t[k].start >= t[l].start /\ from[k] # from[l]
      /\ \A i \in 1 .. n : \E k \in 1 .. n : from[k] = i
  BY <1>1, <1>2, <1>3 DEF SortedFrom
<1>5. \A i \in 1 .. n : /\ s[i] \in Findings /\ s[i].start \in Nat /\ s[i].end \in Nat
                        /\ s[i].start <= s[i].end /\ s[i].end <= length
  <2>1. \A i \in 1 .. n : s[i] \in Findings
    BY <1>1
  <2>2. \A x \in Findings : x.start \in Nat /\ x.end \in Nat
    BY DEF Findings
  <2> QED BY <1>1, <2>1, <2>2 DEF Spaced
<1>6. \A i, j \in 1 .. n : i = j \/ AreApart(s[i], s[j])
  BY <1>1 DEF Spaced
<1>7. \A q \in spans : \E i \in 1 .. n : q = s[i]
  BY <1>1
<1>8. \A i \in 1 .. n : s[i] \in spans
  BY <1>1
<1> HIDE DEF spans
<1>9. AllApart(spans, length)
  BY <1>5, <1>6, <1>7 DEF AllApart
<1>10. ASSUME NEW k \in 1 .. n, NEW l \in 1 .. n, k < l
       PROVE  t[l].start < t[k].start /\ t[l].end <= t[k].start
  <2>1. PICK i \in 1 .. n : i = from[k] /\ t[k] = s[i]
    BY <1>4
  <2>2. PICK j \in 1 .. n : j = from[l] /\ t[l] = s[j]
    BY <1>4
  <2>3. i # j /\ s[i].start >= s[j].start
    BY <1>4, <1>10, <2>1, <2>2
  <2>4. /\ s[i].start # s[j].start
        /\ s[i].end <= s[j].start \/ s[j].end <= s[i].start
    BY <1>6, <2>3 DEF AreApart
  <2>5. s[j].start < s[i].start /\ s[j].end <= s[i].start
    BY <1>5, <2>3, <2>4
  <2> QED BY <2>1, <2>2, <2>5
<1>11. \A k \in 1 .. n : t[k] \in spans
  BY <1>4, <1>8
<1>12. \A q \in spans : \E k \in 1 .. n : q = t[k]
  <2> SUFFICES ASSUME NEW q \in spans PROVE \E k \in 1 .. n : q = t[k]
    OBVIOUS
  <2>1. PICK i \in 1 .. n : q = s[i]
    BY <1>7
  <2>2. PICK k \in 1 .. n : from[k] = i
    BY <1>4
  <2> QED BY <1>4, <2>1, <2>2
<1>13. Fall(t, n, spans)
  BY <1>10, <1>11, <1>12 DEF Fall
<1> QED BY <1>1, <1>3, <1>9, <1>13 DEF spans

LEMMA NextIsLastBefore ==
  ASSUME NEW length \in Nat, NEW n \in Nat, NEW spans, NEW t, AllApart(spans, length),
         Fall(t, n, spans), NEW k \in 1 .. n
  PROVE  /\ Bound(t, k - 1, length) \in 1 .. length + 1 /\ Bound(t, k, length) = t[k].start
         /\ LastBefore(t[k], Bound(t, k - 1, length), spans)
<1>1. PICK p \in spans : p = t[k]
  BY DEF Fall
<1>2. PICK b : b = Bound(t, k - 1, length)
  OBVIOUS
<1>3. \A q \in spans : q.start \in Nat /\ q.end \in Nat /\ q.start <= q.end /\ q.end <= length
  BY DEF AllApart, Findings
<1>4. b \in 1 .. length + 1 /\ p.start < b /\ p.end <= b
      /\ \A l \in 1 .. n : l < k => t[l].start >= b
  <2>1. CASE k = 1
    <3>1. b = length + 1
      BY <1>2, <2>1 DEF Bound
    <3>2. \A l \in 1 .. n : ~(l < k)
      BY <2>1
    <3>3. p.start \in Nat /\ p.end \in Nat /\ p.start <= p.end /\ p.end <= length
      BY <1>3
    <3> QED BY <3>1, <3>2, <3>3
  <2>2. CASE k # 1
    <3>1. PICK j \in 1 .. n : j = k - 1 /\ j < k /\ j # 0
      BY <2>2
    <3>2. b = t[j].start
      BY <1>2, <3>1 DEF Bound
    <3>3. p.start < b /\ p.end <= b
      BY <1>1, <3>1, <3>2 DEF Fall
    <3>4. t[j] \in spans
      BY DEF Fall
    <3>5. b \in Nat /\ b <= length
      BY <1>3, <3>2, <3>4
    <3>6. p.start \in Nat
      BY <1>3
    <3>7. b \in 1 .. length + 1
      BY <3>3, <3>5, <3>6
    <3>8. ASSUME NEW l \in 1 .. n, l < k PROVE t[l].start >= b
      <4>1. l = j \/ l < j
        BY <3>1, <3>8
      <4>2. CASE l = j
        BY <3>2, <3>5, <4>2
      <4>3. CASE l < j
        <5>1. t[j].start < t[l].start /\ t[l] \in spans
          BY <4>3 DEF Fall
        <5>2. t[l].start \in Nat
          BY <1>3, <5>1
        <5> QED BY <3>2, <3>5, <5>1, <5>2
      <4> QED BY <4>1, <4>2, <4>3
    <3> QED BY <3>3, <3>7, <3>8
  <2> QED BY <2>1, <2>2
<1>5. ASSUME NEW q \in spans
      PROVE  q = p \/ q.start >= b \/ (q.start < p.start /\ q.end <= p.start)
  <2>1. PICK l \in 1 .. n : q = t[l]
    BY DEF Fall
  <2>2. l = k \/ l < k \/ k < l
    OBVIOUS
  <2>3. k < l => q.start < p.start /\ q.end <= p.start
    BY <1>1, <2>1 DEF Fall
  <2> QED BY <1>1, <1>4, <2>1, <2>2, <2>3
<1>6. LastBefore(p, b, spans)
  BY <1>4, <1>5 DEF LastBefore
<1>7. Bound(t, k, length) = t[k].start
  BY DEF Bound
<1> QED BY <1>1, <1>2, <1>4, <1>6, <1>7

(***************************************************************************)
(* The wanted text up to each offset, and up to the first span.            *)
(***************************************************************************)
LEMMA PiecesAreChars ==
  ASSUME NEW length \in Nat, NEW spans, AllApart(spans, length),
         NEW h, Pieces(h, spans, length)
  PROVE  \A o \in 0 .. length + 1 : h[o] \in Seq(Chars)
<1>1. ASSUME NEW o \in 0 .. length PROVE PieceAt(spans, length, o) \in Seq(Chars)
  <2>1. o \in Chars
    BY DEF Chars
  <2>2. <<o>> \in Seq(Chars) /\ <<>> \in Seq(Chars)
    BY <2>1
  <2>3. CASE \A p \in spans : p.start # o
    BY <2>2, <2>3, BarePiece
  <2>4. ASSUME NEW p \in spans, p.start = o PROVE PieceAt(spans, length, o) \in Seq(Chars)
    <3>1. Placeholder(p.category) \in Seq(Chars)
      <4>1. p.category \in DOMAIN Decides /\ Mark \in Chars
        BY DEF AllApart, Findings, Chars
      <4> QED BY <4>1, PlaceholderFacts
    <3>2. PieceAt(spans, length, p.start)
            = Placeholder(p.category)
                \o (IF p.start = length \/ p.start < p.end THEN <<>> ELSE <<p.start>>)
      BY MarkedPiece
    <3>3. PICK y \in Seq(Chars) : y = IF p.start = length \/ p.start < p.end THEN <<>> ELSE <<p.start>>
      BY <2>2, <2>4
    <3>4. Placeholder(p.category) \o y \in Seq(Chars)
      BY <3>1, CharsJoin
    <3> QED BY <2>4, <3>2, <3>3, <3>4
  <2> QED BY <2>3, <2>4
<1> DEFINE P == {o \in 0 .. length + 1 : h[o] \in Seq(Chars)}
<1>2. 0 \in P
  <2>1. 0 \in 0 .. length + 1 /\ h[0] \in Seq(Chars)
    BY EmptySeq DEF Pieces
  <2> QED BY <2>1
<1>3. ASSUME NEW k \in 1 .. length + 1, k - 1 \in P PROVE k \in P
  <2>1. PICK o \in 0 .. length : o = k - 1 /\ k = o + 1
    OBVIOUS
  <2>2. h[k] = h[o] \o PieceAt(spans, length, o)
    BY <2>1, OnePiece
  <2>3. PICK x \in Seq(Chars) : x = h[o]
    BY <1>3, <2>1
  <2>4. PICK y \in Seq(Chars) : y = PieceAt(spans, length, o)
    BY <1>1
  <2>5. x \o y \in Seq(Chars)
    BY CharsJoin
  <2>6. h[k] \in Seq(Chars) /\ k \in 0 .. length + 1
    BY <2>2, <2>3, <2>4, <2>5
  <2> QED BY <2>6
<1>4. P \in SUBSET (0 .. length + 1) /\ length + 1 \in Nat
  OBVIOUS
<1> HIDE DEF P
<1>5. \A k \in 0 .. length + 1 : k \in P
  BY <1>2, <1>3, <1>4, UpToInduction
<1> QED BY <1>5 DEF P

LEMMA PiecesBeforeTheFirst ==
  ASSUME NEW length \in Nat, NEW spans, AllApart(spans, length),
         NEW h, Pieces(h, spans, length),
         NEW b \in 0 .. length + 1, \A p \in spans : p.start >= b
  PROVE  h[b] = Kept(0, Upto(b, length))
<1> DEFINE P == {o \in 0 .. b : h[o] = KeptFrom(0, o, length)}
<1>1. 0 \in P
  <2>1. Upto(0, length) = 0 /\ ~(0 < 0)
    BY DEF Upto
  <2>2. KeptFrom(0, 0, length) = <<>>
    BY <2>1, KeptNothing DEF KeptFrom
  <2>3. h[0] = <<>> /\ 0 \in 0 .. b
    BY DEF Pieces
  <2> QED BY <2>2, <2>3
<1>2. ASSUME NEW k \in 1 .. b, k - 1 \in P PROVE k \in P
  <2>1. PICK o \in 0 .. length : o = k - 1 /\ k = o + 1 /\ o < b
    OBVIOUS
  <2>2. h[k] = h[o] \o PieceAt(spans, length, o) /\ h[o] = KeptFrom(0, o, length)
    BY <1>2, <2>1, OnePiece
  <2>3. \A p \in spans : p.start \in Nat
    BY DEF AllApart, Findings
  <2>4. \A p \in spans : p.start # o /\ ~(p.start <= o)
    BY <2>1, <2>3
  <2>5. ~(o < 0)
    OBVIOUS
  <2>6. PieceAt(spans, length, o) = NextKept(0, o, length)
    BY <2>4, <2>5, BarePiece DEF NextKept
  <2>7. KeptFrom(0, o, length) \o NextKept(0, o, length) = KeptFrom(0, o + 1, length)
    <3>1. 0 \in Nat /\ 0 <= length
      OBVIOUS
    <3> QED BY <3>1, KeptFromFacts
  <2>8. k \in 0 .. b
    OBVIOUS
  <2> QED BY <2>1, <2>2, <2>6, <2>7, <2>8
<1>3. P \in SUBSET (0 .. b) /\ b \in Nat /\ b \in 0 .. b
  OBVIOUS
<1> HIDE DEF P
<1>4. b \in P
  BY <1>1, <1>2, <1>3, UpToInduction
<1>5. h[b] = KeptFrom(0, b, length)
  BY <1>4 DEF P
<1>6. ~(Upto(b, length) < 0)
  BY DEF Upto
<1> QED BY <1>5, <1>6 DEF KeptFrom

(***************************************************************************)
(* Replacing the spans of a text one by one, the last first, puts each     *)
(* placeholder in the place of its span and leaves the rest.               *)
(***************************************************************************)
SplicedUpTo(body, whole, h, b, length) ==
  \E X \in Seq(Chars) : body = Kept(0, Upto(b, length)) \o X /\ whole = h[b] \o X

LEMMA OneMoreSpliced ==
  ASSUME NEW length \in Nat, NEW spans, AllApart(spans, length),
         NEW h, Pieces(h, spans, length), NEW b \in 1 .. length + 1,
         NEW p, LastBefore(p, b, spans), NEW body, NEW whole, SplicedUpTo(body, whole, h, b, length)
  PROVE  SplicedUpTo(Replaced(body, p), whole, h, p.start, length)
<1>1. PICK X \in Seq(Chars) : body = Kept(0, Upto(b, length)) \o X /\ whole = h[b] \o X
  BY DEF SplicedUpTo
<1>2. /\ p \in Findings /\ p.start \in Nat /\ p.end \in Nat /\ p.start <= p.end
      /\ p.end <= length /\ p.end <= b /\ p.category \in DOMAIN Decides /\ Mark \in Chars
  BY DEF AllApart, LastBefore, Findings, Chars
<1>3. PICK c \in Nat : c = Upto(b, length) /\ p.end <= c
  BY <1>2 DEF Upto
<1>4. PICK marks \in Seq(Chars) : marks = Placeholder(p.category)
  BY <1>2, PlaceholderFacts
<1>5. PICK K \in Seq(Chars) : K = Kept(p.end, c)
  BY <1>2, <1>3, KeptFacts
<1>6. PICK A \in Seq(Chars) : A = Kept(0, p.start)
  BY <1>2, KeptFromTheStart
<1>7. PICK H \in Seq(Chars) : H = h[p.start]
  <2>1. p.start \in 0 .. length + 1
    BY <1>2
  <2> QED BY <2>1, PiecesAreChars
<1>8. Replaced(body, p) = (A \o marks) \o (K \o X)
  BY <1>1, <1>2, <1>3, <1>4, <1>5, <1>6, ReplacedKept
<1>9. whole = (H \o (marks \o K)) \o X
  <2>1. h[b] = h[p.start] \o (Placeholder(p.category) \o Kept(p.end, Upto(b, length)))
    BY <1>7, PiecesBetween
  <2> QED BY <1>1, <1>3, <1>4, <1>5, <1>7, <2>1
<1>10. SameBehind(Replaced(body, p), whole, A, H)
  <2>1. SplicedIn(Replaced(body, p), whole, A, H, marks, K, X)
    BY <1>8, <1>9 DEF SplicedIn
  <2> QED BY <2>1, JoinedBehind
<1>11. Upto(p.start, length) = p.start
  BY <1>2 DEF Upto
<1> QED BY <1>6, <1>7, <1>10, <1>11 DEF SplicedUpTo, SameBehind

LEMMA RedactedAsWanted ==
  ASSUME NEW f \in TextFields, NEW s \in Seq(Findings), Spaced(s, TextLength[f])
  PROVE  Redacted(f, s) = Wanted({s[i] : i \in 1 .. Len(s)}, TextLength[f])
<1>1. PICK length \in Nat : length = TextLength[f]
  BY FirewallAssumption
<1>2. PICK n \in Nat : n = Len(s)
  OBVIOUS
<1>3. PICK spans : spans = {s[i] : i \in 1 .. Len(s)}
  OBVIOUS
<1>4. PICK t : t = InOrder(s)
  OBVIOUS
<1>5. AllApart(spans, length) /\ Fall(t, n, spans)
  BY <1>1, <1>2, <1>3, <1>4, SortedSpansFall
<1>6. PICK after : /\ Redacted(f, s) = after[n] /\ after[0] = Original[f]
                   /\ \A k \in 1 .. n : after[k] = Replaced(after[k - 1], t[k])
  BY <1>2, <1>4, RedactedUnfolds
<1>7. PICK h : Wanted(spans, length) = h[length + 1] /\ Pieces(h, spans, length)
  BY WantedUnfolds DEF Pieces
<1> DEFINE P == {k \in 0 .. n : SplicedUpTo(after[k], h[length + 1], h, Bound(t, k, length), length)}
<1>8. 0 \in P
  <2>1. Upto(length + 1, length) = length /\ Bound(t, 0, length) = length + 1
    BY DEF Upto, Bound
  <2>2. Original[f] = Kept(0, length)
    <3>1. Original[f] = [i \in 1 .. length |-> i - 1]
      BY <1>1 DEF Original
    <3>2. Kept(0, length) = [i \in 1 .. length |-> i - 1]
      BY DEF Kept
    <3> QED BY <3>1, <3>2
  <2>3. Kept(0, length) \in Seq(Chars) /\ h[length + 1] \in Seq(Chars) /\ <<>> \in Seq(Chars)
    BY <1>5, <1>7, KeptFromTheStart, PiecesAreChars, EmptySeq
  <2>4. Kept(0, length) \o <<>> = Kept(0, length) /\ h[length + 1] \o <<>> = h[length + 1]
    BY <2>3, ConcatEmptySeq
  <2>5. SplicedUpTo(after[0], h[length + 1], h, Bound(t, 0, length), length)
    BY <1>6, <2>1, <2>2, <2>3, <2>4 DEF SplicedUpTo
  <2> QED BY <2>5
<1>9. ASSUME NEW k \in 1 .. n, k - 1 \in P PROVE k \in P
  <2>1. SplicedUpTo(after[k - 1], h[length + 1], h, Bound(t, k - 1, length), length)
    BY <1>9
  <2>2. /\ Bound(t, k - 1, length) \in 1 .. length + 1 /\ Bound(t, k, length) = t[k].start
        /\ LastBefore(t[k], Bound(t, k - 1, length), spans)
    BY <1>5, NextIsLastBefore
  <2>3. SplicedUpTo(Replaced(after[k - 1], t[k]), h[length + 1], h, t[k].start, length)
    BY <1>5, <1>7, <2>1, <2>2, OneMoreSpliced
  <2>4. after[k] = Replaced(after[k - 1], t[k]) /\ k \in 0 .. n
    BY <1>6
  <2> QED BY <2>2, <2>3, <2>4
<1>10. n \in P
  <2>1. P \in SUBSET (0 .. n) /\ n \in 0 .. n
    OBVIOUS
  <2> HIDE DEF P
  <2> QED BY <1>8, <1>9, <2>1, UpToInduction
<1>11. PICK b : b = Bound(t, n, length)
  OBVIOUS
<1>12. PICK X \in Seq(Chars) : after[n] = Kept(0, Upto(b, length)) \o X /\ h[length + 1] = h[b] \o X
  BY <1>10, <1>11 DEF SplicedUpTo
<1>13. b \in 0 .. length + 1 /\ \A p \in spans : p.start >= b
  <2>1. CASE n = 0
    <3>1. b = length + 1 /\ 1 .. n = {}
      BY <1>11, <2>1 DEF Bound
    <3>2. spans = {}
      BY <1>5, <3>1 DEF Fall
    <3> QED BY <3>1, <3>2
  <2>2. CASE n # 0
    <3>1. b = t[n].start /\ n \in 1 .. n
      BY <1>11, <2>2 DEF Bound
    <3>2. \A q \in spans : q.start \in Nat /\ q.end \in Nat /\ q.start <= q.end /\ q.end <= length
      BY <1>5 DEF AllApart, Findings
    <3>3. t[n] \in spans
      BY <1>5, <3>1 DEF Fall
    <3>4. ASSUME NEW q \in spans PROVE q.start >= b
      <4>1. PICK l \in 1 .. n : q = t[l]
        BY <1>5 DEF Fall
      <4>2. l = n \/ l < n
        OBVIOUS
      <4>3. l < n => b < q.start
        BY <1>5, <3>1, <4>1 DEF Fall
      <4>4. b \in Nat /\ q.start \in Nat
        BY <3>1, <3>2, <3>3
      <4> QED BY <3>1, <4>1, <4>2, <4>3, <4>4
    <3> QED BY <3>1, <3>2, <3>3, <3>4
  <2> QED BY <2>1, <2>2
<1>14. h[b] = Kept(0, Upto(b, length))
  BY <1>5, <1>7, <1>13, PiecesBeforeTheFirst
<1> QED BY <1>1, <1>3, <1>6, <1>7, <1>12, <1>14

(***************************************************************************)
(* The detections of a field are what its scans returned, and no two of    *)
(* them are one finding.                                                   *)
(***************************************************************************)
From(f, d) == Returned(<<f, d>>)

Fits(s, f) == \A i \in 1 .. Len(s) : s[i].start <= s[i].end /\ s[i].end <= TextLength[f]

AreFrom(s, f, d) ==
  /\ \A i \in 1 .. Len(s) : \E k \in 1 .. d : \E m \in 1 .. Len(From(f, k)) : s[i] = From(f, k)[m]
  /\ \A k \in 1 .. d : \A m \in 1 .. Len(From(f, k)) : \E i \in 1 .. Len(s) : s[i] = From(f, k)[m]

PairsApart(s) == \A i, j \in 1 .. Len(s) : i = j \/ AreApart(s[i], s[j])

ScansApart(f, n) ==
  \A k, l \in 1 .. n : \A m \in 1 .. Len(From(f, k)) : \A o \in 1 .. Len(From(f, l)) :
    (k = l /\ m = o) \/ AreApart(From(f, k)[m], From(f, l)[o])

ScansEnded == DOMAIN results = Tasks /\ \A t \in Tasks : results[t] \in ResultsIn(t[1]) \cup {Raised}

LEMMA ReturnedFits ==
  ASSUME NEW f, NEW t, results[t] \in ResultsIn(f) \cup {Raised}
  PROVE  Returned(t) \in Seq(Findings) /\ Fits(Returned(t), f)
<1>1. CASE results[t] = Raised
  <2>1. Returned(t) = <<>>
    BY <1>1 DEF Returned
  <2>2. Returned(t) \in Seq(Findings) /\ Len(Returned(t)) = 0
    BY <2>1
  <2> QED BY <2>2 DEF Fits
<1>2. CASE results[t] # Raised
  <2>1. Returned(t) = results[t] /\ results[t] \in ResultsIn(f)
    BY <1>2 DEF Returned
  <2>2. PICK r \in Results : r = Returned(t) /\ \A i \in DOMAIN r : r[i].end <= TextLength[f]
    BY <2>1 DEF ResultsIn
  <2>3. /\ r \in Seq(Findings)
        /\ \A i \in DOMAIN r : r[i].start <= r[i].end
    BY FirewallAssumption
  <2>4. DOMAIN r = 1 .. Len(r)
    BY <2>3
  <2> QED BY <2>2, <2>3, <2>4 DEF Fits
<1> QED BY <1>1, <1>2

LEMMA InFieldIsFrom ==
  ASSUME NEW f \in texts, texts \subseteq TextFields, ScansEnded
  PROVE  /\ InField(f) \in Seq(Findings) /\ Fits(InField(f), f)
         /\ AreFrom(InField(f), f, Cardinality(Detectors))
         /\ ScansApart(f, Cardinality(Detectors)) => PairsApart(InField(f))
<1>1. PICK n \in Nat : n = Cardinality(Detectors) /\ Detectors = 1 .. n
  BY FirewallAssumption, FS_CardinalityType
<1>2. PICK h : /\ InField(f) = h[n] /\ h[0] = <<>>
               /\ \A k \in 1 .. n : h[k] = h[k - 1] \o From(f, k)
  BY <1>1, InFieldUnfolds DEF From
<1>3. \A k \in 1 .. n : From(f, k) \in Seq(Findings) /\ Fits(From(f, k), f)
  <2> SUFFICES ASSUME NEW k \in 1 .. n PROVE From(f, k) \in Seq(Findings) /\ Fits(From(f, k), f)
    OBVIOUS
  <2>1. <<f, k>> \in Tasks
    BY <1>1 DEF Tasks
  <2>2. f \in TextFields /\ results[<<f, k>>] \in ResultsIn(f) \cup {Raised}
    BY <2>1 DEF ScansEnded
  <2> QED BY <2>2, ReturnedFits DEF From
<1> DEFINE Good(s, d) == /\ s \in Seq(Findings) /\ Fits(s, f) /\ AreFrom(s, f, d)
                         /\ ScansApart(f, n) => PairsApart(s)
           P == {k \in 0 .. n : Good(h[k], k)}
<1>4. 0 \in P
  <2>1. h[0] \in Seq(Findings) /\ Len(h[0]) = 0 /\ 0 \in 0 .. n /\ 1 .. 0 = {}
    BY <1>2
  <2>2. Good(h[0], 0)
    BY <2>1 DEF Fits, AreFrom, PairsApart
  <2> QED BY <2>1, <2>2
<1>5. ASSUME NEW k \in 1 .. n, k - 1 \in P PROVE k \in P
  <2>1. PICK s \in Seq(Findings) : s = h[k - 1] /\ Good(s, k - 1)
    BY <1>5
  <2>2. PICK r \in Seq(Findings) : r = From(f, k) /\ Fits(r, f)
    BY <1>3
  <2>3. PICK v : v = s \o r /\ v = h[k]
    BY <1>2, <2>1, <2>2
  <2>4. PICK a \in Nat : a = Len(s)
    OBVIOUS
  <2>5. PICK b \in Nat : b = Len(r)
    OBVIOUS
  <2>6. v \in Seq(Findings) /\ Joined(v, s, r, a, b)
    BY <2>3, <2>4, <2>5, ConcatFacts
  <2>7. /\ Len(v) = a + b
        /\ \A i \in 1 .. a : v[i] = s[i] /\ i \in 1 .. a + b
        /\ \A j \in 1 .. b : v[a + j] = r[j] /\ a + j \in 1 .. a + b
        /\ \A i \in 1 .. a + b : i \in 1 .. a \/ \E j \in 1 .. b : i = a + j
    BY <2>6 DEF Joined
  <2>8. Fits(v, f)
    <3>1. \A i \in 1 .. a : s[i].start <= s[i].end /\ s[i].end <= TextLength[f]
      BY <2>1, <2>4 DEF Fits
    <3>2. \A i \in 1 .. b : r[i].start <= r[i].end /\ r[i].end <= TextLength[f]
      BY <2>2, <2>5 DEF Fits
    <3>3. ASSUME NEW i \in 1 .. a + b PROVE v[i].start <= v[i].end /\ v[i].end <= TextLength[f]
      BY <2>7, <3>1, <3>2
    <3> QED BY <2>7, <3>3 DEF Fits
  <2>9. \A l \in 1 .. k : l = k \/ l \in 1 .. k - 1
    OBVIOUS
  <2>10. k \in 1 .. k /\ \A l \in 1 .. k - 1 : l \in 1 .. k /\ l \in 1 .. n /\ l # k
    OBVIOUS
  <2>11. AreFrom(v, f, k)
    <3>1. ASSUME NEW i \in 1 .. a + b
          PROVE  \E l \in 1 .. k : \E m \in 1 .. Len(From(f, l)) : v[i] = From(f, l)[m]
      <4>1. CASE i \in 1 .. a
        <5>1. PICK l \in 1 .. k - 1 : \E m \in 1 .. Len(From(f, l)) : s[i] = From(f, l)[m]
          BY <2>1, <2>4, <4>1 DEF AreFrom
        <5> QED BY <2>7, <2>10, <4>1, <5>1
      <4>2. ASSUME NEW j \in 1 .. b, i = a + j
            PROVE  \E l \in 1 .. k : \E m \in 1 .. Len(From(f, l)) : v[i] = From(f, l)[m]
        <5>1. v[i] = From(f, k)[j] /\ j \in 1 .. Len(From(f, k))
          BY <2>2, <2>5, <2>7, <4>2
        <5> QED BY <2>10, <5>1
      <4> QED BY <2>7, <4>1, <4>2
    <3>2. ASSUME NEW l \in 1 .. k, NEW m \in 1 .. Len(From(f, l))
          PROVE  \E i \in 1 .. a + b : v[i] = From(f, l)[m]
      <4>1. CASE l = k
        <5>1. m \in 1 .. b /\ From(f, l)[m] = r[m]
          BY <2>2, <2>5, <4>1
        <5> QED BY <2>7, <5>1
      <4>2. CASE l \in 1 .. k - 1
        <5>1. PICK i \in 1 .. a : s[i] = From(f, l)[m]
          BY <2>1, <2>4, <4>2 DEF AreFrom
        <5> QED BY <2>7, <5>1
      <4> QED BY <2>9, <4>1, <4>2
    <3>3. 1 .. Len(v) = 1 .. a + b
      BY <2>7
    <3> HIDE DEF From
    <3> QED BY <3>1, <3>2, <3>3 DEF AreFrom
  <2>12. ASSUME ScansApart(f, n) PROVE PairsApart(v)
    <3>1. ASSUME NEW i \in 1 .. a, NEW j \in 1 .. b PROVE AreApart(s[i], r[j]) /\ AreApart(r[j], s[i])
      <4>1. PICK l \in 1 .. k - 1 : \E m \in 1 .. Len(From(f, l)) : s[i] = From(f, l)[m]
        BY <2>1, <2>4 DEF AreFrom
      <4>2. PICK m \in 1 .. Len(From(f, l)) : s[i] = From(f, l)[m]
        BY <4>1
      <4>3. l \in 1 .. n /\ l # k /\ j \in 1 .. Len(From(f, k)) /\ r[j] = From(f, k)[j]
        BY <2>2, <2>5, <2>10
      <4> QED BY <2>12, <4>2, <4>3 DEF ScansApart
    <3>2. ASSUME NEW i \in 1 .. b, NEW j \in 1 .. b PROVE i = j \/ AreApart(r[i], r[j])
      <4>1. i \in 1 .. Len(From(f, k)) /\ j \in 1 .. Len(From(f, k))
            /\ r[i] = From(f, k)[i] /\ r[j] = From(f, k)[j]
        BY <2>2, <2>5
      <4> QED BY <2>12, <4>1 DEF ScansApart
    <3>3. ASSUME NEW i \in 1 .. a, NEW j \in 1 .. a PROVE i = j \/ AreApart(s[i], s[j])
      BY <2>1, <2>4, <2>12 DEF PairsApart
    <3>4. ASSUME NEW i \in 1 .. a + b, NEW j \in 1 .. a + b PROVE i = j \/ AreApart(v[i], v[j])
      BY <2>7, <3>1, <3>2, <3>3
    <3> QED BY <2>7, <3>4 DEF PairsApart
  <2>13. Good(v, k)
    BY <2>6, <2>8, <2>11, <2>12
  <2>14. k \in 0 .. n
    OBVIOUS
  <2> HIDE DEF Good
  <2> QED BY <2>3, <2>13, <2>14
<1>6. n \in P
  <2>1. P \in SUBSET (0 .. n) /\ n \in 0 .. n
    OBVIOUS
  <2> HIDE DEF P
  <2> QED BY <1>4, <1>5, <2>1, UpToInduction
<1>7. Good(h[n], n)
  <2> HIDE DEF Good
  <2> QED BY <1>6
<1> QED BY <1>1, <1>2, <1>7

LEMMA FoundInField ==
  ASSUME NEW f \in texts, texts \subseteq TextFields, ScansEnded
  PROVE  /\ {SpanAt(x) : x \in FoundIn(f)} = {InField(f)[i] : i \in 1 .. Len(InField(f))}
         /\ Apart(f) => Spaced(InField(f), TextLength[f])
<1>1. PICK n \in Nat : n = Cardinality(Detectors) /\ Detectors = 1 .. n
  BY FirewallAssumption, FS_CardinalityType
<1>2. PICK s : s = InField(f)
  OBVIOUS
<1>3. s \in Seq(Findings) /\ Fits(s, f) /\ AreFrom(s, f, n) /\ (ScansApart(f, n) => PairsApart(s))
  BY <1>1, <1>2, InFieldIsFrom
<1>4. \A k \in 1 .. n : \A m \in 1 .. Len(From(f, k)) :
        <<<<f, k>>, m>> \in FoundIn(f) /\ SpanAt(<<<<f, k>>, m>>) = From(f, k)[m]
  <2> SUFFICES ASSUME NEW k \in 1 .. n, NEW m \in 1 .. Len(From(f, k))
               PROVE  <<<<f, k>>, m>> \in FoundIn(f) /\ SpanAt(<<<<f, k>>, m>>) = From(f, k)[m]
    OBVIOUS
  <2>1. <<f, k>> \in DOMAIN results /\ results[<<f, k>>] \in ResultsIn(f) \cup {Raised}
    BY <1>1 DEF ScansEnded, Tasks
  <2>2. From(f, k) \in Seq(Findings)
    BY <2>1, ReturnedFits DEF From
  <2>3. m \in DOMAIN Returned(<<f, k>>)
    BY <2>2 DEF From
  <2> QED BY <2>1, <2>3 DEF FoundIn, SpanAt, From
<1>5. ASSUME NEW x \in FoundIn(f)
      PROVE  \E k \in 1 .. n : \E m \in 1 .. Len(From(f, k)) : x = <<<<f, k>>, m>>
  <2>1. PICK t \in DOMAIN results : t[1] = f /\ \E m \in DOMAIN Returned(t) : x = <<t, m>>
    BY DEF FoundIn
  <2>2. PICK m \in DOMAIN Returned(t) : x = <<t, m>>
    BY <2>1
  <2>3. PICK k \in 1 .. n : t = <<f, k>>
    <3>1. t \in texts \X (1 .. n)
      BY <1>1 DEF ScansEnded, Tasks
    <3>2. PICK g \in texts, k \in 1 .. n : t = <<g, k>>
      BY <3>1
    <3> QED BY <2>1, <3>2
  <2>4. results[<<f, k>>] \in ResultsIn(f) \cup {Raised}
    BY <2>3 DEF ScansEnded
  <2>5. From(f, k) \in Seq(Findings)
    BY <2>4, ReturnedFits DEF From
  <2>6. m \in 1 .. Len(From(f, k))
    BY <2>3, <2>5 DEF From
  <2> QED BY <2>2, <2>3, <2>6
<1>6. {SpanAt(x) : x \in FoundIn(f)} = {s[i] : i \in 1 .. Len(s)}
  <2>1. ASSUME NEW x \in FoundIn(f) PROVE \E i \in 1 .. Len(s) : SpanAt(x) = s[i]
    <3>1. PICK k \in 1 .. n : \E m \in 1 .. Len(From(f, k)) : x = <<<<f, k>>, m>>
      BY <1>5
    <3>2. PICK m \in 1 .. Len(From(f, k)) : x = <<<<f, k>>, m>>
      BY <3>1
    <3>3. SpanAt(x) = From(f, k)[m]
      BY <1>4, <3>2
    <3>4. \E i \in 1 .. Len(s) : s[i] = From(f, k)[m]
      BY <1>3 DEF AreFrom
    <3> QED BY <3>3, <3>4
  <2>2. ASSUME NEW i \in 1 .. Len(s) PROVE \E x \in FoundIn(f) : s[i] = SpanAt(x)
    <3>1. PICK k \in 1 .. n : \E m \in 1 .. Len(From(f, k)) : s[i] = From(f, k)[m]
      BY <1>3 DEF AreFrom
    <3>2. PICK m \in 1 .. Len(From(f, k)) : s[i] = From(f, k)[m]
      BY <3>1
    <3> QED BY <1>4, <3>2
  <2> QED BY <2>1, <2>2
<1>7. ASSUME Apart(f) PROVE ScansApart(f, n)
  <2>1. ASSUME NEW k \in 1 .. n, NEW l \in 1 .. n, NEW m \in 1 .. Len(From(f, k)),
               NEW o \in 1 .. Len(From(f, l)), ~(k = l /\ m = o)
        PROVE  AreApart(From(f, k)[m], From(f, l)[o])
    <3>1. PICK x \in FoundIn(f) : x = <<<<f, k>>, m>> /\ SpanAt(x) = From(f, k)[m]
      BY <1>4
    <3>2. PICK y \in FoundIn(f) : y = <<<<f, l>>, o>> /\ SpanAt(y) = From(f, l)[o]
      BY <1>4
    <3>3. x # y
      BY <2>1, <3>1, <3>2
    <3> QED BY <1>7, <3>1, <3>2, <3>3 DEF Apart
  <2> QED BY <2>1 DEF ScansApart
<1>8. Apart(f) => Spaced(s, TextLength[f])
  BY <1>3, <1>7 DEF PairsApart, Fits, Spaced
<1> QED BY <1>2, <1>6, <1>8

(***************************************************************************)
(* Whatever its spans are, a redacted text holds its own characters and    *)
(* placeholders, and it is not the original.                               *)
(***************************************************************************)
CharsOf(length) == (0 .. length - 1) \cup {Mark}

RedactedUpTo(body, k, t, length) ==
  /\ body \in Seq(CharsOf(length))
  /\ k = 0 => Len(body) = length
  /\ k # 0 => t[k].start < Len(body) /\ body[t[k].start + 1] = Mark

LEMMA RedactedFacts ==
  ASSUME NEW f \in TextFields, NEW s \in Seq(Findings), Fits(s, f)
  PROVE  /\ Redacted(f, s) \in Seq(CharsOf(TextLength[f]))
         /\ Len(s) # 0 => Redacted(f, s) # Original[f]
<1>1. PICK length \in Nat : length = TextLength[f]
  BY FirewallAssumption
<1>2. PICK n \in Nat : n = Len(s)
  OBVIOUS
<1>3. PICK from : SortedFrom(InOrder(s), s, from)
  BY InOrderSorts
<1>4. PICK t : t = InOrder(s)
  OBVIOUS
<1>5. /\ \A k \in 1 .. n : t[k] \in Findings /\ t[k].start \in Nat /\ t[k].start <= length
      /\ \A k, l \in 1 .. n : k < l => t[k].start >= t[l].start
  <2>1. /\ t \in Seq(Findings) /\ Len(t) = n /\ from \in [1 .. n -> 1 .. n]
        /\ \A k \in 1 .. n : t[k] = s[from[k]]
        /\ \A k, l \in 1 .. n : k < l => t[k].start >= t[l].start
    BY <1>2, <1>3, <1>4 DEF SortedFrom
  <2>2. \A k \in 1 .. n : t[k] \in Findings
    BY <2>1
  <2>3. \A x \in Findings : x.start \in Nat /\ x.end \in Nat
    BY DEF Findings
  <2>4. \A i \in 1 .. n : s[i] \in Findings /\ s[i].start <= s[i].end /\ s[i].end <= length
    BY <1>1, <1>2 DEF Fits
  <2>5. ASSUME NEW k \in 1 .. n PROVE t[k].start \in Nat /\ t[k].start <= length
    <3>1. PICK i \in 1 .. n : t[k] = s[i]
      BY <2>1
    <3>2. PICK p \in Findings : p = s[i] /\ p.start <= p.end /\ p.end <= length
      BY <2>4
    <3>3. p.start \in Nat /\ p.end \in Nat
      BY <2>3
    <3> QED BY <3>1, <3>2, <3>3
  <2> QED BY <2>1, <2>2, <2>5
<1>6. PICK after : /\ Redacted(f, s) = after[n] /\ after[0] = Original[f]
                   /\ \A k \in 1 .. n : after[k] = Replaced(after[k - 1], t[k])
  BY <1>2, <1>4, RedactedUnfolds
<1>7. Original[f] \in Seq(CharsOf(length)) /\ Len(Original[f]) = length
      /\ \A i \in 1 .. length : Original[f][i] = i - 1
  <2>1. Original[f] = [i \in 1 .. length |-> i - 1]
    BY <1>1 DEF Original
  <2>2. \A i \in 1 .. length : i - 1 \in CharsOf(length)
    BY DEF CharsOf
  <2> QED BY <2>1, <2>2
<1> DEFINE P == {k \in 0 .. n : RedactedUpTo(after[k], k, t, length)}
<1>8. 0 \in P
  BY <1>6, <1>7 DEF RedactedUpTo
<1>9. ASSUME NEW k \in 1 .. n, k - 1 \in P PROVE k \in P
  <2>1. PICK body \in Seq(CharsOf(length)) : body = after[k - 1] /\ RedactedUpTo(body, k - 1, t, length)
    BY <1>9 DEF RedactedUpTo
  <2>2. t[k].start <= Len(body)
    <3>1. CASE k = 1
      <4>1. Len(body) = length
        BY <2>1, <3>1 DEF RedactedUpTo
      <4> QED BY <1>5, <4>1
    <3>2. CASE k # 1
      <4>1. PICK j \in 1 .. n : j = k - 1 /\ j # 0 /\ j < k
        BY <3>2
      <4>2. t[j].start < Len(body) /\ t[j].start >= t[k].start
        BY <1>5, <2>1, <4>1 DEF RedactedUpTo
      <4>3. t[j].start \in Nat /\ t[k].start \in Nat /\ Len(body) \in Nat
        BY <1>5
      <4> QED BY <4>2, <4>3
    <3> QED BY <3>1, <3>2
  <2>3. Mark \in CharsOf(length) /\ t[k] \in Findings
    BY <1>5 DEF CharsOf
  <2>4. /\ Replaced(body, t[k]) \in Seq(CharsOf(length))
        /\ Len(Replaced(body, t[k])) > t[k].start
        /\ Replaced(body, t[k])[t[k].start + 1] = Mark
    BY <2>2, <2>3, ReplacedFacts
  <2>5. after[k] = Replaced(body, t[k]) /\ k # 0 /\ k \in 0 .. n
    BY <1>6, <2>1
  <2>6. t[k].start < Len(Replaced(body, t[k]))
    <3>1. t[k].start \in Nat /\ Len(Replaced(body, t[k])) \in Nat
      BY <1>5, <2>4
    <3> QED BY <2>4, <3>1
  <2>7. RedactedUpTo(after[k], k, t, length)
    BY <2>4, <2>5, <2>6 DEF RedactedUpTo
  <2> QED BY <2>5, <2>7
<1>10. n \in P
  <2>1. P \in SUBSET (0 .. n) /\ n \in 0 .. n
    OBVIOUS
  <2> HIDE DEF P
  <2> QED BY <1>8, <1>9, <2>1, UpToInduction
<1>11. RedactedUpTo(after[n], n, t, length)
  BY <1>10
<1>12. ASSUME n # 0, after[n] = Original[f] PROVE FALSE
  <2>1. t[n].start < Len(after[n]) /\ after[n][t[n].start + 1] = Mark /\ n \in 1 .. n
    BY <1>11, <1>12 DEF RedactedUpTo
  <2>2. t[n].start \in Nat
    BY <1>5, <2>1
  <2>3. PICK i \in 1 .. length : i = t[n].start + 1
    BY <1>7, <1>12, <2>1, <2>2
  <2>4. Mark = i - 1
    BY <1>7, <1>12, <2>1, <2>3
  <2>5. i - 1 \in Nat
    OBVIOUS
  <2> QED BY <2>4, <2>5, FirewallAssumption
<1> QED BY <1>1, <1>2, <1>6, <1>11, <1>12 DEF RedactedUpTo

(***************************************************************************)
(* The invariant of one request: what each stage has behind it.            *)
(***************************************************************************)
Sent == Body(action, IF texts = {} THEN <<>> ELSE Detections)

DecidedOn == /\ DOMAIN results = Tasks /\ action = Verdict(Detections)
           /\ \E line : audit = <<line>> /\ line.action = action

NotDecided == action = "none" /\ audit = <<>>

FwShape ==
  /\ stage \in {"parse", "gather", "forward", "replied"}
  /\ texts \subseteq TextFields /\ DOMAIN results \subseteq Tasks
  /\ \A t \in DOMAIN results : results[t] \in ResultsIn(t[1]) \cup {Raised}
  /\ status \in {0, 200, 400, 403, 500, 502}

FwStages ==
  /\ stage = "parse" => texts = {} /\ NotDecided /\ forwarded = <<>>
  /\ stage = "gather" => texts # {} /\ NotDecided /\ forwarded = <<>>
  /\ stage = "forward" => /\ forwarded = <<>>
                          /\ texts = {} => NotDecided
                          /\ texts # {} => DecidedOn /\ action # "block"
  /\ stage = "replied" => /\ texts = {} => NotDecided
                          /\ texts # {} => DecidedOn
                          /\ forwarded = <<>> => texts = {} \/ action = "block"
                          /\ forwarded # <<>> => forwarded = <<Sent>> /\ action # "block"

FwInv == FwShape /\ FwStages

LEMMA VerdictFacts ==
  ASSUME NEW all, Categories(all) \subseteq DOMAIN Decides
  PROVE  /\ Verdict(all) \in {"allow", "redact", "block"}
         /\ Verdict(all) # "block" => \A c \in Categories(all) : Decides[c] # "block"
         /\ (\E c \in Categories(all) : Decides[c] = "redact") /\ Verdict(all) # "block"
              => Verdict(all) = "redact"
<1> DEFINE actions == {Decides[c] : c \in Categories(all)}
<1>1. Verdict(all) = IF "block" \in actions THEN "block"
                     ELSE IF "redact" \in actions THEN "redact" ELSE "allow"
  BY DEF Verdict
<1>2. \A c \in Categories(all) : Decides[c] \in actions
  OBVIOUS
<1> HIDE DEF actions
<1> QED BY <1>1, <1>2

LEMMA DetectionsStay ==
  ASSUME texts' = texts, results' = results
  PROVE  Detections' = Detections /\ Tasks' = Tasks
<1>1. \A f : InField(f)' = InField(f)
  BY DEF InField, Returned
<1> QED BY <1>1 DEF Detections, Tasks

LEMMA SentStays ==
  ASSUME texts' = texts, results' = results, action' = action
  PROVE  Sent' = Sent /\ (DecidedOn /\ audit' = audit => DecidedOn')
<1>1. Detections' = Detections /\ Tasks' = Tasks
  BY DetectionsStay
<1>2. Verdict(Detections)' = Verdict(Detections)
  BY <1>1 DEF Verdict, Categories, AllFound
<1>3. Sent' = Sent
  BY <1>1 DEF Sent, Body
<1> QED BY <1>1, <1>2, <1>3 DEF DecidedOn

LEMMA FirewallStarts ==
  FwInit => FwInv
BY DEF FwInit, FwInv, FwShape, FwStages, NotDecided, Tasks

LEMMA FirewallSteps ==
  FwInv /\ [FwNext]_fwVars => FwInv'
<1> SUFFICES ASSUME FwInv, [FwNext]_fwVars PROVE FwInv'
  OBVIOUS
<1>1. CASE ParseFails
  <2>1. texts' = texts /\ results' = results /\ action' = action /\ audit' = audit
        /\ forwarded' = forwarded /\ stage = "parse" /\ stage' = "replied" /\ status' \in {400, 500}
    BY <1>1 DEF ParseFails, Reply
  <2>2. FwShape'
    BY <2>1 DEF FwInv, FwShape, Tasks
  <2>3. FwStages'
    BY <2>1 DEF FwInv, FwStages, NotDecided
  <2> QED BY <2>2, <2>3 DEF FwInv
<1>2. CASE Extract
  <2>1. texts' \in SUBSET TextFields /\ results' = results /\ action' = action /\ audit' = audit
        /\ forwarded' = forwarded /\ status' = status /\ stage = "parse"
        /\ stage' = IF texts' = {} THEN "forward" ELSE "gather"
    BY <1>2 DEF Extract
  <2>2. texts = {} /\ DOMAIN results \subseteq Tasks
    BY <2>1 DEF FwInv, FwShape, FwStages
  <2>3. DOMAIN results = {}
    BY <2>2 DEF Tasks
  <2>4. FwShape'
    BY <2>1, <2>3 DEF FwInv, FwShape, Tasks
  <2>5. FwStages'
    BY <2>1 DEF FwInv, FwStages, NotDecided
  <2> QED BY <2>4, <2>5 DEF FwInv
<1>3. ASSUME NEW t \in Tasks, ScanReturns(t) PROVE FwInv'
  <2>1. texts' = texts /\ stage' = stage /\ action' = action /\ audit' = audit
        /\ forwarded' = forwarded /\ status' = status /\ stage = "gather"
    BY <1>3 DEF ScanReturns
  <2>2. PICK r \in ResultsIn(t[1]) \cup {Raised} :
          results' = [u \in DOMAIN results \cup {t} |-> IF u = t THEN r ELSE results[u]]
    BY <1>3 DEF ScanReturns
  <2>3. FwShape'
    BY <2>1, <2>2 DEF FwInv, FwShape, Tasks
  <2>4. FwStages'
    BY <2>1 DEF FwInv, FwStages, NotDecided
  <2> QED BY <2>3, <2>4 DEF FwInv
<1>4. CASE Decide
  <2>1. /\ texts' = texts /\ results' = results /\ forwarded' = forwarded
        /\ stage = "gather" /\ DOMAIN results = Tasks /\ action' = Verdict(Detections)
        /\ audit' = Append(audit, [action |-> action', findings |-> Cardinality(AllFound(Detections))])
        /\ IF action' = "block" THEN status' = 403 /\ stage' = "replied"
                                ELSE stage' = "forward" /\ status' = status
    BY <1>4 DEF Decide, Reply
  <2>2. Detections' = Detections /\ Tasks' = Tasks
    BY <2>1, DetectionsStay
  <2>3. Verdict(Detections)' = Verdict(Detections)
    BY <2>2 DEF Verdict, Categories, AllFound
  <2>4. audit = <<>> /\ texts # {} /\ forwarded = <<>>
    BY <2>1 DEF FwInv, FwStages, NotDecided
  <2>5. \E line : audit' = <<line>> /\ line.action = action'
    BY <2>1, <2>4
  <2>6. DecidedOn'
    BY <2>1, <2>2, <2>3, <2>5 DEF DecidedOn
  <2>7. FwShape'
    BY <2>1 DEF FwInv, FwShape, Tasks
  <2>8. FwStages'
    BY <2>1, <2>4, <2>6 DEF FwStages
  <2> QED BY <2>7, <2>8 DEF FwInv
<1>5. CASE Forward
  <2>1. /\ texts' = texts /\ results' = results /\ action' = action /\ audit' = audit
        /\ stage = "forward" /\ stage' = "replied" /\ status' \in {200, 500, 502}
        /\ forwarded' = Append(forwarded, Sent)
    BY <1>5 DEF Forward, Reply, Sent
  <2>2. Sent' = Sent /\ (DecidedOn => DecidedOn')
    BY <2>1, SentStays
  <2>3. forwarded = <<>> /\ (texts = {} => NotDecided) /\ (texts # {} => DecidedOn /\ action # "block")
    BY <2>1 DEF FwInv, FwStages
  <2>4. forwarded' = <<Sent>> /\ <<Sent>> # <<>>
    BY <2>1, <2>3
  <2>5. FwShape'
    BY <2>1 DEF FwInv, FwShape, Tasks
  <2>6. action # "block" /\ NotDecided' = NotDecided
    BY <2>1, <2>3 DEF NotDecided
  <2>7. FwStages'
    BY <2>1, <2>2, <2>3, <2>4, <2>6 DEF FwStages
  <2> QED BY <2>5, <2>7 DEF FwInv
<1>6. CASE UNCHANGED fwVars
  <2>1. /\ texts' = texts /\ results' = results /\ action' = action /\ audit' = audit
        /\ stage' = stage /\ status' = status /\ forwarded' = forwarded
    BY <1>6 DEF fwVars
  <2>2. Sent' = Sent /\ (DecidedOn => DecidedOn') /\ NotDecided' = NotDecided
    BY <2>1, SentStays DEF NotDecided
  <2>3. FwShape'
    BY <2>1 DEF FwInv, FwShape, Tasks
  <2>4. FwStages'
    BY <2>1, <2>2 DEF FwInv, FwStages
  <2> QED BY <2>3, <2>4 DEF FwInv
<1> QED BY <1>1, <1>2, <1>3, <1>4, <1>5, <1>6 DEF FwNext

(***************************************************************************)
(* What was sent of a request that was decided.                            *)
(***************************************************************************)
LEMMA CallsAreDetected ==
  ASSUME FwInv, DecidedOn, NEW f \in texts, NEW what, Calls(f, what)
  PROVE  /\ \E c \in Categories(Detections) : Decides[c] = what
         /\ Len(InField(f)) # 0
<1>1. PICK n \in Nat : n = Cardinality(Detectors) /\ Detectors = 1 .. n
  BY FirewallAssumption, FS_CardinalityType
<1>2. texts \subseteq TextFields /\ ScansEnded
  BY DEF FwInv, FwShape, DecidedOn, ScansEnded
<1>3. PICK t \in DOMAIN results : t[1] = f /\ \E m \in DOMAIN Returned(t) : Decides[Returned(t)[m].category] = what
  BY DEF Calls
<1>4. PICK m \in DOMAIN Returned(t) : Decides[Returned(t)[m].category] = what
  BY <1>3
<1>5. PICK k \in 1 .. n : t = <<f, k>>
  <2>1. t \in texts \X (1 .. n)
    BY <1>1, <1>2 DEF ScansEnded, Tasks
  <2>2. PICK g \in texts, k \in 1 .. n : t = <<g, k>>
    BY <2>1
  <2> QED BY <1>3, <2>2
<1>6. From(f, k) \in Seq(Findings)
  <2>1. results[<<f, k>>] \in ResultsIn(f) \cup {Raised}
    BY <1>2, <1>5 DEF ScansEnded
  <2> QED BY <2>1, ReturnedFits DEF From
<1>7. m \in 1 .. Len(From(f, k)) /\ Decides[From(f, k)[m].category] = what
  BY <1>4, <1>5, <1>6 DEF From
<1>8. InField(f) \in Seq(Findings) /\ AreFrom(InField(f), f, n)
  BY <1>1, <1>2, InFieldIsFrom
<1>9. PICK i \in 1 .. Len(InField(f)) : InField(f)[i] = From(f, k)[m]
  BY <1>7, <1>8 DEF AreFrom
<1>10. InField(f)[i].category \in Categories(Detections)
  <2>1. Detections[f] = InField(f) /\ f \in DOMAIN Detections
    BY DEF Detections
  <2>2. i \in DOMAIN Detections[f]
    BY <1>8, <2>1
  <2>3. <<f, i>> \in AllFound(Detections)
    BY <2>1, <2>2 DEF AllFound
  <2> QED BY <2>1, <2>3 DEF Categories
<1> QED BY <1>7, <1>8, <1>9, <1>10

LEMMA CategoriesAreKnown ==
  ASSUME FwInv, DecidedOn
  PROVE  Categories(Detections) \subseteq DOMAIN Decides
<1> SUFFICES ASSUME NEW p \in AllFound(Detections)
             PROVE  Detections[p[1]][p[2]].category \in DOMAIN Decides
  BY DEF Categories
<1>1. PICK f \in texts : \E i \in DOMAIN Detections[f] : p = <<f, i>>
  BY DEF AllFound, Detections
<1>2. Detections[f] = InField(f)
  BY DEF Detections
<1>3. texts \subseteq TextFields /\ ScansEnded
  BY DEF FwInv, FwShape, DecidedOn, ScansEnded
<1>4. InField(f) \in Seq(Findings)
  BY <1>3, InFieldIsFrom
<1>5. PICK i \in DOMAIN Detections[f] : p = <<f, i>>
  BY <1>1
<1>6. InField(f)[i] \in Findings
  BY <1>2, <1>4
<1> QED BY <1>2, <1>5, <1>6 DEF Findings

LEMMA WhatWasSent ==
  ASSUME FwInv, forwarded # <<>>
  PROVE  /\ forwarded = <<Sent>> /\ action # "block"
         /\ texts # {} => /\ DecidedOn /\ action = Verdict(Detections)
                          /\ \A f \in texts : Sent[f] = IF action = "redact" THEN Redacted(f, InField(f))
                                                                           ELSE Original[f]
<1>1. stage = "replied"
  BY DEF FwInv, FwShape, FwStages
<1>2. forwarded = <<Sent>> /\ action # "block" /\ (texts # {} => DecidedOn)
  BY <1>1 DEF FwInv, FwStages
<1>3. ASSUME NEW f \in texts
      PROVE  Sent[f] = IF action = "redact" THEN Redacted(f, InField(f)) ELSE Original[f]
  <2>1. f \in TextFields /\ texts # {}
    BY DEF FwInv, FwShape
  <2>2. Detections[f] = InField(f)
    BY DEF Detections
  <2>3. Sent = [g \in TextFields |-> IF action = "redact" /\ g \in texts THEN Redacted(g, Detections[g])
                                                                       ELSE Original[g]]
    BY <2>1 DEF Sent, Body
  <2> QED BY <2>1, <2>2, <2>3
<1> QED BY <1>2, <1>3 DEF DecidedOn

LEMMA FindingsCountHold ==
  FwInv => FindingsCount
<1> SUFFICES ASSUME FwInv, forwarded # <<>>, NEW f \in texts
             PROVE  ~Calls(f, "block") /\ (Calls(f, "redact") => forwarded[1][f] # Original[f])
  BY DEF FindingsCount
<1>1. /\ forwarded = <<Sent>> /\ action # "block" /\ DecidedOn /\ action = Verdict(Detections)
      /\ Sent[f] = IF action = "redact" THEN Redacted(f, InField(f)) ELSE Original[f]
  BY WhatWasSent
<1>2. forwarded[1] = Sent
  BY <1>1
<1>3. Categories(Detections) \subseteq DOMAIN Decides
  BY <1>1, CategoriesAreKnown
<1>4. ~Calls(f, "block")
  BY <1>1, <1>3, CallsAreDetected, VerdictFacts
<1>5. ASSUME Calls(f, "redact") PROVE Sent[f] # Original[f]
  <2>1. Verdict(Detections) = "redact" /\ Len(InField(f)) # 0
    BY <1>1, <1>3, <1>5, CallsAreDetected, VerdictFacts
  <2>2. f \in TextFields /\ texts \subseteq TextFields /\ ScansEnded
    BY <1>1 DEF FwInv, FwShape, DecidedOn, ScansEnded
  <2>3. InField(f) \in Seq(Findings) /\ Fits(InField(f), f)
    BY <2>2, InFieldIsFrom
  <2>4. Redacted(f, InField(f)) # Original[f]
    BY <2>1, <2>2, <2>3, RedactedFacts
  <2> QED BY <1>1, <2>1, <2>4
<1> QED BY <1>2, <1>4, <1>5

LEMMA PlacesAreReplacedHold ==
  FwInv => PlacesAreReplaced
<1> SUFFICES ASSUME FwInv, forwarded # <<>>, action = "redact", NEW f \in texts, Apart(f)
             PROVE  forwarded[1][f] = Wanted({SpanAt(x) : x \in FoundIn(f)}, TextLength[f])
  BY DEF PlacesAreReplaced
<1>1. forwarded = <<Sent>> /\ DecidedOn /\ Sent[f] = Redacted(f, InField(f))
  BY WhatWasSent
<1>2. f \in TextFields /\ texts \subseteq TextFields /\ ScansEnded
  BY <1>1 DEF FwInv, FwShape, DecidedOn, ScansEnded
<1>3. InField(f) \in Seq(Findings)
  BY <1>2, InFieldIsFrom
<1>4. /\ {SpanAt(x) : x \in FoundIn(f)} = {InField(f)[i] : i \in 1 .. Len(InField(f))}
      /\ Spaced(InField(f), TextLength[f])
  BY <1>2, FoundInField
<1>5. Redacted(f, InField(f)) = Wanted({InField(f)[i] : i \in 1 .. Len(InField(f))}, TextLength[f])
  BY <1>2, <1>3, <1>4, RedactedAsWanted
<1> QED BY <1>1, <1>4, <1>5

LEMMA FirewallTypesHold ==
  FwInv => FwTypeOK
<1> SUFFICES ASSUME FwInv PROVE FwTypeOK
  OBVIOUS
<1>1. FwShape /\ stage \in {"parse", "gather", "forward", "replied"}
  BY DEF FwInv, FwShape
<1>2. NotDecided \/ (DecidedOn /\ Verdict(Detections) \in {"allow", "redact", "block"})
  <2>1. NotDecided \/ DecidedOn
    BY <1>1 DEF FwInv, FwStages
  <2>2. DecidedOn => Verdict(Detections) \in {"allow", "redact", "block"}
    BY CategoriesAreKnown, VerdictFacts
  <2> QED BY <2>1, <2>2
<1>3. action \in {"none", "allow", "redact", "block"} /\ Len(audit) <= 1
  <2>1. CASE NotDecided
    BY <2>1 DEF NotDecided
  <2>2. CASE DecidedOn /\ Verdict(Detections) \in {"allow", "redact", "block"}
    <3>1. action = Verdict(Detections)
      BY <2>2 DEF DecidedOn
    <3>2. PICK line : audit = <<line>>
      BY <2>2 DEF DecidedOn
    <3>3. Len(audit) <= 1
      BY <3>2
    <3> QED BY <2>2, <3>1, <3>3
  <2> QED BY <1>2, <2>1, <2>2
<1>4. Len(forwarded) <= 1 /\ DOMAIN forwarded \subseteq {1}
  <2>1. CASE forwarded = <<>>
    BY <2>1
  <2>2. CASE forwarded # <<>>
    <3>1. forwarded = <<Sent>>
      BY <2>2, WhatWasSent
    <3> QED BY <3>1
  <2> QED BY <2>1, <2>2
<1>5. ASSUME NEW k \in DOMAIN forwarded, NEW f \in TextFields, NEW i \in DOMAIN forwarded[k][f]
      PROVE  forwarded[k][f][i] = Mark \/ forwarded[k][f][i] \in 0 .. TextLength[f] - 1
  <2>1. k = 1 /\ forwarded # <<>>
    BY <1>4, <1>5
  <2>2. forwarded[k] = Sent
    BY <2>1, WhatWasSent
  <2>3. Original[f] \in Seq(CharsOf(TextLength[f]))
    <3>1. PICK length \in Nat : length = TextLength[f]
      BY FirewallAssumption
    <3>2. Original[f] = [j \in 1 .. length |-> j - 1]
      BY <3>1 DEF Original
    <3>3. \A j \in 1 .. length : j - 1 \in CharsOf(length)
      BY DEF CharsOf
    <3> QED BY <3>1, <3>2, <3>3
  <2>4. Sent[f] \in Seq(CharsOf(TextLength[f]))
    <3>1. CASE f \in texts
      <4>1. /\ texts # {} /\ DecidedOn
            /\ Sent[f] = IF action = "redact" THEN Redacted(f, InField(f)) ELSE Original[f]
        BY <2>1, <3>1, WhatWasSent
      <4>2. texts \subseteq TextFields /\ ScansEnded
        BY <4>1 DEF FwInv, FwShape, DecidedOn, ScansEnded
      <4>3. InField(f) \in Seq(Findings) /\ Fits(InField(f), f)
        BY <3>1, <4>2, InFieldIsFrom
      <4>4. Redacted(f, InField(f)) \in Seq(CharsOf(TextLength[f]))
        BY <4>3, RedactedFacts
      <4> QED BY <2>3, <4>1, <4>4
    <3>2. CASE f \notin texts
      <4>1. Sent[f] = Original[f]
        BY <3>2 DEF Sent, Body
      <4> QED BY <2>3, <4>1
    <3> QED BY <3>1, <3>2
  <2>5. Sent[f][i] \in CharsOf(TextLength[f])
    BY <1>5, <2>2, <2>4
  <2> QED BY <2>2, <2>5 DEF CharsOf
<1> QED BY <1>1, <1>3, <1>4, <1>5 DEF FwTypeOK, FwShape

LEMMA AnswersAreAuditedHold ==
  FwInv => AnswersAreAudited
<1> SUFFICES ASSUME FwInv, stage = "replied", texts # {}
             PROVE  Len(audit) = 1 /\ audit[1].action = action /\ (action = "block" <=> forwarded = <<>>)
  BY DEF AnswersAreAudited
<1>1. /\ DecidedOn /\ (forwarded = <<>> => action = "block")
      /\ (forwarded # <<>> => action # "block")
  BY DEF FwInv, FwStages
<1>2. Len(audit) = 1 /\ audit[1].action = action
  BY <1>1 DEF DecidedOn
<1> QED BY <1>1, <1>2

-----------------------------------------------------------------------------
(***************************************************************************)
(* The library's callers: what was found by any detector of the firewall   *)
(* counts whatever the others did, is audited before it is answered, and   *)
(* is replaced in its place, in texts of any length with any findings in   *)
(* them; of what the callback redacts nothing goes out, a token tells its  *)
(* value, and what the SDK restores is what was written.                   *)
(***************************************************************************)
THEOREM CallsSound == FwSpec /\ LibrarySpec => []CallsAreSound
<1> DEFINE CallsInv == FwInv /\ LibraryInv
<1>1. FwInit /\ LibraryInit => CallsInv
  BY FirewallStarts, LibraryStarts
<1>2. CallsInv /\ [FwNext]_fwVars /\ [LibraryNext]_libraryVars => CallsInv'
  BY FirewallSteps, LibrarySteps
<1>3. CallsInv => CallsAreSound
  BY FirewallTypesHold, FindingsCountHold, PlacesAreReplacedHold, AnswersAreAuditedHold,
     LibraryTypesHold DEF LibraryInv, CallsAreSound
<1> QED
  BY <1>1, <1>2, <1>3, PTL DEF FwSpec, LibrarySpec

=============================================================================
