----------------------------- MODULE TextScan -----------------------------
(***************************************************************************)
(* One text on its way through DetectorPipeline.inspect: the local model   *)
(* is asked chunk by chunk what is sensitive (LocalLLMClassifier.scan and  *)
(* _chunk_text), every occurrence of what it names is located, as          *)
(* _scan_pinned does for pinned values, and _redact_text replaces the      *)
(* spans of all detectors, overlapping or not, by tokens.                  *)
(*                                                                         *)
(* A text is a sequence of characters; "n" and "s" are the line feed and   *)
(* the space that chunks are broken at.  A span is <<start, end>> with     *)
(* Python's offsets.  The redacted text is a sequence of the offsets that  *)
(* are kept and of Token.                                                  *)
(***************************************************************************)
EXTENDS Naturals, Sequences, FiniteSets

CONSTANTS
  Inputs,                 \* texts to scan
  MinChars,              \* shorter texts are not shown to the model
  MaxChars, Overlap,     \* of _chunk_text
  MaxValue,              \* bound: length of a value the model names
  OtherSpans,            \* sets of spans that the other detectors may report
  Token                  \* a replacement in the redacted text

ASSUME TextScanAssumption ==
  /\ {MinChars, MaxChars, Overlap, MaxValue} \subseteq Nat \ {0}
  /\ Overlap <= MaxChars
  /\ \A t \in Inputs : t \in Seq({t[i] : i \in DOMAIN t})
  /\ \A spans \in OtherSpans : spans \subseteq Nat \X Nat /\ \A p \in spans : p[1] <= p[2]

VARIABLES
  text, scanAt,
  chunks,      \* chunks still to be shown
  shown,       \* history: the chunks the model answered about
  items,       \* values the model named
  tier,        \* _available: the model has not failed, or has
  found,       \* spans of all detectors
  kept         \* the redacted text

scanTextVars == <<text, scanAt, chunks, shown, items, tier, found, kept>>

Offsets(t) == 0 .. Len(t) - 1
Largest(S) == CHOOSE x \in S : \A y \in S : y <= x
Smallest(S) == CHOOSE x \in S : \A y \in S : x <= y

-----------------------------------------------------------------------------
(***************************************************************************)
(* A chunk ends after the last paragraph, else line, else space in its     *)
(* first MaxChars characters, unless that is where it starts.              *)
(***************************************************************************)
Found(t, mark, at) == SubSeq(t, at + 1, at + Len(mark)) = mark

Breaks(t, mark, start) ==
  {b \in start + 1 .. start + MaxChars - Len(mark) : Found(t, mark, b)}

Marks == <<<<"n", "n">>, <<"n">>, <<"s">>>>

ChunkEnd(t, start) ==
  LET usable == {k \in DOMAIN Marks : Breaks(t, Marks[k], start) # {}}
  IN IF start + MaxChars >= Len(t) \/ usable = {} THEN start + MaxChars
       ELSE Largest(Breaks(t, Marks[Smallest(usable)], start)) + 1

\* Mutant: chunks do not overlap.
NextStartApart(t, start) == ChunkEnd(t, start)

NextStart(t, start) ==
  LET size == ChunkEnd(t, start) - start
  IN start + IF size >= 2 * Overlap THEN size - Overlap ELSE Overlap

\* Mutant: the last chunk is as long as the others.
ChunksUnclipped(t) ==
  LET from[start \in 0 .. Len(t) + MaxChars] ==
        IF start >= Len(t) THEN <<>>
        ELSE <<<<start, ChunkEnd(t, start)>>>> \o from[NextStart(t, start)]
  IN IF Len(t) <= MaxChars THEN <<<<0, Len(t)>>>> ELSE from[0]

ChunkAt(t, start) ==
  <<start, IF ChunkEnd(t, start) > Len(t) THEN Len(t) ELSE ChunkEnd(t, start)>>

Chunks(t) ==
  LET from[start \in 0 .. Len(t) + MaxChars] ==
        IF start >= Len(t) THEN <<>> ELSE <<ChunkAt(t, start)>> \o from[NextStart(t, start)]
  IN IF Len(t) <= MaxChars THEN <<<<0, Len(t)>>>> ELSE from[0]

(***************************************************************************)
(* Every occurrence of a value, found from left to right.                  *)
(***************************************************************************)
Hits(t, value, start) == {b \in start .. Len(t) - Len(value) : Found(t, value, b)}

\* Mutant: only the first occurrence.
OccurrencesFirst(t, value) ==
  LET hits == Hits(t, value, 0)
  IN IF hits = {} THEN {} ELSE {<<Smallest(hits), Smallest(hits) + Len(value)>>}

Occurrences(t, value) ==
  LET from[start \in 0 .. Len(t) + Len(value)] ==
        LET hits == Hits(t, value, start)
        IN IF hits = {} THEN {}
             ELSE {<<Smallest(hits), Smallest(hits) + Len(value)>>}
                    \cup from[Smallest(hits) + Len(value)]
  IN from[0]

(***************************************************************************)
(* _redact_text: empty spans are dropped, overlapping ones merged into     *)
(* their union, and the unions replaced from right to left.  The loop over *)
(* the sorted spans stops growing a union at the first end that no span    *)
(* which starts before it goes beyond.                                     *)
(***************************************************************************)
NotEmpty(spans) == {p \in spans : p[2] > p[1]}

First(spans) ==
  CHOOSE p \in spans : \A q \in spans : p[1] < q[1] \/ (p[1] = q[1] /\ p[2] <= q[2])

\* Mutant: a span that overlaps the one before it is dropped.
MergedDropping(spans) ==
  LET from[rest \in SUBSET NotEmpty(spans)] ==
        IF rest = {} THEN <<>>
        ELSE <<First(rest)>> \o from[{p \in rest : p[1] >= First(rest)[2]}]
  IN from[NotEmpty(spans)]

Reach(rest) ==
  Smallest({end \in First(rest)[2] .. Largest({p[2] : p \in rest}) :
              \A p \in rest : p[1] < end => p[2] <= end})

Merged(spans) ==
  LET from[rest \in SUBSET NotEmpty(spans)] ==
        IF rest = {} THEN <<>>
        ELSE <<<<First(rest)[1], Reach(rest)>>>> \o from[{p \in rest : p[1] >= Reach(rest)}]
  IN from[NotEmpty(spans)]

Replacing(redacted, span) ==
  SubSeq(redacted, 1, span[1]) \o <<Token>> \o SubSeq(redacted, span[2] + 1, Len(redacted))

Spliced(t, unions) ==
  LET with[k \in 0 .. Len(unions)] ==
        IF k = Len(unions) THEN [i \in 1 .. Len(t) |-> i - 1]
        ELSE Replacing(with[k + 1], unions[k + 1])
  IN with[0]

-----------------------------------------------------------------------------
TextInit ==
  /\ text \in Inputs /\ scanAt = "start"
  /\ chunks = <<>> /\ shown = {} /\ items = {} /\ tier = "unknown"
  /\ found = {} /\ kept = <<>>

BeginScan ==
  /\ scanAt = "start"
  /\ scanAt' = "ask"
  /\ chunks' = IF Len(text) < MinChars THEN <<>> ELSE Chunks(text)
  /\ UNCHANGED <<text, shown, items, tier, found, kept>>

(***************************************************************************)
(* The model names a value of the chunk, or nothing; an item comes with a  *)
(* confidence that can be read as a number, or not.                        *)
(***************************************************************************)
Values(chunk) ==
  {SubSeq(text, i, j) : i \in chunk[1] + 1 .. chunk[2], j \in chunk[1] + 1 .. chunk[2]}

Named(chunk) == {v \in Values(chunk) : Len(v) \in 1 .. MaxValue}

Ask ==
  /\ scanAt = "ask" /\ chunks # <<>> /\ tier = "unknown"
  /\ chunks' = Tail(chunks)
  /\ shown' = shown \cup {Head(chunks)}
  /\ \/ UNCHANGED items
     \/ \E v \in Named(Head(chunks)), readable \in BOOLEAN :
          items' = items \cup {<<v, readable>>}
  /\ UNCHANGED <<text, scanAt, tier, found, kept>>

(***************************************************************************)
(* The request fails: the tier is off from then on.  A reply that is not   *)
(* the array asked for names nothing.                                      *)
(***************************************************************************)
AskFails ==
  /\ scanAt = "ask" /\ chunks # <<>> /\ tier = "unknown"
  /\ tier' = "off" /\ chunks' = <<>>
  /\ UNCHANGED <<text, scanAt, shown, items, found, kept>>

Located == UNION {Occurrences(text, item[1]) : item \in {i \in items : i[2]}}

Locate ==
  /\ scanAt = "ask" /\ chunks = <<>>
  /\ scanAt' = "redact"
  /\ \E others \in OtherSpans :
       found' = Located \cup {<<p[1], p[2]>> : p \in {q \in others : q[2] <= Len(text)}}
  /\ UNCHANGED <<text, chunks, shown, items, tier, kept>>

Redact ==
  /\ scanAt = "redact"
  /\ scanAt' = "done"
  /\ kept' = Spliced(text, Merged(found))
  /\ UNCHANGED <<text, chunks, shown, items, tier, found>>

TextNext == BeginScan \/ Ask \/ AskFails \/ Locate \/ Redact

TextSpec == TextInit /\ [][TextNext]_scanTextVars

-----------------------------------------------------------------------------
(***************************************************************************)
(* Type invariant of one scan.                                             *)
(***************************************************************************)
Spans(t) == {p \in (0 .. Len(t)) \X (0 .. Len(t)) : p[1] <= p[2]}

TextTypeOK ==
  /\ text \in Inputs /\ scanAt \in {"start", "ask", "redact", "done"}
  /\ \A k \in DOMAIN chunks : chunks[k] \in Spans(text) /\ chunks[k][1] < chunks[k][2]
  /\ shown \subseteq Spans(text) /\ found \subseteq Spans(text)
  /\ \A item \in items : Len(item[1]) \in 1 .. MaxValue /\ item[2] \in BOOLEAN
  /\ tier \in {"unknown", "off"}
  /\ \A k \in DOMAIN kept : kept[k] = Token \/ kept[k] \in Offsets(text)

(***************************************************************************)
(* No value that fits into the overlap is cut by the chunks: the model     *)
(* sees it whole in one of them (the docstring of _chunk_text), unless a   *)
(* chunk that is not the last was broken off before twice the overlap.     *)
(***************************************************************************)
LongChunks == \A p \in shown : p[2] = Len(text) \/ p[2] - p[1] >= 2 * Overlap
Windows == {p \in Spans(text) : p[2] - p[1] \in 1 .. Overlap}

WholeTextIsShown ==
  scanAt # "start" /\ chunks = <<>> /\ tier = "unknown" /\ Len(text) >= MinChars /\ LongChunks
    => \A w \in Windows : \E p \in shown : p[1] <= w[1] /\ w[2] <= p[2]

(***************************************************************************)
(* Whatever spans the detectors report, nested, overlapping or touching,   *)
(* the result is the text with exactly the covered characters gone and one *)
(* token for each stretch that spans hold together (_redact_text).         *)
(***************************************************************************)
In(o, p) == p[1] <= o /\ o < p[2]
Covered(o) == \E p \in found : In(o, p)
Opens(o) == Covered(o) /\ ~\E p \in found : In(o, p) /\ p[1] < o

Remains(o) == IF ~Covered(o) THEN <<o>> ELSE IF Opens(o) THEN <<Token>> ELSE <<>>

Expected ==
  LET upTo[o \in 0 .. Len(text)] == IF o = 0 THEN <<>> ELSE upTo[o - 1] \o Remains(o - 1)
  IN upTo[Len(text)]

ExactlyTheSpansGo == scanAt = "done" => kept = Expected

(***************************************************************************)
(* A value the model named with a readable confidence is nowhere left in   *)
(* the clear, however often it occurs and wherever the chunks were cut     *)
(* (the loop over occurrences in LocalLLMClassifier.scan).                 *)
(***************************************************************************)
InClear(value, k) ==
  /\ k + Len(value) <= Len(kept) + 1
  /\ \A i \in 1 .. Len(value) :
       kept[k + i - 1] # Token /\ kept[k + i - 1] = kept[k] + i - 1
  /\ Found(text, value, kept[k])

NamedValuesGo ==
  scanAt = "done" =>
    \A item \in items : item[2] => ~\E k \in DOMAIN kept : InClear(item[1], k)

=============================================================================
