----------------------------- MODULE SseRelay -----------------------------
(***************************************************************************)
(* _detok_sse_iter: a reply streamed as server-sent events is rewritten    *)
(* event by event on its way to the client.                                *)
(*                                                                         *)
(* A stream is one text the client assembles from the events (the content  *)
(* of one choice).  The fields of all streams with one JSON key share a    *)
(* StreamDetokenizer, their channel.  An event may carry no text at all.   *)
(* A provider sends nothing after "[DONE]".                                *)
(***************************************************************************)
EXTENDS Detokenize, FiniteSets, Functions

CONSTANTS
  Streams,
  ChannelOf(_),    \* the JSON key of a stream's fields, one of _TEXT_KEYS
  BareEvents,      \* the provider sends events without text
  MaxText,         \* bound: characters of all streams
  MaxEvent         \* bound: characters of one event

ASSUME BareAssumption == BareEvents \in BOOLEAN

VARIABLES
  channels,   \* keys of channels, in the order of their creation
  held,       \* their held-back texts
  template,   \* the streams with a field in the last JSON event
  phase,      \* "streaming", "done", "ended", or "broken"
  sent,       \* history: what the provider has sent of each stream
  got         \* history: what the client has received of it

vars == <<channels, held, template, phase, sent, got>>

Keys == {ChannelOf(s) : s \in Streams}

Texts  == UNION {[1..n -> Char] : n \in 0..MaxEvent}
Fields == [stream : Streams, text : Texts]

(***************************************************************************)
(* The text fields of one event, in the order of the JSON; at most one of  *)
(* each of two streams.                                                    *)
(***************************************************************************)
Pairs ==
  {pair \in Fields \X Fields :
    /\ pair[1].stream # pair[2].stream
    /\ Len(pair[1].text) + Len(pair[2].text) <= MaxEvent}

Events == {<<f>> : f \in Fields} \cup Pairs \cup (IF BareEvents THEN {<<>>} ELSE {})

SentBy(event, s) ==
  LET texts == {f \in Range(event) : f.stream = s}
  IN IF texts = {} THEN <<>> ELSE (CHOOSE f \in texts : TRUE).text

Init ==
  /\ channels = <<>>
  /\ held = [k \in Keys |-> <<>>]
  /\ template = <<>>
  /\ phase = "streaming"
  /\ sent = [s \in Streams |-> <<>>]
  /\ got = [s \in Streams |-> <<>>]

\* Mutant: a new channel is not remembered for the flush.
FeedFieldUnlisted(relay, f) ==
  LET buf == relay.held[ChannelOf(f.stream)] \o f.text
  IN [relay EXCEPT !.held[ChannelOf(f.stream)] = Held(buf),
                   !.got[f.stream] = @ \o Emitted(buf)]

(***************************************************************************)
(* _rewrite_sse_event: the fields go through their channels one by one.    *)
(***************************************************************************)
FeedField(relay, f) ==
  LET k == ChannelOf(f.stream)
      buf == relay.held[k] \o f.text
  IN [channels |-> IF k \in Range(relay.channels) THEN relay.channels
                   ELSE Append(relay.channels, k),
      held |-> [relay.held EXCEPT ![k] = Held(buf)],
      got  |-> [relay.got EXCEPT ![f.stream] = @ \o Emitted(buf)]]

(***************************************************************************)
(* process_line on a JSON event.                                           *)
(***************************************************************************)
Template(event) == [i \in 1..Len(event) |-> event[i].stream]

Relayed(event) ==
  LET relay[i \in 0..Len(event)] ==
        IF i = 0 THEN [channels |-> channels, held |-> held, got |-> got]
                 ELSE FeedField(relay[i - 1], event[i])
  IN relay[Len(event)]

Event(event) ==
  /\ phase = "streaming"
  /\ sent' = [s \in Streams |-> sent[s] \o SentBy(event, s)]
  /\ LET fed == Relayed(event)
     IN channels' = fed.channels /\ held' = fed.held /\ got' = fed.got
  /\ template' = Template(event)
  /\ UNCHANGED phase

(***************************************************************************)
(* flush_remainder: what the channels hold goes into the first text field  *)
(* of a copy of the last event; the other fields of the copy are empty.    *)
(***************************************************************************)
Remainder ==
  LET upTo[i \in 0..Len(channels)] == IF i = 0 THEN <<>> ELSE upTo[i - 1] \o held[channels[i]]
  IN upTo[Len(channels)]

\* Mutant: the flushed channels keep what they held.
FlushRemainderTwice ==
  /\ got' = IF template = <<>> THEN got
            ELSE [got EXCEPT ![template[1]] = @ \o Remainder]
  /\ UNCHANGED <<channels, held, template, sent>>

FlushRemainder ==
  /\ got' = IF template = <<>> THEN got
            ELSE [got EXCEPT ![template[1]] = @ \o Remainder]
  /\ held' = [k \in Keys |-> <<>>]
  /\ UNCHANGED <<channels, template, sent>>

(***************************************************************************)
(* process_line on "[DONE]".                                               *)
(***************************************************************************)
Done ==
  /\ phase = "streaming"
  /\ FlushRemainder
  /\ phase' = "done"

\* Mutant: the end of the stream without "[DONE]" flushes nothing.
EndUnflushed ==
  /\ phase \in {"streaming", "done"}
  /\ phase' = "ended"
  /\ UNCHANGED <<channels, held, template, sent, got>>

(***************************************************************************)
(* The provider closes the stream, with or without a "[DONE]".             *)
(***************************************************************************)
End ==
  /\ phase \in {"streaming", "done"}
  /\ FlushRemainder
  /\ phase' = "ended"

(***************************************************************************)
(* The connection to the provider fails: the generator ends there.         *)
(***************************************************************************)
Break ==
  /\ phase \in {"streaming", "done"}
  /\ phase' = "broken"
  /\ UNCHANGED <<channels, held, template, sent, got>>

(***************************************************************************)
(* Bound: the streams share MaxText.                                       *)
(***************************************************************************)
Size(event) == Cardinality(UNION {{i} \X DOMAIN event[i].text : i \in DOMAIN event})
SizedEvents == {<<event, Size(event)>> : event \in Events}
SoFar == Cardinality(UNION {{s} \X DOMAIN sent[s] : s \in Streams})

Sending ==
  \E room \in 0..MaxText :
    room + SoFar = MaxText /\ \E x \in SizedEvents : x[2] <= room /\ Event(x[1])

Next == Sending \/ Done \/ End \/ Break

Spec == Init /\ [][Next]_vars

-----------------------------------------------------------------------------

TypeOK ==
  /\ \A s \in Streams : sent[s] \in Seq(Char)
  /\ \A k \in Keys : held[k] \in Seq(Char) /\ Len(held[k]) <= MAX_TOKEN_LEN
  /\ \A k \in Keys : held[k] # <<>> => k \in Range(channels)
  /\ Range(channels) \subseteq Keys /\ IsInjective(channels)
  /\ template \in Seq(Streams)
  /\ phase \in {"streaming", "done", "ended", "broken"}

(***************************************************************************)
(* The invariant stream.py states for any chunking: while the reply is     *)
(* streaming, what the client has of a stream and what its channel holds   *)
(* make up that stream detokenized.  A partial token is never released     *)
(* early, no text is held or rewritten twice, and a text under another key *)
(* does not disturb it.  Once streams share a channel it fails.            *)
(***************************************************************************)
SameAsWhole ==
  phase = "streaming" =>
    \A s \in Streams : Detokenized(sent[s]) = got[s] \o held[ChannelOf(s)]

(***************************************************************************)
(* The hold-back is bounded and minimal: only an unterminated token at the *)
(* end of the text (or of its last line) is ever held, so that text        *)
(* without tokens is never delayed.                                        *)
(***************************************************************************)
HoldsOnlyATail ==
  \A s \in Streams :
    LET tail == held[ChannelOf(s)]
        from == Len(sent[s]) - Len(tail) + 1
    IN tail # <<>> => /\ Len(tail) <= MAX_TOKEN_LEN
                      /\ tail = SubSeq(sent[s], from, Len(sent[s]))
                      /\ OpensTail(sent[s], from)

\* With more channels, what all of them hold goes into the first field.
Single == Len(channels) <= 1

(***************************************************************************)
(* When the provider ends a reply of a single stream, the client has all   *)
(* of it, except for an unterminated token at its very end.                *)
(***************************************************************************)
LosesOnlyATail ==
  phase = "ended" /\ Single =>
    \A s \in Streams :
      \/ got[s] = Detokenized(sent[s])
      \/ \E i \in 1..Len(sent[s]) :
           /\ OpensTail(sent[s], i) /\ Len(sent[s]) - i < MAX_TOKEN_LEN
           /\ got[s] = Detokenized(SubSeq(sent[s], 1, i - 1))

(***************************************************************************)
(* "Any text still held back at end-of-stream is emitted": the docstring   *)
(* of _detok_sse_iter.  It is lost when the last event has no text field   *)
(* to put it in.                                                           *)
(***************************************************************************)
ReplyIsWhole ==
  phase = "ended" /\ Single => \A s \in Streams : got[s] = Detokenized(sent[s])

(***************************************************************************)
(* The held-back end does arrive when the last event bears text of the     *)
(* stream: it is neither lost nor flushed twice, with or without "[DONE]". *)
(***************************************************************************)
WholeAfterText ==
  phase = "ended" /\ Single =>
    \A s \in Range(template) : got[s] = Detokenized(sent[s])

=============================================================================
