-------------------------- MODULE LibraryRedaction --------------------------
(***************************************************************************)
(* The library's own redaction: RedactionEngine (redaction.py), the        *)
(* LiteLLM callback that runs it over the messages of a call               *)
(* (callback.py), and redact and restore of the SDK (sdk.py).              *)
(*                                                                         *)
(* A text is a sequence of words [c, v, n]: a value v of category c that a *)
(* pattern of the engine matches (n = 0), the token number n of category   *)
(* c, or a plain word of the category Plain.  Matches that overlap are     *)
(* left out.                                                               *)
(***************************************************************************)
EXTENDS Naturals, Sequences, FiniteSets

CONSTANTS
  Plain,         \* no category
  RuleOf,        \* of each category: "block" or "redact", its default rule
  Writings,      \* texts that are written
  MaxMessages,   \* bound: messages of a conversation
  MaxCompletions \* bound: calls made with it

PatternCategories == DOMAIN RuleOf
WordValues == {"token"} \cup UNION {{words[i].v : i \in DOMAIN words} : words \in Writings}
Words == [c : PatternCategories \cup {Plain}, v : WordValues, n : Nat]

ASSUME LibraryAssumption ==
  /\ Plain \notin PatternCategories
  /\ \A c \in PatternCategories : RuleOf[c] \in {"block", "redact"}
  /\ Writings \subseteq Seq(Words)
  /\ MaxMessages \in Nat /\ MaxCompletions \in Nat

VARIABLES
  mode,       \* of the callback: "block" or "redact"
  messages,   \* [scanned, words] and, as history, [original, by]
  redactor,   \* of the call: the values minted, by category
  cursor,     \* the message the callback is at; 0 between calls
  callsMade,
  outcome,    \* of the last call: "none", "sent" or "raised"
  outgoing,   \* what the last call sent
  sdkResult   \* the RedactResult of the SDK, and its text

libraryVars == <<mode, messages, redactor, cursor, callsMade, outcome, outgoing, sdkResult>>

Nowhere == <<0, 0>>
Fresh == [c \in PatternCategories |-> <<>>]
Exposed(w) == w.c \in PatternCategories /\ w.n = 0
CategoriesIn(words) == {words[i].c : i \in {j \in DOMAIN words : Exposed(words[j])}}
Blocks(words) == \E c \in CategoriesIn(words) : RuleOf[c] = "block"

-----------------------------------------------------------------------------
(***************************************************************************)
(* tokenize: a value keeps the number it was given.                        *)
(***************************************************************************)
Minted(e, w) ==
  IF \E i \in DOMAIN e[w.c] : e[w.c][i] = w.v THEN e ELSE [e EXCEPT ![w.c] = Append(@, w.v)]

\* Mutant: the numbers are one ahead of the mapping.
NumberAhead(e, w) == 1 + (CHOOSE i \in DOMAIN e[w.c] : e[w.c][i] = w.v)

Number(e, w) == CHOOSE i \in DOMAIN e[w.c] : e[w.c][i] = w.v

(***************************************************************************)
(* redact, for a text that is not blocked: from the last value back.       *)
(***************************************************************************)
RedactWord(done, w, i) ==
  LET grown == Minted(done.engine, w)
  IN IF ~Exposed(w) THEN done
     ELSE [words |-> [done.words EXCEPT ![i] = [c |-> w.c, v |-> "token", n |-> Number(grown, w)]],
           engine |-> grown]

Redaction(words, e) ==
  LET n == Len(words)
      after[k \in 0 .. n] ==
        IF k = 0 THEN [words |-> words, engine |-> e]
                 ELSE RedactWord(after[k - 1], words[n + 1 - k], n + 1 - k)
  IN after[n]

RestoredText(words, e) ==
  [i \in DOMAIN words |->
     IF words[i].n \in (IF words[i].c = Plain THEN {} ELSE DOMAIN e[words[i].c])
     THEN [c |-> words[i].c, v |-> e[words[i].c][words[i].n], n |-> 0]
     ELSE words[i]]

-----------------------------------------------------------------------------
LibraryInit ==
  /\ mode \in {"block", "redact"}
  /\ messages = <<>> /\ redactor = Fresh /\ cursor = 0 /\ callsMade = 0
  /\ outcome = "none" /\ outgoing = <<>>
  /\ sdkResult = [text |-> <<>>, words |-> <<>>, engine |-> Fresh]

(***************************************************************************)
(* External: the application adds a message to its list; only those of the *)
(* user whose content is a string are scanned.                             *)
(***************************************************************************)
Say(scanned, words) ==
  /\ cursor = 0 /\ Len(messages) < MaxMessages
  /\ messages' = Append(messages, [scanned |-> scanned, words |-> words, original |-> words,
                                   by |-> Nowhere])
  /\ UNCHANGED <<mode, redactor, cursor, callsMade, outcome, outgoing, sdkResult>>

(***************************************************************************)
(* log_pre_api_call: an engine for the call, then message after message,   *)
(* each changed in place.                                                  *)
(***************************************************************************)
CallLLM ==
  /\ cursor = 0 /\ messages # <<>> /\ callsMade < MaxCompletions
  /\ cursor' = 1 /\ redactor' = Fresh /\ callsMade' = callsMade + 1
  /\ outcome' = "none" /\ outgoing' = <<>>
  /\ UNCHANGED <<mode, messages, sdkResult>>

Current == messages[cursor]
Pending == cursor \in DOMAIN messages

Passes == Pending /\ (~Current.scanned \/ CategoriesIn(Current.words) = {})

Skip ==
  /\ Passes /\ cursor' = cursor + 1
  /\ UNCHANGED <<mode, messages, redactor, callsMade, outcome, outgoing, sdkResult>>

\* Mutant: into the last message, not the one looked at.
RewritesLast(words, by) ==
  messages' = [messages EXCEPT ![Len(messages)].words = words, ![Len(messages)].by = by]

Rewrites(words, by) ==
  messages' = [messages EXCEPT ![cursor].words = words, ![cursor].by = by]

\* Mutant: an engine for each message.
RedactsApart(e) == Rewrites(Redaction(Current.words, Fresh).words, <<callsMade, 0>>)

Redacts(e) == Rewrites(Redaction(Current.words, e).words, <<callsMade, 0>>)

RedactMessage ==
  /\ Pending /\ ~Passes /\ ~Blocks(Current.words)
  /\ Redacts(redactor)
  /\ redactor' = Redaction(Current.words, redactor).engine
  /\ cursor' = cursor + 1
  /\ UNCHANGED <<mode, callsMade, outcome, outgoing, sdkResult>>

(***************************************************************************)
(* A message with a category that blocks: the call is refused, or in mode  *)
(* "redact" an engine of its own redacts the message.                      *)
(***************************************************************************)
\* Mutant: a blocked message is left out of a call that goes on.
RefusesOne == cursor' = cursor + 1 /\ UNCHANGED outcome

Refuses == cursor' = 0 /\ outcome' = "raised"

Refuse ==
  /\ Pending /\ ~Passes /\ Blocks(Current.words) /\ mode = "block"
  /\ Refuses
  /\ UNCHANGED <<mode, messages, redactor, callsMade, outgoing, sdkResult>>

Enforce ==
  /\ Pending /\ ~Passes /\ Blocks(Current.words) /\ mode = "redact"
  /\ Rewrites(Redaction(Current.words, Fresh).words, <<callsMade, cursor>>)
  /\ cursor' = cursor + 1
  /\ UNCHANGED <<mode, redactor, callsMade, outcome, outgoing, sdkResult>>

Send ==
  /\ cursor > Len(messages)
  /\ outgoing' = messages /\ outcome' = "sent" /\ cursor' = 0
  /\ UNCHANGED <<mode, messages, redactor, callsMade, sdkResult>>

(***************************************************************************)
(* redact of the SDK, with an engine of its own; a text that is blocked    *)
(* comes back as it was.                                                   *)
(***************************************************************************)
SdkRedact(text) ==
  /\ LET r == IF Blocks(text) THEN [words |-> text, engine |-> Fresh] ELSE Redaction(text, Fresh)
     IN sdkResult' = [text |-> text, words |-> r.words, engine |-> r.engine]
  /\ UNCHANGED <<mode, messages, redactor, cursor, callsMade, outcome, outgoing>>

LibraryNext ==
  \/ \E scanned \in BOOLEAN, words \in Writings : Say(scanned, words)
  \/ CallLLM \/ Skip \/ RedactMessage \/ Refuse \/ Enforce \/ Send
  \/ \E text \in Writings : SdkRedact(text)

LibrarySpec == LibraryInit /\ [][LibraryNext]_libraryVars

-----------------------------------------------------------------------------
(***************************************************************************)
(* Type invariant; a message never grows or shrinks, its plain words stay  *)
(* and a value becomes a token of its category or stays what it was.       *)
(***************************************************************************)
LibraryTypeOK ==
  /\ mode \in {"block", "redact"} /\ outcome \in {"none", "sent", "raised"}
  /\ cursor \in 0 .. Len(messages) + 1 /\ callsMade \in 0 .. MaxCompletions
  /\ \A k \in DOMAIN messages :
       LET m == messages[k] IN
         /\ DOMAIN m.words = DOMAIN m.original
         /\ \A i \in DOMAIN m.words :
              \/ m.words[i] = m.original[i]
              \/ /\ m.scanned /\ Exposed(m.original[i])
                 /\ m.words[i].c = m.original[i].c
                 /\ m.words[i].v = "token" /\ m.words[i].n > 0

(***************************************************************************)
(* A call that goes out carries no value in a string of the user's,        *)
(* whichever message, turn or retry it is of, and in mode "block" none     *)
(* that came with a value of a blocking category (the callback's           *)
(* docstring).                                                             *)
(***************************************************************************)
NothingGoesOut ==
  outcome = "sent" =>
    \A k \in DOMAIN outgoing :
      outgoing[k].scanned => /\ CategoriesIn(outgoing[k].words) = {}
                             /\ mode = "block" => ~Blocks(outgoing[k].original)

(***************************************************************************)
(* Messages that one engine redacted share their tokens: the same token    *)
(* exactly for the same value (redaction.py: "Deterministic tokens for     *)
(* same input within a session").                                          *)
(***************************************************************************)
WasRedacted(m, i) == m.words[i] # m.original[i]

TokensTellValues ==
  \A j, k \in DOMAIN messages :
    LET a == messages[j]
        b == messages[k]
    IN a.by = b.by /\ a.by # Nowhere =>
         \A i \in DOMAIN a.words, l \in DOMAIN b.words :
           WasRedacted(a, i) /\ WasRedacted(b, l) =>
             (a.words[i] = b.words[l] <=> a.original[i] = b.original[l])

(***************************************************************************)
(* restore undoes redact, in a text without tokens the user typed.         *)
(***************************************************************************)
RestoreUndoes ==
  (\A i \in DOMAIN sdkResult.text : sdkResult.text[i].n = 0) =>
    RestoredText(sdkResult.words, sdkResult.engine) = sdkResult.text
=============================================================================
