---------------------------- MODULE Detokenize ----------------------------
(***************************************************************************)
(* Rewriting the tokens of a reply: detokenize_text on a whole text, and   *)
(* StreamDetokenizer.feed on a chunk of one.                               *)
(*                                                                         *)
(* A text is a sequence of characters, of which only "[", "]" and the      *)
(* class Letters ([A-Z0-9_]) matter to the regular expressions.  The       *)
(* tokens of the request being answered are fixed before its reply starts. *)
(***************************************************************************)
EXTENDS Naturals, Sequences

CONSTANTS
  Letters,         \* characters a token is made of
  Others,          \* every other character
  Known,           \* the allowed tokens that resolve, as texts
  Value(_),        \* what such a token stands for
  MAX_TOKEN_LEN    \* the longest token ever minted

Char == Letters \cup Others \cup {"[", "]"}

ASSUME KnownAssumption ==
  /\ {"[", "]", "\n"} \cap Letters = {}
  /\ MAX_TOKEN_LEN \in Nat
  /\ \A t \in Known :
       /\ t \in Seq(Char) /\ Len(t) \in 3..MAX_TOKEN_LEN
       /\ t[1] = "[" /\ t[Len(t)] = "]"
       /\ \A i \in 2..(Len(t) - 1) : t[i] \in Letters

(***************************************************************************)
(* The known tokens that start at position i of text.                      *)
(***************************************************************************)
TokensAt(text, i) ==
  {t \in Known : i + Len(t) - 1 <= Len(text) /\ SubSeq(text, i, i + Len(t) - 1) = t}

InToken(text, i) ==
  \E j \in 1..i : \E t \in TokensAt(text, j) : i < j + Len(t)

(***************************************************************************)
(* detokenize_text: known tokens are replaced by their values, which are   *)
(* not looked into again; everything else stays, unknown tokens included.  *)
(***************************************************************************)
Rewritten(text, i) ==
  IF TokensAt(text, i) # {} THEN <<Value(CHOOSE t \in TokensAt(text, i) : TRUE)>>
  ELSE IF InToken(text, i) THEN <<>> ELSE <<text[i]>>

Detokenized(text) ==
  LET upTo[i \in 0..Len(text)] == IF i = 0 THEN <<>> ELSE upTo[i - 1] \o Rewritten(text, i)
  IN upTo[Len(text)]

(***************************************************************************)
(* _PARTIAL_TOKEN_TAIL: the position of the "[" of an unterminated token.  *)
(* The "$" of the expression also matches before a line break at the end.  *)
(***************************************************************************)
EndsLine(text, j) == j = Len(text) /\ text[j] = "\n"

OpensTail(text, i) ==
  /\ text[i] = "["
  /\ \A j \in (i + 1)..Len(text) : text[j] \in Letters \/ EndsLine(text, j)

\* Mutant: a tail one character short of the longest token is not held.
CutShort(buf) ==
  IF \E i \in 1..Len(buf) : OpensTail(buf, i) /\ Len(buf) - i + 1 < MAX_TOKEN_LEN - 1
  THEN (CHOOSE i \in 1..Len(buf) : OpensTail(buf, i)) - 1
  ELSE Len(buf)

\* Mutant: everything from the first bracket on is held.
CutAtBracket(buf) ==
  IF \E i \in 1..Len(buf) : buf[i] = "["
  THEN (CHOOSE i \in 1..Len(buf) : buf[i] = "[") - 1
  ELSE Len(buf)

(***************************************************************************)
(* feed: how much of the buffered text is released; the rest is held.      *)
(***************************************************************************)
Cut(buf) ==
  IF \E i \in 1..Len(buf) : OpensTail(buf, i) /\ Len(buf) - i + 1 <= MAX_TOKEN_LEN
  THEN (CHOOSE i \in 1..Len(buf) : OpensTail(buf, i)) - 1
  ELSE Len(buf)

Emitted(buf) == Detokenized(SubSeq(buf, 1, Cut(buf)))
Held(buf)    == SubSeq(buf, Cut(buf) + 1, Len(buf))

=============================================================================
