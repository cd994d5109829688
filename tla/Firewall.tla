------------------------------ MODULE Firewall ------------------------------
(***************************************************************************)
(* One request through the API firewall (domestique/app.py): the texts of  *)
(* its body are extracted, every detector scans every text at once, the    *)
(* policy decides over all that was found, the decision is audited, and    *)
(* the body is refused, or sent upstream as it is or with the spans        *)
(* replaced.                                                               *)
(*                                                                         *)
(* A text of n characters is sent as a sequence of the offsets 0 .. n - 1  *)
(* that are left of it and of Mark, the characters of a placeholder.       *)
(***************************************************************************)
EXTENDS Naturals, Sequences, FiniteSets

CONSTANTS
  TextFields,        \* numbers of the text fields a body may have
  TextLength,    \* of each field's text
  Detectors,     \* numbers of the detectors
  Results,       \* what a scan may return: sequences of [start, end, category]
  Raised,        \* a scan that raised
  Decides,       \* of each category: the action the policy takes for it
  MarkLength,    \* of each category: the length of its placeholder
  Mark

Findings == [start : Nat, end : Nat, category : DOMAIN Decides]

ASSUME FirewallAssumption ==
  /\ TextFields \subseteq Nat /\ TextLength \in [TextFields -> Nat]
  /\ IsFiniteSet(Detectors) /\ Detectors = 1 .. Cardinality(Detectors)
  /\ \A c \in DOMAIN Decides :
       Decides[c] \in {"allow", "redact", "block"} /\ MarkLength[c] \in Nat \ {0}
  /\ Results \subseteq Seq(Findings) /\ Raised \notin Results
  /\ \A r \in Results : \A i \in DOMAIN r : r[i].start <= r[i].end
  /\ Mark \notin Nat

VARIABLES
  stage,      \* where the handler is
  texts,      \* fields with scannable text
  results,    \* of each task that ended: what it returned
  action,     \* the verdict
  audit,      \* lines of the audit file: action and number of findings
  forwarded,       \* bodies sent upstream: the text of each field
  status      \* the reply: 0 or the status

fwVars == <<stage, texts, results, action, audit, forwarded, status>>

Tasks == texts \X Detectors
Original == [f \in TextFields |-> [i \in 1 .. TextLength[f] |-> i - 1]]

FwInit ==
  /\ stage = "parse" /\ texts = {} /\ results = <<>>
  /\ action = "none" /\ audit = <<>> /\ forwarded = <<>> /\ status = 0

Reply(code) == status' = code /\ stage' = "replied"

-----------------------------------------------------------------------------
(***************************************************************************)
(* A body that is no JSON is answered by 400, one of another shape raises. *)
(***************************************************************************)
ParseFails ==
  /\ stage = "parse"
  /\ Reply(400) \/ Reply(500)
  /\ UNCHANGED <<texts, results, action, audit, forwarded>>

(***************************************************************************)
(* Extraction: without a text the body is sent at once.                    *)
(***************************************************************************)
Extract ==
  /\ stage = "parse"
  /\ texts' \in SUBSET TextFields
  /\ stage' = IF texts' = {} THEN "forward" ELSE "gather"
  /\ UNCHANGED <<results, action, audit, forwarded, status>>

(***************************************************************************)
(* The scans end in any order; a finding lies within its text (the marker  *)
(* of a model that is missing is the span 0, 0).                           *)
(***************************************************************************)
ResultsIn(f) == {r \in Results : \A i \in DOMAIN r : r[i].end <= TextLength[f]}

ScanReturns(t) ==
  /\ stage = "gather" /\ t \in Tasks \ DOMAIN results
  /\ \E r \in ResultsIn(t[1]) \cup {Raised} :
       results' = [u \in DOMAIN results \cup {t} |-> IF u = t THEN r ELSE results[u]]
  /\ UNCHANGED <<stage, texts, action, audit, forwarded, status>>

(***************************************************************************)
(* The detections of a field, by detector; what raised is left out.        *)
(***************************************************************************)
Returned(t) == IF results[t] = Raised THEN <<>> ELSE results[t]

InField(f) ==
  LET upTo[d \in 0 .. Cardinality(Detectors)] ==
        IF d = 0 THEN <<>> ELSE upTo[d - 1] \o Returned(<<f, d>>)
  IN upTo[Cardinality(Detectors)]

\* Mutant: a scan that raises takes those of its field with it.
DetectionsDropped ==
  [f \in texts |-> IF \E d \in Detectors : results[<<f, d>>] = Raised THEN <<>> ELSE InField(f)]

Detections == [f \in texts |-> InField(f)]

AllFound(all) == UNION {{<<f, i>> : i \in DOMAIN all[f]} : f \in DOMAIN all}
Categories(all) == {all[p[1]][p[2]].category : p \in AllFound(all)}

Verdict(all) ==
  LET actions == {Decides[c] : c \in Categories(all)}
  IN IF "block" \in actions THEN "block"
     ELSE IF "redact" \in actions THEN "redact" ELSE "allow"

(***************************************************************************)
(* The decision, its audit line and what is done about it.  The spans of a *)
(* field are replaced in the order of falling starts, those that start     *)
(* together in the order they were found in.                               *)
(***************************************************************************)
SortSeqBy(s, Before(_, _)) ==
  LET place(i) == 1 + Cardinality({j \in DOMAIN s : \/ Before(s[j], s[i])
                                                    \/ j < i /\ ~Before(s[i], s[j])})
  IN [k \in DOMAIN s |-> s[CHOOSE i \in DOMAIN s : place(i) = k]]

\* Mutant: in the order of rising starts.
InOrderRising(spans) ==
  SortSeqBy(spans, LAMBDA p, q : p.start < q.start)

InOrder(spans) == SortSeqBy(spans, LAMBDA p, q : p.start > q.start)

Placeholder(c) == [i \in 1 .. MarkLength[c] |-> Mark]

Replaced(body, span) ==
  SubSeq(body, 1, span.start) \o Placeholder(span.category)
    \o SubSeq(body, span.end + 1, Len(body))

Redacted(f, spans) ==
  LET after[k \in 0 .. Len(spans)] ==
        IF k = 0 THEN Original[f] ELSE Replaced(after[k - 1], InOrder(spans)[k])
  IN after[Len(spans)]

Body(verdict, all) ==
  [f \in TextFields |-> IF verdict = "redact" /\ f \in texts THEN Redacted(f, all[f])
                                                        ELSE Original[f]]

\* Mutant: blocked requests are answered before they are audited.
DecideUnaudited ==
  /\ stage = "gather" /\ DOMAIN results = Tasks
  /\ action' = Verdict(Detections)
  /\ audit' = IF action' = "block" THEN audit
              ELSE Append(audit, [action |-> action',
                                  findings |-> Cardinality(AllFound(Detections))])
  /\ IF action' = "block" THEN Reply(403) ELSE stage' = "forward" /\ UNCHANGED status
  /\ UNCHANGED <<texts, results, forwarded>>

Decide ==
  /\ stage = "gather" /\ DOMAIN results = Tasks
  /\ action' = Verdict(Detections)
  /\ audit' = Append(audit, [action |-> action', findings |-> Cardinality(AllFound(Detections))])
  /\ IF action' = "block" THEN Reply(403) ELSE stage' = "forward" /\ UNCHANGED status
  /\ UNCHANGED <<texts, results, forwarded>>

(***************************************************************************)
(* Forwarding; an upstream error is 502, or raises in open mode.           *)
(***************************************************************************)
\* Mutant: an upstream error is tried once more.
ForwardRetried ==
  /\ stage = "forward"
  /\ LET body == Body(action, IF texts = {} THEN <<>> ELSE Detections)
     IN forwarded' = forwarded \o <<body>> \/ forwarded' = forwarded \o <<body, body>>
  /\ Reply(200) \/ Reply(502) \/ Reply(500)
  /\ UNCHANGED <<texts, results, action, audit>>

Forward ==
  /\ stage = "forward"
  /\ forwarded' = Append(forwarded, Body(action, IF texts = {} THEN <<>> ELSE Detections))
  /\ Reply(200) \/ Reply(502) \/ Reply(500)
  /\ UNCHANGED <<texts, results, action, audit>>

FwNext ==
  \/ ParseFails \/ Extract \/ Decide \/ Forward
  \/ \E t \in Tasks : ScanReturns(t)

FwSpec == FwInit /\ [][FwNext]_fwVars

-----------------------------------------------------------------------------
(***************************************************************************)
(* Type invariant of one request.                                          *)
(***************************************************************************)
FwTypeOK ==
  /\ stage \in {"parse", "gather", "forward", "replied"}
  /\ texts \subseteq TextFields /\ DOMAIN results \subseteq Tasks
  /\ \A t \in DOMAIN results : results[t] \in ResultsIn(t[1]) \cup {Raised}
  /\ action \in {"none", "allow", "redact", "block"}
  /\ Len(audit) <= 1 /\ Len(forwarded) <= 1
  /\ \A k \in DOMAIN forwarded, f \in TextFields :
       \A i \in DOMAIN forwarded[k][f] :
         forwarded[k][f][i] = Mark \/ forwarded[k][f][i] \in 0 .. TextLength[f] - 1
  /\ status \in {0, 200, 400, 403, 500, 502}

(***************************************************************************)
(* What a detector returned is acted upon whichever text it was in and     *)
(* whatever other scans raised: a finding the policy blocks keeps the      *)
(* request here, one it redacts is not sent on as it was.                  *)
(***************************************************************************)
Calls(f, what) ==
  \E t \in DOMAIN results : t[1] = f /\
    \E i \in DOMAIN Returned(t) : Decides[Returned(t)[i].category] = what

FindingsCount ==
  forwarded # <<>> =>
    \A f \in texts : /\ ~Calls(f, "block")
                     /\ Calls(f, "redact") => forwarded[1][f] # Original[f]

(***************************************************************************)
(* Where the spans of a text do not overlap and no two start together, it  *)
(* is sent with a placeholder in the place of each and everything else as  *)
(* it was (the docstring of _apply_redactions).                            *)
(***************************************************************************)
FoundIn(f) ==
  UNION {{<<t, i>> : i \in DOMAIN Returned(t)} : t \in {u \in DOMAIN results : u[1] = f}}
SpanAt(x) == Returned(x[1])[x[2]]
AreApart(p, q) == p.start # q.start /\ (p.end <= q.start \/ q.end <= p.start)
Apart(f) == \A x, y \in FoundIn(f) : x = y \/ AreApart(SpanAt(x), SpanAt(y))

PieceAt(spans, length, o) ==
  LET starts == {p \in spans : p.start = o}
  IN (IF starts = {} THEN <<>> ELSE Placeholder((CHOOSE p \in starts : TRUE).category))
       \o (IF o = length \/ \E p \in spans : p.start <= o /\ o < p.end THEN <<>> ELSE <<o>>)

Wanted(spans, length) ==
  LET upTo[o \in 0 .. length + 1] ==
        IF o = 0 THEN <<>> ELSE upTo[o - 1] \o PieceAt(spans, length, o - 1)
  IN upTo[length + 1]

PlacesAreReplaced ==
  forwarded # <<>> /\ action = "redact" =>
    \A f \in texts :
      Apart(f) => forwarded[1][f] = Wanted({SpanAt(x) : x \in FoundIn(f)}, TextLength[f])

(***************************************************************************)
(* Every request with a text that was answered left one line that says     *)
(* what was done with it, also when upstream failed.                       *)
(***************************************************************************)
AnswersAreAudited ==
  stage = "replied" /\ texts # {} =>
    /\ Len(audit) = 1 /\ audit[1].action = action
    /\ action = "block" <=> forwarded = <<>>

=============================================================================
