----------------------------- MODULE RuleEngine -----------------------------
(***************************************************************************)
(* PolicyEngine of the application (domestique_app/services/policy.py): a  *)
(* list of rules kept in order of priority, from which a request takes the *)
(* first that matches.  evaluate walks the list without the lock that      *)
(* add_rule holds while it appends and sorts in place; list.sort leaves    *)
(* the list empty until it ends.                                           *)
(***************************************************************************)
EXTENDS Integers, Sequences, FiniteSets

CONSTANTS
  RuleNames,
  Rule,          \* of each name: [priority, enabled, match]
  Contexts,      \* requests: [category, host, app, now, confidence]
  Day,           \* the length of a day
  FileRules,     \* the rules of the file, in its order
  Evaluators,
  MaxEvaluations, MaxRemovals  \* bounds

Times == 0 .. Day - 1

ASSUME RuleAssumption ==
  /\ {Day, MaxEvaluations, MaxRemovals} \subseteq Nat
  /\ \A r \in RuleNames :
       /\ Rule[r].priority \in Int /\ Rule[r].match.confidence \in Nat
       /\ Rule[r].match.time \in {<<>>} \cup Times \X Times
  /\ \A context \in Contexts : context.now \in Times /\ context.confidence \in Nat
  /\ FileRules \in Seq(RuleNames)

Any == "any"
Fallback == "<default>"

VARIABLES
  lists,     \* the list objects made
  list,      \* _rules: the one in use
  adder,     \* add_rule: where it is, under _lock; the book before
  walk,      \* of each evaluator: its request, the list and place it is at
  evaluations, removals,
  book       \* history: the rules in force, in the order they came

engineVars == <<lists, list, adder, walk, evaluations, removals, book>>

-----------------------------------------------------------------------------
(***************************************************************************)
(* MatchCondition: every condition that is given must hold.  A host        *)
(* pattern is a host or a wildcard, the set of hosts under a suffix; {}    *)
(* and <<>> are no condition, as None, "" and a range that does not parse. *)
(***************************************************************************)
InTimeRange(start, end, now) ==
  IF start <= end THEN start <= now /\ now <= end ELSE now >= start \/ now <= end

Matches(match, context) ==
  /\ match.category \in {Any, context.category}
  /\ match.hosts = {} \/ context.host \in match.hosts
  /\ match.app \in {Any, context.app}
  /\ match.time = <<>> \/ InTimeRange(match.time[1], match.time[2], context.now)
  /\ context.confidence >= match.confidence

AppliesTo(r, context) == Rule[r].enabled /\ Matches(Rule[r].match, context)

(***************************************************************************)
(* The rules at some of their places, in the order of a set of pairs.      *)
(***************************************************************************)
Order(places, before) ==
  [k \in 1 .. Cardinality(places) |->
     CHOOSE i \in places : Cardinality({j \in places : <<j, i>> \in before}) = k - 1]

Arranged(rules, places, before) ==
  [k \in 1 .. Cardinality(places) |-> rules[Order(places, before)[k]]]

Priority(rules, i) == Rule[rules[i]].priority

Outranks(rules, i, j) == Priority(rules, i) > Priority(rules, j)
Equals(rules, i, j)   == Priority(rules, i) = Priority(rules, j)

\* Mutant: equals come in the reverse of their order.
AheadReversed(rules) ==
  {p \in (DOMAIN rules) \X (DOMAIN rules) :
     Outranks(rules, p[1], p[2]) \/ (Equals(rules, p[1], p[2]) /\ p[1] > p[2])}

(***************************************************************************)
(* sorted(key=priority, reverse=True), which keeps equals in their order.  *)
(***************************************************************************)
Ahead(rules) ==
  {p \in (DOMAIN rules) \X (DOMAIN rules) :
     Outranks(rules, p[1], p[2]) \/ (Equals(rules, p[1], p[2]) /\ p[1] < p[2])}

Sorted(rules) == Arranged(rules, DOMAIN rules, Ahead(rules))

EngineInit ==
  /\ lists = <<Sorted(FileRules)>> /\ list = 1
  /\ adder = [at |-> "idle", before |-> <<>>, sorting |-> <<>>]
  /\ walk = [e \in Evaluators |-> [at |-> "idle"]]
  /\ evaluations = 0 /\ removals = 0
  /\ book = FileRules

LockIsFree == adder.at = "idle"
Listed(r) == \E i \in DOMAIN lists[list] : lists[list][i] = r

-----------------------------------------------------------------------------
(***************************************************************************)
(* add_rule: append, and sort in place.                                    *)
(***************************************************************************)
Walking(e) == walk[e].at = "walking"

\* The books in force while a walk goes on are kept with it.
Booked(b) ==
  /\ book' = b
  /\ walk' = [e \in Evaluators |->
                IF Walking(e) THEN [walk[e] EXCEPT !.books = @ \cup {b}] ELSE walk[e]]

AddAppends(r) ==
  /\ LockIsFree /\ ~Listed(r)
  /\ lists' = [lists EXCEPT ![list] = Append(@, r)]
  /\ adder' = [adder EXCEPT !.at = "appended", !.before = book]
  /\ Booked(Append(book, r))
  /\ UNCHANGED <<list, evaluations, removals>>

SortStarts ==
  /\ adder.at = "appended"
  /\ adder' = [adder EXCEPT !.at = "sorting", !.sorting = lists[list]]
  /\ lists' = [lists EXCEPT ![list] = <<>>]
  /\ walk' = [e \in Evaluators |->
                IF Walking(e) /\ walk[e].over = list
                  THEN [walk[e] EXCEPT !.sorted = TRUE] ELSE walk[e]]
  /\ UNCHANGED <<list, evaluations, removals, book>>

\* Mutant: add_rule ends without having sorted.
SortEndsUnsorted ==
  /\ adder.at = "sorting"
  /\ lists' = [lists EXCEPT ![list] = adder.sorting]
  /\ adder' = [at |-> "idle", before |-> <<>>, sorting |-> <<>>]
  /\ UNCHANGED <<list, walk, evaluations, removals, book>>

SortEnds ==
  /\ adder.at = "sorting"
  /\ lists' = [lists EXCEPT ![list] = Sorted(adder.sorting)]
  /\ adder' = [at |-> "idle", before |-> <<>>, sorting |-> <<>>]
  /\ UNCHANGED <<list, walk, evaluations, removals, book>>

(***************************************************************************)
(* remove_rule makes a new list: a walk over the old one goes on there.    *)
(***************************************************************************)
Remaining(r, rules) ==
  LET kept == {i \in DOMAIN rules : rules[i] # r}
  IN Arranged(rules, kept, {p \in kept \X kept : p[1] < p[2]})

Remove(r) ==
  /\ LockIsFree /\ removals < MaxRemovals
  /\ lists' = Append(lists, Remaining(r, lists[list]))
  /\ list' = Len(lists')
  /\ Booked(Remaining(r, book))
  /\ removals' = removals + 1
  /\ UNCHANGED <<adder, evaluations>>

-----------------------------------------------------------------------------
(***************************************************************************)
(* evaluate: the count under the lock, then the walk without it.           *)
(***************************************************************************)
Count(e, context) ==
  /\ walk[e].at = "idle" /\ LockIsFree /\ evaluations < MaxEvaluations
  /\ evaluations' = evaluations + 1
  /\ walk' = [walk EXCEPT ![e] = [at |-> "counted", context |-> context]]
  /\ UNCHANGED <<lists, list, adder, removals, book>>

OpenList(e) ==
  /\ walk[e].at = "counted"
  /\ walk' = [walk EXCEPT ![e] =
       [at |-> "walking", context |-> walk[e].context, over |-> list, place |-> 1,
        books |-> {book, IF LockIsFree THEN book ELSE adder.before}, sorted |-> adder.at = "sorting"]]
  /\ UNCHANGED <<lists, list, adder, evaluations, removals, book>>

Decided(e, by) == [at |-> "decided", context |-> walk[e].context, books |-> walk[e].books,
                   sorted |-> walk[e].sorted, by |-> by]

Look(e) ==
  LET rules == lists[walk[e].over]
      place == walk[e].place
  IN /\ Walking(e)
     /\ walk' = [walk EXCEPT ![e] =
          IF place > Len(rules) THEN Decided(e, Fallback)
          ELSE IF AppliesTo(rules[place], @.context) THEN Decided(e, rules[place])
          ELSE [@ EXCEPT !.place = place + 1]]
     /\ UNCHANGED <<lists, list, adder, evaluations, removals, book>>

Answer(e) ==
  /\ walk[e].at = "decided" /\ LockIsFree
  /\ walk' = [walk EXCEPT ![e] = [at |-> "idle"]]
  /\ UNCHANGED <<lists, list, adder, evaluations, removals, book>>

EngineNext ==
  \/ SortStarts \/ SortEnds
  \/ \E r \in RuleNames : AddAppends(r) \/ Remove(r)
  \/ \E e \in Evaluators : \/ OpenList(e) \/ Look(e) \/ Answer(e)
                           \/ \E context \in Contexts : Count(e, context)

EngineSpec == EngineInit /\ [][EngineNext]_engineVars

-----------------------------------------------------------------------------
(***************************************************************************)
(* Type invariant: the lists hold rules, once each in the list in use, and *)
(* while nobody sorts the list in use is in order of priority.             *)
(***************************************************************************)
EngineTypeOK ==
  /\ list \in DOMAIN lists
  /\ \A i \in DOMAIN lists : lists[i] \in Seq(RuleNames)
  /\ adder.at \in {"idle", "appended", "sorting"}
  /\ adder.at = "idle" => lists[list] = Sorted(book)
  /\ \A e \in Evaluators : walk[e].at \in {"idle", "counted", "walking", "decided"}
  /\ evaluations \in 0 .. MaxEvaluations /\ removals \in 0 .. MaxRemovals

(***************************************************************************)
(* What a request should get from a book of rules: the first to come among *)
(* the matching ones of the highest priority.  A range of time is walked   *)
(* from its start around the clock.                                        *)
(***************************************************************************)
Covers(r, context) ==
  LET match == Rule[r].match
      around(t) == (t + Day - match.time[1]) % Day
  IN /\ Rule[r].enabled
     /\ match.category = Any \/ match.category = context.category
     /\ match.hosts = {} \/ context.host \in match.hosts
     /\ match.app = Any \/ match.app = context.app
     /\ match.time = <<>> \/ around(context.now) <= around(match.time[2])
     /\ match.confidence <= context.confidence

Reference(b, context) ==
  LET covering == {i \in DOMAIN b : Covers(b[i], context)}
      best == {i \in covering : \A j \in covering :
                 \/ Rule[b[j]].priority < Rule[b[i]].priority
                 \/ Rule[b[j]].priority = Rule[b[i]].priority /\ i <= j}
  IN IF covering = {} THEN Fallback ELSE b[CHOOSE i \in best : TRUE]

(***************************************************************************)
(* A decision is that of the rules in force at some moment of its walk, a  *)
(* rule being added counted or not, unless a sort ran under it:            *)
(* then it is some rule that covers the request, or the default action     *)
(* (evaluate against add_rule and remove_rule).                            *)
(***************************************************************************)
DecisionsAreTheRules ==
  \A e \in Evaluators : walk[e].at = "decided" =>
    IF walk[e].sorted
      THEN walk[e].by = Fallback \/ Covers(walk[e].by, walk[e].context)
      ELSE \E b \in walk[e].books : walk[e].by = Reference(b, walk[e].context)

(***************************************************************************)
(* Types; and a decision is the reference's over a set of rules that was   *)
(* in force, whatever was sorted, added or removed under it.               *)
(***************************************************************************)
EngineIsSound == EngineTypeOK /\ DecisionsAreTheRules

=============================================================================
