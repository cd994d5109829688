---------------------------- MODULE Approvals ----------------------------
(***************************************************************************)
(* Holding a blocked request for the user's decision: the interceptor's    *)
(* thread (_request_approval), the ApprovalManager in the API server, and  *)
(* the user on the dashboard.                                              *)
(*                                                                         *)
(* The thread posts the request, then polls until its own deadline; the    *)
(* server expires the entry by a clock of its own, which starts earlier.   *)
(* The messages between them can fail, and the server can be restarted.    *)
(*                                                                         *)
(* Time passes in ticks of the poll interval; ages stop counting when they *)
(* no longer matter (bound MaxAge).                                        *)
(***************************************************************************)
EXTENDS Naturals

CONSTANTS
  Requests,
  Timeouts,      \* values of approval_timeout_seconds, in ticks
  Retention,     \* the 5 minutes a decided entry is kept, in ticks
  MaxAge         \* bound: the age at which a clock stops counting

ASSUME ApprovalsAssumption ==
  /\ Timeouts \subseteq Nat \ {0}
  /\ Retention \in Nat /\ Retention >= 2
  /\ MaxAge \in Nat /\ Retention < MaxAge
  /\ \A t \in Timeouts : t < MaxAge

VARIABLES
  status,    \* ApprovalManager._pending: the entry of a request, or "absent"
  age,       \* ticks since created_at
  limit,     \* timeout_seconds of the entry
  decided,   \* ticks since decided_at
  pc,        \* the interceptor's thread
  wait,      \* its timeout, read from the file
  left,      \* ticks to its deadline
  slept,     \* it has slept since the last poll
  answer,    \* the status it was sent
  told,      \* history: the decision the dashboard was told is recorded
  trouble    \* history: what went wrong since the request was held

server == <<status, age, limit, decided>>
client == <<pc, wait, left, slept, answer>>
history == <<told, trouble>>
vars   == <<server, client, history>>

Decisions == {"approved", "denied"}
Final     == Decisions \cup {"expired"}

Set(f, r, x) == [f EXCEPT ![r] = x]

Init ==
  /\ status = [r \in Requests |-> "absent"]
  /\ age = [r \in Requests |-> 0]
  /\ limit = [r \in Requests |-> 0]
  /\ decided = [r \in Requests |-> 0]
  /\ pc = [r \in Requests |-> "idle"]
  /\ wait = [r \in Requests |-> 0]
  /\ left = [r \in Requests |-> 0]
  /\ slept = [r \in Requests |-> FALSE]
  /\ answer = [r \in Requests |-> "absent"]
  /\ told = [r \in Requests |-> "none"]
  /\ trouble = [r \in Requests |-> {}]

-----------------------------------------------------------------------------
(***************************************************************************)
(* The server.                                                             *)
(***************************************************************************)
IsExpired(r) == age[r] > limit[r]

Overdue(r) == status[r] = "pending" /\ IsExpired(r)

\* Mutant: a status of its own for an entry that timed out.
ExpiredTimedOut(r) == IF Overdue(r) THEN "timed out" ELSE status[r]

\* An entry that is looked at past its timeout expires.
Expired(r) == IF Overdue(r) THEN "expired" ELSE status[r]

\* Mutant: decided entries are kept.
CleanedKeeps(r) == Expired(r)

\* _cleanup_expired_locked, for one entry: expire it, drop it when it is old.
Cleaned(r) ==
  IF status[r] \in Final /\ decided[r] > Retention THEN "absent" ELSE Expired(r)

\* An entry that expires now is decided now.
Redated(r) == IF Overdue(r) THEN 0 ELSE decided[r]

(***************************************************************************)
(* submit, for the thread of request r: clean up, then add the entry.      *)
(***************************************************************************)
Submitted(r) ==
  /\ \E t \in Timeouts : limit' = Set(limit, r, t)
  /\ status' = [s \in Requests |-> IF s = r THEN "pending" ELSE Cleaned(s)]
  /\ decided' = [s \in Requests |-> IF s = r THEN 0 ELSE Redated(s)]
  /\ age' = Set(age, r, 0)

(***************************************************************************)
(* list_pending, list_recent and pending_count: the dashboard polls.       *)
(***************************************************************************)
List ==
  /\ status' = [r \in Requests |-> Cleaned(r)]
  /\ decided' = [r \in Requests |-> Redated(r)]
  /\ UNCHANGED <<age, limit, client, history>>

\* Mutant: a decision on an entry that is not pending is recorded too.
OpenAny(r) == status[r] # "absent"

Open(r) == status[r] = "pending"

(***************************************************************************)
(* decide: only an open entry within its time takes the decision.          *)
(***************************************************************************)
Decide(r, d) ==
  /\ Open(r)
  /\ IF Overdue(r)
     THEN status' = Set(status, r, "expired") /\ UNCHANGED told
     ELSE status' = Set(status, r, d) /\ told' = Set(told, r, d)
  /\ decided' = Set(decided, r, 0)
  /\ UNCHANGED <<age, limit, client, trouble>>

Restart ==
  /\ status' = [r \in Requests |-> "absent"]
  /\ trouble' = [r \in Requests |-> trouble[r] \cup {"lost"}]
  /\ UNCHANGED <<age, limit, decided, client, told>>

-----------------------------------------------------------------------------
(***************************************************************************)
(* The interceptor's thread.                                               *)
(***************************************************************************)
Lost(r) == trouble' = Set(trouble, r, trouble[r] \cup {"lost"})

Ends(r, outcome) == pc' = Set(pc, r, outcome)

\* A request is to be blocked and approval mode is on.
Hold(r) ==
  /\ pc[r] \in {"idle", "forwarded", "blocked"} /\ status[r] = "absent"
  /\ pc' = Set(pc, r, "submit")
  /\ \E t \in Timeouts : wait' = Set(wait, r, t)
  /\ told' = Set(told, r, "none")
  /\ trouble' = Set(trouble, r, {})
  /\ UNCHANGED <<server, left, slept, answer>>

Submit(r) ==
  /\ pc[r] = "submit"
  /\ pc' = Set(pc, r, "posted")
  /\ Submitted(r)
  /\ UNCHANGED <<wait, left, slept, answer, history>>

\* The post, or its reply, is lost: "denied".
SubmitFails(r) ==
  /\ pc[r] \in {"submit", "posted"}
  /\ Ends(r, "blocked")
  /\ Lost(r)
  /\ UNCHANGED <<server, wait, left, slept, answer, told>>

\* The reply arrives after created_at; only then the deadline is set.
SubmitReturns(r) ==
  /\ pc[r] = "posted" /\ age[r] > 0
  /\ pc' = Set(pc, r, "polling")
  /\ left' = Set(left, r, wait[r])
  /\ slept' = Set(slept, r, FALSE)
  /\ UNCHANGED <<server, wait, answer, history>>

MayPoll(r) == pc[r] = "polling" /\ slept[r]

\* get, called by GET /api/approvals/{id}.
Poll(r) ==
  /\ MayPoll(r)
  /\ status' = Set(status, r, Expired(r))
  /\ decided' = Set(decided, r, Redated(r))
  /\ answer' = Set(answer, r, Expired(r))
  /\ pc' = Set(pc, r, "polled")
  /\ UNCHANGED <<age, limit, wait, left, slept, history>>

\* Mutant: anything but a denial lets the request through.
AnswerForwards(s) == s \notin {"denied", "expired", "pending"}

Forwards(s) == s = "approved"

\* Mutants: the loop ends only on an answer; it ends when the deadline is
\* less than a sleep away.
MayGiveUpNever(r) == FALSE
MayGiveUpEarly(r) == left[r] <= 1

\* The loop tests the deadline, sleeps, then polls: the last poll is at the
\* deadline or after it.
MayGiveUp(r) == left[r] = 0

\* Still pending, not found or no answer: on to the next round, or give up
\* ("expired") when the deadline has passed.
NextRound(r) ==
  /\ pc' = Set(pc, r, IF MayGiveUp(r) THEN "blocked" ELSE "polling")
  /\ slept' = Set(slept, r, FALSE)

PollReturns(r) ==
  /\ pc[r] = "polled"
  /\ \/ /\ Forwards(answer[r]) /\ Ends(r, "forwarded")
        /\ UNCHANGED slept
     \/ /\ answer[r] \in {"denied", "expired"} /\ Ends(r, "blocked")
        /\ UNCHANGED slept
     \/ /\ ~Forwards(answer[r]) /\ answer[r] \notin {"denied", "expired"}
        /\ NextRound(r)
  /\ UNCHANGED <<server, wait, left, answer, history>>

PollFails(r) ==
  /\ pc[r] = "polled" \/ MayPoll(r)
  /\ NextRound(r)
  /\ Lost(r)
  /\ UNCHANGED <<server, wait, left, answer, told>>

-----------------------------------------------------------------------------
(***************************************************************************)
(* A tick.  A prompt thread does what it can do, sleeping excepted, before *)
(* the next one; a slow one oversleeps, or its answer takes ticks.         *)
(***************************************************************************)
Prompt(r) ==
  /\ pc[r] # "polled"
  /\ pc[r] = "posted" => age[r] = 0
  /\ pc[r] = "polling" => ~slept[r]

Older(n) == IF n < MaxAge THEN n + 1 ELSE n
Less(n)  == IF n > 0 THEN n - 1 ELSE 0

Tick ==
  /\ age' = [r \in Requests |-> IF status[r] = "absent" THEN age[r] ELSE Older(age[r])]
  /\ decided' = [r \in Requests |-> IF status[r] \in Final THEN Older(decided[r])
                                                           ELSE decided[r]]
  /\ left' = [r \in Requests |-> Less(left[r])]
  /\ slept' = [r \in Requests |-> slept[r] \/ pc[r] = "polling"]
  /\ trouble' = [r \in Requests |-> IF Prompt(r) THEN trouble[r]
                                                 ELSE trouble[r] \cup {"slow"}]
  /\ UNCHANGED <<status, limit, pc, wait, answer, told>>

Thread(r) ==
  Submit(r) \/ SubmitFails(r) \/ SubmitReturns(r) \/ Poll(r) \/ PollReturns(r) \/ PollFails(r)

Next ==
  \/ List \/ Restart \/ Tick
  \/ \E r \in Requests : Hold(r) \/ Thread(r) \/ \E d \in Decisions : Decide(r, d)

Spec == Init /\ [][Next]_vars

(***************************************************************************)
(* Time passes, threads run, and an open dashboard keeps listing.          *)
(***************************************************************************)
Fairness ==
  /\ WF_vars(Tick) /\ WF_vars(List)
  /\ \A r \in Requests : WF_vars(Thread(r))

FairSpec == Spec /\ Fairness

-----------------------------------------------------------------------------
Statuses == {"absent", "pending"} \cup Final

TypeOK ==
  /\ status \in [Requests -> Statuses]
  /\ age \in [Requests -> 0 .. MaxAge]
  /\ limit \in [Requests -> Timeouts \cup {0}]
  /\ decided \in [Requests -> 0 .. MaxAge]
  /\ pc \in [Requests -> {"idle", "submit", "posted", "polling", "polled",
                          "forwarded", "blocked"}]
  /\ wait \in [Requests -> Timeouts \cup {0}]
  /\ left \in [Requests -> 0 .. MaxAge]
  /\ slept \in [Requests -> BOOLEAN]
  /\ answer \in [Requests -> Statuses]
  /\ told \in [Requests -> Decisions \cup {"none"}]
  /\ trouble \in [Requests -> SUBSET {"lost", "slow"}]

(***************************************************************************)
(* A blocked request is let through only when the dashboard was told that  *)
(* its approval is recorded: no lost message, restart, late click or       *)
(* clean-up turns into an approval ("automatically denied").               *)
(***************************************************************************)
ForwardedWasApproved ==
  \A r \in Requests : pc[r] = "forwarded" => told[r] = "approved"

(***************************************************************************)
(* decide: "only PENDING -> APPROVED/DENIED is allowed".  What an entry    *)
(* ended with, by a click or by its timeout, stays until it is dropped.    *)
(***************************************************************************)
DecisionIsFinal ==
  [][\A r \in Requests : status[r] \in Final => status'[r] \in {status[r], "absent"}]_vars

(***************************************************************************)
(* approval.py: the interceptor polls "until decision or timeout".  An     *)
(* approval the dashboard was told is recorded lets the request through:   *)
(* the two clocks, one started when the entry is made and one when the     *)
(* post has returned, do not disagree.  It takes prompt messages and one   *)
(* timeout on both sides (both read the file, at different times).         *)
(***************************************************************************)
Dropped(r) == pc[r] = "blocked" /\ told[r] = "approved" /\ wait[r] = limit[r]

ApprovalIsHonoured == \A r \in Requests : trouble[r] = {} => ~Dropped(r)

(***************************************************************************)
(* A held request is answered, whatever is lost and whether or not the     *)
(* user does anything.                                                     *)
(***************************************************************************)
HeldIsAnswered ==
  \A r \in Requests : pc[r] = "submit" ~> pc[r] \in {"forwarded", "blocked"}

(***************************************************************************)
(* "Expired entries are cleaned up automatically": also those whose        *)
(* request is long gone do not stay in memory.                             *)
(***************************************************************************)
EntriesGo == \A r \in Requests : status[r] = "pending" ~> status[r] = "absent"

(***************************************************************************)
(* Types; and a request leaves with a recorded approval and, when nothing  *)
(* was lost, always with one.                                              *)
(***************************************************************************)
ApprovalsAreSound == TypeOK /\ ForwardedWasApproved /\ ApprovalIsHonoured

(***************************************************************************)
(* An outcome is not revised, a held request is answered and its entry     *)
(* leaves memory.                                                          *)
(***************************************************************************)
ApprovalsMoveOn == DecisionIsFinal /\ HeldIsAnswered /\ EntriesGo

=============================================================================
