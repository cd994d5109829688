-------------------------- MODULE Services_proofs ---------------------------
(***************************************************************************)
(* Proofs about the services that act on their own: the approvals, the     *)
(* policy watcher, the proxy's protection (menu, dashboard, watchdog) and  *)
(* the engine that decides by the rules, for any number of requests,       *)
(* readers, policies, rules, evaluators and threads and any timeouts.      *)
(***************************************************************************)
EXTENDS Protection, Approvals, PolicyWatch, RuleEngine, SequenceTheorems, FiniteSetTheorems, TLAPS

-----------------------------------------------------------------------------
(***************************************************************************)
(* Approvals: nothing is let through without a recorded approval, and      *)
(* where messages are prompt every recorded approval lets its request      *)
(* through.                                                                *)
(***************************************************************************)

(***************************************************************************)
(* What the entry says and what the dashboard was told agree, and a        *)
(* request that is submitted has neither yet.                              *)
(***************************************************************************)
AgreeInv ==
  \A r \in Requests :
    /\ status[r] \in Decisions => told[r] = status[r]
    /\ status[r] \in {"pending", "expired"} => told[r] = "none"
    /\ pc[r] = "submit" => told[r] = "none" /\ status[r] = "absent"
    /\ pc[r] = "polled" /\ answer[r] = "approved" => told[r] = "approved"
    /\ pc[r] = "forwarded" => told[r] = "approved"

ApprovalInv == TypeOK /\ AgreeInv

LEMMA TimeoutRange ==
  \A t \in Timeouts \cup {0} : t \in 0 .. MaxAge /\ t < MaxAge
  <1> SUFFICES ASSUME NEW t \in Timeouts \cup {0}
               PROVE  t \in 0 .. MaxAge /\ t < MaxAge
    OBVIOUS
  <1>1. CASE t = 0
    BY <1>1, ApprovalsAssumption
  <1>2. CASE t \in Timeouts
    BY <1>2, ApprovalsAssumption
  <1> QED BY <1>1, <1>2

LEMMA Ranges ==
  ASSUME TypeOK, NEW r \in Requests
  PROVE  /\ age[r] \in 0 .. MaxAge /\ left[r] \in 0 .. MaxAge
         /\ decided[r] \in 0 .. MaxAge
         /\ limit[r] \in Nat /\ limit[r] < MaxAge
         /\ status[r] \in Statuses /\ answer[r] \in Statuses
         /\ slept[r] \in BOOLEAN
  <1>1. limit[r] \in Timeouts \cup {0}
    BY DEF TypeOK
  <1>2. limit[r] \in 0 .. MaxAge /\ limit[r] < MaxAge
    BY <1>1, TimeoutRange
  <1> QED BY <1>2 DEF TypeOK

LEMMA ApprovalInit == Init => ApprovalInv
  BY ApprovalsAssumption
  DEF Init, ApprovalInv, TypeOK, AgreeInv, Statuses, Final, Decisions

LEMMA ApprovalStep == ApprovalInv /\ [Next]_vars => ApprovalInv'
  <1> SUFFICES ASSUME ApprovalInv, [Next]_vars PROVE ApprovalInv'
    OBVIOUS
  <1> USE ApprovalsAssumption
      DEF ApprovalInv, TypeOK, AgreeInv, Statuses, Final, Decisions, server, client, history,
          Set, Ends, Overdue, IsExpired, Expired, Cleaned, Redated
  <1>1. CASE List
    BY <1>1 DEF List
  <1>2. CASE Restart
    BY <1>2 DEF Restart
  <1>3. CASE Tick
    BY <1>3 DEF Tick, Older, Less
  <1>4. ASSUME NEW r \in Requests, Hold(r) PROVE ApprovalInv'
    BY <1>4 DEF Hold
  <1>5. ASSUME NEW r \in Requests, NEW d \in Decisions, Decide(r, d) PROVE ApprovalInv'
    BY <1>5 DEF Decide, Open
  <1>6. ASSUME NEW r \in Requests, Thread(r) PROVE ApprovalInv'
    <2>1. CASE Submit(r)
      BY <2>1 DEF Submit, Submitted
    <2>2. CASE SubmitFails(r)
      BY <2>2 DEF SubmitFails, Lost
    <2>3. CASE SubmitReturns(r)
      <3>1. wait[r] \in 0 .. MaxAge
        BY TimeoutRange
      <3>2. left' \in [Requests -> 0 .. MaxAge]
        BY <2>3, <3>1 DEF SubmitReturns
      <3> QED BY <2>3, <3>2 DEF SubmitReturns
    <2>4. CASE Poll(r)
      BY <2>4 DEF Poll, MayPoll
    <2>5. CASE PollReturns(r)
      <3> USE <2>5 DEF PollReturns, Forwards, NextRound, MayGiveUp
      <3>1. TypeOK'
        OBVIOUS
      <3>2. AgreeInv'
        OBVIOUS
      <3> QED BY <3>1, <3>2
    <2>6. CASE PollFails(r)
      BY <2>6 DEF PollFails, NextRound, MayGiveUp, MayPoll, Lost
    <2> QED BY <1>6, <2>1, <2>2, <2>3, <2>4, <2>5, <2>6 DEF Thread
  <1>7. CASE UNCHANGED vars
    BY <1>7 DEF vars
  <1> HIDE DEF ApprovalInv
  <1> QED BY <1>1, <1>2, <1>3, <1>4, <1>5, <1>6, <1>7 DEF Next

LEMMA ApprovalAlways == Spec => []ApprovalInv
  BY ApprovalInit, ApprovalStep, PTL DEF Spec

-----------------------------------------------------------------------------
(***************************************************************************)
(* Entries, threads and clocks keep their types, the clocks their bound.   *)
(***************************************************************************)
THEOREM ApprovalTypesHold == Spec => []TypeOK
  <1>1. ApprovalInv => TypeOK
    BY DEF ApprovalInv
  <1> QED BY <1>1, ApprovalAlways, PTL

(***************************************************************************)
(* Nothing is let through without an approval the dashboard was told of.   *)
(***************************************************************************)
THEOREM OnlyApprovedIsForwarded == Spec => []ForwardedWasApproved
  <1>1. ApprovalInv => ForwardedWasApproved
    BY DEF ApprovalInv, AgreeInv, ForwardedWasApproved
  <1> QED BY <1>1, ApprovalAlways, PTL

(***************************************************************************)
(* A decision, or a timeout, is the last word on an entry.                 *)
(***************************************************************************)
THEOREM DecisionsAreFinal == Spec => DecisionIsFinal
  <1> DEFINE Kept == \A r \in Requests :
                       status[r] \in Final => status'[r] \in {status[r], "absent"}
  <1>1. ApprovalInv /\ [Next]_vars => [Kept]_vars
    <2> SUFFICES ASSUME ApprovalInv, Next PROVE Kept
      OBVIOUS
    <2> USE DEF ApprovalInv, AgreeInv, TypeOK, Statuses, Final, Decisions, server, client, history,
                Set, Overdue, IsExpired, Expired, Cleaned
    <2>1. CASE List \/ Restart \/ Tick
      BY <2>1 DEF List, Restart, Tick
    <2>2. ASSUME NEW r \in Requests, Hold(r) \/ \E d \in Decisions : Decide(r, d) PROVE Kept
      BY <2>2 DEF Hold, Decide, Open
    <2>3. ASSUME NEW r \in Requests, Thread(r) PROVE Kept
      BY <2>3 DEF Thread, Submit, Submitted, SubmitFails, SubmitReturns, Poll, PollReturns,
         PollFails
    <2> QED BY <2>1, <2>2, <2>3 DEF Next
  <1> QED BY <1>1, ApprovalAlways, PTL DEF Spec, DecisionIsFinal

-----------------------------------------------------------------------------
(***************************************************************************)
(* While nothing is lost or slow: with one timeout on both sides, the      *)
(* thread's deadline is later than the entry's, and its last poll is at    *)
(* the deadline or after it, so the last answer it gets is final; and a    *)
(* decided entry is not dropped before the thread has seen it.             *)
(***************************************************************************)
Waits(r) == pc[r] \in {"posted", "polling", "polled"}

Calm(r) == trouble[r] = {} /\ wait[r] = limit[r]

ClockOf(r) ==
  Calm(r) =>
    /\ Waits(r) => status[r] # "absent"
    /\ pc[r] = "posted" => age[r] <= 1 /\ (status[r] \in Final => decided[r] <= age[r])
    /\ pc[r] \in {"polling", "polled"} => age[r] + left[r] > limit[r]

SeenOf(r) ==
  Calm(r) =>
    /\ pc[r] = "polling" /\ status[r] \in Final =>
         decided[r] <= 2 /\ (~slept[r] => decided[r] <= 1)
    /\ pc[r] = "polled" =>
         /\ answer[r] # "absent"
         /\ status[r] \in Final => decided[r] <= 2
         /\ answer[r] = "pending" =>
              age[r] <= limit[r] /\ (status[r] \in Final => decided[r] <= 1)
         /\ answer[r] \in Final => status[r] = answer[r]
    /\ pc[r] = "blocked" => status[r] # "pending" /\ told[r] # "approved"

ClockInv == \A r \in Requests : ClockOf(r)
SeenInv  == \A r \in Requests : SeenOf(r)

\* Nothing goes wrong in a tick only when the thread is prompt.
LEMMA TickIsPrompt ==
  ASSUME Tick, NEW r \in Requests, Calm(r)'
  PROVE  Prompt(r) /\ Calm(r)
  <1>1. trouble'[r] = {} /\ wait'[r] = limit'[r]
    BY DEF Calm
  <1>2. trouble'[r] = IF Prompt(r) THEN trouble[r] ELSE trouble[r] \cup {"slow"}
    BY DEF Tick
  <1>3. UNCHANGED <<wait, limit>>
    BY DEF Tick
  <1> QED BY <1>1, <1>2, <1>3 DEF Calm, Prompt

\* Once something went wrong nothing is claimed.
LEMMA Troubled ==
  ASSUME NEW r \in Requests, Lost(r), trouble \in [Requests -> SUBSET {"lost", "slow"}]
  PROVE  ClockOf(r)' /\ SeenOf(r)'
  <1>1. "lost" \in trouble'[r]
    BY DEF Lost, Set
  <1>2. ~Calm(r)'
    BY <1>1 DEF Calm
  <1> QED BY <1>2 DEF ClockOf, SeenOf

\* A step of one thread leaves the clocks of the others alone.
LEMMA Untouched ==
  ASSUME NEW s \in Requests, ClockOf(s), SeenOf(s),
         pc'[s] = pc[s], slept'[s] = slept[s], trouble'[s] = trouble[s],
         UNCHANGED <<server, wait, left, answer, told>>
  PROVE  ClockOf(s)' /\ SeenOf(s)'
  BY DEF ClockOf, SeenOf, Calm, Waits, server

LEMMA HonourStep ==
  ASSUME ApprovalInv, ApprovalInv', ClockInv, SeenInv, [Next]_vars
  PROVE  ClockInv' /\ SeenInv'
  <1> USE ApprovalsAssumption
      DEF ApprovalInv, TypeOK, AgreeInv, ClockInv, SeenInv, ClockOf, SeenOf, Calm, Waits,
          Statuses, Final, Decisions,
          server, client, history, Set, Ends, Overdue, IsExpired, Expired, Cleaned, Redated
  <1>1. CASE List
    BY <1>1 DEF List
  <1>2. CASE Restart
    BY <1>2 DEF Restart
  <1>3. CASE Tick
    <2> SUFFICES ASSUME NEW r \in Requests
                 PROVE  ClockOf(r)' /\ SeenOf(r)'
      BY DEF ClockInv, SeenInv
    <2> SUFFICES ASSUME Calm(r)'
                 PROVE  ClockOf(r)' /\ SeenOf(r)'
      BY DEF ClockOf, SeenOf
    <2> USE DEF ClockOf, SeenOf, Calm
    <2>1. Prompt(r) /\ Calm(r)
      BY <1>3, TickIsPrompt
    <2>2. /\ age'[r] = IF status[r] = "absent" THEN age[r] ELSE Older(age[r])
          /\ decided'[r] = IF status[r] \in Final THEN Older(decided[r]) ELSE decided[r]
          /\ left'[r] = Less(left[r])
          /\ slept'[r] = (slept[r] \/ pc[r] = "polling")
          /\ UNCHANGED <<status, limit, pc, wait, answer, told>>
      BY <1>3 DEF Tick
    <2>3. /\ age[r] \in 0 .. MaxAge /\ left[r] \in 0 .. MaxAge
          /\ decided[r] \in 0 .. MaxAge
          /\ limit[r] \in Nat /\ limit[r] < MaxAge
      BY Ranges
    <2>4. ClockOf(r)'
      <3>1. CASE pc[r] = "posted"
        BY <2>1, <2>2, <2>3, <3>1 DEF Older, Less, Prompt
      <3>2. CASE pc[r] \in {"polling", "polled"}
        <4>1. age[r] + left[r] > limit[r] /\ status[r] # "absent"
          BY <2>1, <3>2
        <4>2. age'[r] + left'[r] > limit[r]
          BY <2>2, <2>3, <4>1 DEF Older, Less
        <4> QED BY <2>2, <3>2, <4>1, <4>2
      <3>3. CASE pc[r] \notin {"posted", "polling", "polled"}
        BY <2>2, <3>3
      <3> QED BY <3>1, <3>2, <3>3
    <2>5. SeenOf(r)'
      BY <2>1, <2>2, <2>3 DEF Older, Less, Prompt
    <2> QED BY <2>4, <2>5
  <1>4. ASSUME NEW r \in Requests, Hold(r) PROVE ClockInv' /\ SeenInv'
    BY <1>4 DEF Hold
  <1>5. ASSUME NEW r \in Requests, NEW d \in Decisions, Decide(r, d)
        PROVE  ClockInv' /\ SeenInv'
    BY <1>5 DEF Decide, Open
  <1>6. ASSUME NEW r \in Requests, Thread(r) PROVE ClockInv' /\ SeenInv'
    <2>1. CASE Submit(r)
      <3> SUFFICES ASSUME NEW s \in Requests PROVE ClockOf(s)' /\ SeenOf(s)'
        BY DEF ClockInv, SeenInv
      <3>1. CASE s = r
        <4>2. /\ pc'[r] = "posted" /\ status'[r] = "pending"
              /\ age'[r] = 0 /\ decided'[r] = 0
          BY <2>1 DEF Submit, Submitted
        <4> QED BY <3>1, <4>2
      <3>2. CASE s # r
        BY <2>1, <3>2 DEF Submit, Submitted
      <3> QED BY <3>1, <3>2
    <2>2. CASE SubmitFails(r)
      <3> SUFFICES ASSUME NEW s \in Requests PROVE ClockOf(s)' /\ SeenOf(s)'
        BY DEF ClockInv, SeenInv
      <3>1. CASE s = r
        BY <2>2, <3>1, Troubled DEF SubmitFails
      <3>2. CASE s # r
        BY <2>2, <3>2, Untouched DEF SubmitFails, Lost
      <3> QED BY <3>1, <3>2
    <2>3. CASE SubmitReturns(r)
      BY <2>3 DEF SubmitReturns
    <2>4. CASE Poll(r)
      <3> SUFFICES ASSUME NEW s \in Requests PROVE ClockOf(s)' /\ SeenOf(s)'
        BY DEF ClockInv, SeenInv
      <3>1. CASE s = r
        <4>1. /\ pc'[r] = "polled" /\ answer'[r] = Expired(r)
              /\ status'[r] = Expired(r) /\ decided'[r] = Redated(r)
              /\ UNCHANGED <<age, limit, wait, left, told, trouble>>
          BY <2>4 DEF Poll
        <4>2. pc[r] = "polling" /\ ClockOf(r) /\ SeenOf(r)
          BY <2>4 DEF Poll, MayPoll
        <4>3. /\ age[r] \in Nat /\ decided[r] \in Nat /\ limit[r] \in Nat
              /\ status[r] \in Statuses /\ slept[r] \in BOOLEAN
          BY Ranges
        <4> QED BY <3>1, <4>1, <4>2, <4>3
      <3>2. CASE s # r
        BY <2>4, <3>2 DEF Poll, MayPoll
      <3> QED BY <3>1, <3>2
    <2>5. CASE PollReturns(r)
      <3> SUFFICES ASSUME NEW s \in Requests PROVE ClockOf(s)' /\ SeenOf(s)'
        BY DEF ClockInv, SeenInv
      <3>1. CASE s = r
        <4>1. pc[r] = "polled" /\ ClockOf(r) /\ SeenOf(r)
          BY <2>5 DEF PollReturns
        <4>2. UNCHANGED <<status, age, limit, decided, wait, left, told, trouble>>
          BY <2>5 DEF PollReturns
        <4>3. /\ age[r] \in Nat /\ left[r] \in Nat /\ decided[r] \in Nat
              /\ limit[r] \in Nat /\ answer[r] \in Statuses
          BY Ranges
        <4>4. CASE answer[r] \in Final
          <5>1. pc'[r] \in {"forwarded", "blocked"}
            BY <2>5, <4>4 DEF PollReturns, Forwards
          <5>2. pc'[r] = "blocked" => answer[r] # "approved"
            BY <2>5, <4>4 DEF PollReturns, Forwards
          <5> QED BY <3>1, <4>1, <4>2, <4>4, <5>1, <5>2
        <4>5. CASE answer[r] = "pending"
          <5>1. Calm(r) => left[r] > 0
            BY <4>1, <4>3, <4>5
          <5>2. Calm(r) => pc'[r] = "polling" /\ slept'[r] = FALSE
            BY <2>5, <4>5, <5>1 DEF PollReturns, Forwards, NextRound, MayGiveUp
          <5> QED BY <3>1, <4>1, <4>2, <4>3, <4>5, <5>2
        <4>6. CASE answer[r] = "absent"
          BY <3>1, <4>1, <4>2, <4>6
        <4> QED BY <4>3, <4>4, <4>5, <4>6
      <3>2. CASE s # r
        BY <2>5, <3>2 DEF PollReturns, Forwards, NextRound, MayGiveUp
      <3> QED BY <3>1, <3>2
    <2>6. CASE PollFails(r)
      <3> SUFFICES ASSUME NEW s \in Requests PROVE ClockOf(s)' /\ SeenOf(s)'
        BY DEF ClockInv, SeenInv
      <3>1. CASE s = r
        BY <2>6, <3>1, Troubled DEF PollFails
      <3>2. CASE s # r
        BY <2>6, <3>2, Untouched DEF PollFails, NextRound, Lost
      <3> QED BY <3>1, <3>2
    <2> QED BY <1>6, <2>1, <2>2, <2>3, <2>4, <2>5, <2>6 DEF Thread
  <1>7. CASE UNCHANGED vars
    BY <1>7 DEF vars
  <1> QED BY <1>1, <1>2, <1>3, <1>4, <1>5, <1>6, <1>7 DEF Next

(***************************************************************************)
(* An approval the dashboard was told of lets its request through, unless  *)
(* a message is lost or slow or the timeout is changed in between.         *)
(***************************************************************************)
THEOREM ApprovalsAreHonoured == Spec => []ApprovalIsHonoured
  <1>1. Init => ClockInv /\ SeenInv
    BY DEF Init, ClockInv, SeenInv, ClockOf, SeenOf, Waits
  <1>2. ApprovalInv /\ ApprovalInv' /\ ClockInv /\ SeenInv /\ [Next]_vars
          => ClockInv' /\ SeenInv'
    BY HonourStep
  <1>3. SeenInv => ApprovalIsHonoured
    BY DEF SeenInv, SeenOf, Calm, ApprovalIsHonoured, Dropped
  <1> QED BY <1>1, <1>2, <1>3, ApprovalAlways, PTL DEF Spec

(***************************************************************************)
(* A request leaves with a recorded approval and, when nothing was lost,   *)
(* always with one.                                                        *)
(***************************************************************************)
THEOREM ApprovalsHold == Spec => []ApprovalsAreSound
  <1>1. TypeOK /\ ForwardedWasApproved /\ ApprovalIsHonoured => ApprovalsAreSound
    BY DEF ApprovalsAreSound
  <1> QED BY <1>1, ApprovalTypesHold, OnlyApprovedIsForwarded, ApprovalsAreHonoured, PTL

-----------------------------------------------------------------------------
(***************************************************************************)
(* The policy watcher (PolicyWatch).                                       *)
(***************************************************************************)

(***************************************************************************)
(* Between its reading and its stat a thread holds the file's own content, *)
(* and the file is no older than what is recorded: both as long as no      *)
(* write slipped in or was dated back.                                     *)
(***************************************************************************)
LoadIsFresh ==
  ~slipped =>
    \A r \in Readers :
      /\ reader[r] = "swap" => Parses(file) /\ content[r] = file
      /\ reader[r] = "stat" => Parses(file) /\ engine = file

SwapHasContent == \A r \in Readers : reader[r] = "swap" => content[r] \in Policies

RecordedIsNotLater == ~backdated => lastMtime <= mtime

WatchInv ==
  /\ WatchTypeOK /\ LoadIsFresh /\ SwapHasContent /\ RecordedIsNotLater /\ UpToDate

LEMMA WatchInitInv == WatchInit => WatchInv
<1> SUFFICES ASSUME WatchInit PROVE WatchInv
  OBVIOUS
<1> USE WatchAssumption DEF WatchInit
<1>1. WatchTypeOK
  <2>1. mtime \in 1 .. MaxTime /\ lastMtime \in 0 .. MaxTime
    OBVIOUS
  <2>2. edits \in 0 .. MaxEdits /\ switches \in 0 .. MaxSwitches
    OBVIOUS
  <2>3. /\ running \in BOOLEAN /\ slipped \in BOOLEAN /\ backdated \in BOOLEAN
    OBVIOUS
  <2>4. /\ file \in Policies \cup {Gone, Garbled} /\ engine \in Policies \cup {NoEngine}
        /\ reader \in [Readers -> {"off", "rest", "read", "swap", "stat"}]
        /\ content \in [Readers -> Policies \cup {NoEngine}]
    OBVIOUS
  <2> QED BY <2>1, <2>2, <2>3, <2>4 DEF WatchTypeOK
<1>2. LoadIsFresh /\ SwapHasContent
  BY DEF LoadIsFresh, SwapHasContent
<1>3. RecordedIsNotLater /\ UpToDate
  BY DEF RecordedIsNotLater, UpToDate, Believes
<1> QED BY <1>1, <1>2, <1>3 DEF WatchInv

(***************************************************************************)
(* Every step of the watcher and every write keep the invariant.           *)
(***************************************************************************)
LEMMA WatchStepInv == WatchInv /\ [WatchNext]_watchVars => WatchInv'
<1> SUFFICES ASSUME WatchInv, [WatchNext]_watchVars PROVE WatchInv'
  OBVIOUS
<1> USE WatchAssumption DEF WatchInv, WatchTypeOK
<1>t. /\ file \in Policies \cup {Gone, Garbled} /\ mtime \in 1 .. MaxTime
      /\ Gone \notin Policies /\ Garbled \notin Policies /\ NoEngine \notin Policies
  OBVIOUS
<1> USE DEF LoadIsFresh, SwapHasContent, RecordedIsNotLater, UpToDate, Believes, Parses
<1>c. CASE UNCHANGED watchVars
  BY <1>c DEF watchVars
<1>1. CASE Edit
  <2>1. WatchTypeOK'
    BY <1>1 DEF Edit
  <2>2. slipped' \/ \A r \in Readers : reader'[r] \notin {"swap", "stat"}
    BY <1>1 DEF Edit
  <2>4. LoadIsFresh' /\ SwapHasContent'
    BY <1>1, <2>2 DEF Edit
  <2>7. /\ file' = Gone => mtime' = mtime
        /\ mtime' \in 1 .. MaxTime /\ UNCHANGED <<engine, lastMtime>>
    BY <1>1 DEF Edit
  <2>8. ~backdated' => ~backdated /\ (file' = Gone \/ ~(mtime' <= mtime))
    BY <1>1, Zenon DEF Edit
  <2>3. RecordedIsNotLater'
    BY <1>t, <2>7, <2>8
  <2>5. ASSUME Parses(file)', ~backdated' PROVE lastMtime' < mtime'
    BY <1>t, <2>5, <2>7, <2>8
  <2>6. UpToDate'
    BY <2>5, <2>1
  <2> QED BY <2>1, <2>3, <2>4, <2>6
<1>2. CASE StartWatch
  <2>1. /\ Starter \in Readers
        /\ \E place \in {"rest", "read"} : reader' = [reader EXCEPT ![Starter] = place]
    BY <1>2 DEF StartWatch, WatchGoes, Readers
  <2> QED BY <1>2, <2>1 DEF StartWatch
<1>3. CASE Begun
  BY <1>3 DEF Begun, Readers
<1>4. CASE StopWatch
  <2>1. /\ switches < MaxSwitches /\ switches' = switches + 1 /\ running' = FALSE
        /\ UNCHANGED <<file, mtime, engine, lastMtime, reader, content, edits, slipped, backdated>>
    BY <1>4, Zenon DEF StopWatch
  <2>2. switches' \in 0 .. MaxSwitches
    BY <2>1
  <2> QED BY <2>1, <2>2
<1>5. ASSUME NEW l \in Loops, Turn(l) PROVE WatchInv'
  BY <1>5 DEF Turn, WatchGoes, Readers
<1>6. ASSUME NEW r \in Readers, Read(r) PROVE WatchInv'
  BY <1>6 DEF Read, WatchGoes
<1>7. ASSUME NEW r \in Readers, Swap(r) PROVE WatchInv'
  BY <1>7 DEF Swap, WatchGoes
<1>8. ASSUME NEW r \in Readers, Stat(r) PROVE WatchInv'
  BY <1>8, <1>t DEF Stat, WatchGoes
<1> QED BY <1>c, <1>1, <1>2, <1>3, <1>4, <1>5, <1>6, <1>7, <1>8 DEF WatchNext

(***************************************************************************)
(* For any policies, any number of threads and any writes: a watcher that  *)
(* believes it is up to date is, unless a write slipped between a reading  *)
(* and its stat or was dated back (_load, _watch_loop).                    *)
(***************************************************************************)
THEOREM WatchSound == WatchSpec => []WatchIsSound
<1>1. WatchInv => WatchIsSound
  BY DEF WatchInv, WatchIsSound
<1> QED BY WatchInitInv, WatchStepInv, <1>1, PTL DEF WatchSpec

-----------------------------------------------------------------------------
(***************************************************************************)
(* Browser protection (Protection), for any threads of menu, dashboard and *)
(* watchdog.                                                               *)
(***************************************************************************)

(***************************************************************************)
(* As long as no calls overlapped: one thread at most is in start() or     *)
(* stop(); nothing runs but what outlived a signal where start() is about  *)
(* to spawn or stop() has terminated; and what was last done holds but for *)
(* the part of it that a stop() has undone already.                        *)
(***************************************************************************)
NothingRuns == \A p \in Processes : Alive(p) => p \in survivors

Serial ==
  ~overlapped =>
    /\ \A d, e \in Doers : Busy(d) /\ Busy(e) => d = e
    /\ \A p \in Processes : Alive(p) => p = process \/ p \in survivors
    /\ \A d \in Doers : job[d].at \in {"clear", "spawn", "forget"} => NothingRuns
    /\ \A d \in Doers : job[d].at \in {"terminate", "forget"} => reach \cap pac = {}
    /\ lastDone = "stop" => reach \cap pac = {}
    /\ lastDone = "start" =>
         reach \subseteq pac \/ \E d \in Doers : job[d].at \in {"terminate", "forget"}
    /\ lastDone = "stop" => process = 0 \/ \E d \in Doers : job[d].at \in {"wait", "enable"}

ProtInv == ProtTypeOK /\ Serial /\ BlockedWhenFailed

(***************************************************************************)
(* The types, a part at a time; what a thread's move changes.              *)
(***************************************************************************)
Places == InStart \cup InStop \cup
  {"idle", "load", "warm", "setup", "unborn", "asleep", "recover", "block", "network", "ended"}
Scripts == {"none", "on", "off", "quit", "dash on", "dash off", "dash restart", "watch"}
Outside == Places \ (InStart \cup InStop)

LEMMA ProtTypes ==
  ASSUME ProtTypeOK
  PROVE  /\ process \in Nat /\ process \in 0 .. MaxProcesses
         /\ proc \in [Processes -> {"unborn", "booting", "listening", "dead"}]
         /\ \A p, q \in Processes : proc[p] = "listening" /\ proc[q] = "listening" => p = q
         /\ job \in [Doers -> [script : Scripts, at : Places]]
         /\ \A d \in Doers : Busy(d) <=> job[d].at \notin Outside
<1>1. /\ process \in 0 .. MaxProcesses
      /\ proc \in [Processes -> {"unborn", "booting", "listening", "dead"}]
      /\ \A p, q \in Processes : proc[p] = "listening" /\ proc[q] = "listening" => p = q
  BY DEF ProtTypeOK
<1>4. process \in Nat
  BY <1>1, ProtectionAssumption
<1>2. job \in [Doers -> [script : Scripts, at : Places]]
  BY DEF ProtTypeOK, Places, Scripts
<1>3. \A d \in Doers : Busy(d) <=> job[d].at \notin Outside
  <2>1. \A d \in Doers : job[d].at \in Places
    BY <1>2
  <2> QED BY <2>1 DEF Outside, Busy, Places
<1> QED BY <1>1, <1>2, <1>3, <1>4

LEMMA Goes ==
  ASSUME ProtTypeOK, NEW d \in Doers, NEW place \in Places, Go(d, place)
  PROVE  /\ job' \in [Doers -> [script : Scripts, at : Places]]
         /\ job'[d].at = place /\ job'[d].script = job[d].script
         /\ \A e \in Doers : e # d => job'[e] = job[e]
BY ProtTypes DEF Go

Doings == {"start", "stop", "raised", "mixed"}

LEMMA Remembers ==
  ASSUME ProtTypeOK, NEW done \in Doings, NEW S \in SUBSET Interfaces, Remember(done, S)
  PROVE  /\ lastDone' \in Doings /\ reach' \subseteq Interfaces
         /\ ~overlapped' => lastDone' = done /\ reach' = S
<1>1. CASE overlapped'
  BY <1>1 DEF Remember, Doings
<1>2. CASE ~overlapped'
  BY <1>2 DEF Remember, Doings
<1> QED BY <1>1, <1>2

LEMMA FaultsStay ==
  ASSUME ProtTypeOK, Fault \/ UNCHANGED faults
  PROVE  faults' \in 0 .. MaxFaults
<1>1. faults \in 0 .. MaxFaults
  BY DEF ProtTypeOK
<1>2. MaxFaults \in Nat
  BY ProtectionAssumption
<1> QED BY <1>1, <1>2 DEF Fault

LEMMA ListedAreKnown ==
  ASSUME ProtTypeOK
  PROVE  /\ \A S \in Takes : S \subseteq Interfaces
         /\ \A L \in Listings : L \subseteq Interfaces
<1>1. active \subseteq Interfaces
  BY DEF ProtTypeOK
<1> QED BY <1>1, ProtectionAssumption DEF Takes, Listings, ListedNow

LEMMA Enters ==
  ASSUME ProtTypeOK, NEW d \in Doers, NEW script \in Scripts, NEW place \in Places,
         Enter(d, script, place)
  PROVE  /\ job' \in [Doers -> [script : Scripts, at : Places]]
         /\ job'[d].at = place
         /\ \A e \in Doers : e # d => job'[e] = job[e]
         /\ overlapped' \in BOOLEAN
         /\ ~overlapped' => ~overlapped /\ \A e \in Doers : e # d => ~Busy(e)
         /\ lastDone' \in Doings /\ reach' \subseteq Interfaces
         /\ ~overlapped' => lastDone' = lastDone /\ reach' = reach
<1>1. job' = [job EXCEPT ![d] = [script |-> script, at |-> place]]
  BY DEF Enter
<1>2. overlapped' = (overlapped \/ \E e \in Doers \ {d} : Busy(e))
  BY DEF Enter, Overlap
<1>3. /\ overlapped' \in BOOLEAN
      /\ ~overlapped' => ~overlapped /\ \A e \in Doers : e # d => ~Busy(e)
  BY <1>2, Zenon
<1>4. lastDone \in Doings /\ reach \subseteq Interfaces /\ Remember(lastDone, reach)
  BY DEF ProtTypeOK, Doings, Enter, Overlap
<1>5. /\ lastDone' \in Doings /\ reach' \subseteq Interfaces
      /\ ~overlapped' => lastDone' = lastDone /\ reach' = reach
  BY <1>4, Remembers
<1> QED BY <1>1, <1>3, <1>5, ProtTypes

LEMMA TypeParts ==
  ASSUME ProtTypeOK
  PROVE  /\ pac \subseteq Interfaces /\ active \subseteq Interfaces
         /\ known \subseteq Interfaces /\ reach \subseteq Interfaces
         /\ health \in {"stopped", "starting", "active", "degraded", "failed"}
         /\ restarts \in 0 .. MaxRestarts
         /\ watching \in BOOLEAN /\ rules \in BOOLEAN /\ saved \in BOOLEAN
         /\ gone \in BOOLEAN /\ overlapped \in BOOLEAN
         /\ lastDone \in Doings /\ calls \in 0 .. MaxCalls /\ moves \in 0 .. MaxMoves
         /\ faults \in 0 .. MaxFaults /\ missed \subseteq Interfaces
         /\ survivors \subseteq Processes /\ unblocked \in BOOLEAN
BY DEF ProtTypeOK, Doings

LEMMA TypesStay ==
  ASSUME ProtTypeOK, process' \in 0 .. MaxProcesses,
         proc' \in [Processes -> {"unborn", "booting", "listening", "dead"}],
         \A p, q \in Processes : proc'[p] = "listening" /\ proc'[q] = "listening" => p = q,
         pac' \subseteq Interfaces, active' \subseteq Interfaces,
         known' \subseteq Interfaces, reach' \subseteq Interfaces,
         job' \in [Doers -> [script : Scripts, at : Places]],
         health' \in {"stopped", "starting", "active", "degraded", "failed"},
         restarts' \in 0 .. MaxRestarts,
         watching' \in BOOLEAN, rules' \in BOOLEAN, saved' \in BOOLEAN,
         gone' \in BOOLEAN, overlapped' \in BOOLEAN,
         lastDone' \in Doings, calls' \in 0 .. MaxCalls, moves' \in 0 .. MaxMoves,
         faults' \in 0 .. MaxFaults, missed' \subseteq Interfaces,
         survivors' \subseteq Processes, unblocked' \in BOOLEAN
  PROVE  ProtTypeOK'
BY DEF ProtTypeOK, Places, Scripts, Doings

(***************************************************************************)
(* Fail-closed mode: a thread that moves on from anywhere but the blocking *)
(* of the rules leaves them as they are promised.                          *)
(***************************************************************************)
LEMMA StaysBlocked ==
  ASSUME BlockedWhenFailed, NEW d \in Doers, job[d].at # "block",
         \A e \in Doers : e # d => job'[e] = job[e],
         health' = "failed" => health = "failed", rules' = rules, unblocked' = unblocked
  PROVE  BlockedWhenFailed'
BY DEF BlockedWhenFailed, At, Doers

LEMMA NobodyMoves ==
  ASSUME BlockedWhenFailed, UNCHANGED <<job, rules, unblocked>>,
         health' = "failed" => health = "failed"
  PROVE  BlockedWhenFailed'
BY DEF BlockedWhenFailed, At

(***************************************************************************)
(* Threads outside start() and stop() go on outside of them, and processes *)
(* end or begin to listen.                                                 *)
(***************************************************************************)
LEMMA OutsideMoves ==
  ASSUME ProtInv,
         \A e \in Doers : \/ job'[e].at = job[e].at
                          \/ job'[e].at \in Outside /\ job[e].at \in Outside,
         \A p \in Processes : Alive(p)' => Alive(p),
         UNCHANGED <<process, pac, survivors>>, ~overlapped' => ~overlapped,
         ~overlapped' => reach' = reach /\ lastDone' = lastDone
  PROVE  Serial'
<1>1. \A e \in Doers : Busy(e)' <=> Busy(e)
  BY DEF Busy, Outside
<1>2. \A e \in Doers :
        \A where \in {"clear", "spawn", "forget", "terminate", "wait", "enable"} :
          job'[e].at = where <=> job[e].at = where
  BY DEF Outside, InStart, InStop
<1>3. NothingRuns => NothingRuns'
  BY DEF NothingRuns
<1> QED BY <1>1, <1>2, <1>3 DEF ProtInv, Serial

LEMMA OutsideMove ==
  ASSUME ProtInv, NEW d \in Doers, job[d].at \in Outside, job'[d].at \in Outside,
         \A e \in Doers : e # d => job'[e] = job[e],
         UNCHANGED <<process, proc, pac, survivors>>, ~overlapped' => ~overlapped,
         ~overlapped' => reach' = reach /\ lastDone' = lastDone
  PROVE  Serial'
<1>1. \A p \in Processes : Alive(p)' => Alive(p)
  BY DEF Alive
<1> QED BY <1>1, OutsideMoves

(***************************************************************************)
(* A thread outside enters start(), with nothing running, or stop().       *)
(***************************************************************************)
LEMMA EnterKeeps ==
  ASSUME ProtInv, NEW d \in Doers, job[d].at \in Outside, NEW script \in Scripts,
         NEW place \in {"clear", "disable"}, Enter(d, script, place),
         place = "clear" => ~Running,
         UNCHANGED <<process, proc, pac, survivors>>
  PROVE  Serial'
<1> SUFFICES ASSUME ~overlapped' PROVE Serial'
  BY DEF Serial
<1>1. /\ job'[d].at = place /\ \A e \in Doers : e # d => job'[e] = job[e]
      /\ ~overlapped /\ \A e \in Doers : e # d => ~Busy(e)
      /\ lastDone' = lastDone /\ reach' = reach
  BY Enters DEF ProtInv, Places, InStart, InStop
<1>2. \A e \in Doers : ~Busy(e)
  BY <1>1, ProtTypes DEF ProtInv
<1>3. \A e \in Doers : Busy(e)' => e = d
  BY <1>1, <1>2 DEF Busy
<1>4. \A p \in Processes : Alive(p)' <=> Alive(p)
  BY DEF Alive
<1>5. \A p \in Processes : Alive(p) => p = process \/ p \in survivors
  BY <1>1 DEF ProtInv, Serial
<1>6. ~Running => NothingRuns
  <2>1. \A p \in Processes : p # 0
    BY DEF Processes
  <2> QED BY <1>5, <2>1 DEF Running, NothingRuns
<1>7. NothingRuns' <=> NothingRuns
  BY <1>4 DEF NothingRuns
<1>8. \A e \in Doers : job'[e].at \in {"clear", "spawn", "forget"} => NothingRuns'
  BY <1>1, <1>2, <1>6, <1>7 DEF Busy, InStart, InStop
<1>9. \A e \in Doers : job'[e].at \notin {"terminate", "forget", "wait", "enable"}
  BY <1>1, <1>2 DEF Busy, InStart, InStop
<1>10. \A e \in Doers : job[e].at \notin {"terminate", "forget", "wait", "enable"}
  BY <1>2 DEF Busy, InStart, InStop
<1> QED BY <1>1, <1>3, <1>4, <1>5, <1>8, <1>9, <1>10 DEF ProtInv, Serial

(***************************************************************************)
(* The one thread in start() or stop() goes on, or leaves.                 *)
(***************************************************************************)
LEMMA OneGoesOn ==
  ASSUME ProtInv, NEW d \in Doers, Busy(d), ~overlapped, overlapped' = overlapped,
         \A e \in Doers : e # d => job'[e] = job[e],
         \A p \in Processes : Alive(p)' => p = process' \/ p \in survivors',
         job'[d].at \in {"clear", "spawn", "forget"} => NothingRuns',
         job'[d].at \in {"terminate", "forget"} => reach' \cap pac' = {},
         lastDone' = "stop" => reach' \cap pac' = {},
         lastDone' = "start" => reach' \subseteq pac' \/ job'[d].at \in {"terminate", "forget"},
         lastDone' = "stop" => process' = 0 \/ job'[d].at \in {"wait", "enable"}
  PROVE  Serial'
<1>1. \A e \in Doers : e # d => ~Busy(e) /\ ~Busy(e)'
  BY DEF ProtInv, Serial, Busy
<1>2. \A e \in Doers : e # d => job'[e].at \notin InStart \cup InStop
  BY <1>1 DEF Busy
<1>3. \A e \in Doers : job'[e].at \in {"clear", "spawn", "forget", "terminate"} => e = d
  BY <1>2 DEF InStart, InStop
<1>4. \A e, f \in Doers : Busy(e)' /\ Busy(f)' => e = f
  BY <1>1
<1> QED BY <1>3, <1>4 DEF Serial

(***************************************************************************)
(* What holds for the one thread before it goes on.                        *)
(***************************************************************************)
LEMMA OneThere ==
  ASSUME ProtInv, NEW d \in Doers, Busy(d), ~overlapped
  PROVE  /\ \A p \in Processes : Alive(p) => p = process \/ p \in survivors
         /\ job[d].at \in {"clear", "spawn", "forget"} => NothingRuns
         /\ job[d].at \in {"terminate", "forget"} => reach \cap pac = {}
         /\ lastDone = "stop" => reach \cap pac = {}
         /\ lastDone = "start" => reach \subseteq pac \/ job[d].at \in {"terminate", "forget"}
         /\ lastDone = "stop" => process = 0 \/ job[d].at \in {"wait", "enable"}
<1>1. \A e \in Doers : e # d => ~Busy(e)
  BY DEF ProtInv, Serial
<1>2. \A e \in Doers : job[e].at \in {"terminate", "forget", "wait", "enable"} => e = d
  BY <1>1 DEF Busy, InStart, InStop
<1> QED BY <1>2 DEF ProtInv, Serial

LEMMA ProtBounds ==
  /\ MaxProcesses \in Nat /\ MaxCalls \in Nat /\ MaxMoves \in Nat /\ MaxRestarts \in Nat
  /\ 0 \in 0 .. MaxProcesses /\ 0 \in 0 .. MaxCalls /\ 0 \in 0 .. MaxMoves
  /\ 0 \in 0 .. MaxRestarts
<1>1. MaxProcesses \in Nat /\ MaxCalls \in Nat /\ MaxMoves \in Nat /\ MaxRestarts \in Nat
  BY ProtectionAssumption
<1> QED BY <1>1

(***************************************************************************)
(* What the caller does after start() keeps the types, leaves the thread   *)
(* outside, and never tells of a failure.                                  *)
(***************************************************************************)
LEMMA Starts ==
  ASSUME ProtTypeOK, NEW d \in Doers, NEW ok \in BOOLEAN, Started(d, ok)
  PROVE  /\ job' \in [Doers -> [script : Scripts, at : Places]]
         /\ job'[d].at \in {"warm", "idle", "network"}
         /\ \A e \in Doers : e # d => job'[e] = job[e]
         /\ health' \in {"stopped", "starting", "active", "degraded", "failed"}
         /\ restarts' \in 0 .. MaxRestarts /\ saved' \in BOOLEAN
         /\ health' = "failed" => health = "failed"
         /\ UNCHANGED <<watching, known, rules>>
<1>1. /\ health \in {"stopped", "starting", "active", "degraded", "failed"}
      /\ restarts \in 0 .. MaxRestarts /\ saved \in BOOLEAN /\ 0 \in 0 .. MaxRestarts
  <2>1. 0 \in 0 .. MaxRestarts
    BY ProtBounds
  <2> QED BY <2>1 DEF ProtTypeOK
<1>2. UNCHANGED <<watching, known, rules>>
  BY DEF Started
<1>3. CASE MenuStarted(d, ok)
  <2>1. Go(d, "warm") \/ Go(d, "idle")
    BY <1>3 DEF MenuStarted
  <2>2. saved' \in BOOLEAN /\ UNCHANGED <<health, restarts>>
    BY <1>3, <1>1 DEF MenuStarted
  <2> QED BY <2>1, <2>2, <1>1, <1>2, Goes DEF Places
<1>4. CASE DashStarted(d, ok)
  <2>1. Go(d, "idle") /\ UNCHANGED <<health, restarts>>
    BY <1>4 DEF DashStarted
  <2>2. saved' = (saved \/ (ok /\ job[d].script = "dash on"))
    BY <1>4 DEF DashStarted
  <2>3. saved' \in BOOLEAN
    BY <2>2, Zenon
  <2> QED BY <2>1, <2>3, <1>1, <1>2, Goes DEF Places
<1>5. CASE WatchStarted(d, ok)
  <2>1. Go(d, "network")
    BY <1>5 DEF WatchStarted
  <2>2. saved' \in BOOLEAN /\ restarts' \in {restarts, 0} /\ health' \in {health, "active"}
    BY <1>5, <1>1 DEF WatchStarted
  <2> QED BY <2>1, <2>2, <1>1, <1>2, Goes DEF Places
<1> QED BY <1>3, <1>4, <1>5 DEF Started

(***************************************************************************)
(* start(), a step at a time.                                              *)
(***************************************************************************)
LEMMA ClearKeeps ==
  ASSUME ProtInv, NEW d \in Doers, Clear(d)
  PROVE  ProtInv'
<1>1. /\ job[d].at = "clear" /\ Go(d, "spawn")
      /\ \/ /\ proc' = [p \in Processes |-> IF proc[p] = "listening" THEN "dead" ELSE proc[p]]
            /\ survivors' = survivors /\ faults' = faults
         \/ /\ survivors' = survivors \cup {p \in Processes : proc[p] = "listening"}
            /\ proc' = proc /\ Fault
      /\ UNCHANGED <<process, pac, active, watching, health, restarts, known, rules, saved, gone,
                     calls, moves, overlapped, lastDone, reach, missed, unblocked>>
  BY DEF Clear, At, dog, past
<1>2. /\ job' \in [Doers -> [script : Scripts, at : Places]]
      /\ job'[d].at = "spawn" /\ \A e \in Doers : e # d => job'[e] = job[e]
  BY <1>1, Goes DEF ProtInv, Places, InStart
<1>3. /\ proc' \in [Processes -> {"unborn", "booting", "listening", "dead"}]
      /\ \A p, q \in Processes : proc'[p] = "listening" /\ proc'[q] = "listening" => p = q
      /\ \A p \in Processes : Alive(p)' => Alive(p)
  BY <1>1, ProtTypes DEF ProtInv, Alive
<1>7. survivors' \subseteq Processes /\ survivors \subseteq survivors'
  BY <1>1 DEF ProtInv, ProtTypeOK
<1>8. faults' \in 0 .. MaxFaults
  BY <1>1, FaultsStay DEF ProtInv
<1>4. ProtTypeOK'
  BY <1>1, <1>2, <1>3, <1>7, <1>8, ProtTypes, TypeParts, TypesStay DEF ProtInv
<1>5. Serial'
  <2> SUFFICES ASSUME ~overlapped' PROVE Serial'
    BY DEF Serial
  <2>1. Busy(d) /\ ~overlapped
    BY <1>1 DEF Busy, InStart
  <2>2. NothingRuns => NothingRuns'
    BY <1>3, <1>7 DEF NothingRuns
  <2>3. \A p \in Processes : Alive(p)' => p = process' \/ p \in survivors'
    BY <1>1, <1>3, <1>7, <2>1, OneThere
  <2> QED BY <1>1, <1>2, <2>1, <2>2, <2>3, OneThere, OneGoesOn
<1>6. BlockedWhenFailed'
  BY <1>1, <1>2, StaysBlocked DEF ProtInv
<1> QED BY <1>4, <1>5, <1>6 DEF ProtInv

LEMMA SpawnKeeps ==
  ASSUME ProtInv, NEW d \in Doers, Spawn(d)
  PROVE  ProtInv'
<1>1. /\ job[d].at = "spawn" /\ Go(d, "wait")
      /\ UNCHANGED <<pac, active, watching, health, restarts, known, rules, saved, gone, calls,
                     moves, overlapped, lastDone, reach, faults, missed, survivors, unblocked>>
  BY DEF Spawn, At, dog, bounds, past, slips
<1>2. /\ job' \in [Doers -> [script : Scripts, at : Places]]
      /\ job'[d].at = "wait" /\ \A e \in Doers : e # d => job'[e] = job[e]
  BY <1>1, Goes DEF ProtInv, Places, InStart
<1>3. PICK p \in Processes :
        proc[p] = "unborn" /\ process' = p /\ proc' = [proc EXCEPT ![p] = "booting"]
  BY DEF Spawn
<1>4. /\ process' \in 0 .. MaxProcesses
      /\ proc' \in [Processes -> {"unborn", "booting", "listening", "dead"}]
      /\ \A q, r \in Processes : proc'[q] = "listening" /\ proc'[r] = "listening" => q = r
      /\ \A q \in Processes : Alive(q)' => Alive(q) \/ q = p
  BY <1>3, ProtTypes, ProtectionAssumption DEF ProtInv, Alive, Processes
<1>5. ProtTypeOK'
  BY <1>1, <1>2, <1>4, ProtTypes, TypeParts, TypesStay DEF ProtInv
<1>6. Serial'
  <2> SUFFICES ASSUME ~overlapped' PROVE Serial'
    BY DEF Serial
  <2>1. Busy(d) /\ ~overlapped
    BY <1>1 DEF Busy, InStart
  <2>2. \A q \in Processes : Alive(q)' => q = process' \/ q \in survivors'
    BY <1>1, <1>3, <1>4, <2>1, OneThere DEF NothingRuns
  <2> QED BY <1>1, <1>2, <2>1, <2>2, OneThere, OneGoesOn
<1>7. BlockedWhenFailed'
  BY <1>1, <1>2, StaysBlocked DEF ProtInv
<1> QED BY <1>5, <1>6, <1>7 DEF ProtInv

LEMMA SpawnRaisesKeeps ==
  ASSUME ProtInv, NEW d \in Doers, SpawnRaises(d)
  PROVE  ProtInv'
<1>1. /\ job[d].at = "spawn" /\ Started(d, FALSE)
      /\ UNCHANGED <<process, proc, pac, active, gone, calls, moves, overlapped, lastDone, reach,
                     faults, missed, survivors, unblocked>>
  BY DEF SpawnRaises, At, service, bounds, past, slips
<1>2. /\ job' \in [Doers -> [script : Scripts, at : Places]]
      /\ job'[d].at \in {"warm", "idle", "network"}
      /\ \A e \in Doers : e # d => job'[e] = job[e]
      /\ health' \in {"stopped", "starting", "active", "degraded", "failed"}
      /\ restarts' \in 0 .. MaxRestarts /\ saved' \in BOOLEAN
      /\ health' = "failed" => health = "failed"
      /\ UNCHANGED <<watching, known, rules>>
  BY <1>1, Starts DEF ProtInv
<1>3. ProtTypeOK'
  BY <1>1, <1>2, ProtTypes, TypeParts, TypesStay DEF ProtInv
<1>4. Serial'
  <2> SUFFICES ASSUME ~overlapped' PROVE Serial'
    BY DEF Serial
  <2>1. Busy(d) /\ ~overlapped
    BY <1>1 DEF Busy, InStart
  <2>2. \A p \in Processes : Alive(p)' => Alive(p)
    BY <1>1 DEF Alive
  <2>3. lastDone = "stop" => process = 0
    BY <1>1, <2>1, OneThere
  <2> QED BY <1>1, <1>2, <2>1, <2>2, <2>3, OneThere, OneGoesOn
<1>5. BlockedWhenFailed'
  BY <1>1, <1>2, StaysBlocked DEF ProtInv
<1> QED BY <1>3, <1>4, <1>5 DEF ProtInv

LEMMA WaitSeesKeeps ==
  ASSUME ProtInv, NEW d \in Doers, WaitSees(d)
  PROVE  ProtInv'
<1>1. /\ job[d].at = "wait" /\ Go(d, "enable")
      /\ UNCHANGED <<process, proc, pac, active, watching, health, restarts, known, rules, saved,
                     gone, calls, moves, overlapped, lastDone, reach, faults, missed, survivors,
                     unblocked>>
  BY DEF WaitSees, At, service, dog, bounds, past, slips
<1>2. /\ job' \in [Doers -> [script : Scripts, at : Places]]
      /\ job'[d].at = "enable" /\ \A e \in Doers : e # d => job'[e] = job[e]
  BY <1>1, Goes DEF ProtInv, Places, InStart
<1>3. ProtTypeOK'
  BY <1>1, <1>2, ProtTypes, TypeParts, TypesStay DEF ProtInv
<1>4. Serial'
  <2> SUFFICES ASSUME ~overlapped' PROVE Serial'
    BY DEF Serial
  <2>1. Busy(d) /\ ~overlapped
    BY <1>1 DEF Busy, InStart
  <2>2. \A p \in Processes : Alive(p)' => Alive(p)
    BY <1>1 DEF Alive
  <2> QED BY <1>1, <1>2, <2>1, <2>2, OneThere, OneGoesOn
<1>5. BlockedWhenFailed'
  BY <1>1, <1>2, StaysBlocked DEF ProtInv
<1> QED BY <1>3, <1>4, <1>5 DEF ProtInv
LEMMA WaitRaisesKeeps ==
  ASSUME ProtInv, NEW d \in Doers, WaitRaises(d)
  PROVE  ProtInv'
<1>1. /\ job[d].at = "wait" /\ ~Running /\ process' = 0 /\ Started(d, FALSE)
      /\ UNCHANGED <<proc, pac, active, gone, calls, moves, overlapped, lastDone, reach, faults,
                     missed, survivors, unblocked>>
  BY DEF WaitRaises, At, bounds, past, slips
<1>2. /\ job' \in [Doers -> [script : Scripts, at : Places]]
      /\ job'[d].at \in {"warm", "idle", "network"}
      /\ \A e \in Doers : e # d => job'[e] = job[e]
      /\ health' \in {"stopped", "starting", "active", "degraded", "failed"}
      /\ restarts' \in 0 .. MaxRestarts /\ saved' \in BOOLEAN
      /\ health' = "failed" => health = "failed"
      /\ UNCHANGED <<watching, known, rules>>
  BY <1>1, Starts DEF ProtInv
<1>3. process' \in 0 .. MaxProcesses
  BY <1>1, ProtectionAssumption
<1>4. ProtTypeOK'
  BY <1>1, <1>2, <1>3, ProtTypes, TypeParts, TypesStay DEF ProtInv
<1>5. Serial'
  <2> SUFFICES ASSUME ~overlapped' PROVE Serial'
    BY DEF Serial
  <2>1. Busy(d) /\ ~overlapped
    BY <1>1 DEF Busy, InStart
  <2>2. \A p \in Processes : Alive(p) => p \in survivors
    <3>1. \A p \in Processes : Alive(p) => p = process \/ p \in survivors
      BY <2>1, OneThere
    <3>2. \A p \in Processes : p # 0
      BY DEF Processes
    <3> QED BY <3>1, <3>2, <1>1 DEF Running
  <2>3. \A p \in Processes : Alive(p)' <=> Alive(p)
    BY <1>1 DEF Alive
  <2> QED BY <1>1, <1>2, <2>1, <2>2, <2>3, OneThere, OneGoesOn
<1>6. BlockedWhenFailed'
  BY <1>1, <1>2, StaysBlocked DEF ProtInv
<1> QED BY <1>4, <1>5, <1>6 DEF ProtInv

LEMMA KilledIsDead ==
  ASSUME ProtTypeOK, NEW p \in Processes, proc' = Killed(p)
  PROVE  /\ proc' \in [Processes -> {"unborn", "booting", "listening", "dead"}]
         /\ \A q, r \in Processes : proc'[q] = "listening" /\ proc'[r] = "listening" => q = r
         /\ \A q \in Processes : Alive(q)' => Alive(q) /\ q # p
BY ProtTypes DEF Killed, Alive

LEMMA WaitTimesOutKeeps ==
  ASSUME ProtInv, NEW d \in Doers, WaitTimesOut(d)
  PROVE  ProtInv'
<1>1. /\ job[d].at = "wait" /\ Running /\ process' = 0 /\ Started(d, FALSE)
      /\ \/ proc' = Killed(process) /\ survivors' = survivors /\ faults' = faults
         \/ survivors' = survivors \cup {process} /\ proc' = proc /\ Fault
      /\ UNCHANGED <<pac, active, gone, calls, moves, overlapped, lastDone, reach, missed,
                     unblocked>>
  BY DEF WaitTimesOut, At, past
<1>2. /\ job' \in [Doers -> [script : Scripts, at : Places]]
      /\ job'[d].at \in {"warm", "idle", "network"}
      /\ \A e \in Doers : e # d => job'[e] = job[e]
      /\ health' \in {"stopped", "starting", "active", "degraded", "failed"}
      /\ restarts' \in 0 .. MaxRestarts /\ saved' \in BOOLEAN
      /\ health' = "failed" => health = "failed"
      /\ UNCHANGED <<watching, known, rules>>
  BY <1>1, Starts DEF ProtInv
<1>3. process' \in 0 .. MaxProcesses
  BY <1>1, ProtectionAssumption
<1>4. process \in Processes
  BY <1>1, ProtTypes, ProtectionAssumption DEF ProtInv, Running, Processes
<1>5. /\ proc' \in [Processes -> {"unborn", "booting", "listening", "dead"}]
      /\ \A q, r \in Processes : proc'[q] = "listening" /\ proc'[r] = "listening" => q = r
      /\ \A q \in Processes : Alive(q)' => Alive(q)
      /\ \A q \in Processes : Alive(q)' => q # process \/ q \in survivors'
      /\ survivors' \subseteq Processes /\ survivors \subseteq survivors'
  <2>1. survivors \subseteq Processes
    BY DEF ProtInv, ProtTypeOK
  <2>2. CASE proc' = Killed(process) /\ survivors' = survivors
    BY <1>4, <2>1, <2>2, KilledIsDead DEF ProtInv
  <2>3. CASE survivors' = survivors \cup {process} /\ proc' = proc
    BY <1>4, <2>1, <2>3, ProtTypes DEF ProtInv, Alive
  <2> QED BY <1>1, <2>2, <2>3
<1>9. faults' \in 0 .. MaxFaults
  BY <1>1, FaultsStay DEF ProtInv
<1>6. ProtTypeOK'
  BY <1>1, <1>2, <1>3, <1>5, <1>9, ProtTypes, TypeParts, TypesStay DEF ProtInv
<1>7. Serial'
  <2> SUFFICES ASSUME ~overlapped' PROVE Serial'
    BY DEF Serial
  <2>1. Busy(d) /\ ~overlapped
    BY <1>1 DEF Busy, InStart
  <2>2. \A p \in Processes : Alive(p)' => p \in survivors'
    BY <1>5, <2>1, OneThere
  <2> QED BY <1>1, <1>2, <2>1, <2>2, OneThere, OneGoesOn
<1>8. BlockedWhenFailed'
  BY <1>1, <1>2, StaysBlocked DEF ProtInv
<1> QED BY <1>6, <1>7, <1>8 DEF ProtInv

LEMMA EnableKeeps ==
  ASSUME ProtInv, NEW d \in Doers, Enable(d)
  PROVE  ProtInv'
<1>1. /\ job[d].at = "enable" /\ overlapped' = overlapped
      /\ UNCHANGED <<process, proc, active, gone, calls, moves, missed, survivors, unblocked>>
  BY DEF Enable, At, slips
<1>2. PICK S \in Takes, done \in {"start", "raised"}, ok \in BOOLEAN :
        /\ Remember(done, IF done = "start" THEN S ELSE {}) /\ Started(d, ok)
        /\ pac' = IF done = "start" THEN pac \cup S ELSE pac
        /\ Fault \/ UNCHANGED faults
  <2>1. CASE /\ \E S \in Takes :
                  pac' = pac \cup S /\ Remember("start", S) /\ FaultUnless(S = ListedNow)
             /\ Started(d, job[d].script = "watch" => Running)
    <3>1. PICK S \in Takes :
            pac' = pac \cup S /\ Remember("start", S) /\ FaultUnless(S = ListedNow)
      BY <2>1
    <3>2. Fault \/ UNCHANGED faults
      BY <3>1 DEF FaultUnless
    <3>3. (job[d].script = "watch" => Running) \in BOOLEAN
      OBVIOUS
    <3> QED BY <2>1, <3>1, <3>2, <3>3
  <2>2. CASE Remember("raised", {}) /\ UNCHANGED pac /\ Fault /\ Started(d, FALSE)
    <3>1. {} \in Takes
      BY DEF Takes
    <3> QED BY <2>2, <3>1
  <2> QED BY <2>1, <2>2 DEF Enable
<1>3. /\ job' \in [Doers -> [script : Scripts, at : Places]]
      /\ job'[d].at \in {"warm", "idle", "network"}
      /\ \A e \in Doers : e # d => job'[e] = job[e]
      /\ health' \in {"stopped", "starting", "active", "degraded", "failed"}
      /\ restarts' \in 0 .. MaxRestarts /\ saved' \in BOOLEAN
      /\ health' = "failed" => health = "failed"
      /\ UNCHANGED <<watching, known, rules>>
  BY <1>2, Starts DEF ProtInv
<1>7. S \subseteq Interfaces /\ faults' \in 0 .. MaxFaults
  BY <1>2, ListedAreKnown, FaultsStay DEF ProtInv
<1>8. /\ lastDone' \in Doings /\ reach' \subseteq Interfaces
      /\ ~overlapped' => lastDone' = done /\ reach' = IF done = "start" THEN S ELSE {}
  BY <1>2, <1>7, Remembers DEF ProtInv, Doings
<1>4. ProtTypeOK'
  BY <1>1, <1>2, <1>3, <1>7, <1>8, ProtTypes, TypeParts, TypesStay DEF ProtInv
<1>5. Serial'
  <2> SUFFICES ASSUME ~overlapped' PROVE Serial'
    BY DEF Serial
  <2>1. Busy(d) /\ ~overlapped
    BY <1>1 DEF Busy, InStart
  <2>2. \A p \in Processes : Alive(p)' <=> Alive(p)
    BY <1>1 DEF Alive
  <2>3. lastDone' # "stop" /\ (lastDone' = "start" => reach' \subseteq pac')
    BY <1>2, <1>8
  <2> QED BY <1>1, <1>3, <2>1, <2>2, <2>3, OneThere, OneGoesOn
<1>6. BlockedWhenFailed'
  BY <1>1, <1>3, StaysBlocked DEF ProtInv
<1> QED BY <1>4, <1>5, <1>6 DEF ProtInv

(***************************************************************************)
(* stop(), a step at a time.                                               *)
(***************************************************************************)
LEMMA DisableKeeps ==
  ASSUME ProtInv, NEW d \in Doers, Disable(d)
  PROVE  ProtInv'
<1>1. /\ job[d].at = "disable" /\ Go(d, "terminate") /\ overlapped' = overlapped
      /\ UNCHANGED <<process, proc, active, watching, health, restarts, known, rules, saved, gone,
                     calls, moves, missed, survivors, unblocked>>
  BY DEF Disable, At, dog, slips
<1>2. /\ job' \in [Doers -> [script : Scripts, at : Places]]
      /\ job'[d].at = "terminate" /\ \A e \in Doers : e # d => job'[e] = job[e]
  BY <1>1, Goes DEF ProtInv, Places, InStop
<1>6. PICK S \in Takes : pac' = pac \ S /\ Remember(lastDone, S) /\ FaultUnless(S = ListedNow)
  BY DEF Disable
<1>7. S \subseteq Interfaces /\ faults' \in 0 .. MaxFaults
  BY <1>6, ListedAreKnown, FaultsStay DEF ProtInv, FaultUnless
<1>8. /\ lastDone' \in Doings /\ reach' \subseteq Interfaces
      /\ ~overlapped' => lastDone' = lastDone /\ reach' = S
  BY <1>6, <1>7, Remembers DEF ProtInv, ProtTypeOK, Doings
<1>3. ProtTypeOK'
  BY <1>1, <1>2, <1>6, <1>7, <1>8, ProtTypes, TypeParts, TypesStay DEF ProtInv
<1>4. Serial'
  <2> SUFFICES ASSUME ~overlapped' PROVE Serial'
    BY DEF Serial
  <2>1. Busy(d) /\ ~overlapped
    BY <1>1 DEF Busy, InStop
  <2>2. \A p \in Processes : Alive(p)' <=> Alive(p)
    BY <1>1 DEF Alive
  <2>3. reach' \cap pac' = {} /\ lastDone' = lastDone
    BY <1>6, <1>8
  <2> QED BY <1>1, <1>2, <2>1, <2>2, <2>3, OneThere, OneGoesOn
<1>5. BlockedWhenFailed'
  BY <1>1, <1>2, StaysBlocked DEF ProtInv
<1> QED BY <1>3, <1>4, <1>5 DEF ProtInv

LEMMA DisableRaisesKeeps ==
  ASSUME ProtInv, NEW d \in Doers, DisableRaises(d)
  PROVE  ProtInv'
<1>1. /\ job[d].at = "disable" /\ overlapped' = overlapped
      /\ Remember("raised", {}) /\ Fault
      /\ UNCHANGED <<process, proc, active, calls, moves, missed, survivors, unblocked>>
  BY DEF DisableRaises, At, slips
<1>2. /\ job' \in [Doers -> [script : Scripts, at : Places]]
      /\ job'[d].at \in {"warm", "idle", "network"}
      /\ \A e \in Doers : e # d => job'[e] = job[e]
      /\ health' \in {"stopped", "starting", "active", "degraded", "failed"}
      /\ restarts' \in 0 .. MaxRestarts /\ saved' \in BOOLEAN /\ gone' \in BOOLEAN
      /\ health' = "failed" => health = "failed"
      /\ UNCHANGED <<watching, known, rules>>
  <2>1. CASE job[d].script = "watch"
    <3>1. Started(d, FALSE) /\ UNCHANGED gone
      BY <2>1 DEF DisableRaises
    <3>2. gone \in BOOLEAN
      BY DEF ProtInv, ProtTypeOK
    <3> QED BY <3>1, <3>2, Starts DEF ProtInv
  <2>2. CASE job[d].script # "watch"
    <3>1. Go(d, "idle") /\ UNCHANGED dog
      BY <2>2 DEF DisableRaises
    <3>2. saved' = (saved /\ job[d].script # "off") /\ gone' = (job[d].script = "quit")
      BY <2>2 DEF DisableRaises
    <3>3. saved' \in BOOLEAN /\ gone' \in BOOLEAN
      BY <3>2, Zenon
    <3>4. /\ job' \in [Doers -> [script : Scripts, at : Places]]
          /\ job'[d].at = "idle" /\ \A e \in Doers : e # d => job'[e] = job[e]
      BY <3>1, Goes DEF ProtInv, Places
    <3> QED BY <3>1, <3>3, <3>4 DEF ProtInv, ProtTypeOK, dog
  <2> QED BY <2>1, <2>2
<1>3. pac' \subseteq Interfaces /\ pac' \subseteq pac
  BY DEF DisableRaises, ProtInv, ProtTypeOK
<1>4. faults' \in 0 .. MaxFaults
  BY <1>1, FaultsStay DEF ProtInv
<1>5. /\ lastDone' \in Doings /\ reach' \subseteq Interfaces
      /\ ~overlapped' => lastDone' = "raised"
  BY <1>1, Remembers DEF ProtInv, Doings
<1>6. ProtTypeOK'
  BY <1>1, <1>2, <1>3, <1>4, <1>5, ProtTypes, TypeParts, TypesStay DEF ProtInv
<1>7. Serial'
  <2> SUFFICES ASSUME ~overlapped' PROVE Serial'
    BY DEF Serial
  <2>1. Busy(d) /\ ~overlapped
    BY <1>1 DEF Busy, InStop
  <2>2. \A p \in Processes : Alive(p)' <=> Alive(p)
    BY <1>1 DEF Alive
  <2> QED BY <1>1, <1>2, <1>5, <2>1, <2>2, OneThere, OneGoesOn
<1>8. BlockedWhenFailed'
  BY <1>1, <1>2, StaysBlocked DEF ProtInv
<1> QED BY <1>6, <1>7, <1>8 DEF ProtInv

LEMMA TerminateKeeps ==
  ASSUME ProtInv, NEW d \in Doers, Terminate(d)
  PROVE  ProtInv'
<1>1. /\ job[d].at = "terminate" /\ process # 0 /\ proc' = Killed(process)
      /\ Go(d, "forget")
      /\ UNCHANGED <<process, pac, active, watching, health, restarts, known, rules, saved, gone,
                     calls, moves, overlapped, lastDone, reach, faults, missed, survivors,
                     unblocked>>
  BY DEF Terminate, At, dog, bounds, past, slips
<1>2. /\ job' \in [Doers -> [script : Scripts, at : Places]]
      /\ job'[d].at = "forget" /\ \A e \in Doers : e # d => job'[e] = job[e]
  BY <1>1, Goes DEF ProtInv, Places, InStop
<1>3. process \in Processes
  BY <1>1, ProtTypes, ProtectionAssumption DEF ProtInv, Processes
<1>4. /\ proc' \in [Processes -> {"unborn", "booting", "listening", "dead"}]
      /\ \A q, r \in Processes : proc'[q] = "listening" /\ proc'[r] = "listening" => q = r
      /\ \A q \in Processes : Alive(q)' => Alive(q) /\ q # process
  BY <1>1, <1>3, KilledIsDead DEF ProtInv
<1>5. ProtTypeOK'
  BY <1>1, <1>2, <1>4, ProtTypes, TypeParts, TypesStay DEF ProtInv
<1>6. Serial'
  <2> SUFFICES ASSUME ~overlapped' PROVE Serial'
    BY DEF Serial
  <2>1. Busy(d) /\ ~overlapped
    BY <1>1 DEF Busy, InStop
  <2>2. \A p \in Processes : Alive(p)' => p \in survivors'
    BY <1>1, <1>4, <2>1, OneThere
  <2>3. NothingRuns'
    BY <2>2 DEF NothingRuns
  <2> QED BY <1>1, <1>2, <2>1, <2>2, <2>3, OneThere, OneGoesOn
<1>7. BlockedWhenFailed'
  BY <1>1, <1>2, StaysBlocked DEF ProtInv
<1> QED BY <1>5, <1>6, <1>7 DEF ProtInv

LEMMA ForgetKeeps ==
  ASSUME ProtInv, NEW d \in Doers, Forget(d)
  PROVE  ProtInv'
<1>1. /\ job[d].at = "forget" \/ (job[d].at = "terminate" /\ process = 0)
      /\ process' = 0 /\ Remember("stop", reach) /\ Stopped(d)
      /\ UNCHANGED <<proc, pac, active, watching, health, restarts, known, rules, calls, moves,
                     overlapped, faults, missed, survivors, unblocked>>
  BY DEF Forget, At, dog, bounds, slips
<1>2. /\ Go(d, "idle") \/ Go(d, "clear")
      /\ saved' \in {FALSE, saved} /\ gone' = (job[d].script = "quit")
  BY <1>1 DEF Stopped
<1>3. /\ job' \in [Doers -> [script : Scripts, at : Places]]
      /\ job'[d].at \in {"idle", "clear"} /\ \A e \in Doers : e # d => job'[e] = job[e]
  BY <1>2, Goes DEF ProtInv, Places, InStart
<1>4. process' \in 0 .. MaxProcesses
  BY <1>1, ProtectionAssumption
<1>5. gone' \in BOOLEAN
  BY <1>2
<1>6. saved' \in BOOLEAN
  BY <1>2 DEF ProtInv, ProtTypeOK
<1>10. /\ lastDone' \in Doings /\ reach' \subseteq Interfaces
       /\ ~overlapped' => lastDone' = "stop" /\ reach' = reach
  BY <1>1, Remembers DEF ProtInv, ProtTypeOK, Doings
<1>7. ProtTypeOK'
  BY <1>1, <1>3, <1>4, <1>5, <1>6, <1>10, ProtTypes, TypeParts, TypesStay DEF ProtInv
<1>8. Serial'
  <2> SUFFICES ASSUME ~overlapped' PROVE Serial'
    BY DEF Serial
  <2>1. Busy(d) /\ ~overlapped
    BY <1>1 DEF Busy, InStop
  <2>2. \A p \in Processes : Alive(p) => p \in survivors
    <3>1. /\ \A p \in Processes : Alive(p) => p = process \/ p \in survivors
          /\ job[d].at = "forget" => NothingRuns
      BY <2>1, OneThere
    <3>2. \A p \in Processes : p # 0
      BY DEF Processes
    <3> QED BY <3>1, <3>2, <1>1 DEF NothingRuns
  <2>3. \A p \in Processes : Alive(p)' => p \in survivors'
    BY <2>2, <1>1 DEF Alive
  <2>4. NothingRuns'
    BY <2>3 DEF NothingRuns
  <2>5. reach \cap pac = {}
    BY <1>1, <2>1, OneThere
  <2> QED BY <1>1, <1>3, <1>10, <2>1, <2>3, <2>4, <2>5, OneGoesOn
<1>9. BlockedWhenFailed'
  BY <1>1, <1>3, StaysBlocked DEF ProtInv
<1> QED BY <1>7, <1>8, <1>9 DEF ProtInv
(***************************************************************************)
(* The calls of the menu and of the dashboard.                             *)
(***************************************************************************)
LEMMA CallsStay ==
  ASSUME ProtTypeOK, calls < MaxCalls, calls' = calls + 1
  PROVE  calls' \in 0 .. MaxCalls
<1>1. calls \in 0 .. MaxCalls
  BY DEF ProtTypeOK
<1> QED BY <1>1, ProtBounds

LEMMA ToggleKeeps ==
  ASSUME ProtInv, NEW m \in Menus, Toggle(m)
  PROVE  ProtInv'
<1> m \in Doers
  BY DEF Doers
<1>1. /\ job[m].at = "idle" /\ calls < MaxCalls /\ calls' = calls + 1
      /\ UNCHANGED <<process, proc, pac, active, watching, health, restarts, known, rules, saved,
                     gone, moves, faults, missed, survivors, unblocked>>
      /\ Enter(m, "off", "disable") \/ Enter(m, "on", "load")
  BY DEF Toggle, At, service, dog, bounds, slips
<1>2. calls' \in 0 .. MaxCalls
  BY <1>1, CallsStay DEF ProtInv
<1>3. CASE Enter(m, "off", "disable")
  <2>1. /\ job' \in [Doers -> [script : Scripts, at : Places]]
        /\ \A e \in Doers : e # m => job'[e] = job[e]
        /\ overlapped' \in BOOLEAN
        /\ lastDone' \in Doings /\ reach' \subseteq Interfaces
    BY <1>3, Enters DEF ProtInv, Places, InStop, Scripts
  <2>2. ProtTypeOK'
    BY <1>1, <1>2, <2>1, ProtTypes, TypeParts, TypesStay DEF ProtInv
  <2>3. Serial'
    BY <1>1, <1>3, EnterKeeps DEF Outside, Places, InStart, InStop, Scripts
  <2>4. BlockedWhenFailed'
    BY <1>1, <2>1, StaysBlocked DEF ProtInv
  <2> QED BY <2>2, <2>3, <2>4 DEF ProtInv
<1>4. CASE Enter(m, "on", "load")
  <2>1. /\ job' \in [Doers -> [script : Scripts, at : Places]]
        /\ job'[m].at = "load" /\ \A e \in Doers : e # m => job'[e] = job[e]
        /\ overlapped' \in BOOLEAN /\ (~overlapped' => ~overlapped)
        /\ lastDone' \in Doings /\ reach' \subseteq Interfaces
        /\ (~overlapped' => reach' = reach /\ lastDone' = lastDone)
    BY <1>4, Enters DEF ProtInv, Places, Scripts
  <2>2. ProtTypeOK'
    BY <1>1, <1>2, <2>1, ProtTypes, TypeParts, TypesStay DEF ProtInv
  <2>3. Serial'
    BY <1>1, <2>1, OutsideMove DEF Outside, Places, InStart, InStop
  <2>4. BlockedWhenFailed'
    BY <1>1, <2>1, StaysBlocked DEF ProtInv
  <2> QED BY <2>2, <2>3, <2>4 DEF ProtInv
<1> QED BY <1>1, <1>3, <1>4

(***************************************************************************)
(* A thread that looks whether the proxy runs goes on to start it, or past *)
(* it.                                                                     *)
(***************************************************************************)
LEMMA LooksKeeps ==
  ASSUME ProtInv, NEW d \in Doers, job[d].at \in {"load", "setup"},
         NEW script \in Scripts, NEW place \in {"warm", "idle"},
         \/ Go(d, place) /\ UNCHANGED past
         \/ ~Running /\ Enter(d, script, "clear"),
         UNCHANGED <<process, proc, pac, active, watching, health, restarts, known, rules, saved,
                     gone, calls, moves, faults, missed, survivors, unblocked>>
  PROVE  ProtInv'
<1>1. CASE Go(d, place) /\ UNCHANGED past
  <2>1. /\ job' \in [Doers -> [script : Scripts, at : Places]]
        /\ job'[d].at = place /\ \A e \in Doers : e # d => job'[e] = job[e]
    BY <1>1, Goes DEF ProtInv, Places
  <2>2. ProtTypeOK'
    BY <1>1, <2>1, ProtTypes, TypeParts, TypesStay DEF ProtInv, past
  <2>6. UNCHANGED <<overlapped, lastDone, reach>>
    BY <1>1 DEF past
  <2>3. ~overlapped' => ~overlapped
    BY <2>6, Zenon
  <2>4. Serial'
    BY <2>1, <2>3, <2>6, OutsideMove DEF Outside, Places, InStart, InStop
  <2>5. BlockedWhenFailed'
    BY <2>1, StaysBlocked DEF ProtInv
  <2> QED BY <2>2, <2>4, <2>5 DEF ProtInv
<1>2. CASE ~Running /\ Enter(d, script, "clear")
  <2>1. /\ job' \in [Doers -> [script : Scripts, at : Places]]
        /\ \A e \in Doers : e # d => job'[e] = job[e]
        /\ overlapped' \in BOOLEAN
        /\ lastDone' \in Doings /\ reach' \subseteq Interfaces
    BY <1>2, Enters DEF ProtInv, Places, InStart
  <2>2. ProtTypeOK'
    BY <2>1, ProtTypes, TypeParts, TypesStay DEF ProtInv
  <2>3. Serial'
    BY <1>2, EnterKeeps DEF Outside, Places, InStart, InStop
  <2>4. BlockedWhenFailed'
    BY <2>1, StaysBlocked DEF ProtInv
  <2> QED BY <2>2, <2>3, <2>4 DEF ProtInv
<1> QED BY <1>1, <1>2

LEMMA LoadedKeeps ==
  ASSUME ProtInv, NEW d \in Doers, Loaded(d)
  PROVE  ProtInv'
<1>1. /\ job[d].at = "load"
      /\ \/ Go(d, "warm") /\ UNCHANGED past
         \/ ~Running /\ Enter(d, "on", "clear")
      /\ UNCHANGED <<process, proc, pac, active, watching, health, restarts, known, rules, saved,
                     gone, calls, moves, faults, missed, survivors, unblocked>>
  BY DEF Loaded, At, service, dog, bounds, slips
<1> QED BY <1>1, LooksKeeps DEF Scripts

LEMMA SetUpKeeps ==
  ASSUME ProtInv, NEW d \in Doers, SetUp(d)
  PROVE  ProtInv'
<1>1. /\ job[d].at = "setup"
      /\ \/ Go(d, "idle") /\ UNCHANGED past
         \/ ~Running /\ Enter(d, "dash on", "clear")
      /\ UNCHANGED <<process, proc, pac, active, watching, health, restarts, known, rules, saved,
                     gone, calls, moves, faults, missed, survivors, unblocked>>
  BY DEF SetUp, At, service, dog, bounds, slips
<1> QED BY <1>1, LooksKeeps DEF Scripts

LEMMA WarmedKeeps ==
  ASSUME ProtInv, NEW d \in Doers, Warmed(d)
  PROVE  ProtInv'
<1>1. /\ job[d].at = "warm" /\ restarts' = 0 /\ saved' = TRUE
      /\ \/ Go(d, "idle") /\ UNCHANGED <<watching, health>>
         \/ StartDog(d)
      /\ UNCHANGED <<process, proc, pac, active, known, rules, gone, calls, moves, overlapped,
                     lastDone, reach, faults, missed, survivors, unblocked>>
  BY DEF Warmed, At, service, bounds, past, slips
<1>2. restarts' \in 0 .. MaxRestarts /\ saved' \in BOOLEAN
  BY <1>1, ProtectionAssumption
<1>3. ~overlapped' => ~overlapped
  BY <1>1, Zenon
<1>4. CASE Go(d, "idle") /\ UNCHANGED <<watching, health>>
  <2>1. /\ job' \in [Doers -> [script : Scripts, at : Places]]
        /\ job'[d].at = "idle" /\ \A e \in Doers : e # d => job'[e] = job[e]
    BY <1>4, Goes DEF ProtInv, Places
  <2>2. ProtTypeOK'
    BY <1>1, <1>2, <1>4, <2>1, ProtTypes, TypeParts, TypesStay DEF ProtInv
  <2>3. Serial'
    BY <1>1, <1>3, <2>1, OutsideMove DEF Outside, Places, InStart, InStop
  <2>4. BlockedWhenFailed'
    BY <1>1, <1>4, <2>1, StaysBlocked DEF ProtInv
  <2> QED BY <2>2, <2>3, <2>4 DEF ProtInv
<1>5. CASE StartDog(d)
  <2>1. PICK w \in Monitors : /\ job[w].at = "unborn"
                              /\ job' = [job EXCEPT ![w].at = "asleep", ![d].at = "idle"]
    BY <1>5 DEF StartDog, At
  <2>2. w \in Doers /\ w # d
    BY <1>1, <2>1 DEF Doers
  <2>3. job \in [Doers -> [script : Scripts, at : Places]]
    BY ProtTypes DEF ProtInv
  <2>4. job' = [[job EXCEPT ![w].at = "asleep"] EXCEPT ![d].at = "idle"]
    BY <2>1
  <2>5. [job EXCEPT ![w].at = "asleep"] \in [Doers -> [script : Scripts, at : Places]]
    BY <2>2, <2>3 DEF Places
  <2>6. job' \in [Doers -> [script : Scripts, at : Places]]
    BY <2>4, <2>5 DEF Places
  <2>7. /\ job'[d].at = "idle" /\ job'[w].at = "asleep"
        /\ \A e \in Doers : e # d /\ e # w => job'[e] = job[e]
    BY <2>1, <2>2, <2>3
  <2>8. watching' = TRUE /\ health' = "starting"
    BY <1>5 DEF StartDog
  <2>9. ProtTypeOK'
    BY <1>1, <1>2, <2>6, <2>8, ProtTypes, TypeParts, TypesStay DEF ProtInv
  <2>10. \A e \in Doers : \/ job'[e].at = job[e].at
                          \/ job'[e].at \in Outside /\ job[e].at \in Outside
    BY <1>1, <2>1, <2>7 DEF Outside, Places, InStart, InStop
  <2>11. \A p \in Processes : Alive(p)' => Alive(p)
    BY <1>1 DEF Alive
  <2>12. Serial'
    BY <1>1, <1>3, <2>10, <2>11, OutsideMoves
  <2>13. BlockedWhenFailed'
    BY <2>8 DEF BlockedWhenFailed
  <2> QED BY <2>9, <2>12, <2>13 DEF ProtInv
<1> QED BY <1>1, <1>4, <1>5

LEMMA QuitKeeps ==
  ASSUME ProtInv, NEW m \in Menus, Quit(m)
  PROVE  ProtInv'
<1> m \in Doers
  BY DEF Doers
<1>1. /\ job[m].at = "idle" /\ calls < MaxCalls /\ calls' = calls + 1
      /\ watching' = FALSE /\ health' = "stopped"
      /\ \/ Enter(m, "quit", "disable") /\ UNCHANGED gone
         \/ gone' = TRUE /\ UNCHANGED <<job, past>>
      /\ UNCHANGED <<process, proc, pac, active, restarts, known, saved, moves, missed,
                     survivors, unblocked>>
      /\ \/ rules' = (rules /\ ~FailClosed) /\ UNCHANGED faults
         \/ UNCHANGED rules /\ Fault
  <2>1. \/ Enter(m, "quit", "disable") /\ UNCHANGED gone
        \/ gone' = TRUE /\ UNCHANGED <<job, past>>
    BY DEF Quit
  <2>2. \/ rules' = (rules /\ ~FailClosed) /\ UNCHANGED faults
        \/ UNCHANGED rules /\ Fault
    BY Zenon DEF Quit
  <2> QED BY <2>1, <2>2 DEF Quit, At, service, slips
<1>2. calls' \in 0 .. MaxCalls
  BY <1>1, CallsStay DEF ProtInv
<1>3. rules' = (rules /\ ~FailClosed) \/ rules' = rules
  BY <1>1
<1>8. rules \in BOOLEAN
  BY DEF ProtInv, ProtTypeOK
<1>4. rules' \in BOOLEAN
  BY <1>3, <1>8, Zenon
<1>9. faults' \in 0 .. MaxFaults
  BY <1>1, FaultsStay DEF ProtInv
<1>5. BlockedWhenFailed'
  BY <1>1 DEF BlockedWhenFailed
<1>6. CASE Enter(m, "quit", "disable") /\ UNCHANGED gone
  <2>1. job' \in [Doers -> [script : Scripts, at : Places]] /\ overlapped' \in BOOLEAN
        /\ lastDone' \in Doings /\ reach' \subseteq Interfaces
    BY <1>6, Enters DEF ProtInv, Places, InStop, Scripts
  <2>2. ProtTypeOK'
    BY <1>1, <1>2, <1>4, <1>6, <1>9, <2>1, ProtTypes, TypeParts, TypesStay DEF ProtInv
  <2>3. Serial'
    BY <1>1, <1>6, EnterKeeps DEF Outside, Places, InStart, InStop, Scripts
  <2> QED BY <1>5, <2>2, <2>3 DEF ProtInv
<1>7. CASE gone' = TRUE /\ UNCHANGED <<job, past>>
  <2>1. ProtTypeOK'
    BY <1>1, <1>2, <1>4, <1>7, <1>9, ProtTypes, TypeParts, TypesStay DEF ProtInv, past
  <2>4. UNCHANGED <<overlapped, lastDone, reach>>
    BY <1>7 DEF past
  <2>2. ~overlapped' => ~overlapped
    BY <2>4, Zenon
  <2>3. Serial'
    BY <1>1, <1>7, <2>2, <2>4, OutsideMove DEF Outside, Places, InStart, InStop
  <2> QED BY <1>5, <2>1, <2>3 DEF ProtInv
<1> QED BY <1>1, <1>6, <1>7

LEMMA DashKeeps ==
  ASSUME ProtInv, NEW d \in Dashes, Dash(d)
  PROVE  ProtInv'
<1> d \in Doers
  BY DEF Doers
<1>1. /\ job[d].at = "idle" /\ calls < MaxCalls /\ calls' = calls + 1
      /\ UNCHANGED <<process, proc, pac, active, watching, health, restarts, known, rules, saved,
                     gone, moves, faults, missed, survivors, unblocked>>
      /\ \/ Enter(d, "dash on", "setup")
         \/ \E script \in {"dash off", "dash restart"} : Enter(d, script, "disable")
  BY DEF Dash, DashOn, DashOff, DashRestart, At, service, dog, bounds, slips
<1>2. calls' \in 0 .. MaxCalls
  BY <1>1, CallsStay DEF ProtInv
<1>3. ASSUME NEW script \in {"dash off", "dash restart"}, Enter(d, script, "disable")
      PROVE  ProtInv'
  <2>1. /\ job' \in [Doers -> [script : Scripts, at : Places]]
        /\ \A e \in Doers : e # d => job'[e] = job[e]
        /\ overlapped' \in BOOLEAN
        /\ lastDone' \in Doings /\ reach' \subseteq Interfaces
    BY <1>3, Enters DEF ProtInv, Places, InStop, Scripts
  <2>2. ProtTypeOK'
    BY <1>1, <1>2, <2>1, ProtTypes, TypeParts, TypesStay DEF ProtInv
  <2>3. Serial'
    BY <1>1, <1>3, EnterKeeps DEF Outside, Places, InStart, InStop, Scripts
  <2>4. BlockedWhenFailed'
    BY <1>1, <2>1, StaysBlocked DEF ProtInv
  <2> QED BY <2>2, <2>3, <2>4 DEF ProtInv
<1>4. CASE Enter(d, "dash on", "setup")
  <2>1. /\ job' \in [Doers -> [script : Scripts, at : Places]]
        /\ job'[d].at = "setup" /\ \A e \in Doers : e # d => job'[e] = job[e]
        /\ overlapped' \in BOOLEAN /\ (~overlapped' => ~overlapped)
        /\ lastDone' \in Doings /\ reach' \subseteq Interfaces
        /\ (~overlapped' => reach' = reach /\ lastDone' = lastDone)
    BY <1>4, Enters DEF ProtInv, Places, Scripts
  <2>2. ProtTypeOK'
    BY <1>1, <1>2, <2>1, ProtTypes, TypeParts, TypesStay DEF ProtInv
  <2>3. Serial'
    BY <1>1, <2>1, OutsideMove DEF Outside, Places, InStart, InStop
  <2>4. BlockedWhenFailed'
    BY <1>1, <2>1, StaysBlocked DEF ProtInv
  <2> QED BY <2>2, <2>3, <2>4 DEF ProtInv
<1> QED BY <1>1, <1>3, <1>4
(***************************************************************************)
(* The watchdog's monitor.                                                 *)
(***************************************************************************)
LEMMA MonitorStays ==
  ASSUME ProtInv, NEW w \in Monitors, job[w].at \in {"asleep", "recover", "block", "network"},
         NEW place \in {"asleep", "recover", "block", "network", "ended"}, Go(w, place)
  PROVE  /\ job' \in [Doers -> [script : Scripts, at : Places]]
         /\ job'[w].at = place /\ \A e \in Doers : e # w => job'[e] = job[e]
         /\ w \in Doers /\ job[w].at \in Outside /\ job'[w].at \in Outside
<1>1. w \in Doers
  BY DEF Doers
<1>2. place \in Outside /\ job[w].at \in Outside
  BY DEF Outside, Places, InStart, InStop
<1> QED BY <1>1, <1>2, Goes DEF ProtInv, Outside

LEMMA WatchPollKeeps ==
  ASSUME ProtInv, NEW w \in Monitors, WatchPoll(w)
  PROVE  ProtInv'
<1>1. /\ job[w].at = "asleep" /\ Go(w, "network")
      /\ UNCHANGED <<process, proc, pac, active, watching, known, rules, gone, calls, moves,
                     overlapped, lastDone, reach, faults, survivors, unblocked>>
      /\ missed' = {}
      /\ \/ UNCHANGED <<health, restarts, saved>>
         \/ health' = "active" /\ restarts' = 0 /\ saved' = TRUE
  BY DEF WatchPoll, At, service, bounds, past, slips
<1>2. /\ job' \in [Doers -> [script : Scripts, at : Places]]
      /\ job'[w].at = "network" /\ \A e \in Doers : e # w => job'[e] = job[e]
      /\ w \in Doers /\ job[w].at \in Outside /\ job'[w].at \in Outside
  BY <1>1, MonitorStays
<1>3. /\ health' \in {"stopped", "starting", "active", "degraded", "failed"}
      /\ restarts' \in 0 .. MaxRestarts /\ saved' \in BOOLEAN
  BY <1>1, ProtBounds DEF ProtInv, ProtTypeOK
<1>4. ProtTypeOK'
  BY <1>1, <1>2, <1>3, ProtTypes, TypeParts, TypesStay DEF ProtInv
<1>5. ~overlapped' => ~overlapped
  BY <1>1, Zenon
<1>6. Serial'
  BY <1>1, <1>2, <1>5, OutsideMove
<1>7. BlockedWhenFailed'
  BY <1>1, <1>2, StaysBlocked DEF ProtInv
<1> QED BY <1>4, <1>6, <1>7 DEF ProtInv

(***************************************************************************)
(* The steps in which the monitor only goes on.                            *)
(***************************************************************************)
LEMMA PassesKeeps ==
  ASSUME ProtInv, NEW w \in Monitors, job[w].at \in {"asleep", "recover", "network"},
         NEW place \in {"asleep", "recover", "network", "ended"}, Go(w, place),
         known' \subseteq Interfaces, missed' \subseteq Interfaces,
         faults' \in 0 .. MaxFaults,
         UNCHANGED <<process, proc, pac, active, watching, health, restarts, rules, saved, gone,
                     calls, moves, overlapped, lastDone, reach, survivors, unblocked>>
  PROVE  ProtInv'
<1>1. /\ job' \in [Doers -> [script : Scripts, at : Places]]
      /\ job'[w].at = place /\ \A e \in Doers : e # w => job'[e] = job[e]
      /\ w \in Doers /\ job[w].at \in Outside /\ job'[w].at \in Outside
  BY MonitorStays
<1>2. ProtTypeOK'
  BY <1>1, ProtTypes, TypeParts, TypesStay DEF ProtInv
<1>3. ~overlapped' => ~overlapped
  BY Zenon
<1>4. Serial'
  BY <1>1, <1>3, OutsideMove
<1>5. BlockedWhenFailed'
  BY <1>1, StaysBlocked DEF ProtInv
<1> QED BY <1>2, <1>4, <1>5 DEF ProtInv

LEMMA MonitorPasses ==
  ASSUME ProtInv, NEW w \in Monitors,
         WatchPollFails(w) \/ PollEnds(w) \/ BackOff(w) \/ Network(w)
  PROVE  ProtInv'
<1>1. /\ known \subseteq Interfaces /\ active \subseteq Interfaces
      /\ missed \subseteq Interfaces /\ faults \in 0 .. MaxFaults
  BY DEF ProtInv, ProtTypeOK
<1>2. CASE WatchPollFails(w)
  <2>1. /\ job[w].at = "asleep" /\ Go(w, "recover") /\ missed' = {}
        /\ UNCHANGED <<process, proc, pac, active, watching, health, restarts, known, rules,
                       saved, gone, calls, moves, overlapped, lastDone, reach, faults,
                       survivors, unblocked>>
    BY <1>2 DEF WatchPollFails, At, service, dog, bounds, past
  <2> QED BY <1>1, <2>1, PassesKeeps
<1>3. CASE PollEnds(w)
  <2>1. /\ job[w].at = "asleep" /\ Go(w, "ended") /\ missed' = {}
        /\ UNCHANGED <<process, proc, pac, active, watching, health, restarts, known, rules,
                       saved, gone, calls, moves, overlapped, lastDone, reach, faults,
                       survivors, unblocked>>
    BY <1>3 DEF PollEnds, At, service, dog, bounds, past
  <2> QED BY <1>1, <2>1, PassesKeeps
<1>4. CASE BackOff(w)
  <2>1. /\ job[w].at = "recover" /\ Go(w, "network")
        /\ UNCHANGED <<process, proc, pac, active, watching, health, restarts, known, rules,
                       saved, gone, calls, moves, overlapped, lastDone, reach, faults, missed,
                       survivors, unblocked>>
    BY <1>4 DEF BackOff, At, service, dog, bounds, past, slips
  <2> QED BY <1>1, <2>1, PassesKeeps
<1>5. CASE Network(w)
  <2>1. /\ job[w].at = "network" /\ Go(w, "asleep")
        /\ UNCHANGED <<process, proc, pac, active, watching, health, restarts, rules, saved,
                       gone, calls, moves, overlapped, lastDone, reach, survivors, unblocked>>
    BY <1>5 DEF Network, At, service, past
  <2>2. PICK L \in Listings :
          known' = L /\ missed' = active \ L /\ FaultUnless(L = ListedNow)
    BY <1>5 DEF Network
  <2>3. known' \subseteq Interfaces /\ missed' \subseteq Interfaces
    BY <1>1, <2>2, ListedAreKnown DEF ProtInv
  <2>4. faults' \in 0 .. MaxFaults
    BY <2>2, FaultsStay DEF ProtInv, FaultUnless
  <2> QED BY <2>1, <2>3, <2>4, PassesKeeps
<1> QED BY <1>2, <1>3, <1>4, <1>5

LEMMA GiveUpKeeps ==
  ASSUME ProtInv, NEW w \in Monitors, GiveUp(w)
  PROVE  ProtInv'
<1>1. /\ job[w].at = "recover"
      /\ \/ health = "failed" /\ Go(w, "network") /\ UNCHANGED <<health, saved, unblocked>>
         \/ /\ health' = "failed" /\ saved' = FALSE /\ unblocked' = FALSE
            /\ \/ FailClosed /\ Go(w, "block")
               \/ ~FailClosed /\ Go(w, "network")
      /\ UNCHANGED <<process, proc, pac, active, watching, restarts, known, rules, gone, calls,
                     moves, overlapped, lastDone, reach, faults, missed, survivors>>
  BY DEF GiveUp, At, service, bounds, past
<1>2. PICK place \in {"block", "network"} :
        /\ Go(w, place)
        /\ place = "network" => ~FailClosed \/ (health = "failed" /\ UNCHANGED unblocked)
        /\ health' \in {health, "failed"} /\ saved' \in {saved, FALSE}
        /\ unblocked' \in {unblocked, FALSE}
  BY <1>1
<1>3. /\ job' \in [Doers -> [script : Scripts, at : Places]]
      /\ job'[w].at = place /\ \A e \in Doers : e # w => job'[e] = job[e]
      /\ w \in Doers /\ job[w].at \in Outside /\ job'[w].at \in Outside
  BY <1>1, <1>2, MonitorStays
<1>4. /\ health' \in {"stopped", "starting", "active", "degraded", "failed"}
      /\ saved' \in BOOLEAN /\ unblocked' \in BOOLEAN
  BY <1>2 DEF ProtInv, ProtTypeOK
<1>5. ProtTypeOK'
  BY <1>1, <1>3, <1>4, ProtTypes, TypeParts, TypesStay DEF ProtInv
<1>6. ~overlapped' => ~overlapped
  BY <1>1, Zenon
<1>7. Serial'
  BY <1>1, <1>3, <1>6, OutsideMove
<1>8. BlockedWhenFailed'
  <2>1. CASE place = "block"
    BY <1>3, <2>1 DEF BlockedWhenFailed, At
  <2>2. CASE place = "network" /\ ~FailClosed
    BY <2>2 DEF BlockedWhenFailed
  <2>3. CASE place = "network" /\ health = "failed" /\ UNCHANGED unblocked
    BY <1>1, <1>3, <2>3, StaysBlocked DEF ProtInv
  <2> QED BY <1>2, <2>1, <2>2, <2>3
<1> QED BY <1>5, <1>7, <1>8 DEF ProtInv

LEMMA BlockKeeps ==
  ASSUME ProtInv, NEW w \in Monitors, Block(w)
  PROVE  ProtInv'
<1>1. PICK place \in {"network", "asleep"} :
        /\ job[w].at = "block" /\ Go(w, place)
        /\ \/ rules' = TRUE /\ unblocked' = FALSE /\ UNCHANGED faults
           \/ rules' = rules /\ unblocked' = TRUE /\ Fault
        /\ UNCHANGED <<process, proc, pac, active, watching, health, restarts, known, saved, gone,
                       calls, moves, overlapped, lastDone, reach, missed, survivors>>
  <2>1. CASE rules' = TRUE /\ unblocked' = FALSE /\ Go(w, "network") /\ UNCHANGED faults
    BY <2>1 DEF Block, At, service, past
  <2>2. CASE unblocked' = TRUE /\ UNCHANGED rules /\ Fault /\ Go(w, "network")
    BY <2>2 DEF Block, At, service, past
  <2>3. CASE unblocked' = TRUE /\ UNCHANGED rules /\ Fault /\ Go(w, "asleep")
    BY <2>3 DEF Block, At, service, past
  <2> QED BY <2>1, <2>2, <2>3 DEF Block
<1>2. /\ job' \in [Doers -> [script : Scripts, at : Places]]
      /\ job'[w].at = place /\ \A e \in Doers : e # w => job'[e] = job[e]
      /\ w \in Doers /\ job[w].at \in Outside /\ job'[w].at \in Outside
  BY <1>1, MonitorStays
<1>7. rules' \in BOOLEAN /\ unblocked' \in BOOLEAN
  BY <1>1 DEF ProtInv, ProtTypeOK
<1>8. faults' \in 0 .. MaxFaults
  BY <1>1, FaultsStay DEF ProtInv
<1>3. ProtTypeOK'
  BY <1>1, <1>2, <1>7, <1>8, ProtTypes, TypeParts, TypesStay DEF ProtInv
<1>4. ~overlapped' => ~overlapped
  BY <1>1, Zenon
<1>5. Serial'
  BY <1>1, <1>2, <1>4, OutsideMove
<1>6. BlockedWhenFailed'
  BY <1>1 DEF BlockedWhenFailed
<1> QED BY <1>3, <1>5, <1>6 DEF ProtInv

LEMMA AttemptKeeps ==
  ASSUME ProtInv, NEW w \in Monitors, Attempt(w)
  PROVE  ProtInv'
<1> w \in Doers
  BY DEF Doers
<1>1. /\ job[w].at = "recover" /\ ~OutOfRestarts /\ restarts' = restarts + 1
      /\ health' = "degraded"
      /\ \E place \in {"clear", "disable"} :
           Enter(w, "watch", place) /\ (place = "clear" => ~Running)
      /\ UNCHANGED <<process, proc, pac, active, watching, known, rules, saved, gone, calls,
                     moves, faults, missed, survivors, unblocked>>
  <2>1. Enter(w, "watch", IF Running THEN "disable" ELSE "clear")
    BY DEF Attempt
  <2>2. \E place \in {"clear", "disable"} :
          Enter(w, "watch", place) /\ (place = "clear" => ~Running)
    <3>1. CASE Running
      BY <2>1, <3>1
    <3>2. CASE ~Running
      BY <2>1, <3>2
    <3> QED BY <3>1, <3>2
  <2> QED BY <2>2 DEF Attempt, At, service, bounds, slips
<1>2. PICK place \in {"clear", "disable"} :
        Enter(w, "watch", place) /\ (place = "clear" => ~Running)
  BY <1>1
<1>3. job' \in [Doers -> [script : Scripts, at : Places]] /\ overlapped' \in BOOLEAN
        /\ lastDone' \in Doings /\ reach' \subseteq Interfaces
  BY <1>2, Enters DEF ProtInv, Places, InStart, InStop, Scripts
<1>4. restarts' \in 0 .. MaxRestarts
  <2>1. restarts \in 0 .. MaxRestarts
    BY DEF ProtInv, ProtTypeOK
  <2> QED BY <1>1, <2>1, ProtBounds DEF OutOfRestarts
<1>5. ProtTypeOK'
  BY <1>1, <1>3, <1>4, ProtTypes, TypeParts, TypesStay DEF ProtInv
<1>6. Serial'
  BY <1>1, <1>2, EnterKeeps DEF Outside, Places, InStart, InStop, Scripts
<1>7. BlockedWhenFailed'
  BY <1>1 DEF BlockedWhenFailed
<1> QED BY <1>5, <1>6, <1>7 DEF ProtInv

LEMMA ReapplyKeeps ==
  ASSUME ProtInv, NEW w \in Monitors, Reapply(w)
  PROVE  ProtInv'
<1>1. /\ job[w].at = "network" /\ Go(w, "asleep")
      /\ UNCHANGED <<process, proc, active, watching, health, restarts, rules, saved, gone,
                     calls, moves, survivors, unblocked>>
  BY DEF Reapply, At
<1>8. PICK L \in Listings, S \in Takes :
        /\ known' = L /\ pac' = pac \cup S /\ missed' = active \ S
        /\ Remember(lastDone, S) /\ FaultUnless(L = ListedNow /\ S = ListedNow)
  BY DEF Reapply
<1>9. /\ L \subseteq Interfaces /\ S \subseteq Interfaces
      /\ faults' \in 0 .. MaxFaults /\ lastDone \in Doings
  BY <1>8, ListedAreKnown, FaultsStay DEF ProtInv, ProtTypeOK, Doings, FaultUnless
<1>10. /\ lastDone' \in Doings /\ reach' \subseteq Interfaces
       /\ ~overlapped' => lastDone' = lastDone /\ reach' = S
  BY <1>8, <1>9, Remembers DEF ProtInv
<1>2. overlapped' = (overlapped \/ ~Running \/ \E d \in Doers : Busy(d))
  BY DEF Reapply
<1>3. /\ overlapped' \in BOOLEAN
      /\ ~overlapped' => ~overlapped /\ Running /\ \A d \in Doers : ~Busy(d)
  BY <1>2, Zenon
<1>4. /\ job' \in [Doers -> [script : Scripts, at : Places]]
      /\ job'[w].at = "asleep" /\ \A e \in Doers : e # w => job'[e] = job[e]
      /\ w \in Doers /\ job[w].at \in Outside /\ job'[w].at \in Outside
  BY <1>1, MonitorStays
<1>5. ProtTypeOK'
  BY <1>1, <1>3, <1>4, <1>8, <1>9, <1>10, ProtTypes, TypeParts, TypesStay DEF ProtInv
<1>6. Serial'
  <2> SUFFICES ASSUME ~overlapped' PROVE Serial'
    BY DEF Serial
  <2>1. ~overlapped /\ Running /\ \A d \in Doers : ~Busy(d)
    BY <1>3
  <2>2. \A d \in Doers : job[d].at \notin InStart \cup InStop
    BY <2>1 DEF Busy
  <2>3. \A d \in Doers : job'[d].at \notin InStart \cup InStop
    BY <1>4, <2>2 DEF Outside
  <2>4. \A d \in Doers :
          /\ ~Busy(d)'
          /\ job'[d].at \notin {"clear", "spawn", "forget", "terminate", "wait", "enable"}
    BY <2>3 DEF Busy, InStart, InStop
  <2>5. \A p \in Processes : Alive(p)' => p = process' \/ p \in survivors'
    BY <1>1, <2>1 DEF ProtInv, Serial, Alive
  <2>6. lastDone # "stop"
    BY <2>1, <2>2 DEF ProtInv, Serial, Running, InStart
  <2> QED BY <1>1, <1>8, <1>10, <2>4, <2>5, <2>6 DEF Serial
<1>7. BlockedWhenFailed'
  BY <1>1, <1>4, StaysBlocked DEF ProtInv
<1> QED BY <1>5, <1>6, <1>7 DEF ProtInv

(***************************************************************************)
(* The processes and the network.                                          *)
(***************************************************************************)
LEMMA BootKeeps ==
  ASSUME ProtInv, NEW p \in Processes, Boot(p)
  PROVE  ProtInv'
<1>1. /\ proc[p] = "booting"
      /\ proc' = [proc EXCEPT ![p] = IF Listening THEN "dead" ELSE "listening"]
      /\ UNCHANGED <<process, pac, active, job, watching, health, restarts, known, rules, saved,
                     gone, calls, moves, overlapped, lastDone, reach, faults, missed, survivors,
                     unblocked>>
  BY DEF Boot, dog, bounds, past, slips
<1>2. /\ proc' \in [Processes -> {"unborn", "booting", "listening", "dead"}]
      /\ \A q, r \in Processes : proc'[q] = "listening" /\ proc'[r] = "listening" => q = r
      /\ \A q \in Processes : Alive(q)' => Alive(q)
  BY <1>1, ProtTypes DEF ProtInv, Alive, Listening
<1>3. ProtTypeOK'
  BY <1>1, <1>2, ProtTypes, TypeParts, TypesStay DEF ProtInv
<1>4. ~overlapped' => ~overlapped
  BY <1>1, Zenon
<1>5. Serial'
  BY <1>1, <1>2, <1>4, OutsideMoves
<1>6. BlockedWhenFailed'
  BY <1>1, NobodyMoves DEF ProtInv
<1> QED BY <1>3, <1>5, <1>6 DEF ProtInv

LEMMA DieKeeps ==
  ASSUME ProtInv, NEW p \in Processes, Die(p)
  PROVE  ProtInv'
<1>1. /\ proc' = Killed(p)
      /\ UNCHANGED <<process, pac, active, job, watching, health, restarts, known, rules, saved,
                     gone, calls, moves, overlapped, lastDone, reach, faults, missed, survivors,
                     unblocked>>
  BY DEF Die, dog, bounds, past, slips
<1>2. /\ proc' \in [Processes -> {"unborn", "booting", "listening", "dead"}]
      /\ \A q, r \in Processes : proc'[q] = "listening" /\ proc'[r] = "listening" => q = r
      /\ \A q \in Processes : Alive(q)' => Alive(q)
  BY <1>1, KilledIsDead DEF ProtInv
<1>3. ProtTypeOK'
  BY <1>1, <1>2, ProtTypes, TypeParts, TypesStay DEF ProtInv
<1>4. ~overlapped' => ~overlapped
  BY <1>1, Zenon
<1>5. Serial'
  BY <1>1, <1>2, <1>4, OutsideMoves
<1>6. BlockedWhenFailed'
  BY <1>1, NobodyMoves DEF ProtInv
<1> QED BY <1>3, <1>5, <1>6 DEF ProtInv

LEMMA MoveKeeps ==
  ASSUME ProtInv, NEW i \in Interfaces, Move(i)
  PROVE  ProtInv'
<1>1. /\ moves < MaxMoves /\ moves' = moves + 1
      /\ active' \in {active \ {i}, active \cup {i}}
      /\ UNCHANGED <<process, proc, pac, job, watching, health, restarts, known, rules, saved,
                     gone, calls, overlapped, lastDone, reach, faults, missed, survivors,
                     unblocked>>
  BY DEF Move, service, dog, past, slips
<1>2. moves' \in 0 .. MaxMoves /\ active' \subseteq Interfaces
  <2>1. moves \in 0 .. MaxMoves /\ active \subseteq Interfaces
    BY DEF ProtInv, ProtTypeOK
  <2>2. moves' \in 0 .. MaxMoves
    BY <1>1, <2>1, ProtBounds
  <2> QED BY <1>1, <2>1, <2>2
<1>3. ProtTypeOK'
  BY <1>1, <1>2, ProtTypes, TypeParts, TypesStay DEF ProtInv
<1>4. ~overlapped' => ~overlapped
  BY <1>1, Zenon
<1>5. \A p \in Processes : Alive(p)' => Alive(p)
  BY <1>1 DEF Alive
<1>6. Serial'
  BY <1>1, <1>4, <1>5, OutsideMoves
<1>7. BlockedWhenFailed'
  BY <1>1, NobodyMoves DEF ProtInv
<1> QED BY <1>3, <1>6, <1>7 DEF ProtInv

(***************************************************************************)
(* Every step keeps the invariant, and the invariant says what the runs    *)
(* check.                                                                  *)
(***************************************************************************)
LEMMA ProtBegins == ProtInit => ProtInv
<1> SUFFICES ASSUME ProtInit PROVE ProtInv
  OBVIOUS
<1>1. job \in [Doers -> [script : Scripts, at : Places]]
  BY DEF ProtInit, Unborn, IdleJob, Scripts, Places
<1>2. /\ process \in 0 .. MaxProcesses /\ restarts \in 0 .. MaxRestarts
      /\ calls \in 0 .. MaxCalls /\ moves \in 0 .. MaxMoves /\ faults \in 0 .. MaxFaults
      /\ active \subseteq Interfaces /\ reach \subseteq Interfaces
  BY ProtectionAssumption DEF ProtInit
<1>3. ProtTypeOK
  BY <1>1, <1>2 DEF ProtInit, ProtTypeOK, Scripts, Places
<1>4. \A d \in Doers : job[d].at \in {"unborn", "idle"}
  BY DEF ProtInit, Unborn, IdleJob
<1>5. Serial
  BY <1>4 DEF ProtInit, Serial, NothingRuns, Alive, Busy, InStart, InStop
<1>6. BlockedWhenFailed
  BY DEF ProtInit, BlockedWhenFailed
<1> QED BY <1>3, <1>5, <1>6 DEF ProtInv

LEMMA ProtGoesOn == ProtInv /\ [ProtNext]_protVars => ProtInv'
<1> SUFFICES ASSUME ProtInv, [ProtNext]_protVars PROVE ProtInv'
  OBVIOUS
<1>1. CASE \E m \in Menus : Toggle(m) \/ Quit(m)
  BY <1>1, ToggleKeeps, QuitKeeps
<1>2. CASE \E d \in Dashes : Dash(d)
  BY <1>2, DashKeeps
<1>3. ASSUME NEW d \in Doers, Proceed(d) PROVE ProtInv'
  BY <1>3, ClearKeeps, SpawnKeeps, SpawnRaisesKeeps, WaitSeesKeeps, WaitRaisesKeeps,
     WaitTimesOutKeeps, EnableKeeps, DisableKeeps, DisableRaisesKeeps, TerminateKeeps,
     ForgetKeeps, LoadedKeeps, WarmedKeeps, SetUpKeeps DEF Proceed
<1>4. ASSUME NEW w \in Monitors, Monitor(w) PROVE ProtInv'
  BY <1>4, WatchPollKeeps, MonitorPasses, GiveUpKeeps, BlockKeeps, AttemptKeeps, ReapplyKeeps
  DEF Monitor
<1>5. CASE \E p \in Processes : Boot(p) \/ Die(p)
  BY <1>5, BootKeeps, DieKeeps
<1>6. CASE \E i \in Interfaces : Move(i)
  BY <1>6, MoveKeeps
<1>7. CASE UNCHANGED protVars
  <2>1. UNCHANGED <<process, proc, pac, active, job, watching, health, restarts, known, rules,
                    saved, gone, calls, moves, overlapped, lastDone, reach, faults, missed,
                    survivors, unblocked>>
    BY <1>7 DEF protVars, service, dog, bounds, past, slips
  <2>2. ProtTypeOK'
    BY <2>1, ProtTypes, TypeParts, TypesStay DEF ProtInv
  <2>3. ~overlapped' => ~overlapped
    BY <2>1, Zenon
  <2>4. \A p \in Processes : Alive(p)' => Alive(p)
    BY <2>1 DEF Alive
  <2>5. Serial'
    BY <2>1, <2>3, <2>4, OutsideMoves
  <2>6. BlockedWhenFailed'
    BY <2>1, NobodyMoves DEF ProtInv
  <2> QED BY <2>2, <2>5, <2>6 DEF ProtInv
<1> QED BY <1>1, <1>2, <1>3, <1>4, <1>5, <1>6, <1>7 DEF ProtNext

LEMMA SerialAgrees ==
  ASSUME ProtInv
  PROVE  SerialCallsAgree
<1> SUFFICES ASSUME ~overlapped, Quiet PROVE
      /\ \A p \in Processes : Alive(p) => p = process \/ p \in survivors
      /\ lastDone = "start" => reach \subseteq pac
      /\ lastDone = "stop" => process = 0 /\ reach \cap pac = {}
  BY DEF SerialCallsAgree
<1>1. \A d \in Doers : job[d].at \notin {"terminate", "forget", "wait", "enable"}
  BY DEF Quiet, Busy, InStart, InStop
<1> QED BY <1>1 DEF ProtInv, Serial

(***************************************************************************)
(* For any threads and any bounds, types hold; a call of start() or stop() *)
(* that overlapped no other and did not raise leaves no process but the    *)
(* one it should and those that outlived a signal, and the PAC as it set   *)
(* it on the interfaces that took it; and with fail-closed mode, while the *)
(* watchdog's state is failed, traffic is blocked unless the one attempt   *)
(* to block it is being made or has failed.                                *)
(***************************************************************************)
THEOREM ProtectionSound == ProtSpec => []ProtectionIsSound
<1>1. ProtInv => ProtectionIsSound
  BY SerialAgrees DEF ProtInv, ProtectionIsSound
<1> QED BY <1>1, ProtBegins, ProtGoesOn, PTL DEF ProtSpec

-----------------------------------------------------------------------------
(***************************************************************************)
(* The rules of a policy engine (RuleEngine).  First, what Order yields    *)
(* for a strict total order on a finite set: every member once, in order,  *)
(* and no other enumeration does.  A member's rank is the number of those  *)
(* before it.                                                              *)
(***************************************************************************)
TotalOn(R, S) ==
  /\ \A i \in S : <<i, i>> \notin R
  /\ \A i, j, k \in S : <<i, j>> \in R /\ <<j, k>> \in R => <<i, k>> \in R
  /\ \A i, j \in S : i = j \/ <<i, j>> \in R \/ <<j, i>> \in R

BeforeIn(S, R, i) == {j \in S : <<j, i>> \in R}
RankIn(S, R, i)   == Cardinality(BeforeIn(S, R, i))

IsOrder(B, S, R) ==
  /\ B \in [1 .. Cardinality(S) -> S]
  /\ \A i \in S : \E k \in 1 .. Cardinality(S) : B[k] = i
  /\ \A k, l \in 1 .. Cardinality(S) : k < l => <<B[k], B[l]>> \in R

LEMMA RankBounds ==
  ASSUME NEW S, IsFiniteSet(S), NEW R, TotalOn(R, S), NEW i \in S
  PROVE  /\ RankIn(S, R, i) \in 0 .. Cardinality(S) - 1
         /\ IsFiniteSet(BeforeIn(S, R, i))
<1>1. BeforeIn(S, R, i) \subseteq S \ {i}
  BY DEF BeforeIn, TotalOn
<1>2. IsFiniteSet(S \ {i}) /\ Cardinality(S \ {i}) = Cardinality(S) - 1
  BY FS_RemoveElement
<1>3. /\ IsFiniteSet(BeforeIn(S, R, i))
      /\ Cardinality(BeforeIn(S, R, i)) <= Cardinality(S \ {i})
  BY <1>1, <1>2, FS_Subset
<1>4. Cardinality(BeforeIn(S, R, i)) \in Nat /\ Cardinality(S) \in Nat
  BY <1>3, FS_CardinalityType
<1> QED
  BY <1>2, <1>3, <1>4 DEF RankIn

LEMMA RankGrows ==
  ASSUME NEW S, IsFiniteSet(S), NEW R, TotalOn(R, S), NEW i \in S, NEW j \in S, <<i, j>> \in R
  PROVE  RankIn(S, R, i) < RankIn(S, R, j)
<1>1. BeforeIn(S, R, i) \subseteq BeforeIn(S, R, j)
  BY DEF BeforeIn, TotalOn
<1>2. i \in BeforeIn(S, R, j) /\ i \notin BeforeIn(S, R, i)
  BY DEF BeforeIn, TotalOn
<1>3. IsFiniteSet(BeforeIn(S, R, j))
  BY RankBounds
<1>4. /\ Cardinality(BeforeIn(S, R, i)) <= Cardinality(BeforeIn(S, R, j))
      /\ Cardinality(BeforeIn(S, R, i)) # Cardinality(BeforeIn(S, R, j))
  BY <1>1, <1>2, <1>3, FS_Subset
<1>5. Cardinality(BeforeIn(S, R, i)) \in Nat /\ Cardinality(BeforeIn(S, R, j)) \in Nat
  BY RankBounds, FS_CardinalityType
<1> QED
  BY <1>4, <1>5 DEF RankIn

LEMMA RankInjective ==
  ASSUME NEW S, IsFiniteSet(S), NEW R, TotalOn(R, S), NEW i \in S, NEW j \in S,
         RankIn(S, R, i) = RankIn(S, R, j)
  PROVE  i = j
<1>1. RankIn(S, R, i) \in Int /\ RankIn(S, R, j) \in Int
  BY RankBounds
<1>2. <<i, j>> \notin R /\ <<j, i>> \notin R
  BY <1>1, RankGrows
<1> QED
  BY <1>2 DEF TotalOn

LEMMA RankOnto ==
  ASSUME NEW S, IsFiniteSet(S), NEW R, TotalOn(R, S), NEW m \in 0 .. Cardinality(S) - 1
  PROVE  \E i \in S : RankIn(S, R, i) = m
<1> DEFINE n == Cardinality(S)
           f == [i \in S |-> RankIn(S, R, i)]
<1>1. n \in Nat
  BY FS_CardinalityType
<1>2. IsFiniteSet(0 .. n - 1) /\ Cardinality(0 .. n - 1) = n
  BY <1>1, FS_Interval
<1>3. f \in Injection(S, 0 .. n - 1)
  BY RankBounds, RankInjective DEF Injection, IsInjective
<1>4. f \in Surjection(S, 0 .. n - 1)
  BY <1>2, <1>3, FS_Injection
<1> QED
  BY <1>4 DEF Surjection

LEMMA OrderIs ==
  ASSUME NEW S, IsFiniteSet(S), NEW R, TotalOn(R, S)
  PROVE  /\ IsOrder(Order(S, R), S, R)
         /\ \A k \in 1 .. Cardinality(S) : RankIn(S, R, Order(S, R)[k]) = k - 1
<1> DEFINE n == Cardinality(S)
           B == Order(S, R)
<1>1. n \in Nat
  BY FS_CardinalityType
<1>2. ASSUME NEW k \in 1 .. n
      PROVE  B[k] \in S /\ RankIn(S, R, B[k]) = k - 1
  <2>1. \E i \in S : RankIn(S, R, i) = k - 1
    BY <1>1, RankOnto
  <2>2. B[k] = CHOOSE i \in S : RankIn(S, R, i) = k - 1
    BY DEF Order, RankIn, BeforeIn
  <2> QED
    BY <2>1, <2>2
<1>3. B \in [1 .. n -> S]
  <2>1. \A k \in 1 .. n : Order(S, R)[k] \in S
    BY <1>2
  <2> QED
    BY <2>1 DEF Order
<1>4. ASSUME NEW i \in S
      PROVE  \E k \in 1 .. n : B[k] = i
  <2>1. RankIn(S, R, i) + 1 \in 1 .. n
    BY <1>1, RankBounds
  <2>2. RankIn(S, R, i) \in Int
    BY RankBounds
  <2>3. RankIn(S, R, B[RankIn(S, R, i) + 1]) = RankIn(S, R, i)
    BY <1>2, <2>1, <2>2
  <2> QED
    BY <1>2, <2>1, <2>3, RankInjective
<1>5. ASSUME NEW k \in 1 .. n, NEW l \in 1 .. n, k < l
      PROVE  <<B[k], B[l]>> \in R
  <2>1. /\ B[k] \in S /\ B[l] \in S
        /\ RankIn(S, R, B[k]) = k - 1 /\ RankIn(S, R, B[l]) = l - 1
    BY <1>2
  <2>2. B[k] # B[l]
    BY <1>5, <2>1
  <2>3. ~(RankIn(S, R, B[l]) < RankIn(S, R, B[k]))
    BY <1>5, <2>1
  <2>4. <<B[l], B[k]>> \notin R
    BY <2>1, <2>3, RankGrows
  <2> QED
    BY <2>1, <2>2, <2>4 DEF TotalOn
<1> QED
  BY <1>2, <1>3, <1>4, <1>5 DEF IsOrder

LEMMA OrderUnique ==
  ASSUME NEW S, IsFiniteSet(S), NEW R, TotalOn(R, S), NEW B, IsOrder(B, S, R)
  PROVE  B = Order(S, R)
<1> DEFINE n == Cardinality(S)
<1>1. n \in Nat
  BY FS_CardinalityType
<1>2. B \in [1 .. n -> S] /\ Order(S, R) \in [1 .. n -> S]
  BY OrderIs DEF IsOrder
<1>3. ASSUME NEW k \in 1 .. n
      PROVE  RankIn(S, R, B[k]) = k - 1
  <2> DEFINE T == BeforeIn(S, R, B[k])
             f == [l \in 1 .. k - 1 |-> B[l]]
  <2>1. ASSUME NEW l \in 1 .. k - 1
        PROVE  l \in 1 .. n /\ B[l] \in T
    <3>1. l \in 1 .. n /\ l < k
      BY <1>1
    <3> QED
      BY <1>2, <3>1 DEF IsOrder, BeforeIn
  <2>2. ASSUME NEW j \in T
        PROVE  \E l \in 1 .. k - 1 : B[l] = j
    <3>1. j \in S /\ <<j, B[k]>> \in R /\ B[k] \in S
      BY <1>2 DEF BeforeIn
    <3>2. PICK l \in 1 .. n : B[l] = j
      BY <3>1 DEF IsOrder
    <3>3. ~(k < l) /\ l # k
      BY <3>1, <3>2 DEF IsOrder, TotalOn
    <3>4. l \in 1 .. k - 1
      BY <1>1, <3>3
    <3> QED
      BY <3>2, <3>4
  <2>3. ASSUME NEW l \in 1 .. k - 1, NEW m \in 1 .. k - 1, B[l] = B[m]
        PROVE  l = m
    <3>1. l \in 1 .. n /\ m \in 1 .. n /\ B[l] \in S
      BY <1>2, <2>1
    <3>2. ~(l < m) /\ ~(m < l)
      BY <2>3, <3>1 DEF IsOrder, TotalOn
    <3> QED
      BY <3>2
  <2>4. f \in Bijection(1 .. k - 1, T)
    <3>1. f \in [1 .. k - 1 -> T]
      BY <2>1
    <3>2. f \in Injection(1 .. k - 1, T)
      BY <2>3, <3>1 DEF Injection, IsInjective
    <3>3. f \in Surjection(1 .. k - 1, T)
      BY <2>2, <3>1 DEF Surjection
    <3> QED
      BY <3>2, <3>3 DEF Bijection
  <2>5. IsFiniteSet(1 .. k - 1) /\ Cardinality(1 .. k - 1) = k - 1
    <3>1. k \in Int /\ k >= 1 /\ 1 \in Int /\ k - 1 \in Int
      BY <1>1
    <3>2. /\ IsFiniteSet(1 .. k - 1)
          /\ Cardinality(1 .. k - 1) = IF 1 > k - 1 THEN 0 ELSE k - 1 - 1 + 1
      BY <3>1, FS_Interval
    <3> QED
      BY <3>1, <3>2
  <2>6. Cardinality(T) = k - 1
    BY <2>4, <2>5, FS_Bijection DEF ExistsBijection
  <2> QED
    BY <2>6 DEF RankIn
<1>4. ASSUME NEW k \in 1 .. n
      PROVE  B[k] = Order(S, R)[k]
  <2>1. RankIn(S, R, B[k]) = k - 1 /\ RankIn(S, R, Order(S, R)[k]) = k - 1
    BY <1>3, OrderIs
  <2> QED
    BY <1>2, <2>1, RankInjective
<1> DEFINE C == Order(S, R)
<1>5. C \in [1 .. n -> S] /\ \A k \in 1 .. n : B[k] = C[k]
  BY <1>2, <1>4
<1> HIDE DEF C, n
<1>6. B = C
  <2>1. B = [k \in 1 .. n |-> B[k]] /\ C = [k \in 1 .. n |-> C[k]]
    BY <1>2, <1>5
  <2>2. [k \in 1 .. n |-> B[k]] = [k \in 1 .. n |-> C[k]]
    BY <1>5
  <2> QED
    BY <2>1, <2>2
<1> QED
  BY <1>6 DEF C

-----------------------------------------------------------------------------
(***************************************************************************)
(* The rules in order of priority: what Sorted yields, and that sorting    *)
(* what was sorted before a rule was appended, or removing a rule from     *)
(* what was sorted, comes to the same as sorting at last.                  *)
(***************************************************************************)
LEMMA AheadIs ==
  ASSUME NEW b \in Seq(RuleNames)
  PROVE  /\ \A i, j \in 1 .. Len(b) :
              <<i, j>> \in Ahead(b) <=>
                \/ Priority(b, i) > Priority(b, j)
                \/ Priority(b, i) = Priority(b, j) /\ i < j
         /\ \A i \in 1 .. Len(b) : Priority(b, i) \in Int
<1> SUFFICES ASSUME NEW i \in 1 .. Len(b), NEW j \in 1 .. Len(b)
             PROVE  /\ <<i, j>> \in Ahead(b) <=>
                         \/ Priority(b, i) > Priority(b, j)
                         \/ Priority(b, i) = Priority(b, j) /\ i < j
                    /\ Priority(b, i) \in Int
  OBVIOUS
<1> QED
  BY RuleAssumption DEF Ahead, Outranks, Equals, Priority

LEMMA AheadTotal ==
  ASSUME NEW b \in Seq(RuleNames), NEW S \in SUBSET (1 .. Len(b))
  PROVE  TotalOn(Ahead(b), S) /\ IsFiniteSet(S)
<1>1. \A i \in S : i \in 1 .. Len(b) /\ i \in Int /\ Priority(b, i) \in Int
  BY AheadIs
<1>2. \A i, j \in S :
        <<i, j>> \in Ahead(b) <=> \/ Priority(b, i) > Priority(b, j)
                                  \/ Priority(b, i) = Priority(b, j) /\ i < j
  BY <1>1, AheadIs
<1>3. TotalOn(Ahead(b), S)
  BY <1>1, <1>2 DEF TotalOn
<1>4. IsFiniteSet(1 .. Len(b))
  BY FS_Interval
<1> QED
  BY <1>3, <1>4, FS_Subset

LEMMA CountTo ==
  ASSUME NEW n \in Nat
  PROVE  IsFiniteSet(1 .. n) /\ Cardinality(1 .. n) = n
<1>1. /\ IsFiniteSet(1 .. n)
      /\ Cardinality(1 .. n) = IF 1 > n THEN 0 ELSE n - 1 + 1
  BY FS_Interval
<1> QED
  BY <1>1

\* p takes the rules b to s, which is in order of priority, equals as in b.
Sorts(b, p, s) ==
  /\ s \in Seq(RuleNames) /\ Len(s) = Len(b)
  /\ p \in [1 .. Len(b) -> 1 .. Len(b)]
  /\ \A i \in 1 .. Len(b) : \E k \in 1 .. Len(b) : p[k] = i
  /\ \A k, l \in 1 .. Len(b) : k < l => <<p[k], p[l]>> \in Ahead(b)
  /\ \A k \in 1 .. Len(b) : s[k] = b[p[k]]

LEMMA SortedIs ==
  ASSUME NEW b \in Seq(RuleNames)
  PROVE  Sorts(b, Order(1 .. Len(b), Ahead(b)), Sorted(b))
<1> DEFINE n == Len(b)
           p == Order(1 .. n, Ahead(b))
<1>1. Cardinality(1 .. n) = n /\ n \in Nat
  BY CountTo
<1>2. IsOrder(p, 1 .. n, Ahead(b))
  BY AheadTotal, OrderIs
<1>3. /\ p \in [1 .. n -> 1 .. n]
      /\ \A i \in 1 .. n : \E k \in 1 .. n : p[k] = i
      /\ \A k, l \in 1 .. n : k < l => <<p[k], p[l]>> \in Ahead(b)
  BY <1>1, <1>2 DEF IsOrder
<1>4. DOMAIN b = 1 .. n
  OBVIOUS
<1>5. Sorted(b) = [k \in 1 .. n |-> b[p[k]]]
  BY <1>1, <1>4 DEF Sorted, Arranged
<1>6. \A i \in 1 .. n : b[i] \in RuleNames
  OBVIOUS
<1> HIDE DEF n, p
<1>7. \A k \in 1 .. n : b[p[k]] \in RuleNames
  BY <1>3, <1>6
<1>8. /\ Sorted(b) \in Seq(RuleNames) /\ Len(Sorted(b)) = n
      /\ \A k \in 1 .. n : Sorted(b)[k] = b[p[k]]
  BY <1>1, <1>5, <1>7
<1> QED
  BY <1>3, <1>8 DEF Sorts, n, p

\* There is only one way.
LEMMA SortedUnique ==
  ASSUME NEW b \in Seq(RuleNames), NEW q, NEW s, Sorts(b, q, s)
  PROVE  s = Sorted(b)
<1>1. IsOrder(q, 1 .. Len(b), Ahead(b))
  BY CountTo DEF IsOrder, Sorts
<1>2. q = Order(1 .. Len(b), Ahead(b))
  BY <1>1, AheadTotal, OrderUnique
<1>3. Sorts(b, q, Sorted(b))
  BY <1>2, SortedIs
<1>4. /\ s \in Seq(RuleNames) /\ Sorted(b) \in Seq(RuleNames)
      /\ Len(s) = Len(Sorted(b)) /\ \A k \in 1 .. Len(s) : s[k] = Sorted(b)[k]
  BY <1>3 DEF Sorts
<1> QED
  BY <1>4, SeqEqual

LEMMA AppendSorts ==
  ASSUME NEW b \in Seq(RuleNames), NEW r \in RuleNames, NEW n, n = Len(b),
         NEW p, NEW s, Sorts(b, p, s),
         NEW c, c = Append(b, r), NEW d, d = Append(s, r),
         NEW q, NEW t, Sorts(d, q, t)
  PROVE  \E B : Sorts(c, B, t)
<1>1. /\ n \in Nat /\ s \in Seq(RuleNames) /\ Len(s) = n
      /\ p \in [1 .. n -> 1 .. n]
      /\ \A i \in 1 .. n : \E k \in 1 .. n : p[k] = i
      /\ \A k, l \in 1 .. n : k < l => <<p[k], p[l]>> \in Ahead(b)
      /\ \A k \in 1 .. n : s[k] = b[p[k]]
  <2>1. n \in Nat
    OBVIOUS
  <2> QED
    BY <2>1 DEF Sorts
<1>2. /\ c \in Seq(RuleNames) /\ Len(c) = n + 1 /\ c[n + 1] = r
      /\ \A i \in 1 .. n : c[i] = b[i]
  OBVIOUS
<1>3. /\ d \in Seq(RuleNames) /\ Len(d) = n + 1 /\ d[n + 1] = r
      /\ \A i \in 1 .. n : d[i] = s[i]
  BY <1>1
<1>4. /\ t \in Seq(RuleNames) /\ Len(t) = n + 1
      /\ q \in [1 .. n + 1 -> 1 .. n + 1]
      /\ \A i \in 1 .. n + 1 : \E k \in 1 .. n + 1 : q[k] = i
      /\ \A k, l \in 1 .. n + 1 : k < l => <<q[k], q[l]>> \in Ahead(d)
      /\ \A k \in 1 .. n + 1 : t[k] = d[q[k]]
  BY <1>3 DEF Sorts
<1>5. \A i \in 1 .. n + 1 : i \in 1 .. n \/ i = n + 1
  BY <1>1
<1>6. 1 .. n \subseteq 1 .. n + 1 /\ n + 1 \in 1 .. n + 1 /\ n + 1 \notin 1 .. n
  BY <1>1
<1> DEFINE B == [k \in 1 .. n + 1 |-> IF q[k] = n + 1 THEN n + 1 ELSE p[q[k]]]
<1>7. ASSUME NEW k \in 1 .. n + 1
      PROVE  /\ B[k] \in 1 .. n + 1 /\ d[q[k]] = c[B[k]]
             /\ q[k] # n + 1 => q[k] \in 1 .. n /\ B[k] = p[q[k]] /\ B[k] \in 1 .. n
             /\ q[k] = n + 1 => B[k] = n + 1
  <2>1. CASE q[k] = n + 1
    BY <1>2, <1>3, <1>6, <2>1
  <2>2. CASE q[k] # n + 1
    <3>1. q[k] \in 1 .. n
      BY <1>4, <1>5, <2>2
    <3>2. p[q[k]] \in 1 .. n /\ B[k] = p[q[k]]
      BY <1>1, <2>2, <3>1
    <3>3. d[q[k]] = s[q[k]] /\ s[q[k]] = b[p[q[k]]] /\ c[p[q[k]]] = b[p[q[k]]]
      BY <1>1, <1>2, <1>3, <3>1, <3>2
    <3> HIDE DEF B
    <3> QED
      BY <1>6, <2>2, <3>1, <3>2, <3>3
  <2> QED
    BY <2>1, <2>2
<1>8. B \in [1 .. n + 1 -> 1 .. n + 1]
  BY <1>7
<1> HIDE DEF B
<1>9. ASSUME NEW i \in 1 .. n + 1
      PROVE  \E k \in 1 .. n + 1 : B[k] = i
  <2>1. CASE i = n + 1
    <3>1. PICK k \in 1 .. n + 1 : q[k] = i
      BY <1>4
    <3> QED
      BY <1>7, <2>1, <3>1
  <2>2. CASE i # n + 1
    <3>1. i \in 1 .. n
      BY <1>5, <2>2
    <3>2. PICK m \in 1 .. n : p[m] = i
      BY <1>1, <3>1
    <3>3. m \in 1 .. n + 1 /\ m # n + 1
      BY <1>6
    <3>4. PICK k \in 1 .. n + 1 : q[k] = m
      BY <1>4, <3>3
    <3> QED
      BY <1>7, <3>2, <3>3, <3>4
  <2> QED
    BY <2>1, <2>2
<1>10. ASSUME NEW k \in 1 .. n + 1, NEW l \in 1 .. n + 1, k < l
       PROVE  <<B[k], B[l]>> \in Ahead(c)
  <2>1. /\ q[k] \in 1 .. n + 1 /\ q[l] \in 1 .. n + 1
        /\ <<q[k], q[l]>> \in Ahead(d)
        /\ B[k] \in 1 .. n + 1 /\ B[l] \in 1 .. n + 1
    BY <1>4, <1>7, <1>10
  <2>2. \/ Priority(d, q[k]) > Priority(d, q[l])
        \/ Priority(d, q[k]) = Priority(d, q[l]) /\ q[k] < q[l]
    <3>1. q[k] \in 1 .. Len(d) /\ q[l] \in 1 .. Len(d) /\ d \in Seq(RuleNames)
      BY <1>3, <2>1
    <3> QED
      BY <2>1, <3>1, AheadIs
  <2>3. Priority(d, q[k]) = Priority(c, B[k]) /\ Priority(d, q[l]) = Priority(c, B[l])
    BY <1>7 DEF Priority
  <2>4. CASE Priority(c, B[k]) > Priority(c, B[l])
    BY <1>2, <2>1, <2>4, AheadIs
  <2>5. CASE Priority(c, B[k]) = Priority(c, B[l]) /\ q[k] < q[l]
    <3>1. q[k] # n + 1
      BY <1>1, <2>1, <2>5
    <3>2. q[k] \in 1 .. n /\ B[k] \in 1 .. n /\ B[k] = p[q[k]]
      BY <1>7, <3>1
    <3>3. B[k] < B[l]
      <4>1. CASE q[l] = n + 1
        <5>1. B[l] = n + 1
          BY <1>7, <4>1
        <5> QED
          BY <1>1, <3>2, <5>1
      <4>2. CASE q[l] # n + 1
        <5>1. q[l] \in 1 .. n /\ B[l] = p[q[l]] /\ B[l] \in 1 .. n
          BY <1>7, <4>2
        <5>2. <<B[k], B[l]>> \in Ahead(b)
          BY <1>1, <2>5, <3>2, <5>1
        <5>3. Priority(b, B[k]) = Priority(c, B[k]) /\ Priority(b, B[l]) = Priority(c, B[l])
          BY <1>2, <3>2, <5>1 DEF Priority
        <5>4. /\ \/ Priority(b, B[k]) > Priority(b, B[l])
                 \/ B[k] < B[l]
              /\ Priority(b, B[k]) \in Int /\ Priority(b, B[l]) \in Int
          BY <3>2, <5>1, <5>2, AheadIs
        <5> QED
          BY <2>5, <5>3, <5>4
      <4> QED
        BY <4>1, <4>2
    <3> QED
      BY <1>2, <2>1, <2>5, <3>3, AheadIs
  <2> QED
    BY <2>2, <2>3, <2>4, <2>5
<1>11. \A k \in 1 .. n + 1 : t[k] = c[B[k]]
  BY <1>4, <1>7
<1>12. Sorts(c, B, t)
  BY <1>2, <1>4, <1>8, <1>9, <1>10, <1>11 DEF Sorts
<1> QED
  BY <1>12

LEMMA SortedAppend ==
  ASSUME NEW b \in Seq(RuleNames), NEW r \in RuleNames
  PROVE  Sorted(Append(Sorted(b), r)) = Sorted(Append(b, r))
<1> DEFINE s == Sorted(b)
           c == Append(b, r)
           d == Append(s, r)
<1>1. Sorts(b, Order(1 .. Len(b), Ahead(b)), s) /\ s \in Seq(RuleNames)
  BY SortedIs DEF Sorts
<1> HIDE DEF s
<1>2. c \in Seq(RuleNames) /\ d \in Seq(RuleNames)
  BY <1>1
<1>3. Sorts(d, Order(1 .. Len(d), Ahead(d)), Sorted(d))
  BY <1>2, SortedIs
<1>4. \E B : Sorts(c, B, Sorted(d))
  BY <1>1, <1>3, AppendSorts
<1>5. Sorted(d) = Sorted(c)
  BY <1>2, <1>4, SortedUnique
<1> QED
  BY <1>5 DEF s

(***************************************************************************)
(* Removing a rule.                                                        *)
(***************************************************************************)
Enumerates(B, m, S, R) ==
  /\ m \in Nat /\ B \in [1 .. m -> S]
  /\ \A i \in S : \E k \in 1 .. m : B[k] = i
  /\ \A k, l \in 1 .. m : k < l => <<B[k], B[l]>> \in R

LEMMA OrderOfLength ==
  ASSUME NEW S, IsFiniteSet(S), NEW R, TotalOn(R, S), NEW m, NEW B, Enumerates(B, m, S, R)
  PROVE  m = Cardinality(S) /\ B = Order(S, R)
<1> USE DEF Enumerates
<1>1. \A k, l \in 1 .. m : B[k] = B[l] => k = l
  <2> SUFFICES ASSUME NEW k \in 1 .. m, NEW l \in 1 .. m, B[k] = B[l], k # l PROVE FALSE
    OBVIOUS
  <2>1. k < l \/ l < k
    OBVIOUS
  <2>2. B[k] \in S
    OBVIOUS
  <2>3. <<B[k], B[k]>> \in R
    BY <2>1
  <2> QED
    BY <2>2, <2>3 DEF TotalOn
<1>2. B \in Bijection(1 .. m, S)
  BY <1>1 DEF Bijection, Injection, IsInjective, Surjection
<1>3. Cardinality(S) = m
  BY <1>2, CountTo, FS_Bijection DEF ExistsBijection
<1>4. IsOrder(B, S, R)
  BY <1>3 DEF IsOrder
<1> QED
  BY <1>3, <1>4, OrderUnique

\* e takes the rules b to u, which are those but r, in their order.
Kept(b, r) == {i \in 1 .. Len(b) : b[i] # r}

Keeps(b, r, e, u) ==
  /\ u \in Seq(RuleNames)
  /\ e \in [1 .. Len(u) -> Kept(b, r)]
  /\ \A i \in Kept(b, r) : \E k \in 1 .. Len(u) : e[k] = i
  /\ \A k, l \in 1 .. Len(u) : k < l => e[k] < e[l]
  /\ \A k \in 1 .. Len(u) : u[k] = b[e[k]]

LEMMA RemainingIs ==
  ASSUME NEW b \in Seq(RuleNames), NEW r
  PROVE  \E e : Keeps(b, r, e, Remaining(r, b))
<1> DEFINE K == Kept(b, r)
           R == {p \in K \X K : p[1] < p[2]}
           m == Cardinality(K)
           e == Order(K, R)
           u == Remaining(r, b)
<1>1. K \subseteq 1 .. Len(b) /\ DOMAIN b = 1 .. Len(b)
  BY DEF Kept
<1>2. IsFiniteSet(K) /\ m \in Nat
  BY <1>1, CountTo, FS_Subset, FS_CardinalityType
<1>3. \A i \in K : i \in Int
  BY <1>1
<1>4. \A i, j \in K : <<i, j>> \in R <=> i < j
  OBVIOUS
<1>5. u = [k \in 1 .. m |-> b[e[k]]]
  BY <1>1 DEF Remaining, Arranged, Kept
<1> HIDE DEF R, K
<1>6. TotalOn(R, K)
  BY <1>3, <1>4 DEF TotalOn
<1>7. IsOrder(e, K, R)
  BY <1>2, <1>6, OrderIs
<1> HIDE DEF e, u
<1>8. /\ e \in [1 .. m -> K]
      /\ \A i \in K : \E k \in 1 .. m : e[k] = i
      /\ \A k, l \in 1 .. m : k < l => e[k] < e[l]
  BY <1>4, <1>7 DEF IsOrder
<1> HIDE DEF m
<1>9. \A k \in 1 .. m : b[e[k]] \in RuleNames
  <2>1. \A i \in 1 .. Len(b) : b[i] \in RuleNames
    OBVIOUS
  <2> QED
    BY <1>1, <1>8, <2>1
<1>10. u \in Seq(RuleNames) /\ Len(u) = m /\ \A k \in 1 .. m : u[k] = b[e[k]]
  BY <1>2, <1>5, <1>9
<1>11. Keeps(b, r, e, u)
  BY <1>8, <1>10 DEF Keeps, K
<1> QED
  BY <1>11 DEF u

LEMMA KeptSorts ==
  ASSUME NEW b \in Seq(RuleNames), NEW r,
         NEW e, NEW u, Keeps(b, r, e, u), NEW p, NEW s, Sorts(b, p, s),
         NEW g, NEW v, Keeps(s, r, g, v), NEW t, NEW w, Sorts(u, t, w)
  PROVE  w = v
<1> DEFINE K == Kept(b, r)
           L == Kept(s, r)
<1>1. K \subseteq 1 .. Len(b) /\ \A i \in 1 .. Len(b) : i \in K <=> b[i] # r
  BY DEF Kept
<1>2. /\ s \in Seq(RuleNames) /\ Len(s) = Len(b) /\ p \in [1 .. Len(b) -> 1 .. Len(b)]
      /\ \A i \in 1 .. Len(b) : \E k \in 1 .. Len(b) : p[k] = i
      /\ \A k, l \in 1 .. Len(b) : k < l => <<p[k], p[l]>> \in Ahead(b)
      /\ \A k \in 1 .. Len(b) : s[k] = b[p[k]]
  BY DEF Sorts
<1>3. L \subseteq 1 .. Len(b) /\ \A i \in 1 .. Len(b) : i \in L <=> s[i] # r
  BY <1>2 DEF Kept
<1>4. IsFiniteSet(K) /\ TotalOn(Ahead(b), K)
  BY <1>1, AheadTotal
<1>5. /\ u \in Seq(RuleNames) /\ e \in [1 .. Len(u) -> K] /\ Len(u) \in Nat
      /\ \A i \in K : \E k \in 1 .. Len(u) : e[k] = i
      /\ \A k, l \in 1 .. Len(u) : k < l => e[k] < e[l]
      /\ \A k \in 1 .. Len(u) : u[k] = b[e[k]]
  BY DEF Keeps
<1>6. /\ v \in Seq(RuleNames) /\ g \in [1 .. Len(v) -> L] /\ Len(v) \in Nat
      /\ \A i \in L : \E k \in 1 .. Len(v) : g[k] = i
      /\ \A k, l \in 1 .. Len(v) : k < l => g[k] < g[l]
      /\ \A k \in 1 .. Len(v) : v[k] = s[g[k]]
  BY DEF Keeps
<1>7. /\ w \in Seq(RuleNames) /\ Len(w) = Len(u) /\ t \in [1 .. Len(u) -> 1 .. Len(u)]
      /\ \A i \in 1 .. Len(u) : \E k \in 1 .. Len(u) : t[k] = i
      /\ \A k, l \in 1 .. Len(u) : k < l => <<t[k], t[l]>> \in Ahead(u)
      /\ \A k \in 1 .. Len(u) : w[k] = u[t[k]]
  BY <1>5 DEF Sorts
<1> HIDE DEF K, L
<1> DEFINE X == [k \in 1 .. Len(u) |-> e[t[k]]]
           Y == [k \in 1 .. Len(v) |-> p[g[k]]]
<1>8. Len(u) = Cardinality(K) /\ X = Order(K, Ahead(b))
  <2>1. X \in [1 .. Len(u) -> K]
    BY <1>5, <1>7
  <2>2. ASSUME NEW i \in K
        PROVE  \E k \in 1 .. Len(u) : X[k] = i
    <3>1. PICK j \in 1 .. Len(u) : e[j] = i
      BY <1>5
    <3>2. PICK k \in 1 .. Len(u) : t[k] = j
      BY <1>7
    <3> QED
      BY <3>1, <3>2
  <2>3. ASSUME NEW k \in 1 .. Len(u), NEW l \in 1 .. Len(u), k < l
        PROVE  <<X[k], X[l]>> \in Ahead(b)
    <3>1. /\ t[k] \in 1 .. Len(u) /\ t[l] \in 1 .. Len(u)
          /\ <<t[k], t[l]>> \in Ahead(u)
      BY <1>7, <2>3
    <3>2. \/ Priority(u, t[k]) > Priority(u, t[l])
          \/ Priority(u, t[k]) = Priority(u, t[l]) /\ t[k] < t[l]
      BY <1>5, <3>1, AheadIs
    <3>3. /\ Priority(u, t[k]) = Priority(b, X[k])
          /\ Priority(u, t[l]) = Priority(b, X[l])
      BY <1>5, <3>1 DEF Priority
    <3>4. t[k] < t[l] => X[k] < X[l]
      BY <1>5, <3>1
    <3>5. X[k] \in 1 .. Len(b) /\ X[l] \in 1 .. Len(b)
      BY <1>1, <2>1
    <3> HIDE DEF X
    <3> QED
      BY <3>2, <3>3, <3>4, <3>5, AheadIs
  <2> HIDE DEF X
  <2>4. Enumerates(X, Len(u), K, Ahead(b))
    BY <1>5, <2>1, <2>2, <2>3 DEF Enumerates
  <2> QED
    BY <1>4, <2>4, OrderOfLength
<1>9. Len(v) = Cardinality(K) /\ Y = Order(K, Ahead(b))
  <2>1. \A m \in L : p[m] \in K
    BY <1>1, <1>2, <1>3
  <2>2. Y \in [1 .. Len(v) -> K]
    BY <1>6, <2>1
  <2>3. ASSUME NEW i \in K
        PROVE  \E k \in 1 .. Len(v) : Y[k] = i
    <3>1. PICK m \in 1 .. Len(b) : p[m] = i
      BY <1>1, <1>2
    <3>2. m \in L
      BY <1>1, <1>2, <1>3, <3>1
    <3>3. PICK k \in 1 .. Len(v) : g[k] = m
      BY <1>6, <3>2
    <3> QED
      BY <3>1, <3>3
  <2>4. ASSUME NEW k \in 1 .. Len(v), NEW l \in 1 .. Len(v), k < l
        PROVE  <<Y[k], Y[l]>> \in Ahead(b)
    <3>1. g[k] \in 1 .. Len(b) /\ g[l] \in 1 .. Len(b) /\ g[k] < g[l]
      BY <1>3, <1>6, <2>4
    <3> QED
      BY <1>2, <3>1
  <2> HIDE DEF Y
  <2>5. Enumerates(Y, Len(v), K, Ahead(b))
    BY <1>6, <2>2, <2>3, <2>4 DEF Enumerates
  <2> QED
    BY <1>4, <2>5, OrderOfLength
<1>10. Len(v) = Len(w)
  BY <1>7, <1>8, <1>9
<1>11. ASSUME NEW k \in 1 .. Len(w)
       PROVE  w[k] = v[k]
  <2>1. k \in 1 .. Len(u) /\ k \in 1 .. Len(v)
    BY <1>7, <1>10, <1>11
  <2>2. w[k] = b[X[k]]
    BY <1>5, <1>7, <2>1
  <2>3. v[k] = b[Y[k]]
    BY <1>2, <1>3, <1>6, <2>1
  <2>4. X = Y
    BY <1>8, <1>9
  <2> QED
    BY <2>2, <2>3, <2>4
<1> QED
  BY <1>6, <1>7, <1>10, <1>11, SeqEqual

LEMMA SortedRemaining ==
  ASSUME NEW b \in Seq(RuleNames), NEW r
  PROVE  /\ Remaining(r, b) \in Seq(RuleNames)
         /\ Sorted(Remaining(r, b)) = Remaining(r, Sorted(b))
<1>1. Sorts(b, Order(1 .. Len(b), Ahead(b)), Sorted(b)) /\ Sorted(b) \in Seq(RuleNames)
  BY SortedIs DEF Sorts
<1>2. PICK e : Keeps(b, r, e, Remaining(r, b))
  BY RemainingIs
<1>3. PICK g : Keeps(Sorted(b), r, g, Remaining(r, Sorted(b)))
  BY <1>1, RemainingIs
<1>4. Remaining(r, b) \in Seq(RuleNames)
  BY <1>2 DEF Keeps
<1>5. \E t : Sorts(Remaining(r, b), t, Sorted(Remaining(r, b)))
  BY <1>4, SortedIs
<1> QED
  BY <1>1, <1>2, <1>3, <1>4, <1>5, KeptSorts

(***************************************************************************)
(* What applies is what covers: the two tests of a rule agree around the   *)
(* clock.                                                                  *)
(***************************************************************************)
LEMMA Around ==
  ASSUME NEW a \in Times, NEW b \in Times
  PROVE  (a + Day - b) % Day = IF a >= b THEN a - b ELSE a + Day - b
<1>1. Day \in Nat /\ Day > 0 /\ a \in 0 .. Day - 1 /\ b \in 0 .. Day - 1
  BY RuleAssumption DEF Times
<1>2. CASE a >= b
  <2>1. a - b \in 0 .. Day - 1 /\ a + Day - b = (a - b) + Day
    BY <1>1, <1>2
  <2>2. ((a - b) + Day) % Day = a - b
    BY <1>1, <2>1
  <2> QED
    BY <1>2, <2>1, <2>2
<1>3. CASE ~(a >= b)
  <2>1. a + Day - b \in 0 .. Day - 1
    BY <1>1, <1>3
  <2>2. (a + Day - b) % Day = a + Day - b
    BY <1>1, <2>1
  <2> QED
    BY <1>3, <2>2
<1> QED
  BY <1>2, <1>3

LEMMA TimesAgree ==
  ASSUME NEW start \in Times, NEW end \in Times, NEW now \in Times
  PROVE  InTimeRange(start, end, now) <=>
           (now + Day - start) % Day <= (end + Day - start) % Day
<1>1. Day \in Nat /\ start \in 0 .. Day - 1 /\ end \in 0 .. Day - 1 /\ now \in 0 .. Day - 1
  BY RuleAssumption DEF Times
<1>2. /\ (now + Day - start) % Day = IF now >= start THEN now - start ELSE now + Day - start
      /\ (end + Day - start) % Day = IF end >= start THEN end - start ELSE end + Day - start
  BY Around
<1> QED
  BY <1>1, <1>2 DEF InTimeRange

LEMMA AppliesIs ==
  ASSUME NEW r \in RuleNames, NEW context \in Contexts
  PROVE  AppliesTo(r, context) <=> Covers(r, context)
<1> DEFINE match == Rule[r].match
<1>1. /\ match.time \in {<<>>} \cup Times \X Times
      /\ match.confidence \in Nat /\ context.confidence \in Nat /\ context.now \in Times
  BY RuleAssumption
<1>2. (match.category \in {Any, context.category}) <=>
        (match.category = Any \/ match.category = context.category)
  OBVIOUS
<1>3. (match.time = <<>> \/ InTimeRange(match.time[1], match.time[2], context.now)) <=>
        (match.time = <<>> \/ (context.now + Day - match.time[1]) % Day
                                <= (match.time[2] + Day - match.time[1]) % Day)
  <2>1. CASE match.time = <<>>
    BY <2>1
  <2>2. CASE match.time # <<>>
    <3>1. match.time[1] \in Times /\ match.time[2] \in Times
      BY <1>1, <2>2
    <3> QED
      BY <1>1, <3>1, TimesAgree
  <2> QED
    BY <2>1, <2>2
<1>4. (context.confidence >= match.confidence) <=> (match.confidence <= context.confidence)
  BY <1>1
<1> QED
  BY <1>2, <1>3, <1>4 DEF AppliesTo, Matches, Covers

(***************************************************************************)
(* The first of the sorted rules to cover a request is the reference's.    *)
(***************************************************************************)
Covering(b, context) == {i \in DOMAIN b : Covers(b[i], context)}

Best(b, context) ==
  {i \in Covering(b, context) :
     \A j \in Covering(b, context) :
       \/ Priority(b, j) < Priority(b, i)
       \/ Priority(b, j) = Priority(b, i) /\ i <= j}

LEMMA ReferenceIs ==
  ASSUME NEW b, NEW context
  PROVE  Reference(b, context) =
           IF Covering(b, context) = {} THEN Fallback
           ELSE b[CHOOSE i \in Best(b, context) : TRUE]
BY DEF Reference, Covering, Best, Priority

LEMMA BestIs ==
  ASSUME NEW b \in Seq(RuleNames), NEW context, NEW i \in Best(b, context)
  PROVE  Reference(b, context) = b[i]
<1>1. i \in Covering(b, context)
  BY DEF Best
<1>2. \A j \in Covering(b, context) : j \in 1 .. Len(b)
  BY DEF Covering
<1>3. ASSUME NEW j \in Best(b, context)
      PROVE  j = i
  <2>1. /\ j \in Covering(b, context) /\ j \in 1 .. Len(b) /\ i \in 1 .. Len(b)
        /\ Priority(b, i) \in Int /\ Priority(b, j) \in Int
    BY <1>1, <1>2, AheadIs DEF Best
  <2>2. /\ Priority(b, j) < Priority(b, i) \/ (Priority(b, j) = Priority(b, i) /\ i <= j)
        /\ Priority(b, i) < Priority(b, j) \/ (Priority(b, i) = Priority(b, j) /\ j <= i)
    BY <1>1, <2>1 DEF Best
  <2> QED
    BY <2>1, <2>2
<1>4. (CHOOSE j \in Best(b, context) : TRUE) = i
  BY <1>3
<1> QED
  BY <1>1, <1>4, ReferenceIs

LEMMA FirstIs ==
  ASSUME NEW b \in Seq(RuleNames), NEW context, NEW k \in 1 .. Len(Sorted(b)),
         Covers(Sorted(b)[k], context),
         \A j \in 1 .. k - 1 : ~Covers(Sorted(b)[j], context)
  PROVE  Reference(b, context) = Sorted(b)[k]
<1> DEFINE s == Sorted(b)
<1>1. PICK p : Sorts(b, p, s)
  BY SortedIs
<1>2. /\ Len(s) = Len(b) /\ p \in [1 .. Len(b) -> 1 .. Len(b)]
      /\ \A i \in 1 .. Len(b) : \E l \in 1 .. Len(b) : p[l] = i
      /\ \A l, m \in 1 .. Len(b) : l < m => <<p[l], p[m]>> \in Ahead(b)
      /\ \A l \in 1 .. Len(b) : s[l] = b[p[l]]
  BY <1>1 DEF Sorts
<1>3. k \in 1 .. Len(b) /\ p[k] \in 1 .. Len(b) /\ s[k] = b[p[k]] /\ DOMAIN b = 1 .. Len(b)
  <2>1. k \in 1 .. Len(b)
    BY <1>2
  <2>2. p[k] \in 1 .. Len(b) /\ s[k] = b[p[k]]
    BY <1>2, <2>1
  <2> QED
    BY <2>1, <2>2
<1>4. p[k] \in Covering(b, context)
  BY <1>3 DEF Covering
<1>5. ASSUME NEW j \in Covering(b, context)
      PROVE  \/ Priority(b, j) < Priority(b, p[k])
             \/ Priority(b, j) = Priority(b, p[k]) /\ p[k] <= j
  <2>1. j \in 1 .. Len(b) /\ Covers(b[j], context)
    BY DEF Covering
  <2>2. PICK l \in 1 .. Len(b) : p[l] = j
    BY <1>2, <2>1
  <2>3. Covers(s[l], context)
    BY <1>2, <2>1, <2>2
  <2>4. ~(l < k)
    BY <1>3, <2>3
  <2>5. CASE l = k
    BY <1>3, <2>1, <2>2, <2>5, AheadIs
  <2>6. CASE l # k
    <3>1. k < l
      BY <1>3, <2>4, <2>6
    <3>2. <<p[k], j>> \in Ahead(b)
      BY <1>2, <1>3, <2>2, <3>1
    <3>3. /\ \/ Priority(b, p[k]) > Priority(b, j)
             \/ Priority(b, p[k]) = Priority(b, j) /\ p[k] < j
          /\ Priority(b, p[k]) \in Int /\ Priority(b, j) \in Int
      BY <1>3, <2>1, <3>2, AheadIs
    <3> QED
      BY <1>3, <2>1, <3>3
  <2> QED
    BY <2>5, <2>6
<1>6. p[k] \in Best(b, context)
  BY <1>4, <1>5 DEF Best
<1> QED
  BY <1>3, <1>6, BestIs

LEMMA NoneCovers ==
  ASSUME NEW b \in Seq(RuleNames), NEW context,
         \A k \in 1 .. Len(Sorted(b)) : ~Covers(Sorted(b)[k], context)
  PROVE  Covering(b, context) = {} /\ Reference(b, context) = Fallback
<1>1. PICK p : Sorts(b, p, Sorted(b))
  BY SortedIs
<1>2. /\ Len(Sorted(b)) = Len(b)
      /\ \A i \in 1 .. Len(b) : \E l \in 1 .. Len(b) : p[l] = i
      /\ \A l \in 1 .. Len(b) : Sorted(b)[l] = b[p[l]]
  BY <1>1 DEF Sorts
<1>3. ASSUME NEW i \in 1 .. Len(b)
      PROVE  ~Covers(b[i], context)
  <2>1. PICK l \in 1 .. Len(b) : p[l] = i
    BY <1>2
  <2>2. l \in 1 .. Len(Sorted(b)) /\ Sorted(b)[l] = b[i]
    BY <1>2, <2>1
  <2> QED
    BY <2>2
<1>4. Covering(b, context) = {}
  BY <1>3 DEF Covering
<1> QED
  BY <1>4, ReferenceIs

LEMMA LastIs ==
  ASSUME NEW b \in Seq(RuleNames), NEW context, NEW r \in RuleNames,
         \A k \in 1 .. Len(Sorted(b)) : ~Covers(Sorted(b)[k], context),
         Covers(r, context)
  PROVE  Reference(Append(b, r), context) = r
<1> DEFINE c == Append(b, r)
           n == Len(b)
<1>1. /\ c \in Seq(RuleNames) /\ Len(c) = n + 1 /\ c[n + 1] = r /\ n \in Nat
      /\ \A i \in 1 .. n : c[i] = b[i]
      /\ DOMAIN c = 1 .. n + 1 /\ DOMAIN b = 1 .. n
  OBVIOUS
<1>2. \A i \in 1 .. n : ~Covers(b[i], context)
  BY <1>1, NoneCovers DEF Covering
<1> HIDE DEF c, n
<1>3. \A i \in Covering(c, context) : i = n + 1
  BY <1>1, <1>2 DEF Covering
<1>4. n + 1 \in Covering(c, context)
  BY <1>1 DEF Covering
<1>5. n + 1 \in Best(c, context)
  BY <1>1, <1>3, <1>4 DEF Best
<1>6. Reference(c, context) = c[n + 1]
  BY <1>1, <1>5, BestIs
<1> QED
  BY <1>1, <1>6 DEF c

(***************************************************************************)
(* The inductive invariant of the engine.  A walk that no sort ran under   *)
(* goes over a list that some book of the walk explains: that book in      *)
(* order of priority, or with the rule that came after it at the end, and  *)
(* then the book with that rule is of the walk too.  No rule it has passed *)
(* covers its request.                                                     *)
(***************************************************************************)
Idles    == [at : {"idle"}]
Counteds == [at : {"counted"}, context : Contexts]
Walks    == [at : {"walking"}, context : Contexts, over : Nat, place : Nat \ {0},
             books : SUBSET Seq(RuleNames), sorted : BOOLEAN]
Decideds == [at : {"decided"}, context : Contexts, books : SUBSET Seq(RuleNames),
             sorted : BOOLEAN, by : RuleNames \cup {Fallback}]

EngineTypes ==
  /\ lists \in Seq(Seq(RuleNames)) /\ list \in 1 .. Len(lists)
  /\ adder \in [at : {"idle", "appended", "sorting"}, before : Seq(RuleNames),
                sorting : Seq(RuleNames)]
  /\ walk \in [Evaluators -> Idles \cup Counteds \cup Walks \cup Decideds]
  /\ evaluations \in 0 .. MaxEvaluations /\ removals \in 0 .. MaxRemovals
  /\ book \in Seq(RuleNames)

Comes(b, held, r, c) == held = Append(Sorted(b), r) /\ c = Append(b, r)

InUse ==
  /\ adder.at = "idle" => lists[list] = Sorted(book)
  /\ adder.at = "appended" => \E r \in RuleNames : Comes(adder.before, lists[list], r, book)
  /\ adder.at = "sorting" => Sorted(adder.sorting) = Sorted(book)

Explains(b, held, books) ==
  /\ b \in books
  /\ held = Sorted(b) \/ \E r \in RuleNames, c \in books : Comes(b, held, r, c)

Passed(w, held) ==
  /\ w.place <= Len(held) + 1
  /\ \A k \in 1 .. Len(held) : k < w.place => ~Covers(held[k], w.context)

Follows(w, ls, l, at, bk) ==
  /\ w.over \in 1 .. Len(ls)
  /\ ~w.sorted => /\ Passed(w, ls[w.over])
                  /\ \E b \in w.books : Explains(b, ls[w.over], w.books)
                  /\ w.over = l => at # "sorting" /\ bk \in w.books

AllFollow == \A e \in Evaluators : Walking(e) => Follows(walk[e], lists, list, adder.at, book)

EngineInv == EngineTypes /\ InUse /\ AllFollow /\ DecisionsAreTheRules
LEMMA WalkShapes ==
  ASSUME EngineTypes, NEW e \in Evaluators
  PROVE  /\ walk[e].at \in {"idle", "counted", "walking", "decided"}
         /\ walk[e].at = "counted" => walk[e] \in Counteds
         /\ walk[e].at = "walking" => walk[e] \in Walks
         /\ walk[e].at = "decided" => walk[e] \in Decideds
<1>1. walk[e] \in Idles \cup Counteds \cup Walks \cup Decideds
  BY DEF EngineTypes
<1> QED
  BY <1>1 DEF Idles, Counteds, Walks, Decideds

LEMMA EngineStarts == EngineInit => EngineInv
<1> SUFFICES ASSUME EngineInit PROVE EngineInv
  OBVIOUS
<1>1. FileRules \in Seq(RuleNames) /\ {MaxEvaluations, MaxRemovals} \subseteq Nat
  BY RuleAssumption
<1>2. Sorted(FileRules) \in Seq(RuleNames)
  BY <1>1, SortedIs DEF Sorts
<1>3. lists \in Seq(Seq(RuleNames)) /\ Len(lists) = 1 /\ lists[1] = Sorted(FileRules)
  BY <1>2 DEF EngineInit
<1>4. \A e \in Evaluators : walk[e] = [at |-> "idle"] /\ walk[e].at = "idle"
  BY DEF EngineInit
<1>5. walk \in [Evaluators -> Idles \cup Counteds \cup Walks \cup Decideds]
  BY DEF EngineInit, Idles
<1>6. EngineTypes
  BY <1>1, <1>3, <1>5 DEF EngineInit, EngineTypes
<1>7. InUse
  BY <1>3 DEF EngineInit, InUse
<1>8. AllFollow /\ DecisionsAreTheRules
  BY <1>4 DEF AllFollow, Walking, DecisionsAreTheRules
<1> QED
  BY <1>6, <1>7, <1>8 DEF EngineInv

\* What a step that books b leaves of a walk.
WalkBooked(w, b) == [w EXCEPT !.books = @ \cup {b}]

LEMMA BookedWalks ==
  ASSUME EngineTypes, NEW b \in Seq(RuleNames), Booked(b)
  PROVE  /\ walk' \in [Evaluators -> Idles \cup Counteds \cup Walks \cup Decideds]
         /\ \A e \in Evaluators :
              /\ walk'[e].at = walk[e].at
              /\ Walking(e) => walk'[e] = WalkBooked(walk[e], b)
              /\ ~Walking(e) => walk'[e] = walk[e]
<1>1. walk' = [e \in Evaluators |-> IF Walking(e) THEN WalkBooked(walk[e], b) ELSE walk[e]]
  BY DEF Booked, WalkBooked
<1>2. ASSUME NEW e \in Evaluators, Walking(e)
      PROVE  WalkBooked(walk[e], b) \in Walks /\ WalkBooked(walk[e], b).at = "walking"
  BY <1>2, WalkShapes DEF Walking, Walks, WalkBooked
<1>3. \A e \in Evaluators : walk[e] \in Idles \cup Counteds \cup Walks \cup Decideds
  BY DEF EngineTypes
<1>4. ASSUME NEW e \in Evaluators
      PROVE  /\ walk'[e] = IF Walking(e) THEN WalkBooked(walk[e], b) ELSE walk[e]
             /\ walk'[e] \in Idles \cup Counteds \cup Walks \cup Decideds
             /\ walk'[e].at = walk[e].at
  BY <1>1, <1>2, <1>3 DEF Walking
<1> QED
  BY <1>1, <1>4

LEMMA ExplainsMore ==
  ASSUME NEW w \in Walks, NEW b, NEW held, NEW c, Explains(c, held, w.books)
  PROVE  Explains(c, held, WalkBooked(w, b).books)
<1>1. w.books \subseteq WalkBooked(w, b).books
  BY DEF Walks, WalkBooked
<1> QED
  BY <1>1 DEF Explains

LEMMA DecisionsStand ==
  ASSUME DecisionsAreTheRules,
         \A e \in Evaluators : /\ walk'[e].at = walk[e].at
                               /\ ~Walking(e) => walk'[e] = walk[e]
  PROVE  DecisionsAreTheRules'
<1> SUFFICES ASSUME NEW e \in Evaluators, walk'[e].at = "decided"
             PROVE  IF walk'[e].sorted
                      THEN walk'[e].by = Fallback \/ Covers(walk'[e].by, walk'[e].context)
                      ELSE \E b \in walk'[e].books : walk'[e].by = Reference(b, walk'[e].context)
  BY DEF DecisionsAreTheRules
<1>1. walk'[e] = walk[e] /\ walk[e].at = "decided"
  BY DEF Walking
<1> QED
  BY <1>1 DEF DecisionsAreTheRules

LEMMA AddKeeps ==
  ASSUME EngineInv, NEW r \in RuleNames, AddAppends(r)
  PROVE  EngineInv'
<1> DEFINE c == Append(book, r)
<1>1. /\ adder.at = "idle" /\ lists' = [lists EXCEPT ![list] = Append(lists[list], r)]
      /\ adder' = [adder EXCEPT !.at = "appended", !.before = book]
      /\ Booked(c) /\ book' = c
      /\ UNCHANGED <<list, evaluations, removals>>
  BY DEF AddAppends, Booked, LockIsFree
<1>2. /\ lists \in Seq(Seq(RuleNames)) /\ list \in 1 .. Len(lists)
      /\ lists[list] \in Seq(RuleNames)
      /\ book \in Seq(RuleNames) /\ c \in Seq(RuleNames)
      /\ Append(lists[list], r) \in Seq(RuleNames)
      /\ EngineTypes /\ lists[list] = Sorted(book)
  BY <1>1 DEF EngineInv, EngineTypes, InUse
<1> HIDE DEF c
<1>3. /\ lists' \in Seq(Seq(RuleNames)) /\ Len(lists') = Len(lists)
      /\ lists'[list] = Append(Sorted(book), r)
      /\ \A i \in 1 .. Len(lists) : i # list => lists'[i] = lists[i]
  BY <1>1, <1>2
<1>4. /\ adder' \in [at : {"idle", "appended", "sorting"}, before : Seq(RuleNames),
                   sorting : Seq(RuleNames)]
      /\ adder'.at = "appended" /\ adder'.before = book
  BY <1>1, <1>2 DEF EngineTypes
<1>5. EngineTypes'
  BY <1>1, <1>2, <1>3, <1>4, BookedWalks DEF EngineTypes
<1>6. InUse'
  <2>1. Comes(adder'.before, lists'[list'], r, book')
    BY <1>1, <1>3, <1>4 DEF Comes, c
  <2> QED
    BY <1>4, <2>1 DEF InUse
<1>7. AllFollow'
  <2> SUFFICES ASSUME NEW e \in Evaluators, walk'[e].at = "walking"
               PROVE  Follows(walk'[e], lists', list', adder'.at, book')
    BY DEF AllFollow, Walking
  <2> DEFINE w == walk[e]
             v == walk'[e]
  <2>1. Walking(e) /\ w \in Walks /\ v = WalkBooked(w, c)
    BY <1>1, <1>2, BookedWalks, WalkShapes DEF Walking
  <2>2. Follows(w, lists, list, "idle", book)
    BY <1>1, <2>1 DEF EngineInv, AllFollow
  <2>3. /\ v.over = w.over /\ v.place = w.place /\ v.context = w.context /\ v.sorted = w.sorted
        /\ v.books = w.books \cup {c} /\ w.place \in Nat /\ w.over \in Nat
    BY <2>1 DEF WalkBooked, Walks
  <2> HIDE DEF w, v
  <2>4. v.over \in 1 .. Len(lists')
    BY <1>3, <2>2, <2>3 DEF Follows
  <2>5. ASSUME ~v.sorted, w.over # list
        PROVE  /\ Passed(v, lists'[v.over])
               /\ \E b \in v.books : Explains(b, lists'[v.over], v.books)
    <3>1. lists'[v.over] = lists[w.over]
      BY <1>3, <2>2, <2>3, <2>5 DEF Follows
    <3>2. Passed(w, lists[w.over]) /\ \E b \in w.books : Explains(b, lists[w.over], w.books)
      BY <2>2, <2>3, <2>5 DEF Follows
    <3>3. Passed(v, lists'[v.over])
      BY <2>3, <3>1, <3>2 DEF Passed
    <3>4. PICK b \in w.books : Explains(b, lists[w.over], w.books)
      BY <3>2
    <3>5. Explains(b, lists'[v.over], v.books) /\ b \in v.books
      BY <2>1, <2>3, <3>1, <3>4, ExplainsMore
    <3> QED
      BY <3>3, <3>5
  <2>6. ASSUME ~v.sorted, w.over = list
        PROVE  /\ Passed(v, lists'[v.over])
               /\ \E b \in v.books : Explains(b, lists'[v.over], v.books)
    <3>1. Passed(w, lists[list]) /\ book \in w.books
      BY <2>2, <2>3, <2>6 DEF Follows
    <3>2. lists'[v.over] = Append(lists[list], r)
      BY <1>2, <1>3, <2>3, <2>6
    <3>3. Passed(v, Append(lists[list], r))
      <4> DEFINE old == lists[list]
                 new == Append(old, r)
      <4>1. /\ old \in Seq(RuleNames) /\ Len(new) = Len(old) + 1 /\ Len(old) \in Nat
            /\ \A k \in 1 .. Len(old) : new[k] = old[k]
        BY <1>2
      <4>2. /\ w.place <= Len(old) + 1
            /\ \A k \in 1 .. Len(old) : k < w.place => ~Covers(old[k], w.context)
        BY <3>1 DEF Passed
      <4> HIDE DEF old, new
      <4>3. v.place <= Len(new) + 1
        BY <2>3, <4>1, <4>2
      <4>4. ASSUME NEW k \in 1 .. Len(new), k < v.place
            PROVE  ~Covers(new[k], v.context)
        <5>1. k \in 1 .. Len(old)
          BY <2>3, <4>1, <4>2, <4>4
        <5> QED
          BY <2>3, <4>1, <4>2, <4>4, <5>1
      <4>5. Passed(v, new)
        BY <4>3, <4>4 DEF Passed
      <4> QED
        BY <4>5 DEF new, old
    <3>4. Explains(book, lists'[v.over], v.books) /\ book \in v.books
      <4>1. Comes(book, lists'[v.over], r, c)
        BY <1>2, <3>2 DEF Comes, c
      <4>2. c \in v.books /\ book \in v.books
        BY <2>3, <3>1
      <4> QED
        BY <4>1, <4>2 DEF Explains
    <3> QED
      BY <3>2, <3>3, <3>4
  <2>7. adder'.at # "sorting" /\ book' \in v.books
    BY <1>1, <1>4, <2>3
  <2>8. Follows(v, lists', list', adder'.at, book')
    BY <2>4, <2>5, <2>6, <2>7 DEF Follows
  <2> QED
    BY <2>8 DEF v
<1>8. DecisionsAreTheRules'
  BY <1>1, <1>2, BookedWalks, DecisionsStand DEF EngineInv
<1> QED
  BY <1>5, <1>6, <1>7, <1>8 DEF EngineInv
\* A walk goes on over a list that the step leaves as it is.
LEMMA FollowsOn ==
  ASSUME NEW w \in Walks, NEW v, NEW ls, NEW ms,
         v.over = w.over, v.place = w.place, v.context = w.context, v.sorted = w.sorted,
         w.books \subseteq v.books, ms[w.over] = ls[w.over],
         Passed(w, ls[w.over]), \E b \in w.books : Explains(b, ls[w.over], w.books)
  PROVE  Passed(v, ms[v.over]) /\ \E b \in v.books : Explains(b, ms[v.over], v.books)
<1>1. Passed(v, ms[v.over])
  BY DEF Passed
<1>2. PICK b \in w.books : Explains(b, ls[w.over], w.books)
  OBVIOUS
<1>3. Explains(b, ms[v.over], v.books) /\ b \in v.books
  BY <1>2 DEF Explains
<1> QED
  BY <1>1, <1>3

LEMMA RemoveKeeps ==
  ASSUME EngineInv, NEW r \in RuleNames, Remove(r)
  PROVE  EngineInv'
<1> DEFINE c == Remaining(r, book)
           n == Len(lists) + 1
<1>1. /\ adder.at = "idle" /\ lists' = Append(lists, Remaining(r, lists[list]))
      /\ list' = Len(lists') /\ Booked(c) /\ book' = c
      /\ removals' = removals + 1 /\ removals < MaxRemovals
      /\ UNCHANGED <<adder, evaluations>>
  BY DEF Remove, Booked, LockIsFree
<1>2. /\ lists \in Seq(Seq(RuleNames)) /\ list \in 1 .. Len(lists)
      /\ book \in Seq(RuleNames) /\ EngineTypes /\ lists[list] = Sorted(book)
      /\ lists[list] \in Seq(RuleNames)
  BY <1>1 DEF EngineInv, EngineTypes, InUse
<1>3. /\ c \in Seq(RuleNames) /\ Remaining(r, lists[list]) = Sorted(c)
      /\ Remaining(r, lists[list]) \in Seq(RuleNames)
  BY <1>2, SortedRemaining
<1> HIDE DEF c
<1>4. /\ lists' \in Seq(Seq(RuleNames)) /\ Len(lists') = n /\ list' = n /\ n \in Nat
      /\ lists'[n] = Sorted(c)
      /\ \A i \in 1 .. Len(lists) : lists'[i] = lists[i]
  BY <1>1, <1>2, <1>3
<1>5. EngineTypes'
  <2>1. list' \in 1 .. Len(lists')
    BY <1>2, <1>4
  <2>2. removals \in 0 .. MaxRemovals /\ MaxRemovals \in Nat
    BY <1>2, RuleAssumption DEF EngineTypes
  <2>3. removals' \in 0 .. MaxRemovals
    BY <1>1, <2>2
  <2> QED
    BY <1>1, <1>2, <1>3, <1>4, <2>1, <2>3, BookedWalks DEF EngineTypes
<1>6. InUse'
  BY <1>1, <1>4 DEF InUse
<1>7. AllFollow'
  <2> SUFFICES ASSUME NEW e \in Evaluators, walk'[e].at = "walking"
               PROVE  Follows(walk'[e], lists', list', adder'.at, book')
    BY DEF AllFollow, Walking
  <2> DEFINE w == walk[e]
             v == walk'[e]
  <2>1. Walking(e) /\ w \in Walks /\ v = WalkBooked(w, c)
    BY <1>1, <1>2, <1>3, BookedWalks, WalkShapes DEF Walking
  <2>2. Follows(w, lists, list, "idle", book)
    BY <1>1, <2>1 DEF EngineInv, AllFollow
  <2>3. /\ v.over = w.over /\ v.place = w.place /\ v.context = w.context /\ v.sorted = w.sorted
        /\ v.books = w.books \cup {c}
    BY <2>1 DEF WalkBooked, Walks
  <2> HIDE DEF w, v
  <2>4. w.over \in 1 .. Len(lists)
    BY <2>2 DEF Follows
  <2>5. v.over \in 1 .. Len(lists') /\ v.over # list' /\ lists'[w.over] = lists[w.over]
    BY <1>2, <1>4, <2>3, <2>4
  <2>6. ASSUME ~v.sorted
        PROVE  /\ Passed(v, lists'[v.over])
               /\ \E b \in v.books : Explains(b, lists'[v.over], v.books)
    <3>1. Passed(w, lists[w.over]) /\ \E b \in w.books : Explains(b, lists[w.over], w.books)
      BY <2>2, <2>3, <2>6 DEF Follows
    <3> QED
      BY <2>1, <2>3, <2>5, <3>1, FollowsOn
  <2>7. Follows(v, lists', list', adder'.at, book')
    BY <2>5, <2>6 DEF Follows
  <2> QED
    BY <2>7 DEF v
<1>8. DecisionsAreTheRules'
  BY <1>1, <1>2, <1>3, BookedWalks, DecisionsStand DEF EngineInv
<1> QED
  BY <1>5, <1>6, <1>7, <1>8 DEF EngineInv

LEMMA SortStartKeeps ==
  ASSUME EngineInv, SortStarts
  PROVE  EngineInv'
<1>1. /\ adder.at = "appended"
      /\ adder' = [adder EXCEPT !.at = "sorting", !.sorting = lists[list]]
      /\ lists' = [lists EXCEPT ![list] = <<>>]
      /\ walk' = [e \in Evaluators |->
                    IF Walking(e) /\ walk[e].over = list
                      THEN [walk[e] EXCEPT !.sorted = TRUE] ELSE walk[e]]
      /\ UNCHANGED <<list, evaluations, removals, book>>
  BY DEF SortStarts
<1>2. /\ lists \in Seq(Seq(RuleNames)) /\ list \in 1 .. Len(lists)
      /\ book \in Seq(RuleNames) /\ lists[list] \in Seq(RuleNames) /\ EngineTypes
  BY DEF EngineInv, EngineTypes
<1>3. /\ lists' \in Seq(Seq(RuleNames)) /\ Len(lists') = Len(lists)
      /\ \A i \in 1 .. Len(lists) : i # list => lists'[i] = lists[i]
  <2>1. <<>> \in Seq(RuleNames)
    OBVIOUS
  <2> QED
    BY <1>1, <1>2, <2>1
<1>4. /\ adder' \in [at : {"idle", "appended", "sorting"}, before : Seq(RuleNames),
                   sorting : Seq(RuleNames)]
      /\ adder'.at = "sorting" /\ adder'.sorting = lists[list]
  BY <1>1, <1>2 DEF EngineTypes
<1>5. ASSUME NEW e \in Evaluators
      PROVE  /\ walk'[e] \in Idles \cup Counteds \cup Walks \cup Decideds
             /\ walk'[e].at = walk[e].at
             /\ ~Walking(e) => walk'[e] = walk[e]
             /\ Walking(e) => \/ walk'[e] = walk[e] /\ walk[e].over # list
                              \/ walk'[e] = [walk[e] EXCEPT !.sorted = TRUE]
  <2>1. walk'[e] = IF Walking(e) /\ walk[e].over = list
                     THEN [walk[e] EXCEPT !.sorted = TRUE] ELSE walk[e]
    BY <1>1
  <2>2. Walking(e) => walk[e] \in Walks
    BY <1>2, WalkShapes DEF Walking
  <2>3. Walking(e) => /\ [walk[e] EXCEPT !.sorted = TRUE] \in Walks
                      /\ [walk[e] EXCEPT !.sorted = TRUE].at = walk[e].at
    BY <2>2 DEF Walks
  <2>4. walk[e] \in Idles \cup Counteds \cup Walks \cup Decideds
    BY <1>2 DEF EngineTypes
  <2> QED
    BY <2>1, <2>2, <2>3, <2>4
<1>6. walk' \in [Evaluators -> Idles \cup Counteds \cup Walks \cup Decideds]
  BY <1>1, <1>5
<1>7. EngineTypes'
  BY <1>1, <1>2, <1>3, <1>4, <1>6 DEF EngineTypes
<1>8. InUse'
  <2>1. PICK r \in RuleNames : Comes(adder.before, lists[list], r, book)
    BY <1>1 DEF EngineInv, InUse
  <2>2. adder.before \in Seq(RuleNames)
    BY <1>2 DEF EngineTypes
  <2>3. Sorted(lists[list]) = Sorted(book)
    BY <2>1, <2>2, SortedAppend DEF Comes
  <2> QED
    BY <1>1, <1>4, <2>3 DEF InUse
<1>9. AllFollow'
  <2> SUFFICES ASSUME NEW e \in Evaluators, walk'[e].at = "walking"
               PROVE  Follows(walk'[e], lists', list', adder'.at, book')
    BY DEF AllFollow, Walking
  <2>1. Walking(e) /\ walk[e] \in Walks
    BY <1>2, <1>5, WalkShapes DEF Walking
  <2>2. Follows(walk[e], lists, list, adder.at, book)
    BY <2>1 DEF EngineInv, AllFollow
  <2>3. CASE walk'[e] = walk[e] /\ walk[e].over # list
    <3>1. lists'[walk[e].over] = lists[walk[e].over]
      BY <1>3, <2>2, <2>3 DEF Follows
    <3> QED
      BY <1>1, <1>3, <2>2, <2>3, <3>1 DEF Follows
  <2>4. CASE walk'[e] = [walk[e] EXCEPT !.sorted = TRUE]
    <3>1. walk'[e].sorted = TRUE /\ walk'[e].over = walk[e].over
      BY <2>1, <2>4 DEF Walks
    <3> QED
      BY <1>3, <2>2, <3>1 DEF Follows
  <2> QED
    BY <1>5, <2>1, <2>3, <2>4
<1>10. DecisionsAreTheRules'
  BY <1>5, DecisionsStand DEF EngineInv
<1> QED
  BY <1>7, <1>8, <1>9, <1>10 DEF EngineInv

LEMMA SortEndKeeps ==
  ASSUME EngineInv, SortEnds
  PROVE  EngineInv'
<1>1. /\ adder.at = "sorting" /\ lists' = [lists EXCEPT ![list] = Sorted(adder.sorting)]
      /\ adder' = [at |-> "idle", before |-> <<>>, sorting |-> <<>>]
      /\ UNCHANGED <<list, walk, evaluations, removals, book>>
  BY DEF SortEnds
<1>2. /\ lists \in Seq(Seq(RuleNames)) /\ list \in 1 .. Len(lists)
      /\ adder.sorting \in Seq(RuleNames) /\ Sorted(adder.sorting) \in Seq(RuleNames)
      /\ EngineTypes
  <2>1. adder.sorting \in Seq(RuleNames)
    BY DEF EngineInv, EngineTypes
  <2>2. Sorted(adder.sorting) \in Seq(RuleNames)
    BY <2>1, SortedIs DEF Sorts
  <2> QED
    BY <2>1, <2>2 DEF EngineInv, EngineTypes
<1>3. /\ lists' \in Seq(Seq(RuleNames)) /\ Len(lists') = Len(lists)
      /\ lists'[list] = Sorted(adder.sorting)
      /\ \A i \in 1 .. Len(lists) : i # list => lists'[i] = lists[i]
  BY <1>1, <1>2
<1>4. /\ adder' \in [at : {"idle", "appended", "sorting"}, before : Seq(RuleNames),
                   sorting : Seq(RuleNames)]
      /\ adder'.at = "idle"
  BY <1>1
<1>5. EngineTypes'
  BY <1>1, <1>2, <1>3, <1>4 DEF EngineTypes
<1>6. InUse'
  <2>1. lists'[list'] = Sorted(book')
    BY <1>1, <1>3 DEF EngineInv, InUse
  <2> QED
    BY <1>4, <2>1 DEF InUse
<1>7. AllFollow'
  <2> SUFFICES ASSUME NEW e \in Evaluators, walk[e].at = "walking"
               PROVE  Follows(walk[e], lists', list, adder'.at, book)
    BY <1>1 DEF AllFollow, Walking
  <2>1. Follows(walk[e], lists, list, "sorting", book)
    BY <1>1 DEF EngineInv, AllFollow, Walking
  <2>2. ~walk[e].sorted => lists'[walk[e].over] = lists[walk[e].over] /\ walk[e].over # list
    BY <1>3, <2>1 DEF Follows
  <2> QED
    BY <1>3, <2>1, <2>2 DEF Follows
<1>8. DecisionsAreTheRules'
  BY <1>1 DEF EngineInv, DecisionsAreTheRules
<1> QED
  BY <1>5, <1>6, <1>7, <1>8 DEF EngineInv
LEMMA Explained ==
  ASSUME NEW w \in Walks, NEW held \in Seq(RuleNames), ~w.sorted, Passed(w, held),
         \E b \in w.books : Explains(b, held, w.books)
  PROVE  /\ w.place > Len(held) => \E b \in w.books : Fallback = Reference(b, w.context)
         /\ w.place \in 1 .. Len(held) /\ Covers(held[w.place], w.context)
              => \E b \in w.books : held[w.place] = Reference(b, w.context)
<1>1. PICK b \in w.books : Explains(b, held, w.books)
  OBVIOUS
<1> DEFINE p == w.place
           x == w.context
<1>2. b \in Seq(RuleNames) /\ p \in Nat \ {0} /\ \A c \in w.books : c \in Seq(RuleNames)
  BY DEF Walks
<1>3. Sorted(b) \in Seq(RuleNames) /\ Len(held) \in Nat
  BY <1>2, SortedIs DEF Sorts
<1>4. p <= Len(held) + 1 /\ \A k \in 1 .. Len(held) : k < p => ~Covers(held[k], x)
  BY DEF Passed
<1> HIDE DEF p, x
<1>5. CASE held = Sorted(b)
  <2>1. ASSUME p > Len(held)
        PROVE  Fallback = Reference(b, x)
    <3>1. \A k \in 1 .. Len(Sorted(b)) : ~Covers(Sorted(b)[k], x)
      BY <1>2, <1>3, <1>4, <1>5, <2>1
    <3> QED
      BY <1>2, <3>1, NoneCovers
  <2>2. ASSUME p \in 1 .. Len(held), Covers(held[p], x)
        PROVE  held[p] = Reference(b, x)
    <3>1. \A j \in 1 .. p - 1 : ~Covers(Sorted(b)[j], x)
      BY <1>2, <1>3, <1>4, <1>5, <2>2
    <3> QED
      BY <1>2, <1>5, <2>2, <3>1, FirstIs
  <2> QED
    BY <2>1, <2>2 DEF p, x
<1>6. ASSUME NEW r \in RuleNames, NEW c \in w.books, Comes(b, held, r, c)
      PROVE  /\ p > Len(held) => Fallback = Reference(b, x)
             /\ p \in 1 .. Len(held) /\ Covers(held[p], x)
                  => held[p] = Reference(b, x) \/ held[p] = Reference(c, x)
  <2> DEFINE s == Sorted(b)
             n == Len(s)
  <2>1. /\ held = Append(s, r) /\ c = Append(b, r) /\ n \in Nat
        /\ Len(held) = n + 1 /\ held[n + 1] = r /\ \A k \in 1 .. n : held[k] = s[k]
    BY <1>3, <1>6 DEF Comes
  <2> HIDE DEF s, n
  <2>2. p \in Nat \ {0} /\ \A k \in 1 .. n : k < p => ~Covers(s[k], x)
    BY <1>2, <1>4, <2>1
  <2>3. ASSUME p > n
        PROVE  \A k \in 1 .. Len(Sorted(b)) : ~Covers(Sorted(b)[k], x)
    BY <2>1, <2>2, <2>3 DEF s, n
  <2>4. ASSUME p > Len(held)
        PROVE  Fallback = Reference(b, x)
    <3>1. p > n
      BY <2>1, <2>2, <2>4
    <3> QED
      BY <1>2, <2>3, <3>1, NoneCovers
  <2>5. ASSUME p \in 1 .. n, Covers(held[p], x)
        PROVE  held[p] = Reference(b, x)
    <3>1. held[p] = s[p] /\ Covers(s[p], x) /\ \A j \in 1 .. p - 1 : ~Covers(s[j], x)
      BY <2>1, <2>2, <2>5
    <3> QED
      BY <1>2, <2>5, <3>1, FirstIs DEF s, n
  <2>6. ASSUME p = n + 1, Covers(held[p], x)
        PROVE  held[p] = Reference(c, x)
    <3>1. Covers(r, x) /\ held[p] = r /\ p > n
      BY <2>1, <2>6
    <3> QED
      BY <1>2, <2>1, <2>3, <3>1, LastIs
  <2>7. p \in 1 .. Len(held) => p \in 1 .. n \/ p = n + 1
    BY <2>1, <2>2
  <2> QED
    BY <2>4, <2>5, <2>6, <2>7
<1>7. CASE \E r \in RuleNames, c \in w.books : Comes(b, held, r, c)
  BY <1>6, <1>7 DEF p, x
<1> QED
  BY <1>1, <1>5, <1>7 DEF Explains

\* A step of one evaluator moves nothing but its walk.
LEMMA OneWalks ==
  ASSUME EngineInv, NEW e \in Evaluators,
         NEW w \in Idles \cup Counteds \cup Walks \cup Decideds, walk' = [walk EXCEPT ![e] = w],
         UNCHANGED <<lists, list, adder, removals, book>>, evaluations' \in 0 .. MaxEvaluations,
         w.at = "walking" => Follows(w, lists, list, adder.at, book),
         w.at = "decided" =>
           IF w.sorted THEN w.by = Fallback \/ Covers(w.by, w.context)
                       ELSE \E b \in w.books : w.by = Reference(b, w.context)
  PROVE  EngineInv'
<1>1. EngineTypes /\ InUse /\ AllFollow /\ DecisionsAreTheRules
  BY DEF EngineInv
<1>2. /\ walk' \in [Evaluators -> Idles \cup Counteds \cup Walks \cup Decideds]
      /\ walk'[e] = w /\ \A f \in Evaluators : f # e => walk'[f] = walk[f]
  BY <1>1 DEF EngineTypes
<1>3. EngineTypes' /\ InUse'
  BY <1>1, <1>2 DEF EngineTypes, InUse
<1>4. AllFollow'
  <2> SUFFICES ASSUME NEW f \in Evaluators, walk'[f].at = "walking"
               PROVE  Follows(walk'[f], lists, list, adder.at, book)
    BY DEF AllFollow, Walking
  <2> QED
    BY <1>1, <1>2 DEF AllFollow, Walking
<1>5. DecisionsAreTheRules'
  <2> SUFFICES ASSUME NEW f \in Evaluators, walk'[f].at = "decided"
               PROVE  IF walk'[f].sorted
                        THEN walk'[f].by = Fallback \/ Covers(walk'[f].by, walk'[f].context)
                        ELSE \E b \in walk'[f].books :
                               walk'[f].by = Reference(b, walk'[f].context)
    BY DEF DecisionsAreTheRules
  <2>1. CASE f = e
    BY <1>2, <2>1
  <2>2. CASE f # e
    BY <1>1, <1>2, <2>2 DEF DecisionsAreTheRules
  <2> QED
    BY <2>1, <2>2
<1> QED
  BY <1>3, <1>4, <1>5 DEF EngineInv

LEMMA CountKeeps ==
  ASSUME EngineInv, NEW e \in Evaluators, NEW context \in Contexts, Count(e, context)
  PROVE  EngineInv'
<1> DEFINE w == [at |-> "counted", context |-> context]
<1>1. w \in Counteds /\ w.at = "counted"
  BY DEF Counteds
<1>2. /\ walk' = [walk EXCEPT ![e] = w] /\ evaluations' = evaluations + 1
      /\ evaluations < MaxEvaluations
      /\ UNCHANGED <<lists, list, adder, removals, book>>
  BY DEF Count
<1>3. evaluations \in 0 .. MaxEvaluations /\ MaxEvaluations \in Nat
  BY RuleAssumption DEF EngineInv, EngineTypes
<1>4. evaluations' \in 0 .. MaxEvaluations
  BY <1>2, <1>3
<1> HIDE DEF w
<1> QED
  BY <1>1, <1>2, <1>4, OneWalks

LEMMA AnswerKeeps ==
  ASSUME EngineInv, NEW e \in Evaluators, Answer(e)
  PROVE  EngineInv'
<1> DEFINE w == [at |-> "idle"]
<1>1. w \in Idles /\ w.at = "idle"
  BY DEF Idles
<1>2. /\ walk' = [walk EXCEPT ![e] = w] /\ evaluations' = evaluations
      /\ UNCHANGED <<lists, list, adder, removals, book>>
  BY DEF Answer
<1>3. evaluations' \in 0 .. MaxEvaluations
  BY <1>2 DEF EngineInv, EngineTypes
<1> HIDE DEF w
<1> QED
  BY <1>1, <1>2, <1>3, OneWalks
LEMMA OpenKeeps ==
  ASSUME EngineInv, NEW e \in Evaluators, OpenList(e)
  PROVE  EngineInv'
<1> DEFINE two == {book, IF LockIsFree THEN book ELSE adder.before}
           w == [at |-> "walking", context |-> walk[e].context, over |-> list, place |-> 1,
                 books |-> two, sorted |-> adder.at = "sorting"]
<1>1. /\ walk[e].at = "counted" /\ walk' = [walk EXCEPT ![e] = w]
      /\ UNCHANGED <<lists, list, adder, evaluations, removals, book>>
  BY DEF OpenList
<1>2. EngineTypes /\ InUse /\ walk[e] \in Counteds
  BY <1>1, WalkShapes DEF EngineInv
<1>3. /\ list \in 1 .. Len(lists) /\ list \in Nat /\ book \in Seq(RuleNames)
      /\ adder.before \in Seq(RuleNames) /\ adder.at \in {"idle", "appended", "sorting"}
      /\ evaluations' \in 0 .. MaxEvaluations /\ lists[list] \in Seq(RuleNames)
  BY <1>1, <1>2 DEF EngineTypes
<1>4. two \in SUBSET Seq(RuleNames) /\ book \in two
  BY <1>3
<1> HIDE DEF two
<1>5. /\ w \in Walks /\ w.at = "walking" /\ w.over = list /\ w.place = 1 /\ w.books = two
      /\ w.sorted = (adder.at = "sorting")
  BY <1>2, <1>3, <1>4 DEF Walks, Counteds
<1> HIDE DEF w
<1>6. Passed(w, lists[list])
  BY <1>3, <1>5 DEF Passed
<1>7. ASSUME adder.at # "sorting"
      PROVE  \E b \in two : Explains(b, lists[list], two)
  <2>1. CASE adder.at = "idle"
    <3>1. Explains(book, lists[list], two)
      BY <1>2, <1>4, <2>1 DEF InUse, Explains
    <3> QED
      BY <1>4, <3>1
  <2>2. CASE adder.at = "appended"
    <3>1. PICK r \in RuleNames : Comes(adder.before, lists[list], r, book)
      BY <1>2, <2>2 DEF InUse
    <3>2. adder.before \in two
      BY <2>2 DEF two, LockIsFree
    <3>3. Explains(adder.before, lists[list], two)
      BY <1>4, <3>1, <3>2 DEF Explains
    <3> QED
      BY <3>2, <3>3
  <2> QED
    BY <1>3, <1>7, <2>1, <2>2
<1>8. Follows(w, lists, list, adder.at, book)
  BY <1>3, <1>4, <1>5, <1>6, <1>7 DEF Follows
<1> QED
  BY <1>1, <1>3, <1>5, <1>8, OneWalks

LEMMA LookKeeps ==
  ASSUME EngineInv, NEW e \in Evaluators, Look(e)
  PROVE  EngineInv'
<1> DEFINE w == walk[e]
           held == lists[w.over]
           p == w.place
           on == [w EXCEPT !.place = p + 1]
           v == IF p > Len(held) THEN Decided(e, Fallback)
                ELSE IF AppliesTo(held[p], w.context) THEN Decided(e, held[p]) ELSE on
<1>1. /\ walk[e].at = "walking" /\ walk' = [walk EXCEPT ![e] = v]
      /\ UNCHANGED <<lists, list, adder, evaluations, removals, book>>
  BY DEF Look, Walking
<1>2. EngineTypes /\ w \in Walks /\ Follows(w, lists, list, adder.at, book)
  BY <1>1, WalkShapes DEF EngineInv, AllFollow, Walking
<1>3. /\ held \in Seq(RuleNames) /\ Len(held) \in Nat /\ p \in Nat \ {0}
      /\ w.context \in Contexts
      /\ w.sorted \in BOOLEAN /\ w.books \in SUBSET Seq(RuleNames) /\ w.at = "walking"
      /\ evaluations' \in 0 .. MaxEvaluations
  BY <1>1, <1>2 DEF EngineTypes, Walks, Follows
<1>4. ASSUME ~w.sorted
      PROVE  /\ Passed(w, held) /\ \E b \in w.books : Explains(b, held, w.books)
             /\ p > Len(held) => \E b \in w.books : Fallback = Reference(b, w.context)
             /\ p \in 1 .. Len(held) /\ Covers(held[p], w.context)
                  => \E b \in w.books : held[p] = Reference(b, w.context)
  <2>1. Passed(w, held) /\ \E b \in w.books : Explains(b, held, w.books)
    BY <1>2, <1>4 DEF Follows
  <2> QED
    BY <1>2, <1>3, <1>4, <2>1, Explained
<1>5. ASSUME NEW by \in RuleNames \cup {Fallback}
      PROVE  /\ Decided(e, by) \in Decideds /\ Decided(e, by).at = "decided"
             /\ Decided(e, by).by = by /\ Decided(e, by).context = w.context
             /\ Decided(e, by).sorted = w.sorted /\ Decided(e, by).books = w.books
  BY <1>3 DEF Decided, Decideds
<1> HIDE DEF w, held, p, v, on
<1>6. CASE p > Len(held)
  <2>1. v = Decided(e, Fallback)
    BY <1>6 DEF v
  <2>2. v.sorted = w.sorted /\ v.by = Fallback /\ v.books = w.books /\ v.context = w.context
        /\ v.at = "decided" /\ v \in Decideds
    BY <1>5, <2>1
  <2>3. IF v.sorted THEN v.by = Fallback \/ Covers(v.by, v.context)
                    ELSE \E b \in v.books : v.by = Reference(b, v.context)
    BY <1>3, <1>4, <1>6, <2>2
  <2> QED
    BY <1>1, <1>3, <2>2, <2>3, OneWalks
<1>7. CASE p \in 1 .. Len(held) /\ AppliesTo(held[p], w.context)
  <2>1. v = Decided(e, held[p]) /\ held[p] \in RuleNames
    BY <1>3, <1>7 DEF v
  <2>2. v.sorted = w.sorted /\ v.by = held[p] /\ v.books = w.books /\ v.context = w.context
        /\ v.at = "decided" /\ v \in Decideds
    BY <1>5, <2>1
  <2>3. Covers(held[p], w.context)
    BY <1>3, <1>7, <2>1, AppliesIs
  <2>4. IF v.sorted THEN v.by = Fallback \/ Covers(v.by, v.context)
                    ELSE \E b \in v.books : v.by = Reference(b, v.context)
    BY <1>3, <1>4, <1>7, <2>2, <2>3
  <2> QED
    BY <1>1, <1>3, <2>2, <2>4, OneWalks
<1>8. CASE p \in 1 .. Len(held) /\ ~AppliesTo(held[p], w.context)
  <2>1. v = on /\ held[p] \in RuleNames
    BY <1>3, <1>8 DEF v
  <2>2. /\ v \in Walks /\ v.at = "walking" /\ v.over = w.over /\ v.place = p + 1
        /\ v.books = w.books /\ v.context = w.context /\ v.sorted = w.sorted
    BY <1>2, <1>3, <2>1 DEF on, Walks, p
  <2>3. ~Covers(held[p], w.context)
    BY <1>3, <1>8, <2>1, AppliesIs
  <2>4. ASSUME ~w.sorted
        PROVE  Passed(v, held)
    <3>1. w.place = p /\ \A k \in 1 .. Len(held) : k < p => ~Covers(held[k], w.context)
      BY <1>4, <2>4 DEF Passed, p
    <3>2. \A k \in 1 .. Len(held) : k < p + 1 => k < p \/ k = p
      BY <1>3
    <3> QED
      BY <1>3, <1>8, <2>2, <2>3, <3>1, <3>2 DEF Passed
  <2>5. Follows(v, lists, list, adder.at, book)
    BY <1>2, <1>4, <2>2, <2>4 DEF Follows, held
  <2> QED
    BY <1>1, <1>3, <2>2, <2>5, OneWalks
<1> QED
  BY <1>3, <1>6, <1>7, <1>8

(***************************************************************************)
(* Whatever is sorted, added or removed under an evaluation of the engine, *)
(* its decision is that of the highest of the rules that were in force at  *)
(* some moment of it, unless a sort ran under it, and the list in use is   *)
(* in order when nobody sorts it (evaluate, add_rule and remove_rule).     *)
(***************************************************************************)
THEOREM EngineSound == EngineSpec => []EngineIsSound
<1>1. EngineInit => EngineInv
  BY EngineStarts
<1>2. EngineInv /\ [EngineNext]_engineVars => EngineInv'
  <2> SUFFICES ASSUME EngineInv, [EngineNext]_engineVars
               PROVE  EngineInv'
    OBVIOUS
  <2>1. CASE SortStarts
    BY <2>1, SortStartKeeps
  <2>2. CASE SortEnds
    BY <2>2, SortEndKeeps
  <2>3. CASE \E r \in RuleNames : AddAppends(r) \/ Remove(r)
    BY <2>3, AddKeeps, RemoveKeeps
  <2>4. CASE \E e \in Evaluators : \/ OpenList(e) \/ Look(e) \/ Answer(e)
                                   \/ \E context \in Contexts : Count(e, context)
    BY <2>4, OpenKeeps, LookKeeps, AnswerKeeps, CountKeeps
  <2>5. CASE UNCHANGED engineVars
    BY <2>5 DEF engineVars, EngineInv, EngineTypes, InUse, AllFollow, Walking,
                DecisionsAreTheRules
  <2> QED
    BY <2>1, <2>2, <2>3, <2>4, <2>5 DEF EngineNext
<1>3. EngineInv => EngineIsSound
  <2> SUFFICES ASSUME EngineInv PROVE EngineTypeOK
    BY DEF EngineInv, EngineIsSound
  <2>1. \A e \in Evaluators : walk[e].at \in {"idle", "counted", "walking", "decided"}
    BY WalkShapes DEF EngineInv
  <2> QED
    BY <2>1 DEF EngineInv, EngineTypes, InUse, EngineTypeOK
<1> QED
  BY <1>1, <1>2, <1>3, PTL DEF EngineSpec

=============================================================================
