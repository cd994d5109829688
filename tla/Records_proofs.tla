--------------------------- MODULE Records_proofs ---------------------------
(***************************************************************************)
(* Proofs about the records of what was decided: the audit trail with its  *)
(* two sinks and the SIEM dispatcher with its backends, for any number of  *)
(* request threads, writers, events and backends and any capacities.       *)
(***************************************************************************)
EXTENDS MCRecords, SequenceTheorems, FiniteSetTheorems, TLAPS

-----------------------------------------------------------------------------
(***************************************************************************)
(* The audit trail (AuditLog).                                             *)
(***************************************************************************)

(***************************************************************************)
(* An event is at one place at a time: in a request thread, in the queue,  *)
(* in a writer's hands, in the sinks, or lost.                             *)
(***************************************************************************)
UnderWay(r) == rec[r].at # "idle"

RequestsApart ==
  /\ \A r \in Recorders : UnderWay(r) => rec[r].event \in (1 .. created) \ accepted
  /\ \A r, s \in Recorders :
       UnderWay(r) /\ UnderWay(s) /\ rec[r].event = rec[s].event => r = s

QueueApart ==
  /\ Queued \subseteq accepted \ committed
  /\ \A i, j \in 1 .. Len(queue) : queue[i] = queue[j] => i = j \/ queue[i] = Sentinel

Hands(w) == Range(writer[w].batch)

BatchesApart ==
  /\ \A w \in Writers :
       /\ Hands(w) \subseteq accepted /\ Hands(w) \cap Queued = {}
       /\ writer[w].at \in {"loop", "commit"} => Hands(w) \cap committed = {}
       /\ writer[w].at = "mirror" => Hands(w) \subseteq committed \ mirrored
       /\ IsInjective(writer[w].batch)
  /\ \A v, w \in Writers : v # w => Hands(v) \cap Hands(w) = {}

SinksApart ==
  /\ mirrored \subseteq committed /\ committed \subseteq accepted
  /\ accepted \subseteq 1 .. created /\ owed \subseteq accepted

(***************************************************************************)
(* The threads started are the first; one that ended has nothing left, and *)
(* one that gathers has room.                                              *)
(***************************************************************************)
WritersAgree ==
  \A w \in Writers :
    /\ w > writers => writer[w] = Off
    /\ w <= writers => writer[w].at # "off"
    /\ writer[w].at = "ended" => writer[w].batch = <<>>
    /\ writer[w].at = "loop" => Len(writer[w].batch) < BatchMax

(***************************************************************************)
(* One request thread makes the store and starts it, before anyone can     *)
(* stop it.                                                                *)
(***************************************************************************)
OneMaker ==
  /\ \A r \in Recorders :
       /\ rec[r].at \in {"make", "start"} => holder = r /\ ~running /\ ctl = "up"
       /\ rec[r].at = "make" => ~made
       /\ rec[r].at = "start" => made
  /\ ~made => ~running /\ ctl = "up"
  /\ ~faulted /\ ctl = "up" /\ writers > 0 => running

(***************************************************************************)
(* While nothing raised, nothing that was accepted is lost.                *)
(***************************************************************************)
NothingLost ==
  ~faulted => accepted \subseteq mirrored \cup Queued \cup UNION {Hands(w) : w \in Writers}

(***************************************************************************)
(* In the first life of the store the sentinel comes after all that stop() *)
(* owes, and the writer ends behind it.                                    *)
(***************************************************************************)
FirstStop ==
  ~again =>
    /\ Sentinel \in Range(queue) => ctl \in {"join", "down"}
    /\ \A i, j \in 1 .. Len(queue) : i < j /\ queue[i] = Sentinel => queue[j] \notin owed
    /\ ~faulted /\ writers = 1 =>
         /\ writer[1].last \/ writer[1].at = "ended" => ctl # "up" /\ owed \cap Queued = {}
         /\ ctl = "down" /\ ~expired => writer[1].at = "ended"

AuditInv ==
  /\ AuditTypeOK /\ RequestsApart /\ QueueApart /\ BatchesApart /\ SinksApart /\ WritersAgree
  /\ OneMaker /\ NothingLost /\ FirstStop /\ CountIsEarned /\ RecentStays

-----------------------------------------------------------------------------
(***************************************************************************)
(* What a sequence has in it after an append, without its head, and up to  *)
(* a place; and how much is in one without repetition.                     *)
(***************************************************************************)
LEMMA RangeOfAppend ==
  ASSUME NEW S, NEW s \in Seq(S), NEW e \in S
  PROVE  /\ Append(s, e) \in Seq(S) /\ Len(Append(s, e)) = Len(s) + 1 /\ Len(s) \in Nat
         /\ Range(Append(s, e)) = Range(s) \cup {e}
         /\ \A i \in 1 .. Len(s) : Append(s, e)[i] = s[i]
         /\ Append(s, e)[Len(s) + 1] = e
<1>1. /\ Append(s, e) \in Seq(S) /\ Len(Append(s, e)) = Len(s) + 1 /\ Len(s) \in Nat
      /\ \A i \in 1 .. Len(s) : Append(s, e)[i] = s[i]
      /\ Append(s, e)[Len(s) + 1] = e
  BY AppendProperties, LenProperties
<1>2. DOMAIN s = 1 .. Len(s) /\ DOMAIN Append(s, e) = 1 .. (Len(s) + 1)
  BY <1>1, LenProperties
<1>3. 1 .. (Len(s) + 1) = (1 .. Len(s)) \cup {Len(s) + 1}
  BY <1>1
<1>4. Range(Append(s, e)) = Range(s) \cup {e}
  <2>1. ASSUME NEW i \in DOMAIN Append(s, e) PROVE Append(s, e)[i] \in Range(s) \cup {e}
    BY <1>1, <1>2, <1>3, <2>1 DEF Range
  <2>2. ASSUME NEW i \in DOMAIN s PROVE s[i] \in Range(Append(s, e))
    BY <1>1, <1>2, <1>3, <2>2 DEF Range
  <2>3. e \in Range(Append(s, e))
    BY <1>1, <1>2, <1>3 DEF Range
  <2> QED BY <2>1, <2>2, <2>3 DEF Range
<1> QED BY <1>1, <1>4

LEMMA RangeOfTail ==
  ASSUME NEW S, NEW s \in Seq(S), s # <<>>
  PROVE  /\ Tail(s) \in Seq(S) /\ Len(s) \in Nat \ {0} /\ Len(Tail(s)) = Len(s) - 1
         /\ Head(s) = s[1] /\ Head(s) \in S
         /\ \A i \in 1 .. (Len(s) - 1) : Tail(s)[i] = s[i + 1]
         /\ Range(s) = {Head(s)} \cup Range(Tail(s))
<1>1. /\ Tail(s) \in Seq(S) /\ Len(Tail(s)) = Len(s) - 1 /\ Head(s) \in S
      /\ \A i \in 1 .. (Len(s) - 1) : Tail(s)[i] = s[i + 1]
  BY HeadTailProperties
<1>2. Len(s) \in Nat \ {0} /\ Head(s) = s[1]
  BY EmptySeq
<1>3. DOMAIN s = 1 .. Len(s) /\ DOMAIN Tail(s) = 1 .. (Len(s) - 1)
  BY <1>1, LenProperties
<1>4. ASSUME NEW x PROVE x \in Range(s) <=> x \in {Head(s)} \cup Range(Tail(s))
  <2>1. ASSUME NEW i \in 1 .. Len(s), x = s[i] PROVE x = Head(s) \/ x \in Range(Tail(s))
    <3>1. CASE i = 1
      BY <1>2, <2>1, <3>1
    <3>2. CASE i # 1
      <4>1. i - 1 \in 1 .. (Len(s) - 1) /\ Tail(s)[i - 1] = s[i]
        BY <1>1, <1>2, <3>2
      <4> QED BY <1>3, <2>1, <4>1 DEF Range
    <3> QED BY <3>1, <3>2
  <2>2. ASSUME NEW i \in 1 .. (Len(s) - 1), x = Tail(s)[i] PROVE x \in Range(s)
    <3>1. i + 1 \in 1 .. Len(s) /\ Tail(s)[i] = s[i + 1]
      BY <1>1, <1>2
    <3> QED BY <1>3, <2>2, <3>1 DEF Range
  <2>3. Head(s) \in Range(s)
    BY <1>2, <1>3 DEF Range
  <2> QED BY <1>3, <2>1, <2>2, <2>3 DEF Range
<1>5. Range(s) = {Head(s)} \cup Range(Tail(s))
  BY <1>4
<1> QED BY <1>1, <1>2, <1>5

LEMMA RangeOfPrefix ==
  ASSUME NEW S, NEW s \in Seq(S), NEW n \in 0 .. Len(s)
  PROVE  Range(SubSeq(s, 1, n)) \subseteq Range(s)
<1>1. /\ Len(s) \in Nat /\ DOMAIN s = 1 .. Len(s)
  BY LenProperties
<1>2. \A i \in 1 .. n : i \in 1 .. Len(s) /\ SubSeq(s, 1, n)[i] = s[i]
  BY <1>1
<1>3. DOMAIN SubSeq(s, 1, n) = 1 .. n
  BY <1>1
<1> QED BY <1>1, <1>2, <1>3 DEF Range

LEMMA CardinalityOfRange ==
  ASSUME NEW S, NEW s \in Seq(S), IsInjective(s)
  PROVE  IsFiniteSet(Range(s)) /\ Cardinality(Range(s)) = Len(s)
<1>1. /\ Len(s) \in Nat /\ s \in [1 .. Len(s) -> S] /\ DOMAIN s = 1 .. Len(s)
  BY LenProperties
<1>2. s \in [1 .. Len(s) -> Range(s)] /\ \A t \in Range(s) : \E i \in 1 .. Len(s) : s[i] = t
  BY <1>1 DEF Range
<1>3. s \in Bijection(1 .. Len(s), Range(s))
  BY <1>2 DEF Bijection, Injection, Surjection
<1>4. ExistsBijection(1 .. Len(s), Range(s))
  BY <1>3 DEF ExistsBijection
<1>5. IsFiniteSet(1 .. Len(s)) /\ Cardinality(1 .. Len(s)) = Len(s)
  BY <1>1, FS_Interval
<1> QED BY <1>4, <1>5, FS_Bijection

LEMMA EmptyRange == Range(<<>>) = {} /\ IsInjective(<<>>) /\ Len(<<>>) = 0
BY DEF Range, IsInjective

(***************************************************************************)
(* The events are finitely many.                                           *)
(***************************************************************************)
LEMMA EventSetsFinite ==
  ASSUME NEW X, X \subseteq AuditEvents
  PROVE  IsFiniteSet(X) /\ Cardinality(X) \in Nat /\ Cardinality(X) <= MaxEvents
<1>1. MaxEvents \in Nat
  BY AuditAssumption
<1>2. IsFiniteSet(AuditEvents) /\ Cardinality(AuditEvents) = MaxEvents
  BY <1>1, FS_Interval DEF AuditEvents
<1> QED BY <1>2, FS_Subset, FS_CardinalityType

-----------------------------------------------------------------------------
LEMMA AuditInitInv == AuditInit => AuditInv
<1> SUFFICES ASSUME AuditInit PROVE AuditInv
  OBVIOUS
<1> USE AuditAssumption DEF AuditInit, Idle, Off
<1>1. AuditTypeOK
  <2>1. rec \in [Recorders -> [at : {"idle", "get", "make", "start", "check", "put"},
                               event : 0 .. MaxEvents]]
    OBVIOUS
  <2>2. writer \in [Writers -> [at : {"off", "loop", "commit", "mirror", "ended"},
                                batch : Seq(AuditEvents), last : BOOLEAN]]
    OBVIOUS
  <2>3. \A w \in Writers : Len(writer[w].batch) <= BatchMax
    OBVIOUS
  <2>4. /\ made \in BOOLEAN /\ running \in BOOLEAN
        /\ faulted \in BOOLEAN /\ expired \in BOOLEAN /\ again \in BOOLEAN
    OBVIOUS
  <2>5. /\ count \in 0 .. MaxEvents /\ created \in 0 .. MaxEvents /\ aged \in 0 .. MaxEvents
        /\ writers \in 0 .. MaxWriters
    OBVIOUS
  <2>6. queue \in Seq(AuditEvents \cup {Sentinel}) /\ Len(queue) <= QueueMax
    OBVIOUS
  <2> QED BY <2>1, <2>2, <2>3, <2>4, <2>5, <2>6 DEF AuditTypeOK
<1>2. RequestsApart /\ OneMaker
  BY DEF RequestsApart, UnderWay, OneMaker
<1>3. QueueApart /\ SinksApart
  BY EmptyRange DEF QueueApart, SinksApart, Queued
<1>4. BatchesApart
  BY EmptyRange DEF BatchesApart, Hands
<1>5. WritersAgree
  BY DEF WritersAgree, Writers
<1>6. NothingLost /\ RecentStays
  BY DEF NothingLost, RecentStays
<1>7. FirstStop
  BY EmptyRange DEF FirstStop
<1>8. CountIsEarned
  BY FS_EmptySet DEF CountIsEarned
<1> QED BY <1>1, <1>2, <1>3, <1>4, <1>5, <1>6, <1>7, <1>8 DEF AuditInv

(***************************************************************************)
(* What a step cannot disturb that leaves the queue, the writers' hands or *)
(* the sinks alone.                                                        *)
(***************************************************************************)
LEMMA SinksKeep ==
  ASSUME AuditInv, UNCHANGED <<count, rows, committed, mirrored, aged, faulted>>
  PROVE  CountIsEarned' /\ RecentStays'
BY DEF AuditInv, CountIsEarned, RecentStays

LEMMA QueueKeeps ==
  ASSUME AuditInv, UNCHANGED <<queue, created, accepted, committed, mirrored, owed>>
  PROVE  QueueApart' /\ SinksApart'
BY DEF AuditInv, QueueApart, SinksApart, Queued

LEMMA HandsKeep ==
  ASSUME AuditInv, UNCHANGED <<writers, writer, queue, accepted, committed, mirrored, faulted>>
  PROVE  BatchesApart' /\ WritersAgree' /\ NothingLost'
BY DEF AuditInv, BatchesApart, WritersAgree, NothingLost, Queued, Hands

LEMMA StopKeeps ==
  ASSUME AuditInv, UNCHANGED <<queue, writers, writer, ctl, owed, faulted, expired, again>>
  PROVE  FirstStop'
BY DEF AuditInv, FirstStop, Queued

(***************************************************************************)
(* A request thread goes from one place to another with its event, or is   *)
(* done with it.                                                           *)
(***************************************************************************)
LEMMA RequestMoves ==
  ASSUME AuditInv, NEW r \in Recorders, UnderWay(r), UNCHANGED created,
         accepted' = accepted \/ (Done(r) /\ accepted' = accepted \cup {rec[r].event}),
         Done(r) \/ \E s \in {"check", "make", "start", "put"} : AuditMove(r, s)
  PROVE  /\ rec' \in [Recorders -> [at : {"idle", "get", "make", "start", "check", "put"},
                                    event : 0 .. MaxEvents]]
         /\ \A q \in Recorders : q # r => rec'[q] = rec[q]
         /\ Done(r) => rec'[r].at = "idle"
         /\ \A s \in {"check", "make", "start", "put"} : AuditMove(r, s) => rec'[r].at = s
         /\ RequestsApart'
<1>1. rec \in [Recorders -> [at : {"idle", "get", "make", "start", "check", "put"},
                             event : 0 .. MaxEvents]]
  BY DEF AuditInv, AuditTypeOK
<1>2. CASE Done(r)
  <2>1. rec' = [rec EXCEPT ![r] = [at |-> "idle", event |-> 0]]
    BY <1>2 DEF Done, Idle
  <2>2. 0 \in 0 .. MaxEvents
    BY AuditAssumption
  <2>3. rec' \in [Recorders -> [at : {"idle", "get", "make", "start", "check", "put"},
                                event : 0 .. MaxEvents]]
    BY <1>1, <2>1, <2>2
  <2>4. rec'[r].at = "idle" /\ \A q \in Recorders : q # r => rec'[q] = rec[q]
    BY <1>1, <2>1
  <2>5. RequestsApart'
    BY <2>4 DEF AuditInv, RequestsApart, UnderWay
  <2>6. \A s \in {"check", "make", "start", "put"} : ~AuditMove(r, s)
    BY <1>1, <2>4 DEF AuditMove
  <2> QED BY <2>3, <2>4, <2>5, <2>6
<1>3. CASE ~Done(r)
  <2>1. PICK s \in {"check", "make", "start", "put"} : AuditMove(r, s)
    BY <1>3
  <2>2. rec' = [rec EXCEPT ![r].at = s]
    BY <2>1 DEF AuditMove
  <2>3. rec' \in [Recorders -> [at : {"idle", "get", "make", "start", "check", "put"},
                                event : 0 .. MaxEvents]]
    BY <1>1, <2>2
  <2>4. /\ rec'[r].at = s /\ rec'[r].event = rec[r].event
        /\ \A q \in Recorders : q # r => rec'[q] = rec[q]
    BY <1>1, <2>2
  <2>5. \A q \in Recorders : rec'[q].event = rec[q].event /\ (UnderWay(q)' => UnderWay(q))
    BY <2>4 DEF UnderWay
  <2>6. RequestsApart'
    BY <1>3, <2>5 DEF AuditInv, RequestsApart
  <2>7. \A t \in {"check", "make", "start", "put"} : AuditMove(r, t) => rec'[r].at = t
    BY <1>1 DEF AuditMove
  <2> QED BY <1>3, <2>3, <2>4, <2>6, <2>7
<1> QED BY <1>2, <1>3

-----------------------------------------------------------------------------
LEMMA CreateKeeps == ASSUME AuditInv, NEW r \in Recorders, Create(r) PROVE AuditInv'
<1>1. /\ rec[r].at = "idle" /\ created < MaxEvents /\ created' = created + 1
      /\ rec' = [rec EXCEPT ![r] = [at |-> "get", event |-> created + 1]]
      /\ UNCHANGED <<store, queue, writers, ctl, writer, rows, auditPast>>
  BY DEF Create
<1>2. UNCHANGED <<made, holder, running, count, queue, writers, ctl, writer, rows, accepted,
                  committed, mirrored, aged, owed, faulted, expired, again>>
  BY <1>1 DEF store, auditPast
<1>3. /\ rec \in [Recorders -> [at : {"idle", "get", "make", "start", "check", "put"},
                                event : 0 .. MaxEvents]]
      /\ created \in 0 .. MaxEvents /\ created + 1 \in 0 .. MaxEvents
  BY <1>1, AuditAssumption DEF AuditInv, AuditTypeOK
<1>4. rec' \in [Recorders -> [at : {"idle", "get", "make", "start", "check", "put"},
                              event : 0 .. MaxEvents]]
  BY <1>1, <1>3
<1>5. /\ rec'[r].at = "get" /\ rec'[r].event = created + 1
      /\ \A q \in Recorders : q # r => rec'[q] = rec[q]
  BY <1>1, <1>3
<1>6. AuditTypeOK'
  BY <1>1, <1>2, <1>3, <1>4 DEF AuditInv, AuditTypeOK
<1>7. RequestsApart'
  <2>1. accepted \subseteq 1 .. created
    BY DEF AuditInv, SinksApart
  <2>2. created + 1 \in (1 .. created') \ accepted' /\ 1 .. created \subseteq 1 .. created'
    BY <1>1, <1>2, <1>3, <2>1
  <2>3. \A q \in Recorders : q # r /\ UnderWay(q)' => rec'[q].event \in (1 .. created) \ accepted
    BY <1>5 DEF AuditInv, RequestsApart, UnderWay
  <2>4. created + 1 \notin 1 .. created
    BY <1>3
  <2>5. \A q \in Recorders : UnderWay(q)' => rec'[q].event \in (1 .. created') \ accepted'
    BY <1>2, <1>5, <2>2, <2>3
  <2>6. ASSUME NEW p \in Recorders, NEW q \in Recorders, UnderWay(p)', UnderWay(q)',
               rec'[p].event = rec'[q].event
        PROVE  p = q
    <3>1. CASE p = r \/ q = r
      BY <1>5, <2>3, <2>4, <2>6, <3>1
    <3>2. CASE p # r /\ q # r
      BY <1>5, <2>6, <3>2 DEF AuditInv, RequestsApart, UnderWay
    <3> QED BY <3>1, <3>2
  <2> QED BY <2>5, <2>6 DEF RequestsApart
<1>8. SinksApart'
  <2>1. 1 .. created \subseteq 1 .. created'
    BY <1>1, <1>3
  <2> QED BY <1>2, <2>1 DEF AuditInv, SinksApart
<1>9. QueueApart'
  BY <1>2 DEF AuditInv, QueueApart, Queued
<1>10. OneMaker'
  BY <1>2, <1>5 DEF AuditInv, OneMaker
<1> QED BY <1>2, <1>6, <1>7, <1>8, <1>9, <1>10, SinksKeep, HandsKeep, StopKeeps DEF AuditInv

LEMMA GetFindsKeeps ==
  ASSUME AuditInv, NEW r \in Recorders, GetFinds(r) \/ Check(r) PROVE AuditInv'
<1>1. /\ rec[r].at \in {"get", "check"}
      /\ AuditMove(r, "check") \/ AuditMove(r, "put") \/ Done(r)
      /\ UNCHANGED <<store, queue, writers, ctl, writer, rows, created, auditPast>>
  BY DEF GetFinds, Check
<1>2. UNCHANGED <<made, holder, running, count, queue, writers, ctl, writer, rows, created, accepted,
                  committed, mirrored, aged, owed, faulted, expired, again>>
  BY <1>1 DEF store, auditPast
<1>3. /\ rec' \in [Recorders -> [at : {"idle", "get", "make", "start", "check", "put"},
                                 event : 0 .. MaxEvents]]
      /\ \A q \in Recorders : q # r => rec'[q] = rec[q]
      /\ rec'[r].at \in {"check", "put", "idle"} /\ RequestsApart'
  BY <1>1, <1>2, RequestMoves DEF UnderWay
<1>4. AuditTypeOK'
  BY <1>2, <1>3 DEF AuditInv, AuditTypeOK
<1>5. OneMaker'
  BY <1>2, <1>3 DEF AuditInv, OneMaker
<1> QED BY <1>2, <1>3, <1>4, <1>5, SinksKeep, QueueKeeps, HandsKeep, StopKeeps DEF AuditInv

LEMMA GetLocksKeeps ==
  ASSUME AuditInv, NEW r \in Recorders, GetLocks(r) PROVE AuditInv'
<1>1. /\ rec[r].at = "get" /\ ~made /\ holder = NoThread /\ holder' = r /\ AuditMove(r, "make")
      /\ UNCHANGED <<made, running, count, queue, writers, ctl, writer, rows, created, auditPast>>
  BY DEF GetLocks
<1>2. UNCHANGED <<accepted, committed, mirrored, aged, owed, faulted, expired, again>>
  BY <1>1 DEF auditPast
<1>3. /\ rec' \in [Recorders -> [at : {"idle", "get", "make", "start", "check", "put"},
                                 event : 0 .. MaxEvents]]
      /\ \A q \in Recorders : q # r => rec'[q] = rec[q]
      /\ rec'[r].at = "make" /\ RequestsApart'
  BY <1>1, <1>2, RequestMoves DEF UnderWay
<1>4. AuditTypeOK'
  BY <1>1, <1>2, <1>3 DEF AuditInv, AuditTypeOK
<1>5. \A q \in Recorders : q # r => rec[q].at \notin {"make", "start"}
  BY <1>1, AuditAssumption DEF AuditInv, OneMaker
<1>6. OneMaker'
  BY <1>1, <1>2, <1>3, <1>5 DEF AuditInv, OneMaker
<1> QED BY <1>1, <1>2, <1>3, <1>4, <1>6, SinksKeep, QueueKeeps, HandsKeep, StopKeeps DEF AuditInv

LEMMA GetMakesKeeps ==
  ASSUME AuditInv, NEW r \in Recorders, GetMakes(r) PROVE AuditInv'
<1>1. /\ rec[r].at = "make" /\ made' = TRUE /\ AuditMove(r, "start")
      /\ UNCHANGED <<holder, running, count, queue, writers, ctl, writer, rows, created, auditPast>>
  BY DEF GetMakes
<1>2. UNCHANGED <<accepted, committed, mirrored, aged, owed, faulted, expired, again>>
  BY <1>1 DEF auditPast
<1>3. /\ rec' \in [Recorders -> [at : {"idle", "get", "make", "start", "check", "put"},
                                 event : 0 .. MaxEvents]]
      /\ \A q \in Recorders : q # r => rec'[q] = rec[q]
      /\ rec'[r].at = "start" /\ RequestsApart'
  BY <1>1, <1>2, RequestMoves DEF UnderWay
<1>4. AuditTypeOK'
  BY <1>1, <1>2, <1>3 DEF AuditInv, AuditTypeOK
<1>5. \A q \in Recorders : q # r => rec[q].at \notin {"make", "start"}
  BY <1>1 DEF AuditInv, OneMaker
<1>6. OneMaker'
  BY <1>1, <1>2, <1>3, <1>5 DEF AuditInv, OneMaker
<1> QED BY <1>1, <1>2, <1>3, <1>4, <1>6, SinksKeep, QueueKeeps, HandsKeep, StopKeeps DEF AuditInv

(***************************************************************************)
(* The start of a writer, by the first request or after a stop().          *)
(***************************************************************************)
LEMMA WriterStarts ==
  ASSUME AuditInv, StartOk, UNCHANGED <<queue, accepted, committed, mirrored, faulted>>
  PROVE  /\ writer' \in [Writers -> [at : {"off", "loop", "commit", "mirror", "ended"},
                                     batch : Seq(AuditEvents), last : BOOLEAN]]
         /\ writers' = writers + 1 /\ writers' \in 1 .. MaxWriters
         /\ \A w \in Writers : writer'[w].batch = writer[w].batch /\ writer'[w].last = writer[w].last
         /\ \A w \in Writers : w # writers' => writer'[w] = writer[w]
         /\ writer'[writers'].at = "loop" /\ writer[writers'] = Off
         /\ BatchesApart' /\ WritersAgree' /\ NothingLost'
<1>1. /\ writers \in 0 .. MaxWriters /\ writers < MaxWriters /\ writers' = writers + 1
      /\ MaxWriters \in Nat
  BY AuditAssumption DEF AuditInv, AuditTypeOK, StartOk
<1>2. writers' \in 1 .. MaxWriters /\ writers' \in Writers
  BY <1>1 DEF Writers
<1>3. writer \in [Writers -> [at : {"off", "loop", "commit", "mirror", "ended"},
                              batch : Seq(AuditEvents), last : BOOLEAN]]
  BY DEF AuditInv, AuditTypeOK
<1>4. writer[writers'] = Off
  BY <1>1, <1>2 DEF AuditInv, WritersAgree
<1>5. writer' = [writer EXCEPT ![writers'].at = "loop"]
  BY <1>1 DEF StartOk
<1>6. writer' \in [Writers -> [at : {"off", "loop", "commit", "mirror", "ended"},
                               batch : Seq(AuditEvents), last : BOOLEAN]]
  BY <1>2, <1>3, <1>5
<1>7. /\ \A w \in Writers : writer'[w].batch = writer[w].batch /\ writer'[w].last = writer[w].last
      /\ \A w \in Writers : w # writers' => writer'[w] = writer[w]
      /\ writer'[writers'].at = "loop"
  BY <1>2, <1>3, <1>5
<1>8. \A w \in Writers : Hands(w)' = Hands(w)
  BY <1>7 DEF Hands
<1>9. NothingLost'
  BY <1>8 DEF AuditInv, NothingLost, Queued
<1>10. Hands(writers') = {}
  BY <1>4, EmptyRange DEF Hands, Off
<1>11. BatchesApart'
  <2>1. Queued' = Queued
    BY DEF Queued
  <2>2. \A w \in Writers :
           /\ Hands(w)' \subseteq accepted' /\ Hands(w)' \cap Queued' = {}
           /\ writer'[w].at \in {"loop", "commit"} => Hands(w)' \cap committed' = {}
           /\ writer'[w].at = "mirror" => Hands(w)' \subseteq committed' \ mirrored'
           /\ IsInjective(writer'[w].batch)
    BY <1>7, <1>8, <1>10, <2>1 DEF AuditInv, BatchesApart
  <2> QED BY <1>8, <2>2 DEF AuditInv, BatchesApart
<1>12. WritersAgree'
  <2>1. \A w \in Writers : (w > writers' => w > writers /\ w # writers')
                           /\ (w <= writers' /\ w # writers' => w <= writers)
    BY <1>1, <1>2 DEF Writers
  <2>2. Len(writer'[writers'].batch) < BatchMax
    BY <1>4, <1>7, <1>2, EmptyRange, AuditAssumption DEF Off
  <2>3. \A w \in Writers : w # writers' =>
           /\ w > writers' => writer'[w] = Off
           /\ w <= writers' => writer'[w].at # "off"
           /\ writer'[w].at = "ended" => writer'[w].batch = <<>>
           /\ writer'[w].at = "loop" => Len(writer'[w].batch) < BatchMax
    BY <1>7, <2>1 DEF AuditInv, WritersAgree
  <2>4. ~(writers' > writers')
    BY <1>2
  <2> QED BY <1>7, <2>2, <2>3, <2>4 DEF WritersAgree
<1> QED BY <1>1, <1>2, <1>4, <1>6, <1>7, <1>9, <1>11, <1>12

LEMMA GetStartsKeeps ==
  ASSUME AuditInv, NEW r \in Recorders, GetStarts(r) PROVE AuditInv'
<1>1. /\ rec[r].at = "start" /\ holder' = NoThread /\ running' = TRUE
      /\ (StartOk /\ AuditMove(r, "check")) \/ (StartRaises /\ Done(r))
      /\ UNCHANGED <<made, count, queue, ctl, rows, created, auditPast>>
  BY DEF GetStarts, StartOk, StartRaises, Unlocked
<1>2. UNCHANGED <<accepted, committed, mirrored, aged, owed, faulted, expired, again>>
  BY <1>1 DEF auditPast
<1>3. /\ rec' \in [Recorders -> [at : {"idle", "get", "make", "start", "check", "put"},
                                 event : 0 .. MaxEvents]]
      /\ \A q \in Recorders : q # r => rec'[q] = rec[q]
      /\ rec'[r].at \in {"check", "idle"} /\ RequestsApart'
  BY <1>1, <1>2, RequestMoves DEF UnderWay
<1>4. holder = r /\ made /\ ctl = "up"
  BY <1>1 DEF AuditInv, OneMaker
<1>5. \A q \in Recorders : q # r => rec[q].at \notin {"make", "start"}
  BY <1>4 DEF AuditInv, OneMaker
<1>6. OneMaker'
  BY <1>1, <1>2, <1>3, <1>4, <1>5 DEF OneMaker
<1>7. /\ writers' \in 0 .. MaxWriters
      /\ writer' \in [Writers -> [at : {"off", "loop", "commit", "mirror", "ended"},
                                  batch : Seq(AuditEvents), last : BOOLEAN]]
      /\ \A w \in Writers : Len(writer'[w].batch) <= BatchMax
      /\ BatchesApart' /\ WritersAgree' /\ NothingLost' /\ FirstStop'
  <2>1. CASE StartRaises
    <3>1. UNCHANGED <<writers, writer>>
      BY <2>1 DEF StartRaises
    <3> QED BY <1>1, <1>2, <3>1, HandsKeep, StopKeeps DEF AuditInv, AuditTypeOK
  <2>2. CASE StartOk
    <3>1. /\ writer' \in [Writers -> [at : {"off", "loop", "commit", "mirror", "ended"},
                                      batch : Seq(AuditEvents), last : BOOLEAN]]
          /\ writers' = writers + 1 /\ writers' \in 1 .. MaxWriters
          /\ \A w \in Writers :
               writer'[w].batch = writer[w].batch /\ writer'[w].last = writer[w].last
          /\ \A w \in Writers : w # writers' => writer'[w] = writer[w]
          /\ writer'[writers'].at = "loop" /\ writer[writers'] = Off
          /\ BatchesApart' /\ WritersAgree' /\ NothingLost'
      BY <1>1, <1>2, <2>2, WriterStarts
    <3>2. \A w \in Writers : Len(writer'[w].batch) <= BatchMax
      BY <3>1 DEF AuditInv, AuditTypeOK
    <3>3. writers' \in 0 .. MaxWriters /\ writers' \in Writers
      BY <3>1 DEF Writers
    <3>4. Queued' = Queued
      BY <1>1 DEF Queued
    <3>5. writers' = 1 => ~writer'[1].last /\ writer'[1].at # "ended"
      BY <3>1, <3>3 DEF Off
    <3>6. FirstStop'
      BY <1>1, <1>2, <1>4, <3>4, <3>5 DEF AuditInv, FirstStop
    <3> QED BY <3>1, <3>2, <3>3, <3>6
  <2> QED BY <1>1, <2>1, <2>2
<1>8. AuditTypeOK'
  BY <1>1, <1>2, <1>3, <1>7 DEF AuditInv, AuditTypeOK
<1> QED BY <1>1, <1>2, <1>3, <1>6, <1>7, <1>8, SinksKeep, QueueKeeps DEF AuditInv

LEMMA PutKeeps == ASSUME AuditInv, NEW r \in Recorders, Put(r) PROVE AuditInv'
<1>1. /\ rec[r].at = "put" /\ Done(r)
      /\ UNCHANGED <<store, writers, ctl, writer, rows, created, committed, mirrored, aged,
                     owed, faulted, expired, again>>
  BY DEF Put
<1>2. UNCHANGED <<made, holder, running, count>>
  BY <1>1 DEF store
<1>3. rec[r].event \in (1 .. created) \ accepted /\ rec[r].event \in AuditEvents
  <2>1. rec[r].event \in (1 .. created) \ accepted
    BY <1>1 DEF AuditInv, RequestsApart, UnderWay
  <2>2. created \in 0 .. MaxEvents /\ MaxEvents \in Nat
    BY AuditAssumption DEF AuditInv, AuditTypeOK
  <2> QED BY <2>1, <2>2 DEF AuditEvents
<1>4. \/ /\ HasRoom /\ queue' = Append(queue, rec[r].event)
         /\ accepted' = accepted \cup {rec[r].event}
      \/ UNCHANGED <<queue, accepted>>
  BY DEF Put
<1>5. /\ rec' \in [Recorders -> [at : {"idle", "get", "make", "start", "check", "put"},
                                 event : 0 .. MaxEvents]]
      /\ \A q \in Recorders : q # r => rec'[q] = rec[q]
      /\ rec'[r].at = "idle" /\ RequestsApart'
  BY <1>1, <1>4, RequestMoves DEF UnderWay
<1>6. OneMaker'
  BY <1>1, <1>2, <1>5 DEF AuditInv, OneMaker
<1>7. CASE UNCHANGED <<queue, accepted>>
  <2>1. AuditTypeOK'
    BY <1>1, <1>2, <1>5, <1>7 DEF AuditInv, AuditTypeOK
  <2> QED BY <1>1, <1>2, <1>5, <1>6, <1>7, <2>1, SinksKeep, QueueKeeps, HandsKeep, StopKeeps
        DEF AuditInv
<1>8. CASE /\ HasRoom /\ queue' = Append(queue, rec[r].event)
           /\ accepted' = accepted \cup {rec[r].event}
  <2> DEFINE e == rec[r].event
  <2>0. queue \in Seq(AuditEvents \cup {Sentinel}) /\ e \in AuditEvents \cup {Sentinel}
    BY <1>3 DEF AuditInv, AuditTypeOK
  <2>1. /\ queue' \in Seq(AuditEvents \cup {Sentinel}) /\ Len(queue') = Len(queue) + 1
        /\ Len(queue) \in Nat /\ Range(queue') = Range(queue) \cup {e}
        /\ \A i \in 1 .. Len(queue) : queue'[i] = queue[i]
        /\ queue'[Len(queue) + 1] = e
    BY <1>8, <2>0, RangeOfAppend
  <2>2. e # Sentinel
    BY <1>3, AuditAssumption DEF AuditEvents
  <2>3. Queued' = Queued \cup {e}
    BY <2>1, <2>2 DEF Queued
  <2>4. Len(queue') <= QueueMax
    BY <1>8, <2>1, AuditAssumption DEF HasRoom
  <2>5. accepted' \subseteq AuditEvents
    BY <1>3, <1>8 DEF AuditInv, AuditTypeOK
  <2>6. AuditTypeOK'
    BY <1>1, <1>2, <1>5, <2>1, <2>4, <2>5 DEF AuditInv, AuditTypeOK
  <2>7. e \notin Range(queue) /\ e \notin owed /\ e \notin committed
    BY <1>3, <2>2 DEF AuditInv, QueueApart, SinksApart, Queued
  <2>8. \A i \in 1 .. Len(queue) : queue[i] # e
    <3>1. DOMAIN queue = 1 .. Len(queue)
      BY <2>0, LenProperties
    <3> QED BY <2>7, <3>1 DEF Range
  <2>9. \A i \in 1 .. Len(queue') : i \in 1 .. Len(queue) \/ i = Len(queue) + 1
    BY <2>1
  <2>10. QueueApart'
    <3>1. Queued' \subseteq accepted' \ committed'
      BY <1>1, <1>8, <2>3, <2>7 DEF AuditInv, QueueApart
    <3>2. \A i, j \in 1 .. Len(queue') : queue'[i] = queue'[j] => i = j \/ queue'[i] = Sentinel
      BY <2>1, <2>8, <2>9 DEF AuditInv, QueueApart
    <3> QED BY <3>1, <3>2 DEF QueueApart
  <2>11. SinksApart'
    BY <1>1, <1>3, <1>8 DEF AuditInv, SinksApart
  <2>12. \A w \in Writers : Hands(w)' = Hands(w)
    BY <1>1 DEF Hands
  <2>13. BatchesApart'
    <3>1. \A w \in Writers : e \notin Hands(w)
      BY <1>3 DEF AuditInv, BatchesApart
    <3> QED BY <1>1, <1>8, <2>3, <2>12, <3>1 DEF AuditInv, BatchesApart
  <2>14. NothingLost'
    BY <1>1, <1>8, <2>3, <2>12 DEF AuditInv, NothingLost
  <2>15. WritersAgree'
    BY <1>1 DEF AuditInv, WritersAgree
  <2>16. FirstStop'
    <3>1. Sentinel \in Range(queue') => Sentinel \in Range(queue)
      BY <2>1, <2>2
    <3>2. ~again => \A i, j \in 1 .. Len(queue') : i < j /\ queue'[i] = Sentinel => queue'[j] \notin owed
      <4>1. ASSUME ~again, NEW i \in 1 .. Len(queue'), NEW j \in 1 .. Len(queue'), i < j,
                   queue'[i] = Sentinel
            PROVE  queue'[j] \notin owed
        <5>1. i \in 1 .. Len(queue)
          BY <2>1, <2>9, <4>1
        <5>2. CASE j = Len(queue) + 1
          BY <2>1, <2>7, <5>2
        <5>3. CASE j \in 1 .. Len(queue)
          BY <2>1, <4>1, <5>1, <5>3 DEF AuditInv, FirstStop
        <5> QED BY <2>9, <5>2, <5>3
      <4> QED BY <4>1
    <3>3. owed \cap Queued' = owed \cap Queued
      BY <2>3, <2>7
    <3> QED BY <1>1, <3>1, <3>2, <3>3 DEF AuditInv, FirstStop
  <2> QED BY <1>1, <1>2, <1>5, <1>6, <2>6, <2>10, <2>11, <2>13, <2>14, <2>15, <2>16, SinksKeep
        DEF AuditInv
<1> QED BY <1>4, <1>7, <1>8

-----------------------------------------------------------------------------
LEMMA StopBegins == ASSUME AuditInv, Stop PROVE AuditInv'
<1>1. /\ ctl = "up" /\ made /\ running /\ running' = FALSE /\ ctl' = "signal" /\ owed' = accepted
      /\ UNCHANGED <<made, holder, count, queue, writers, rec, writer, rows, created, accepted,
                     committed, mirrored, aged, faulted, expired, again>>
  BY DEF Stop
<1>2. AuditTypeOK'
  BY <1>1 DEF AuditInv, AuditTypeOK
<1>3. RequestsApart' /\ QueueApart' /\ SinksApart'
  BY <1>1 DEF AuditInv, RequestsApart, UnderWay, QueueApart, SinksApart, Queued
<1>4. OneMaker'
  BY <1>1 DEF AuditInv, OneMaker
<1>5. FirstStop'
  <2>1. ~again => Sentinel \notin Range(queue)
    BY <1>1 DEF AuditInv, FirstStop
  <2>2. \A i \in 1 .. Len(queue) : queue[i] \in Range(queue)
    BY LenProperties DEF AuditInv, AuditTypeOK, Range
  <2>3. ~again /\ ~faulted /\ writers = 1 => ~writer[1].last /\ writer[1].at # "ended"
    BY <1>1 DEF AuditInv, FirstStop
  <2> QED BY <1>1, <2>1, <2>2, <2>3 DEF FirstStop
<1> QED BY <1>1, <1>2, <1>3, <1>4, <1>5, SinksKeep, HandsKeep DEF AuditInv

LEMMA StopSignalsKeeps == ASSUME AuditInv, StopSignals PROVE AuditInv'
<1>1. /\ ctl = "signal" /\ HasRoom /\ queue' = Append(queue, Sentinel) /\ ctl' = "join"
      /\ UNCHANGED <<store, writers, rec, writer, rows, created, auditPast>>
  BY DEF StopSignals
<1>2. UNCHANGED <<made, holder, running, count, writers, rec, writer, rows, created, accepted,
                  committed, mirrored, aged, owed, faulted, expired, again>>
  BY <1>1 DEF store, auditPast
<1>3. /\ queue' \in Seq(AuditEvents \cup {Sentinel}) /\ Len(queue') = Len(queue) + 1
      /\ Len(queue) \in Nat /\ Range(queue') = Range(queue) \cup {Sentinel}
      /\ \A i \in 1 .. Len(queue) : queue'[i] = queue[i]
      /\ queue'[Len(queue) + 1] = Sentinel
  <2>1. queue \in Seq(AuditEvents \cup {Sentinel}) /\ Sentinel \in AuditEvents \cup {Sentinel}
    BY DEF AuditInv, AuditTypeOK
  <2> QED BY <1>1, <2>1, RangeOfAppend
<1>4. Queued' = Queued
  BY <1>3 DEF Queued
<1>5. Len(queue') <= QueueMax
  BY <1>1, <1>3, AuditAssumption DEF HasRoom
<1>6. AuditTypeOK'
  BY <1>1, <1>2, <1>3, <1>5 DEF AuditInv, AuditTypeOK
<1>7. \A i \in 1 .. Len(queue') : i \in 1 .. Len(queue) \/ i = Len(queue) + 1
  BY <1>3
<1>8. QueueApart'
  <2>1. ASSUME NEW i \in 1 .. Len(queue'), NEW j \in 1 .. Len(queue'), queue'[i] = queue'[j]
        PROVE  i = j \/ queue'[i] = Sentinel
    BY <1>3, <1>7, <2>1 DEF AuditInv, QueueApart
  <2> QED BY <1>2, <1>4, <2>1 DEF AuditInv, QueueApart
<1>9. RequestsApart' /\ SinksApart' /\ OneMaker'
  BY <1>1, <1>2 DEF AuditInv, RequestsApart, UnderWay, SinksApart, OneMaker
<1>10. BatchesApart' /\ WritersAgree' /\ NothingLost'
  BY <1>2, <1>4 DEF AuditInv, BatchesApart, WritersAgree, NothingLost, Hands
<1>11. FirstStop'
  <2>1. Sentinel \notin owed
    <3>1. Sentinel \notin AuditEvents
      BY AuditAssumption DEF AuditEvents
    <3>2. owed \subseteq AuditEvents
      BY DEF AuditInv, AuditTypeOK
    <3> QED BY <3>1, <3>2
  <2>2. ASSUME ~again, NEW i \in 1 .. Len(queue'), NEW j \in 1 .. Len(queue'), i < j,
               queue'[i] = Sentinel
        PROVE  queue'[j] \notin owed
    <3>1. CASE j = Len(queue) + 1
      BY <1>3, <2>1, <3>1
    <3>2. CASE j \in 1 .. Len(queue)
      <4>1. i \in 1 .. Len(queue)
        BY <1>3, <2>2, <3>2
      <4> QED BY <1>3, <2>2, <3>2, <4>1 DEF AuditInv, FirstStop
    <3> QED BY <1>7, <3>1, <3>2
  <2>3. ~again /\ ~faulted /\ writers = 1 =>
          (writer[1].last \/ writer[1].at = "ended" => owed \cap Queued = {})
    BY DEF AuditInv, FirstStop
  <2> QED BY <1>1, <1>2, <1>4, <2>2, <2>3 DEF FirstStop
<1> QED BY <1>2, <1>6, <1>8, <1>9, <1>10, <1>11, SinksKeep DEF AuditInv

LEMMA StopEndsKeeps == ASSUME AuditInv, StopJoins \/ StopGivesUp PROVE AuditInv'
<1>1. /\ ctl = "join" /\ ctl' = "down"
      /\ UNCHANGED <<store, queue, writers, rec, writer, rows, created, accepted, committed,
                     mirrored, aged, owed, faulted, again>>
      /\ expired' = TRUE \/ (expired' = expired /\ ~WriterLives)
  BY DEF StopJoins, StopGivesUp, auditPast
<1>2. UNCHANGED <<made, holder, running, count>>
  BY <1>1 DEF store
<1>3. AuditTypeOK'
  BY <1>1, <1>2 DEF AuditInv, AuditTypeOK
<1>4. RequestsApart' /\ OneMaker'
  BY <1>1, <1>2 DEF AuditInv, RequestsApart, UnderWay, OneMaker
<1>5. FirstStop'
  <2>1. writers = 1 => 1 \in Writers
    BY AuditAssumption DEF AuditInv, AuditTypeOK, Writers
  <2>2. ~WriterLives /\ writers = 1 => writer[1].at = "ended"
    BY <2>1 DEF WriterLives
  <2> QED BY <1>1, <2>2 DEF AuditInv, FirstStop, Queued
<1> QED BY <1>1, <1>2, <1>3, <1>4, <1>5, SinksKeep, QueueKeeps, HandsKeep DEF AuditInv

LEMMA StartAgainKeeps == ASSUME AuditInv, StartAgain PROVE AuditInv'
<1>1. /\ ctl = "down" /\ ctl' = "up" /\ (StartOk \/ StartRaises) /\ again' = TRUE
      /\ running' = TRUE
      /\ UNCHANGED <<made, holder, count, queue, rec, rows, created, accepted, committed,
                     mirrored, aged, owed, faulted, expired>>
  BY DEF StartAgain, StartOk, StartRaises
<1>2. /\ writers' \in 0 .. MaxWriters
      /\ writer' \in [Writers -> [at : {"off", "loop", "commit", "mirror", "ended"},
                                  batch : Seq(AuditEvents), last : BOOLEAN]]
      /\ \A w \in Writers : Len(writer'[w].batch) <= BatchMax
      /\ BatchesApart' /\ WritersAgree' /\ NothingLost'
  <2>1. CASE StartRaises
    <3>1. UNCHANGED <<writers, writer>>
      BY <2>1 DEF StartRaises
    <3> QED BY <1>1, <3>1, HandsKeep DEF AuditInv, AuditTypeOK
  <2>2. CASE StartOk
    <3>1. /\ writer' \in [Writers -> [at : {"off", "loop", "commit", "mirror", "ended"},
                                      batch : Seq(AuditEvents), last : BOOLEAN]]
          /\ writers' \in 1 .. MaxWriters
          /\ \A w \in Writers : writer'[w].batch = writer[w].batch
          /\ BatchesApart' /\ WritersAgree' /\ NothingLost'
      BY <1>1, <2>2, WriterStarts
    <3>2. \A w \in Writers : Len(writer'[w].batch) <= BatchMax
      BY <3>1 DEF AuditInv, AuditTypeOK
    <3> QED BY <3>1, <3>2
  <2> QED BY <1>1, <2>1, <2>2
<1>3. AuditTypeOK'
  BY <1>1, <1>2 DEF AuditInv, AuditTypeOK
<1>4. RequestsApart' /\ OneMaker'
  BY <1>1 DEF AuditInv, RequestsApart, UnderWay, OneMaker
<1>5. FirstStop'
  BY <1>1 DEF FirstStop
<1> QED BY <1>1, <1>2, <1>3, <1>4, <1>5, SinksKeep, QueueKeeps DEF AuditInv

-----------------------------------------------------------------------------
(***************************************************************************)
(* A writer at work goes on to another state.                              *)
(***************************************************************************)
LEMMA WriterMoves ==
  ASSUME AuditInv, NEW w \in Writers, writer[w].at \in {"loop", "commit", "mirror"},
         UNCHANGED writers,
         NEW new \in [at : {"loop", "commit", "mirror", "ended"}, batch : Seq(AuditEvents),
                      last : BOOLEAN],
         Len(new.batch) <= BatchMax, new.at = "ended" => new.batch = <<>>,
         new.at = "loop" => Len(new.batch) < BatchMax,
         writer' = [writer EXCEPT ![w] = new]
  PROVE  /\ writer'[w] = new /\ \A v \in Writers : v # w => writer'[v] = writer[v]
         /\ writer' \in [Writers -> [at : {"off", "loop", "commit", "mirror", "ended"},
                                     batch : Seq(AuditEvents), last : BOOLEAN]]
         /\ \A v \in Writers : Len(writer'[v].batch) <= BatchMax
         /\ WritersAgree' /\ w <= writers /\ writers > 0 /\ (writers = 1 => w = 1)
<1>1. writer \in [Writers -> [at : {"off", "loop", "commit", "mirror", "ended"},
                              batch : Seq(AuditEvents), last : BOOLEAN]]
  BY DEF AuditInv, AuditTypeOK
<1>2. writer'[w] = new /\ \A v \in Writers : v # w => writer'[v] = writer[v]
  BY <1>1
<1>3. writer' \in [Writers -> [at : {"off", "loop", "commit", "mirror", "ended"},
                               batch : Seq(AuditEvents), last : BOOLEAN]]
  BY <1>1
<1>4. \A v \in Writers : Len(writer'[v].batch) <= BatchMax
  BY <1>2 DEF AuditInv, AuditTypeOK
<1>5. ~(w > writers)
  BY DEF AuditInv, WritersAgree, Off
<1>6. w <= writers /\ writers > 0 /\ (writers = 1 => w = 1)
  <2>1. writers \in Nat /\ w \in Nat \ {0}
    BY AuditAssumption DEF AuditInv, AuditTypeOK, Writers
  <2> QED BY <1>5, <2>1
<1>7. WritersAgree'
  BY <1>2, <1>5 DEF AuditInv, WritersAgree
<1> QED BY <1>2, <1>3, <1>4, <1>6, <1>7

(***************************************************************************)
(* What is left of the queue when its head is taken.                       *)
(***************************************************************************)
LEMMA QueueShortens ==
  ASSUME AuditInv, queue # <<>>, queue' = Tail(queue),
         UNCHANGED <<created, accepted, committed, mirrored, owed>>
  PROVE  /\ queue' \in Seq(AuditEvents \cup {Sentinel}) /\ Len(queue') <= QueueMax
         /\ Head(queue) \in AuditEvents \cup {Sentinel}
         /\ Range(queue) = {Head(queue)} \cup Range(queue')
         /\ Head(queue) # Sentinel => Head(queue) \notin Range(queue')
         /\ QueueApart' /\ SinksApart'
         /\ ~again /\ Head(queue) = Sentinel => owed \cap Queued' = {}
         /\ ~again => \A i, j \in 1 .. Len(queue') :
                        i < j /\ queue'[i] = Sentinel => queue'[j] \notin owed
<1>1. queue \in Seq(AuditEvents \cup {Sentinel}) /\ Len(queue) <= QueueMax /\ QueueMax \in Nat
  BY AuditAssumption DEF AuditInv, AuditTypeOK
<1>2. /\ queue' \in Seq(AuditEvents \cup {Sentinel})
      /\ Len(queue) \in Nat \ {0} /\ Len(queue') = Len(queue) - 1
      /\ Head(queue) = queue[1] /\ Head(queue) \in AuditEvents \cup {Sentinel}
      /\ \A i \in 1 .. (Len(queue) - 1) : queue'[i] = queue[i + 1]
      /\ Range(queue) = {Head(queue)} \cup Range(queue')
  BY <1>1, RangeOfTail
<1>3. Len(queue') <= QueueMax
  BY <1>1, <1>2
<1>4. \A i \in 1 .. Len(queue') : i + 1 \in 2 .. Len(queue) /\ queue'[i] = queue[i + 1]
  BY <1>2
<1>5. ASSUME NEW x \in Range(queue') PROVE \E i \in 2 .. Len(queue) : x = queue[i]
  <2>1. DOMAIN queue' = 1 .. Len(queue')
    BY <1>2, LenProperties
  <2>2. PICK i \in 1 .. Len(queue') : x = queue'[i]
    BY <1>5, <2>1 DEF Range
  <2> QED BY <1>4, <2>2
<1>6. 1 \in 1 .. Len(queue) /\ \A i \in 2 .. Len(queue) : i \in 1 .. Len(queue) /\ i # 1 /\ 1 < i
  BY <1>2
<1>7. Head(queue) # Sentinel => Head(queue) \notin Range(queue')
  BY <1>2, <1>5, <1>6 DEF AuditInv, QueueApart
<1>8. QueueApart'
  <2>1. Queued' \subseteq Queued
    BY <1>2 DEF Queued
  <2>2. ASSUME NEW i \in 1 .. Len(queue'), NEW j \in 1 .. Len(queue'), queue'[i] = queue'[j]
        PROVE  i = j \/ queue'[i] = Sentinel
    <3>1. /\ i + 1 \in 1 .. Len(queue) /\ j + 1 \in 1 .. Len(queue)
          /\ queue[i + 1] = queue[j + 1]
      BY <1>4, <1>6, <2>2
    <3>2. i + 1 = j + 1 \/ queue[i + 1] = Sentinel
      BY <3>1 DEF AuditInv, QueueApart
    <3> QED BY <1>4, <3>2
  <2> QED BY <2>1, <2>2 DEF AuditInv, QueueApart
<1>9. SinksApart'
  BY DEF AuditInv, SinksApart
<1>10. ~again /\ Head(queue) = Sentinel => owed \cap Queued' = {}
  <2>1. ASSUME ~again, Head(queue) = Sentinel, NEW x \in Range(queue') PROVE x \notin owed
    BY <1>2, <1>5, <1>6, <2>1 DEF AuditInv, FirstStop
  <2> QED BY <2>1 DEF Queued
<1>11. ~again => \A i, j \in 1 .. Len(queue') :
                   i < j /\ queue'[i] = Sentinel => queue'[j] \notin owed
  <2>1. ASSUME ~again, NEW i \in 1 .. Len(queue'), NEW j \in 1 .. Len(queue'), i < j,
               queue'[i] = Sentinel
        PROVE  queue'[j] \notin owed
    <3>1. /\ i + 1 \in 1 .. Len(queue) /\ j + 1 \in 1 .. Len(queue) /\ i + 1 < j + 1
          /\ queue[i + 1] = Sentinel /\ queue'[j] = queue[j + 1]
      BY <1>4, <1>6, <2>1
    <3> QED BY <2>1, <3>1 DEF AuditInv, FirstStop
  <2> QED BY <2>1
<1> QED BY <1>2, <1>3, <1>7, <1>8, <1>9, <1>10, <1>11

(***************************************************************************)
(* The writer's last batch is flushed before it ends.                      *)
(***************************************************************************)
LEMMA LastBatch ==
  ASSUME AuditInv, NEW w \in Writers, writer[w].at = "loop"
  PROVE  LET new == Ended(writer[w].batch)
         IN  /\ new \in [at : {"loop", "commit", "mirror", "ended"}, batch : Seq(AuditEvents),
                         last : BOOLEAN]
             /\ new.at \in {"commit", "ended"} /\ new.batch = writer[w].batch /\ new.last
             /\ Len(new.batch) <= BatchMax
             /\ new.at = "ended" => new.batch = <<>>
BY DEF Ended, AuditInv, AuditTypeOK

(***************************************************************************)
(* A writer keeps its batch and goes on to flush it.                       *)
(***************************************************************************)
LEMMA BatchStays ==
  ASSUME AuditInv, NEW w \in Writers, writer[w].at = "loop",
         UNCHANGED <<accepted, committed, mirrored, faulted>>, Queued' \subseteq Queued,
         Queued \subseteq Queued',
         writer'[w].at \in {"commit", "ended"}, writer'[w].batch = writer[w].batch,
         \A v \in Writers : v # w => writer'[v] = writer[v]
  PROVE  BatchesApart' /\ NothingLost'
<1>1. \A v \in Writers : Hands(v)' = Hands(v) /\ writer'[v].batch = writer[v].batch
  BY DEF Hands
<1>2. Queued' = Queued
  OBVIOUS
<1>3. NothingLost'
  BY <1>1, <1>2 DEF AuditInv, NothingLost
<1>4. \A v \in Writers :
        /\ writer'[v].at \in {"loop", "commit"} => writer[v].at \in {"loop", "commit"}
        /\ writer'[v].at = "mirror" => writer[v].at = "mirror"
  OBVIOUS
<1>5. BatchesApart'
  BY <1>1, <1>2, <1>4 DEF AuditInv, BatchesApart
<1> QED BY <1>3, <1>5

LEMMA TakeKeeps == ASSUME AuditInv, NEW w \in Writers, Take(w) PROVE AuditInv'
<1>1. /\ writer[w].at = "loop" /\ queue # <<>> /\ queue' = Tail(queue)
      /\ UNCHANGED <<store, writers, rec, ctl, rows, created, auditPast>>
  BY DEF Take
<1>2. UNCHANGED <<made, holder, running, count, writers, rec, ctl, rows, created, accepted,
                  committed, mirrored, aged, owed, faulted, expired, again>>
  BY <1>1 DEF store, auditPast
<1>3. /\ queue' \in Seq(AuditEvents \cup {Sentinel}) /\ Len(queue') <= QueueMax
      /\ Head(queue) \in AuditEvents \cup {Sentinel}
      /\ Range(queue) = {Head(queue)} \cup Range(queue')
      /\ Head(queue) # Sentinel => Head(queue) \notin Range(queue')
      /\ QueueApart' /\ SinksApart'
      /\ ~again /\ Head(queue) = Sentinel => owed \cap Queued' = {}
      /\ ~again => \A i, j \in 1 .. Len(queue') :
                     i < j /\ queue'[i] = Sentinel => queue'[j] \notin owed
  BY <1>1, <1>2, QueueShortens
<1>4. RequestsApart' /\ OneMaker'
  BY <1>2 DEF AuditInv, RequestsApart, UnderWay, OneMaker
<1>5. CASE Head(queue) = Sentinel
  <2> DEFINE new == Ended(writer[w].batch)
  <2>1. writer' = [writer EXCEPT ![w] = new]
    BY <1>5 DEF Take
  <2>2. /\ new \in [at : {"loop", "commit", "mirror", "ended"}, batch : Seq(AuditEvents),
                    last : BOOLEAN]
        /\ new.at \in {"commit", "ended"} /\ new.batch = writer[w].batch /\ new.last
        /\ Len(new.batch) <= BatchMax /\ (new.at = "ended" => new.batch = <<>>)
    BY <1>1, LastBatch
  <2> HIDE DEF new
  <2>3. /\ writer'[w] = new /\ \A v \in Writers : v # w => writer'[v] = writer[v]
        /\ writer' \in [Writers -> [at : {"off", "loop", "commit", "mirror", "ended"},
                                    batch : Seq(AuditEvents), last : BOOLEAN]]
        /\ \A v \in Writers : Len(writer'[v].batch) <= BatchMax
        /\ WritersAgree' /\ w <= writers /\ writers > 0 /\ (writers = 1 => w = 1)
    BY <1>1, <1>2, <2>1, <2>2, WriterMoves
  <2>4. Queued' = Queued
    BY <1>3, <1>5 DEF Queued
  <2>5. BatchesApart' /\ NothingLost'
    BY <1>1, <1>2, <2>2, <2>3, <2>4, BatchStays
  <2>6. AuditTypeOK'
    BY <1>2, <1>3, <2>3 DEF AuditInv, AuditTypeOK
  <2>7. FirstStop'
    <3>1. Sentinel \in Range(queue)
      BY <1>3, <1>5
    <3>2. ~again => ctl # "up" /\ ctl \in {"join", "down"}
      BY <3>1 DEF AuditInv, FirstStop
    <3>3. ~again /\ ~faulted /\ writers = 1 => ~(ctl = "down" /\ ~expired)
      BY <1>1, <2>3 DEF AuditInv, FirstStop
    <3> QED BY <1>2, <1>3, <1>5, <3>2, <3>3 DEF FirstStop
  <2> QED BY <1>2, <1>3, <1>4, <2>3, <2>5, <2>6, <2>7, SinksKeep DEF AuditInv
<1>6. CASE Head(queue) # Sentinel
  <2> DEFINE e == Head(queue)
             b == writer[w].batch
  <2>1. PICK s \in Due(Append(b, e)) :
          writer' = [writer EXCEPT ![w].at = s, ![w].batch = Append(b, e)]
    BY <1>6 DEF Take
  <2>2. /\ b \in Seq(AuditEvents) /\ Len(b) < BatchMax /\ e \in AuditEvents
        /\ IsInjective(b) /\ writer[w].last \in BOOLEAN
    BY <1>1, <1>3, <1>6 DEF AuditInv, AuditTypeOK, WritersAgree, BatchesApart
  <2>3. /\ Append(b, e) \in Seq(AuditEvents) /\ Len(Append(b, e)) = Len(b) + 1 /\ Len(b) \in Nat
        /\ Range(Append(b, e)) = Range(b) \cup {e}
        /\ \A i \in 1 .. Len(b) : Append(b, e)[i] = b[i]
        /\ Append(b, e)[Len(b) + 1] = e
    BY <2>2, RangeOfAppend
  <2>4. /\ s \in {"commit", "loop"} /\ Len(Append(b, e)) <= BatchMax
        /\ s = "loop" => Len(Append(b, e)) < BatchMax
    BY <2>1, <2>2, <2>3, AuditAssumption DEF Due
  <2> DEFINE new == [at |-> s, batch |-> Append(b, e), last |-> writer[w].last]
  <2>5. writer' = [writer EXCEPT ![w] = new]
    BY <2>1 DEF AuditInv, AuditTypeOK
  <2>6. new \in [at : {"loop", "commit", "mirror", "ended"}, batch : Seq(AuditEvents),
                 last : BOOLEAN]
    BY <2>2, <2>3, <2>4
  <2>7. /\ writer'[w] = new /\ \A v \in Writers : v # w => writer'[v] = writer[v]
        /\ writer' \in [Writers -> [at : {"off", "loop", "commit", "mirror", "ended"},
                                    batch : Seq(AuditEvents), last : BOOLEAN]]
        /\ \A v \in Writers : Len(writer'[v].batch) <= BatchMax
        /\ WritersAgree' /\ w <= writers /\ writers > 0 /\ (writers = 1 => w = 1)
    BY <1>1, <1>2, <2>4, <2>5, <2>6, WriterMoves
  <2>8. AuditTypeOK'
    BY <1>2, <1>3, <2>7 DEF AuditInv, AuditTypeOK
  <2>9. Queued = Queued' \cup {e} /\ e \notin Queued' /\ e \in accepted \ committed
    BY <1>3, <1>6 DEF Queued, AuditInv, QueueApart
  <2>10. e \notin committed /\ \A v \in Writers : e \notin Hands(v)
    BY <2>9 DEF AuditInv, BatchesApart
  <2>11. /\ Hands(w)' = Hands(w) \cup {e}
         /\ \A v \in Writers : v # w => Hands(v)' = Hands(v)
    BY <2>3, <2>7 DEF Hands
  <2>12. IsInjective(Append(b, e))
    <3>1. DOMAIN b = 1 .. Len(b) /\ DOMAIN Append(b, e) = 1 .. (Len(b) + 1)
      BY <2>2, <2>3, LenProperties
    <3>2. \A i \in 1 .. Len(b) : b[i] # e
      BY <2>10, <3>1 DEF Hands, Range
    <3>3. \A i \in 1 .. (Len(b) + 1) : i \in 1 .. Len(b) \/ i = Len(b) + 1
      BY <2>3
    <3> QED BY <2>2, <2>3, <3>1, <3>2, <3>3 DEF IsInjective
  <2>13. BatchesApart'
    <3>1. ASSUME NEW v \in Writers
          PROVE  /\ Hands(v)' \subseteq accepted' /\ Hands(v)' \cap Queued' = {}
                 /\ writer'[v].at \in {"loop", "commit"} => Hands(v)' \cap committed' = {}
                 /\ writer'[v].at = "mirror" => Hands(v)' \subseteq committed' \ mirrored'
                 /\ IsInjective(writer'[v].batch)
      <4>1. CASE v # w
        BY <1>2, <2>7, <2>9, <2>11, <4>1 DEF AuditInv, BatchesApart
      <4>2. CASE v = w
        <5>1. /\ Hands(w) \subseteq accepted /\ Hands(w) \cap Queued = {}
              /\ Hands(w) \cap committed = {}
          BY <1>1 DEF AuditInv, BatchesApart
        <5>2. writer'[w].at \in {"commit", "loop"} /\ writer'[w].batch = Append(b, e)
          BY <2>4, <2>7
        <5>3. /\ Hands(w)' \subseteq accepted' /\ Hands(w)' \cap Queued' = {}
              /\ Hands(w)' \cap committed' = {}
          BY <1>2, <2>9, <2>11, <5>1
        <5> QED BY <2>12, <4>2, <5>2, <5>3
      <4> QED BY <4>1, <4>2
    <3>2. \A u, v \in Writers : u # v => Hands(u)' \cap Hands(v)' = {}
      BY <2>10, <2>11 DEF AuditInv, BatchesApart
    <3> QED BY <3>1, <3>2 DEF BatchesApart
  <2>14. NothingLost'
    BY <1>2, <2>9, <2>11 DEF AuditInv, NothingLost
  <2>15. FirstStop'
    <3>1. Sentinel \in Range(queue') => Sentinel \in Range(queue)
      BY <1>3
    <3>2. Queued' \subseteq Queued
      BY <2>9
    <3>3. writers = 1 => writer'[1].last = writer[1].last /\ writer'[1].at # "ended"
                         /\ writer[1].at = "loop"
      BY <1>1, <2>4, <2>7
    <3> QED BY <1>2, <1>3, <3>1, <3>2, <3>3 DEF AuditInv, FirstStop
  <2> QED BY <1>2, <1>3, <1>4, <2>7, <2>8, <2>13, <2>14, <2>15, SinksKeep DEF AuditInv
<1> QED BY <1>5, <1>6

LEMMA LeaveKeeps ==
  ASSUME AuditInv, NEW w \in Writers, WaitEnds(w) \/ Leave(w) PROVE AuditInv'
<1>1. /\ writer[w].at = "loop" /\ queue = <<>>
      /\ UNCHANGED <<store, queue, writers, rec, ctl, rows, created, auditPast>>
  BY DEF WaitEnds, Leave
<1>2. UNCHANGED <<made, holder, running, count, queue, writers, rec, ctl, rows, created, accepted,
                  committed, mirrored, aged, owed, faulted, expired, again>>
  BY <1>1 DEF store, auditPast
<1> DEFINE new == IF running THEN [at |-> "commit", batch |-> writer[w].batch,
                                   last |-> writer[w].last]
                  ELSE Ended(writer[w].batch)
<1>3. writer' = [writer EXCEPT ![w] = new]
  BY DEF WaitEnds, Leave, AuditInv, AuditTypeOK
<1>4. /\ new \in [at : {"loop", "commit", "mirror", "ended"}, batch : Seq(AuditEvents),
                  last : BOOLEAN]
      /\ new.at \in {"commit", "ended"} /\ new.batch = writer[w].batch
      /\ running => new.last = writer[w].last /\ new.at = "commit"
      /\ Len(new.batch) <= BatchMax /\ (new.at = "ended" => new.batch = <<>>)
  <2>1. CASE running
    BY <2>1 DEF AuditInv, AuditTypeOK
  <2>2. CASE ~running
    BY <1>1, <2>2, LastBatch
  <2> QED BY <2>1, <2>2
<1> HIDE DEF new
<1>5. /\ writer'[w] = new /\ \A v \in Writers : v # w => writer'[v] = writer[v]
      /\ writer' \in [Writers -> [at : {"off", "loop", "commit", "mirror", "ended"},
                                  batch : Seq(AuditEvents), last : BOOLEAN]]
      /\ \A v \in Writers : Len(writer'[v].batch) <= BatchMax
      /\ WritersAgree' /\ w <= writers /\ writers > 0 /\ (writers = 1 => w = 1)
  BY <1>1, <1>2, <1>3, <1>4, WriterMoves
<1>6. Queued' = Queued
  BY <1>2 DEF Queued
<1>7. BatchesApart' /\ NothingLost'
  BY <1>1, <1>2, <1>4, <1>5, <1>6, BatchStays
<1>8. AuditTypeOK'
  BY <1>2, <1>5 DEF AuditInv, AuditTypeOK
<1>9. RequestsApart' /\ OneMaker'
  BY <1>2 DEF AuditInv, RequestsApart, UnderWay, OneMaker
<1>10. FirstStop'
  <2>1. Queued = {}
    BY <1>1, EmptyRange DEF Queued
  <2>2. ~faulted /\ ~running => ctl # "up"
    BY <1>5 DEF AuditInv, OneMaker
  <2>3. ~again /\ ~faulted /\ writers = 1 => ~(ctl = "down" /\ ~expired)
    BY <1>1, <1>5 DEF AuditInv, FirstStop
  <2> QED BY <1>2, <1>4, <1>5, <1>6, <2>1, <2>2, <2>3 DEF AuditInv, FirstStop
<1> QED BY <1>2, <1>5, <1>7, <1>8, <1>9, <1>10, SinksKeep, QueueKeeps DEF AuditInv

-----------------------------------------------------------------------------
(***************************************************************************)
(* Retention: what it deletes was old, or there was enough after it.       *)
(***************************************************************************)
LEMMA MaxOfTwo ==
  ASSUME NEW a \in Nat, NEW b \in Nat
  PROVE  Max({a, b}) \in {a, b} /\ a <= Max({a, b}) /\ b <= Max({a, b})
<1>1. \E x \in {a, b} : \A y \in {a, b} : x >= y
  <2>1. CASE a >= b
    BY <2>1
  <2>2. CASE b >= a
    BY <2>2
  <2> QED BY <2>1, <2>2
<1>2. Max({a, b}) \in {a, b} /\ \A y \in {a, b} : Max({a, b}) >= y
  BY <1>1, Zenon DEF Max
<1> QED BY <1>2

LEMMA RetentionKeeps ==
  ASSUME AuditInv, Retain(rows), UNCHANGED <<committed, created>>
  PROVE  rows' \subseteq committed' /\ aged' \in 0 .. MaxEvents /\ RecentStays'
<1>1. /\ rows \subseteq committed /\ committed \subseteq AuditEvents /\ aged \in 0 .. MaxEvents
      /\ created \in 0 .. MaxEvents /\ MaxEvents \in Nat
  BY AuditAssumption DEF AuditInv, AuditTypeOK
<1>2. CASE rows' = rows /\ UNCHANGED aged
  BY <1>1, <1>2 DEF AuditInv, RecentStays
<1>3. ASSUME NEW old \in 0 .. created, rows' = Newest({e \in rows : e > old}),
             aged' = Max({aged, old})
      PROVE  rows' \subseteq committed' /\ aged' \in 0 .. MaxEvents /\ RecentStays'
  <2>1. aged' \in {aged, old} /\ aged <= aged' /\ old <= aged'
    <3>1. aged \in Nat /\ old \in Nat
      BY <1>1
    <3> QED BY <1>3, <3>1, MaxOfTwo
  <2>2. aged' \in 0 .. MaxEvents
    BY <1>1, <2>1
  <2>3. rows' \subseteq rows
    BY <1>3 DEF Newest
  <2>4. ASSUME NEW e \in committed, e \notin rows'
        PROVE  e <= aged' \/ Cardinality({f \in committed : f > e}) >= MaxRows
    <3>1. CASE e \notin rows
      <4>1. e <= aged \/ Cardinality({f \in committed : f > e}) >= MaxRows
        BY <3>1 DEF AuditInv, RecentStays
      <4>2. e \in Nat /\ aged \in Nat /\ aged' \in Nat
        BY <1>1, <2>1 DEF AuditEvents
      <4> QED BY <2>1, <4>1, <4>2
    <3>2. CASE e \in rows /\ e <= old
      <4>1. e \in Nat /\ old \in Nat /\ aged' \in Nat
        BY <1>1, <2>1 DEF AuditEvents
      <4> QED BY <2>1, <3>2, <4>1
    <3>3. CASE e \in rows /\ ~(e <= old)
      <4> DEFINE young == {f \in rows : f > old}
                 later == {f \in young : f > e}
                 newer == {f \in committed : f > e}
      <4>1. e \in young
        <5>1. e \in Nat /\ old \in Nat
          BY <1>1 DEF AuditEvents
        <5> QED BY <3>3, <5>1
      <4>2. ~(Cardinality(later) < MaxRows)
        BY <1>3, <2>4, <4>1 DEF Newest
      <4>3. later \in SUBSET newer /\ newer \subseteq AuditEvents
        BY <1>1
      <4> HIDE DEF young, later, newer
      <4>4. IsFiniteSet(newer) /\ Cardinality(newer) \in Nat
        BY <4>3, EventSetsFinite
      <4>5. Cardinality(later) \in Nat /\ Cardinality(later) <= Cardinality(newer)
        BY <4>3, <4>4, FS_Subset, FS_CardinalityType
      <4>6. MaxRows \in Nat
        BY AuditAssumption
      <4>7. Cardinality(newer) >= MaxRows
        BY <4>2, <4>4, <4>5, <4>6
      <4> QED BY <4>7 DEF newer
    <3> QED BY <3>1, <3>2, <3>3
  <2>5. RecentStays'
    BY <2>4 DEF RecentStays
  <2> QED BY <1>1, <2>2, <2>3, <2>5
<1> QED BY <1>2, <1>3 DEF Retain

LEMMA CommitKeeps == ASSUME AuditInv, NEW w \in Writers, Commit(w) PROVE AuditInv'
<1> DEFINE new == [at |-> "mirror", batch |-> writer[w].batch, last |-> writer[w].last]
<1>1. /\ writer[w].at = "commit" /\ rows' = rows \cup Hands(w) /\ committed' = committed \cup Hands(w)
      /\ writer' = [writer EXCEPT ![w] = new]
      /\ UNCHANGED <<made, holder, running, count, queue, writers, rec, ctl, created, accepted,
                     mirrored, aged, owed, faulted, expired, again>>
  <2>1. writer' = [writer EXCEPT ![w].at = "mirror"]
    BY DEF Commit
  <2>2. writer \in [Writers -> [at : {"off", "loop", "commit", "mirror", "ended"},
                                batch : Seq(AuditEvents), last : BOOLEAN]]
    BY DEF AuditInv, AuditTypeOK
  <2>3. [writer[w] EXCEPT !.at = "mirror"] = new
    BY <2>2
  <2>4. writer' = [writer EXCEPT ![w] = new]
    BY <2>1, <2>3, Zenon
  <2> QED BY <2>4 DEF Commit, Hands, store
<1>2. /\ new \in [at : {"loop", "commit", "mirror", "ended"}, batch : Seq(AuditEvents),
                  last : BOOLEAN]
      /\ Len(new.batch) <= BatchMax
  BY DEF AuditInv, AuditTypeOK
<1>3. /\ writer'[w] = new /\ \A v \in Writers : v # w => writer'[v] = writer[v]
      /\ writer' \in [Writers -> [at : {"off", "loop", "commit", "mirror", "ended"},
                                  batch : Seq(AuditEvents), last : BOOLEAN]]
      /\ \A v \in Writers : Len(writer'[v].batch) <= BatchMax
      /\ WritersAgree' /\ w <= writers /\ writers > 0 /\ (writers = 1 => w = 1)
  BY <1>1, <1>2, WriterMoves
<1>4. /\ Hands(w) \subseteq accepted /\ Hands(w) \cap Queued = {} /\ Hands(w) \cap committed = {}
      /\ Hands(w) \subseteq AuditEvents
  BY <1>1 DEF AuditInv, BatchesApart, AuditTypeOK
<1>5. AuditTypeOK'
  <2>1. /\ rows' \subseteq committed' /\ committed' \subseteq AuditEvents
    BY <1>1, <1>4 DEF AuditInv, AuditTypeOK
  <2> QED BY <1>1, <1>3, <2>1 DEF AuditInv, AuditTypeOK
<1>6. RequestsApart' /\ OneMaker'
  BY <1>1 DEF AuditInv, RequestsApart, UnderWay, OneMaker
<1>7. QueueApart' /\ SinksApart'
  BY <1>1, <1>4 DEF AuditInv, QueueApart, SinksApart, Queued
<1>8. \A v \in Writers : Hands(v)' = Hands(v) /\ writer'[v].batch = writer[v].batch
  BY <1>3 DEF Hands
<1>9. BatchesApart'
  <2>1. ASSUME NEW v \in Writers
        PROVE  /\ Hands(v)' \subseteq accepted' /\ Hands(v)' \cap Queued' = {}
               /\ writer'[v].at \in {"loop", "commit"} => Hands(v)' \cap committed' = {}
               /\ writer'[v].at = "mirror" => Hands(v)' \subseteq committed' \ mirrored'
               /\ IsInjective(writer'[v].batch)
    <3>1. Queued' = Queued
      BY <1>1 DEF Queued
    <3>2. CASE v = w
      <4>1. Hands(w) \cap mirrored = {}
        BY <1>4 DEF AuditInv, SinksApart
      <4> QED BY <1>1, <1>3, <1>4, <1>8, <3>1, <3>2, <4>1 DEF AuditInv, BatchesApart
    <3>3. CASE v # w
      <4>1. Hands(v) \cap Hands(w) = {}
        BY <3>3 DEF AuditInv, BatchesApart
      <4> QED BY <1>1, <1>3, <1>8, <3>1, <3>3, <4>1 DEF AuditInv, BatchesApart
    <3> QED BY <3>2, <3>3
  <2> QED BY <1>8, <2>1 DEF AuditInv, BatchesApart
<1>10. NothingLost'
  BY <1>1, <1>8 DEF AuditInv, NothingLost, Queued
<1>11. FirstStop'
  <2>1. writers = 1 => /\ writer'[1].last = writer[1].last /\ writer'[1].at # "ended"
                       /\ writer[1].at # "ended"
    BY <1>1, <1>3
  <2> QED BY <1>1, <2>1 DEF AuditInv, FirstStop, Queued
<1>12. CountIsEarned'
  BY <1>1 DEF AuditInv, CountIsEarned
<1>13. RecentStays'
  <2>1. ASSUME NEW e \in committed' \ rows'
        PROVE  e <= aged' \/ Cardinality({f \in committed' : f > e}) >= MaxRows
    <3> DEFINE before == {f \in committed : f > e}
               later == {f \in committed' : f > e}
    <3>1. e \in committed \ rows
      BY <1>1, <2>1
    <3>2. e <= aged \/ Cardinality(before) >= MaxRows
      BY <3>1 DEF AuditInv, RecentStays
    <3>3. before \in SUBSET later /\ later \subseteq AuditEvents
      BY <1>1, <1>5 DEF AuditTypeOK
    <3> HIDE DEF before, later
    <3>4. IsFiniteSet(later) /\ Cardinality(later) \in Nat
      BY <3>3, EventSetsFinite
    <3>5. Cardinality(before) \in Nat /\ Cardinality(before) <= Cardinality(later)
      BY <3>3, <3>4, FS_Subset, FS_CardinalityType
    <3>6. MaxRows \in Nat
      BY AuditAssumption
    <3>7. e <= aged' \/ Cardinality(later) >= MaxRows
      BY <1>1, <3>2, <3>4, <3>5, <3>6
    <3> QED BY <3>7 DEF later
  <2> QED BY <2>1 DEF RecentStays
<1> QED BY <1>3, <1>5, <1>6, <1>7, <1>9, <1>10, <1>11, <1>12, <1>13 DEF AuditInv

(***************************************************************************)
(* A flush empties the writer's hands, into the mirror as far as it got.   *)
(***************************************************************************)
LEMMA FlushKeeps ==
  ASSUME AuditInv, NEW w \in Writers, writer[w].at \in {"commit", "mirror"}, Flushed(w),
         Retain(rows),
         UNCHANGED <<made, holder, running, queue, writers, rec, ctl, created, accepted,
                     committed, owed, expired, again>>,
         mirrored \subseteq mirrored', mirrored' \subseteq mirrored \cup Hands(w),
         mirrored' # mirrored => writer[w].at = "mirror",
         faulted' = TRUE \/ (Hands(w) \subseteq mirrored' /\ faulted' = faulted),
         count' \in 0 .. MaxEvents, CountIsEarned'
  PROVE  AuditInv'
<1> DEFINE new == [at |-> IF writer[w].last THEN "ended" ELSE "loop", batch |-> <<>>,
                   last |-> writer[w].last]
<1>1. writer' = [writer EXCEPT ![w] = new]
  <2>1. writer \in [Writers -> [at : {"off", "loop", "commit", "mirror", "ended"},
                                batch : Seq(AuditEvents), last : BOOLEAN]]
    BY DEF AuditInv, AuditTypeOK
  <2> DEFINE next == IF writer[w].last THEN "ended" ELSE "loop"
  <2>2. [writer[w] EXCEPT !.at = next, !.batch = <<>>] = [at |-> next, batch |-> <<>>,
                                                          last |-> writer[w].last]
    <3>1. writer[w] \in [at : {"off", "loop", "commit", "mirror", "ended"},
                         batch : Seq(AuditEvents), last : BOOLEAN]
      BY <2>1
    <3>2. next \in {"off", "loop", "commit", "mirror", "ended"} /\ <<>> \in Seq(AuditEvents)
      BY EmptySeq
    <3> HIDE DEF next
    <3>3. [writer[w] EXCEPT !.at = next]
            = [at |-> next, batch |-> writer[w].batch, last |-> writer[w].last]
      BY <3>1
    <3>4. [[at |-> next, batch |-> writer[w].batch, last |-> writer[w].last] EXCEPT !.batch = <<>>]
            = [at |-> next, batch |-> <<>>, last |-> writer[w].last]
      OBVIOUS
    <3>5. [writer[w] EXCEPT !.at = next, !.batch = <<>>]
            = [[writer[w] EXCEPT !.at = next] EXCEPT !.batch = <<>>]
      OBVIOUS
    <3> QED BY <3>3, <3>4, <3>5
  <2>3. writer' = [writer EXCEPT ![w] = [writer[w] EXCEPT !.at = next, !.batch = <<>>]]
    BY <2>1 DEF Flushed
  <2> QED BY <2>2, <2>3
<1>2. /\ new \in [at : {"loop", "commit", "mirror", "ended"}, batch : Seq(AuditEvents),
                  last : BOOLEAN]
      /\ Len(new.batch) < BatchMax /\ Len(new.batch) <= BatchMax /\ new.batch = <<>>
  <2>1. writer[w].last \in BOOLEAN /\ <<>> \in Seq(AuditEvents)
    BY DEF AuditInv, AuditTypeOK
  <2>2. Len(<<>>) < BatchMax /\ Len(<<>>) <= BatchMax
    BY EmptyRange, AuditAssumption
  <2> QED BY <2>1, <2>2
<1>3. /\ writer'[w] = new /\ \A v \in Writers : v # w => writer'[v] = writer[v]
      /\ writer' \in [Writers -> [at : {"off", "loop", "commit", "mirror", "ended"},
                                  batch : Seq(AuditEvents), last : BOOLEAN]]
      /\ \A v \in Writers : Len(writer'[v].batch) <= BatchMax
      /\ WritersAgree' /\ w <= writers /\ writers > 0 /\ (writers = 1 => w = 1)
  BY <1>1, <1>2, WriterMoves
<1>4. rows' \subseteq committed' /\ aged' \in 0 .. MaxEvents /\ RecentStays'
  BY RetentionKeeps
<1>5. /\ Hands(w) \subseteq accepted /\ Hands(w) \subseteq AuditEvents
      /\ writer[w].at = "mirror" => Hands(w) \subseteq committed
  BY DEF AuditInv, BatchesApart, AuditTypeOK
<1>6. mirrored' \subseteq AuditEvents /\ mirrored' \subseteq committed'
  BY <1>5 DEF AuditInv, AuditTypeOK, SinksApart
<1>7. faulted' \in BOOLEAN
  BY DEF AuditInv, AuditTypeOK
<1>8. AuditTypeOK'
  BY <1>3, <1>4, <1>6, <1>7 DEF AuditInv, AuditTypeOK
<1>9. RequestsApart' /\ QueueApart' /\ SinksApart'
  BY <1>6 DEF AuditInv, RequestsApart, UnderWay, QueueApart, SinksApart, Queued
<1>10. OneMaker'
  BY DEF AuditInv, OneMaker
<1>11. /\ Hands(w)' = {} /\ IsInjective(writer'[w].batch)
       /\ \A v \in Writers : v # w => Hands(v)' = Hands(v)
  BY <1>3, EmptyRange DEF Hands
<1>12. BatchesApart'
  <2>1. ASSUME NEW v \in Writers
        PROVE  /\ Hands(v)' \subseteq accepted' /\ Hands(v)' \cap Queued' = {}
               /\ writer'[v].at \in {"loop", "commit"} => Hands(v)' \cap committed' = {}
               /\ writer'[v].at = "mirror" => Hands(v)' \subseteq committed' \ mirrored'
               /\ IsInjective(writer'[v].batch)
    <3>1. Queued' = Queued
      BY DEF Queued
    <3>2. CASE v = w
      BY <1>11, <3>2
    <3>3. CASE v # w
      <4>1. Hands(v) \cap Hands(w) = {}
        BY <3>3 DEF AuditInv, BatchesApart
      <4> QED BY <1>3, <1>11, <3>1, <3>3, <4>1 DEF AuditInv, BatchesApart
    <3> QED BY <3>2, <3>3
  <2> QED BY <1>11, <2>1 DEF AuditInv, BatchesApart
<1>13. NothingLost'
  <2>1. CASE faulted' = TRUE
    BY <2>1 DEF NothingLost
  <2>2. CASE Hands(w) \subseteq mirrored' /\ faulted' = faulted
    BY <1>11, <2>2 DEF AuditInv, NothingLost, Queued
  <2> QED BY <2>1, <2>2
<1>14. FirstStop'
  <2>1. CASE faulted' = TRUE
    BY <2>1 DEF AuditInv, FirstStop, Queued
  <2>2. CASE faulted' = faulted
    <3>1. writers = 1 => /\ writer'[1].last \/ writer'[1].at = "ended" => writer[1].last
                         /\ writer[1].at # "ended"
      BY <1>3
    <3> QED BY <2>2, <3>1 DEF AuditInv, FirstStop, Queued
  <2> QED BY <2>1, <2>2
<1> QED BY <1>3, <1>4, <1>8, <1>9, <1>10, <1>12, <1>13, <1>14 DEF AuditInv

LEMMA MirroredIsMore ==
  ASSUME AuditInv, NEW X, X \subseteq AuditEvents, mirrored' = mirrored \cup X
  PROVE  /\ Cardinality(mirrored) \in Nat /\ Cardinality(mirrored') \in Nat
         /\ Cardinality(mirrored) <= Cardinality(mirrored')
         /\ Cardinality(mirrored') <= MaxEvents
         /\ X \cap mirrored = {} =>
              Cardinality(mirrored') = Cardinality(mirrored) + Cardinality(X)
<1>1. mirrored \subseteq AuditEvents /\ mirrored' \subseteq AuditEvents
  BY DEF AuditInv, AuditTypeOK
<1>2. /\ IsFiniteSet(mirrored) /\ IsFiniteSet(mirrored') /\ IsFiniteSet(X)
      /\ Cardinality(mirrored) \in Nat /\ Cardinality(mirrored') \in Nat /\ Cardinality(X) \in Nat
      /\ Cardinality(mirrored') <= MaxEvents
  BY <1>1, EventSetsFinite
<1>3. Cardinality(mirrored) <= Cardinality(mirrored')
  BY <1>2, FS_Subset
<1>4. Cardinality(mirrored \cup X) =
        Cardinality(mirrored) + Cardinality(X) - Cardinality(mirrored \cap X)
  BY <1>2, FS_Union
<1>5. X \cap mirrored = {} => Cardinality(mirrored \cap X) = 0
  BY FS_EmptySet
<1> QED BY <1>2, <1>3, <1>4, <1>5

LEMMA MirrorKeeps == ASSUME AuditInv, NEW w \in Writers, Mirror(w) PROVE AuditInv'
<1>1. /\ writer[w].at = "mirror" /\ mirrored' = mirrored \cup Hands(w)
      /\ count' = count + Len(writer[w].batch) /\ Flushed(w) /\ Retain(rows)
      /\ UNCHANGED <<made, holder, running, queue, writers, rec, ctl, created, accepted,
                     committed, owed, faulted, expired, again>>
  BY DEF Mirror, Hands
<1>2. /\ Hands(w) \subseteq AuditEvents /\ Hands(w) \cap mirrored = {}
      /\ writer[w].batch \in Seq(AuditEvents) /\ IsInjective(writer[w].batch)
  BY <1>1 DEF AuditInv, AuditTypeOK, BatchesApart
<1>3. Cardinality(Hands(w)) = Len(writer[w].batch) /\ Len(writer[w].batch) \in Nat
  BY <1>2, CardinalityOfRange, LenProperties DEF Hands
<1>4. /\ Cardinality(mirrored) \in Nat /\ Cardinality(mirrored') <= MaxEvents
      /\ Cardinality(mirrored') = Cardinality(mirrored) + Len(writer[w].batch)
  BY <1>1, <1>2, <1>3, MirroredIsMore
<1>5. /\ count \in Nat /\ count <= Cardinality(mirrored)
      /\ ~faulted => count = Cardinality(mirrored)
  BY AuditAssumption DEF AuditInv, AuditTypeOK, CountIsEarned
<1>6. count' \in 0 .. MaxEvents
  <2>1. count' \in Nat /\ count' <= Cardinality(mirrored')
    BY <1>1, <1>3, <1>4, <1>5
  <2> QED BY <1>4, <2>1, AuditAssumption
<1>7. CountIsEarned'
  BY <1>1, <1>3, <1>4, <1>5 DEF CountIsEarned
<1> QED BY <1>1, <1>6, <1>7, FlushKeeps

LEMMA FlushRaisesKeeps ==
  ASSUME AuditInv, NEW w \in Writers, CommitRaises(w) \/ MirrorRaises(w) PROVE AuditInv'
<1>1. /\ writer[w].at \in {"commit", "mirror"} /\ Flushed(w) /\ Retain(rows) /\ faulted' = TRUE
      /\ UNCHANGED <<store, queue, writers, rec, ctl, created, accepted, committed, owed, expired,
                     again>>
  BY DEF CommitRaises, MirrorRaises
<1>2. UNCHANGED <<made, holder, running, count, queue, writers, rec, ctl, created, accepted,
                  committed, owed, expired, again>>
  BY <1>1 DEF store
<1>3. PICK X \in SUBSET Hands(w) :
        mirrored' = mirrored \cup X /\ (X # {} => writer[w].at = "mirror")
  <2>1. CASE CommitRaises(w)
    BY <2>1 DEF CommitRaises
  <2>2. CASE MirrorRaises(w)
    <3>1. PICK n \in 0 .. Len(writer[w].batch) :
            mirrored' = mirrored \cup Range(SubSeq(writer[w].batch, 1, n))
      BY <2>2 DEF MirrorRaises
    <3>2. Range(SubSeq(writer[w].batch, 1, n)) \subseteq Hands(w)
      BY RangeOfPrefix DEF AuditInv, AuditTypeOK, Hands
    <3> QED BY <2>2, <3>1, <3>2 DEF MirrorRaises
  <2> QED BY <2>1, <2>2
<1>4. X \subseteq AuditEvents
  BY DEF AuditInv, AuditTypeOK, BatchesApart
<1>5. /\ Cardinality(mirrored) \in Nat /\ Cardinality(mirrored') \in Nat
      /\ Cardinality(mirrored) <= Cardinality(mirrored')
  BY <1>3, <1>4, MirroredIsMore
<1>6. count' \in 0 .. MaxEvents /\ count' = count /\ count \in Nat /\ count <= Cardinality(mirrored)
  BY <1>2, AuditAssumption DEF AuditInv, AuditTypeOK, CountIsEarned
<1>7. CountIsEarned'
  BY <1>1, <1>5, <1>6 DEF CountIsEarned
<1>8. /\ mirrored \subseteq mirrored' /\ mirrored' \subseteq mirrored \cup Hands(w)
      /\ mirrored' # mirrored => writer[w].at = "mirror"
  BY <1>3
<1> QED BY <1>1, <1>2, <1>6, <1>7, <1>8, FlushKeeps

LEMMA CrashKeeps == ASSUME AuditInv, Crash PROVE AuditInv'
<1>1. /\ made' = FALSE /\ holder' = NoThread /\ running' = FALSE /\ count' = 0
      /\ queue' = <<>> /\ rec' = [r \in Recorders |-> Idle] /\ ctl' = "up" /\ faulted' = TRUE
      /\ writer' = [w \in Writers |-> IF w <= writers THEN [Off EXCEPT !.at = "ended"] ELSE Off]
      /\ UNCHANGED <<writers, rows, created, accepted, committed, mirrored, aged, owed, expired,
                     again>>
  BY DEF Crash
<1>2. \A w \in Writers : writer'[w] \in {[at |-> "ended", batch |-> <<>>, last |-> FALSE],
                                         [at |-> "off", batch |-> <<>>, last |-> FALSE]}
  BY <1>1 DEF Off
<1>3. \A w \in Writers :
        writer'[w].batch = <<>> /\ writer'[w].at \in {"off", "ended"} /\ ~writer'[w].last
  BY <1>2
<1>4. AuditTypeOK'
  <2>1. rec' \in [Recorders -> [at : {"idle", "get", "make", "start", "check", "put"},
                                event : 0 .. MaxEvents]]
    BY <1>1, AuditAssumption DEF Idle
  <2>2. writer' \in [Writers -> [at : {"off", "loop", "commit", "mirror", "ended"},
                                 batch : Seq(AuditEvents), last : BOOLEAN]]
    <3>1. <<>> \in Seq(AuditEvents)
      BY EmptySeq
    <3> DEFINE types == [at : {"off", "loop", "commit", "mirror", "ended"},
                         batch : Seq(AuditEvents), last : BOOLEAN]
    <3>4. [at |-> "ended", batch |-> <<>>, last |-> FALSE] \in types
      BY <3>1
    <3>5. [at |-> "off", batch |-> <<>>, last |-> FALSE] \in types
      BY <3>1
    <3>2. \A w \in Writers : writer'[w] \in types
      <4> HIDE DEF types
      <4> QED BY <1>2, <3>4, <3>5, Zenon
    <3>3. writer' = [w \in Writers |-> writer'[w]]
      BY <1>1
    <3> QED BY <3>2, <3>3
  <2>3. \A w \in Writers : Len(writer'[w].batch) <= BatchMax
    BY <1>3, EmptyRange, AuditAssumption
  <2>4. queue' \in Seq(AuditEvents \cup {Sentinel}) /\ Len(queue') <= QueueMax
    BY <1>1, EmptyRange, AuditAssumption
  <2>5. count' \in 0 .. MaxEvents
    BY <1>1, AuditAssumption
  <2> QED BY <1>1, <2>1, <2>2, <2>3, <2>4, <2>5 DEF AuditInv, AuditTypeOK
<1>5. RequestsApart' /\ OneMaker'
  BY <1>1 DEF RequestsApart, UnderWay, OneMaker, Idle
<1>6. Queued' = {}
  BY <1>1, EmptyRange DEF Queued
<1>7. QueueApart' /\ SinksApart'
  <2>1. 1 .. Len(queue') = {}
    BY <1>1, EmptyRange
  <2> QED BY <1>1, <1>6, <2>1 DEF AuditInv, QueueApart, SinksApart
<1>8. BatchesApart'
  <2>1. \A w \in Writers : Hands(w)' = {} /\ IsInjective(writer'[w].batch)
    BY <1>3, EmptyRange DEF Hands
  <2> QED BY <1>3, <2>1 DEF BatchesApart
<1>9. WritersAgree'
  <2>1. \A w \in Writers : w \in Nat /\ writers \in Nat
    BY AuditAssumption DEF Writers, AuditInv, AuditTypeOK
  <2>2. \A w \in Writers : /\ w > writers' => writer'[w] = Off
                           /\ w <= writers' => writer'[w].at # "off"
    BY <1>1, <2>1 DEF Off
  <2> QED BY <1>3, <2>2 DEF WritersAgree
<1>10. NothingLost' /\ FirstStop'
  <2>1. 1 .. Len(queue') = {} /\ Sentinel \notin Range(queue')
    BY <1>1, EmptyRange
  <2> QED BY <1>1, <2>1 DEF NothingLost, FirstStop
<1>11. CountIsEarned'
  <2>1. Cardinality(mirrored) \in Nat
    BY EventSetsFinite DEF AuditInv, AuditTypeOK
  <2> QED BY <1>1, <2>1 DEF CountIsEarned
<1>12. RecentStays'
  BY <1>1 DEF AuditInv, RecentStays
<1> QED BY <1>4, <1>5, <1>7, <1>8, <1>9, <1>10, <1>11, <1>12 DEF AuditInv

LEMMA AuditStep == ASSUME AuditInv, [AuditNext]_auditVars PROVE AuditInv'
<1>1. CASE UNCHANGED auditVars
  <2>1. UNCHANGED <<made, holder, running, count, queue, writers, rec, ctl, writer, rows, created,
                    accepted, committed, mirrored, aged, owed, faulted, expired, again>>
    BY <1>1 DEF auditVars, store, auditPast
  <2>2. AuditTypeOK' /\ RequestsApart' /\ OneMaker'
    BY <2>1 DEF AuditInv, AuditTypeOK, RequestsApart, UnderWay, OneMaker
  <2> QED BY <2>1, <2>2, SinksKeep, QueueKeeps, HandsKeep, StopKeeps DEF AuditInv
<1>2. CASE AuditNext
  <2>1. ASSUME NEW r \in Recorders, Record(r) PROVE AuditInv'
    BY <2>1, CreateKeeps, GetFindsKeeps, GetLocksKeeps, GetMakesKeeps, GetStartsKeeps, PutKeeps
    DEF Record
  <2>2. ASSUME NEW w \in Writers, Write(w) PROVE AuditInv'
    BY <2>2, TakeKeeps, LeaveKeeps, CommitKeeps, FlushRaisesKeeps, MirrorKeeps DEF Write
  <2>3. CASE StopProceeds
    BY <2>3, StopSignalsKeeps, StopEndsKeeps DEF StopProceeds
  <2> QED BY <1>2, <2>1, <2>2, <2>3, StopBegins, StartAgainKeeps, CrashKeeps DEF AuditNext
<1> QED BY <1>1, <1>2

LEMMA StopHasFlushed == AuditInv => StopFlushes
<1> SUFFICES ASSUME AuditInv, ctl = "down", writers = 1, ~again, ~faulted, ~expired
             PROVE  owed \subseteq mirrored
  BY DEF StopFlushes
<1>1. 1 \in Writers /\ \A w \in Writers : w = 1 \/ w > writers
  BY AuditAssumption DEF AuditInv, AuditTypeOK, Writers
<1>2. writer[1].at = "ended" /\ owed \cap Queued = {}
  BY DEF AuditInv, FirstStop
<1>3. \A w \in Writers : writer[w].batch = <<>>
  BY <1>1, <1>2 DEF AuditInv, WritersAgree, Off
<1>4. \A w \in Writers : Hands(w) = {}
  BY <1>3, EmptyRange DEF Hands
<1>5. owed \subseteq accepted /\ accepted \subseteq mirrored \cup Queued
  BY <1>4 DEF AuditInv, SinksApart, NothingLost
<1> QED BY <1>2, <1>5

(***************************************************************************)
(* Database, JSONL file, counter, retention and a returned stop() agree on *)
(* what was accepted, through failing flushes, crashes and restarts.       *)
(***************************************************************************)
THEOREM AuditSound == AuditSpec => []AuditIsSound
<1>1. AuditInit => AuditInv
  BY AuditInitInv
<1>2. AuditInv /\ [AuditNext]_auditVars => AuditInv'
  BY AuditStep
<1>3. AuditInv => AuditIsSound
  BY StopHasFlushed DEF AuditInv, AuditIsSound, MirrorHasRow, SinksApart
<1> QED BY <1>1, <1>2, <1>3, PTL DEF AuditSpec

-----------------------------------------------------------------------------
(***************************************************************************)
(* Each sink is an EventLog.  A step other than an accepting record() puts *)
(* nothing between the callers and a sink, and a sink receives only what   *)
(* was there; by the invariant nothing in a sink is there still, so the    *)
(* step settles what went.                                                 *)
(***************************************************************************)
OnTheWay(places) == Queued \cup HeldIn(places)

Settles ==
  /\ OnTheWay({"loop", "commit"})' \subseteq OnTheWay({"loop", "commit"})
  /\ OnTheWay({"loop", "commit", "mirror"})' \subseteq OnTheWay({"loop", "commit", "mirror"})
  /\ committed \subseteq committed' /\ committed' \subseteq committed \cup OnTheWay({"loop", "commit"})
  /\ mirrored \subseteq mirrored'
  /\ mirrored' \subseteq mirrored \cup OnTheWay({"loop", "commit", "mirror"})
  /\ UNCHANGED accepted

LEMMA NothingMoves ==
  ASSUME UNCHANGED <<queue, writer, accepted, committed, mirrored>>
  PROVE  Settles /\ UNCHANGED OnTheWay({"loop", "commit"})
         /\ UNCHANGED OnTheWay({"loop", "commit", "mirror"})
<1>1. UNCHANGED OnTheWay({"loop", "commit"}) /\ UNCHANGED OnTheWay({"loop", "commit", "mirror"})
  BY DEF OnTheWay, Queued, HeldIn
<1> QED BY <1>1 DEF Settles

LEMMA OnTheWayApart ==
  ASSUME AuditInv'
  PROVE  /\ OnTheWay({"loop", "commit"})' \cap committed' = {}
         /\ OnTheWay({"loop", "commit", "mirror"})' \cap mirrored' = {}
<1>1. \A w \in Writers : writer'[w].at \in {"loop", "commit"} => Hands(w)' \cap committed' = {}
  BY DEF AuditInv, BatchesApart
<1>2. \A w \in Writers :
        writer'[w].at \in {"loop", "commit", "mirror"} => Hands(w)' \cap mirrored' = {}
  BY <1>1 DEF AuditInv, BatchesApart, SinksApart
<1>3. Queued' \cap committed' = {} /\ Queued' \cap mirrored' = {}
  BY DEF AuditInv, QueueApart, SinksApart
<1> QED BY <1>1, <1>2, <1>3 DEF OnTheWay, HeldIn, Hands

(***************************************************************************)
(* What a step of a writer thread does to its hands and to the sinks.      *)
(***************************************************************************)
LEMMA WriterHands ==
  ASSUME AuditInv, NEW w \in Writers, Write(w)
  PROVE  /\ \A v \in Writers : v # w => writer'[v] = writer[v]
         /\ writer[w].at \in {"loop", "commit", "mirror"}
         /\ Queued' \subseteq Queued
         /\ Hands(w)' \subseteq Hands(w) \cup Queued
         /\ Hands(w)' # {} /\ writer'[w].at \in {"loop", "commit"} => writer[w].at = "loop"
         /\ UNCHANGED accepted
         /\ committed' = committed
              \/ (writer[w].at = "commit" /\ committed' = committed \cup Hands(w))
         /\ mirrored' = mirrored
              \/ (writer[w].at = "mirror" /\ mirrored \subseteq mirrored'
                  /\ mirrored' \subseteq mirrored \cup Hands(w))
<1>1. writer \in [Writers -> [at : {"off", "loop", "commit", "mirror", "ended"},
                              batch : Seq(AuditEvents), last : BOOLEAN]]
  BY DEF AuditInv, AuditTypeOK
<1>2. CASE Take(w)
  <2>1. /\ writer[w].at = "loop" /\ queue # <<>> /\ queue' = Tail(queue)
        /\ UNCHANGED <<accepted, committed, mirrored>>
    BY <1>2 DEF Take, auditPast
  <2>2. /\ Range(queue) = {Head(queue)} \cup Range(queue')
        /\ Head(queue) \in AuditEvents \cup {Sentinel}
    BY <2>1, RangeOfTail DEF AuditInv, AuditTypeOK
  <2>3. CASE Head(queue) = Sentinel
    <3>1. writer' = [writer EXCEPT ![w] = Ended(writer[w].batch)]
      BY <1>2, <2>3 DEF Take
    <3>2. /\ \A v \in Writers : v # w => writer'[v] = writer[v]
          /\ writer'[w] = Ended(writer[w].batch)
      BY <1>1, <3>1
    <3>3. Hands(w)' = Hands(w)
      BY <3>2 DEF Hands, Ended
    <3> QED BY <2>1, <2>2, <3>2, <3>3 DEF Queued
  <2>4. CASE Head(queue) # Sentinel
    <3>1. PICK s \in Due(Append(writer[w].batch, Head(queue))) :
            writer' = [writer EXCEPT ![w].at = s, ![w].batch = Append(writer[w].batch, Head(queue))]
      BY <1>2, <2>4 DEF Take
    <3>2. /\ \A v \in Writers : v # w => writer'[v] = writer[v]
          /\ writer'[w].batch = Append(writer[w].batch, Head(queue))
      BY <1>1, <3>1
    <3>3. Hands(w)' = Hands(w) \cup {Head(queue)}
      BY <1>1, <2>2, <2>4, <3>2, RangeOfAppend DEF Hands
    <3> QED BY <2>1, <2>2, <2>4, <3>2, <3>3 DEF Queued
  <2> QED BY <2>3, <2>4
<1>3. CASE WaitEnds(w) \/ Leave(w)
  <2>1. /\ writer[w].at = "loop" /\ UNCHANGED <<queue, accepted, committed, mirrored>>
        /\ \A v \in Writers : v # w => writer'[v] = writer[v]
        /\ writer'[w].batch = writer[w].batch
    BY <1>1, <1>3 DEF WaitEnds, Leave, Ended, auditPast
  <2> QED BY <2>1 DEF Queued, Hands
<1>4. CASE Commit(w)
  <2>1. /\ writer[w].at = "commit" /\ UNCHANGED <<queue, accepted, mirrored>>
        /\ committed' = committed \cup Hands(w)
        /\ \A v \in Writers : v # w => writer'[v] = writer[v]
        /\ writer'[w].batch = writer[w].batch /\ writer'[w].at = "mirror"
    BY <1>1, <1>4 DEF Commit, Hands
  <2> QED BY <2>1 DEF Queued, Hands
<1>5. ASSUME Flushed(w)
      PROVE  Hands(w)' = {} /\ \A v \in Writers : v # w => writer'[v] = writer[v]
  <2>1. writer'[w].batch = <<>> /\ \A v \in Writers : v # w => writer'[v] = writer[v]
    BY <1>1, <1>5 DEF Flushed
  <2> QED BY <2>1, EmptyRange DEF Hands
<1>6. CASE CommitRaises(w)
  <2>1. /\ writer[w].at = "commit" /\ UNCHANGED <<queue, accepted, committed, mirrored>>
        /\ Flushed(w)
    BY <1>6 DEF CommitRaises
  <2> QED BY <1>5, <2>1 DEF Queued
<1>7. CASE Mirror(w)
  <2>1. /\ writer[w].at = "mirror" /\ UNCHANGED <<queue, accepted, committed>> /\ Flushed(w)
        /\ mirrored' = mirrored \cup Hands(w)
    BY <1>7 DEF Mirror, Hands
  <2> QED BY <1>5, <2>1 DEF Queued
<1>8. CASE MirrorRaises(w)
  <2>1. /\ writer[w].at = "mirror" /\ UNCHANGED <<queue, accepted, committed>> /\ Flushed(w)
    BY <1>8 DEF MirrorRaises
  <2>2. PICK n \in 0 .. Len(writer[w].batch) :
          mirrored' = mirrored \cup Range(SubSeq(writer[w].batch, 1, n))
    BY <1>8 DEF MirrorRaises
  <2>3. Range(SubSeq(writer[w].batch, 1, n)) \subseteq Hands(w)
    BY <1>1, RangeOfPrefix DEF Hands
  <2> QED BY <1>5, <2>1, <2>2, <2>3 DEF Queued
<1> QED BY <1>2, <1>3, <1>4, <1>6, <1>7, <1>8 DEF Write

LEMMA WriterSettles == ASSUME AuditInv, NEW w \in Writers, Write(w) PROVE Settles
<1>1. /\ \A v \in Writers : v # w => writer'[v] = writer[v]
      /\ writer[w].at \in {"loop", "commit", "mirror"}
      /\ Queued' \subseteq Queued
      /\ Hands(w)' \subseteq Hands(w) \cup Queued
      /\ Hands(w)' # {} /\ writer'[w].at \in {"loop", "commit"} => writer[w].at = "loop"
      /\ UNCHANGED accepted
      /\ committed' = committed
           \/ (writer[w].at = "commit" /\ committed' = committed \cup Hands(w))
      /\ mirrored' = mirrored
           \/ (writer[w].at = "mirror" /\ mirrored \subseteq mirrored'
               /\ mirrored' \subseteq mirrored \cup Hands(w))
  BY WriterHands
<1>2. writer[w].at \in {"loop", "commit"} => Hands(w) \subseteq OnTheWay({"loop", "commit"})
  BY DEF OnTheWay, HeldIn, Hands
<1>3. Hands(w) \subseteq OnTheWay({"loop", "commit", "mirror"})
  BY <1>1 DEF OnTheWay, HeldIn, Hands
<1>4. \A v \in Writers : v # w => Hands(v)' = Hands(v)
  BY <1>1 DEF Hands
<1>5. ASSUME NEW e \in OnTheWay({"loop", "commit"})' PROVE e \in OnTheWay({"loop", "commit"})
  <2>1. CASE e \in Queued'
    BY <1>1, <2>1 DEF OnTheWay
  <2>2. ASSUME NEW v \in Writers, writer'[v].at \in {"loop", "commit"}, e \in Hands(v)'
        PROVE  e \in OnTheWay({"loop", "commit"})
    <3>1. CASE v = w
      BY <1>1, <1>2, <2>2, <3>1 DEF OnTheWay
    <3>2. CASE v # w
      BY <1>1, <1>4, <2>2, <3>2 DEF OnTheWay, HeldIn, Hands
    <3> QED BY <3>1, <3>2
  <2> QED BY <1>5, <2>1, <2>2 DEF OnTheWay, HeldIn, Hands
<1>6. ASSUME NEW e \in OnTheWay({"loop", "commit", "mirror"})'
      PROVE  e \in OnTheWay({"loop", "commit", "mirror"})
  <2>1. CASE e \in Queued'
    BY <1>1, <2>1 DEF OnTheWay
  <2>2. ASSUME NEW v \in Writers, writer'[v].at \in {"loop", "commit", "mirror"}, e \in Hands(v)'
        PROVE  e \in OnTheWay({"loop", "commit", "mirror"})
    <3>1. CASE v = w
      BY <1>1, <1>3, <2>2, <3>1 DEF OnTheWay
    <3>2. CASE v # w
      BY <1>1, <1>4, <2>2, <3>2 DEF OnTheWay, HeldIn, Hands
    <3> QED BY <3>1, <3>2
  <2> QED BY <1>6, <2>1, <2>2 DEF OnTheWay, HeldIn, Hands
<1>7. committed \subseteq committed' /\ committed' \subseteq committed \cup OnTheWay({"loop", "commit"})
  BY <1>1, <1>2
<1>8. mirrored \subseteq mirrored'
      /\ mirrored' \subseteq mirrored \cup OnTheWay({"loop", "commit", "mirror"})
  BY <1>1, <1>3
<1> QED BY <1>1, <1>5, <1>6, <1>7, <1>8 DEF Settles

(***************************************************************************)
(* A new thread has nothing in its hands.                                  *)
(***************************************************************************)
LEMMA StartSettles ==
  ASSUME AuditInv, StartOk \/ StartRaises, UNCHANGED <<queue, accepted, committed, mirrored, faulted>>
  PROVE  Settles
<1>1. CASE StartRaises
  BY <1>1, NothingMoves DEF StartRaises
<1>2. CASE StartOk
  <2>1. /\ \A w \in Writers : writer'[w].batch = writer[w].batch
        /\ \A w \in Writers : w # writers' => writer'[w] = writer[w]
        /\ writer[writers'] = Off
    BY <1>2, WriterStarts
  <2>2. \A w \in Writers : Hands(w)' = Hands(w) /\ (w = writers' => Hands(w) = {})
    BY <2>1, EmptyRange DEF Hands, Off
  <2>3. Queued' = Queued
    BY DEF Queued
  <2>4. HeldIn({"loop", "commit"})' \subseteq HeldIn({"loop", "commit"})
        /\ HeldIn({"loop", "commit", "mirror"})' \subseteq HeldIn({"loop", "commit", "mirror"})
    BY <2>1, <2>2 DEF HeldIn, Hands
  <2> QED BY <2>3, <2>4 DEF Settles, OnTheWay
<1> QED BY <1>1, <1>2

LEMMA SignalSettles == ASSUME AuditInv, StopSignals PROVE Settles
<1>1. /\ queue' = Append(queue, Sentinel) /\ UNCHANGED <<writer, accepted, committed, mirrored>>
  BY DEF StopSignals, auditPast
<1>2. Range(queue') = Range(queue) \cup {Sentinel}
  BY <1>1, RangeOfAppend DEF AuditInv, AuditTypeOK
<1>3. Queued' = Queued
  BY <1>2 DEF Queued
<1>4. HeldIn({"loop", "commit"})' = HeldIn({"loop", "commit"})
      /\ HeldIn({"loop", "commit", "mirror"})' = HeldIn({"loop", "commit", "mirror"})
  BY <1>1 DEF HeldIn
<1> QED BY <1>1, <1>3, <1>4 DEF Settles, OnTheWay

LEMMA CrashSettles == ASSUME AuditInv, Crash PROVE Settles
<1>1. /\ queue' = <<>> /\ UNCHANGED <<accepted, committed, mirrored>>
      /\ writer' = [w \in Writers |-> IF w <= writers THEN [Off EXCEPT !.at = "ended"] ELSE Off]
  BY DEF Crash
<1>2. \A w \in Writers : writer'[w] \in {[at |-> "ended", batch |-> <<>>, last |-> FALSE],
                                         [at |-> "off", batch |-> <<>>, last |-> FALSE]}
  BY <1>1 DEF Off
<1>3. \A w \in Writers : Hands(w)' = {}
  BY <1>2, EmptyRange DEF Hands
<1>4. OnTheWay({"loop", "commit"})' = {} /\ OnTheWay({"loop", "commit", "mirror"})' = {}
  BY <1>1, <1>3, EmptyRange DEF OnTheWay, HeldIn, Queued, Hands
<1> QED BY <1>1, <1>4 DEF Settles

(***************************************************************************)
(* An accepting record() puts its event on the way, once.                  *)
(***************************************************************************)
Accepts(e) ==
  /\ e \in AuditEvents \ accepted /\ accepted' = accepted \cup {e}
  /\ OnTheWay({"loop", "commit"})' = OnTheWay({"loop", "commit"}) \cup {e}
  /\ OnTheWay({"loop", "commit", "mirror"})' = OnTheWay({"loop", "commit", "mirror"}) \cup {e}
  /\ UNCHANGED <<committed, mirrored>>

LEMMA PutSettles ==
  ASSUME AuditInv, NEW r \in Recorders, Put(r)
  PROVE  Settles \/ \E e \in AuditEvents : Accepts(e)
<1>1. UNCHANGED <<writer, committed, mirrored>>
  BY DEF Put
<1>2. CASE UNCHANGED <<queue, accepted>>
  BY <1>1, <1>2, NothingMoves
<1>3. CASE queue' = Append(queue, rec[r].event) /\ accepted' = accepted \cup {rec[r].event}
  <2> DEFINE e == rec[r].event
  <2>1. e \in (1 .. created) \ accepted
    BY DEF AuditInv, RequestsApart, UnderWay, Put
  <2>2. created \in 0 .. MaxEvents /\ MaxEvents \in Nat
    BY AuditAssumption DEF AuditInv, AuditTypeOK
  <2>3. e \in AuditEvents \ accepted /\ e # Sentinel
    BY <2>1, <2>2, AuditAssumption DEF AuditEvents
  <2>4. Range(queue') = Range(queue) \cup {e}
    <3>1. queue \in Seq(AuditEvents \cup {Sentinel}) /\ e \in AuditEvents \cup {Sentinel}
      BY <2>3 DEF AuditInv, AuditTypeOK
    <3> HIDE DEF e
    <3> QED BY <1>3, <3>1, RangeOfAppend DEF e
  <2>5. Queued' = Queued \cup {e}
    BY <2>3, <2>4 DEF Queued
  <2>6. HeldIn({"loop", "commit"})' = HeldIn({"loop", "commit"})
        /\ HeldIn({"loop", "commit", "mirror"})' = HeldIn({"loop", "commit", "mirror"})
    BY <1>1 DEF HeldIn
  <2>7. Accepts(e)
    BY <1>1, <1>3, <2>3, <2>5, <2>6 DEF Accepts, OnTheWay
  <2> QED BY <2>3, <2>7
<1> QED BY <1>2, <1>3 DEF Put

LEMMA EveryStepSettles ==
  ASSUME AuditInv, [AuditNext]_auditVars
  PROVE  Settles \/ \E e \in AuditEvents : Accepts(e)
<1>1. CASE UNCHANGED auditVars
  BY <1>1, NothingMoves DEF auditVars, auditPast
<1>2. ASSUME NEW r \in Recorders, Record(r)
      PROVE  Settles \/ \E e \in AuditEvents : Accepts(e)
  <2>1. CASE Create(r) \/ GetFinds(r) \/ GetLocks(r) \/ GetMakes(r) \/ Check(r)
    BY <2>1, NothingMoves DEF Create, GetFinds, GetLocks, GetMakes, Check, auditPast
  <2>2. CASE GetStarts(r)
    BY <2>2, StartSettles DEF GetStarts, auditPast
  <2> QED BY <1>2, <2>1, <2>2, PutSettles DEF Record
<1>3. CASE Stop \/ StopJoins \/ StopGivesUp
  BY <1>3, NothingMoves DEF Stop, StopJoins, StopGivesUp, auditPast
<1>4. CASE StartAgain
  BY <1>4, StartSettles DEF StartAgain
<1> QED BY <1>1, <1>2, <1>3, <1>4, WriterSettles, SignalSettles, CrashSettles
       DEF AuditNext, StopProceeds

LEMMA TableStep ==
  ASSUME AuditInv, AuditInv', [AuditNext]_auditVars
  PROVE  [Table!Next]_(Table!vars)
<1> DEFINE pending == OnTheWay({"loop", "commit"})
<1>1. ASSUME NEW e \in AuditEvents, Accepts(e) PROVE Table!Next
  <2>1. Table!Accept(e)
    BY <1>1 DEF Accepts, OnTheWay, Table!Accept
  <2> QED BY <2>1 DEF Table!Next
<1>2. CASE Settles
  <2> DEFINE batch == pending \ pending'
             reached == committed' \ committed
  <2>1. pending' \cap committed' = {}
    BY OnTheWayApart
  <2>2. batch \in SUBSET pending /\ reached \in SUBSET batch
    BY <1>2, <2>1 DEF Settles
  <2>3. /\ committed' = committed \cup reached /\ pending' = pending \ batch /\ UNCHANGED accepted
    BY <1>2 DEF Settles
  <2>4. Table!Settle(batch, reached)
    BY <2>3 DEF OnTheWay, Table!Settle
  <2> QED BY <2>2, <2>4 DEF OnTheWay, Table!Next
<1> QED BY <1>1, <1>2, EveryStepSettles

LEMMA MirrorStep ==
  ASSUME AuditInv, AuditInv', [AuditNext]_auditVars
  PROVE  [Mirrors!Next]_(Mirrors!vars)
<1> DEFINE pending == OnTheWay({"loop", "commit", "mirror"})
<1>1. ASSUME NEW e \in AuditEvents, Accepts(e) PROVE Mirrors!Next
  <2>1. Mirrors!Accept(e)
    BY <1>1 DEF Accepts, OnTheWay, Mirrors!Accept
  <2> QED BY <2>1 DEF Mirrors!Next
<1>2. CASE Settles
  <2> DEFINE batch == pending \ pending'
             reached == mirrored' \ mirrored
  <2>1. pending' \cap mirrored' = {}
    BY OnTheWayApart
  <2>2. batch \in SUBSET pending /\ reached \in SUBSET batch
    BY <1>2, <2>1 DEF Settles
  <2>3. /\ mirrored' = mirrored \cup reached /\ pending' = pending \ batch /\ UNCHANGED accepted
    BY <1>2 DEF Settles
  <2>4. Mirrors!Settle(batch, reached)
    BY <2>3 DEF OnTheWay, Mirrors!Settle
  <2> QED BY <2>2, <2>4 DEF OnTheWay, Mirrors!Next
<1> QED BY <1>1, <1>2, EveryStepSettles

(***************************************************************************)
(* The table is an EventLog: an event the store accepted is settled once,  *)
(* for SQLite or for good, through failing flushes, crashes and restarts.  *)
(***************************************************************************)
THEOREM TableLogs == AuditSpec => TableIsALog
<1>1. AuditInit => Table!Init
  BY EmptyRange DEF AuditInit, Off, Queued, HeldIn, Table!Init
<1>2. AuditInv /\ AuditInv' /\ [AuditNext]_auditVars => [Table!Next]_(Table!vars)
  BY TableStep
<1>3. AuditInit => AuditInv
  BY AuditInitInv
<1>4. AuditInv /\ [AuditNext]_auditVars => AuditInv'
  BY AuditStep
<1> QED BY <1>1, <1>2, <1>3, <1>4, PTL DEF AuditSpec, TableIsALog, Table!Spec

(***************************************************************************)
(* So is the JSONL file, whose events wait a step longer.                  *)
(***************************************************************************)
THEOREM MirrorLogs == AuditSpec => MirrorIsALog
<1>1. AuditInit => Mirrors!Init
  BY EmptyRange DEF AuditInit, Off, Queued, HeldIn, Mirrors!Init
<1>2. AuditInv /\ AuditInv' /\ [AuditNext]_auditVars => [Mirrors!Next]_(Mirrors!vars)
  BY MirrorStep
<1>3. AuditInit => AuditInv
  BY AuditInitInv
<1>4. AuditInv /\ [AuditNext]_auditVars => AuditInv'
  BY AuditStep
<1> QED BY <1>1, <1>2, <1>3, <1>4, PTL DEF AuditSpec, MirrorIsALog, Mirrors!Spec
-----------------------------------------------------------------------------
(***************************************************************************)
(* The SIEM dispatcher (SiemDispatch).                                     *)
(*                                                                         *)
(* A message is at one place at a time: with a caller, in the queue or in  *)
(* a thread's batch; and a backend is handed what is still ahead of it.    *)
(***************************************************************************)
WalkRecord ==
  [at : {"off", "gather", "send", "stuck", "ended"}, batch : Seq(Messages), last : BOOLEAN,
   todo : Seq(Backends), pos : Nat \ {0}, sent : Nat, same : BOOLEAN]

ListTypes ==
  /\ backends \in Seq(Backends) /\ IsInjective(backends)
  /\ dispatching \in BOOLEAN /\ control \in {"free", "signal", "join"}
  /\ inbox \in Seq(Messages \cup {NoMessage}) /\ Len(inbox) <= InboxMax
  /\ threads \in 0 .. MaxThreads /\ thread \in [Threads -> WalkRecord]
  /\ messages \in 0 .. MaxMessages
  /\ caller \in [Callers -> [at : {"idle", "put"}, message : 0 .. MaxMessages]]

HandleTypes ==
  /\ handle \in [Backends -> {"open", "closed", "none", "stale", "broken"}]
  /\ \A b \in Files : handle[b] \in {"open", "closed"}
  /\ \A b \in Hooks : handle[b] = "none"
  /\ \A b \in Sockets : handle[b] # "closed"
  /\ \A b \in Syslogs : handle[b] # "broken"
  /\ after \in [Sockets -> {"sent", "raised", "missed"}]

CountTypes ==
  /\ stats \in [dispatched : Nat, failed : Nat, dropped : Nat]
  /\ refused \in Nat
  /\ arrived \subseteq handed /\ handed \subseteq Backends \X taken /\ IsFiniteSet(handed)

(***************************************************************************)
(* One thread's walk.                                                      *)
(***************************************************************************)
Sending(th) == th.at \in {"send", "stuck"}

InOrder(th) ==
  /\ th.sent < th.pos /\ Len(th.batch) <= SendMax
  /\ th.at = "off" => th.batch = <<>>
  /\ th.at = "gather" => Len(th.batch) < SendMax
  /\ Sending(th) => th.batch # <<>>
  /\ ~Sending(th) => th.todo = <<>>
  /\ th.todo = <<>> => th.pos = 1
  /\ th.todo # <<>> =>
       th.pos <= Len(th.batch) /\ (Head(th.todo) \in Hooks => th.pos = 1)
  /\ IsInjective(th.todo) /\ IsInjective(th.batch)
  /\ Sending(th) /\ th.same => Range(th.todo) \subseteq Range(backends)

WalksInOrder ==
  /\ \A t \in Threads : InOrder(thread[t])
  /\ \A t \in Threads : t > threads => thread[t].at = "off"

(***************************************************************************)
(* Where the messages are.                                                 *)
(***************************************************************************)
Waiting == Range(inbox) \ {NoMessage}

MessagesApart ==
  /\ taken \subseteq 1 .. messages
  /\ \A c \in Callers : caller[c].at = "put" => caller[c].message \in (1 .. messages) \ taken
  /\ \A c, d \in Callers :
       caller[c].at = "put" /\ caller[d].at = "put" /\ caller[c].message = caller[d].message
         => c = d
  /\ Waiting \subseteq taken
  /\ \A i, j \in 1 .. Len(inbox) : inbox[i] = inbox[j] => i = j \/ inbox[i] = NoMessage
  /\ \A t \in Threads : Batch(t) \subseteq taken /\ Batch(t) \cap Waiting = {}
  /\ \A t, u \in Threads : t # u => Batch(t) \cap Batch(u) = {}

OnItsWay(b) == Waiting \cup UNION {Ahead(thread[t], b) : t \in Threads}

HandedOnce ==
  /\ \A b \in Backends : \A e \in OnItsWay(b) : <<b, e>> \notin handed
  /\ \A t \in Threads : Uncounted(t) \subseteq handed

Heals == \A b \in Syslogs : after[b] # "missed" /\ (after[b] = "raised" => handle[b] = "none")

SiemInv ==
  /\ ListTypes /\ HandleTypes /\ CountTypes
  /\ WalksInOrder /\ MessagesApart /\ HandedOnce /\ StatsTell /\ Heals

(***************************************************************************)
(* Sequences without repetition: longer, shorter, and with one element     *)
(* taken out.                                                              *)
(***************************************************************************)
LEMMA AppendApart ==
  ASSUME NEW S, NEW s \in Seq(S), IsInjective(s), NEW e \in S, e \notin Range(s)
  PROVE  IsInjective(Append(s, e))
<1>1. /\ Len(Append(s, e)) = Len(s) + 1 /\ Len(s) \in Nat /\ Append(s, e) \in Seq(S)
      /\ \A i \in 1 .. Len(s) : Append(s, e)[i] = s[i]
      /\ Append(s, e)[Len(s) + 1] = e
  BY RangeOfAppend
<1>2. DOMAIN s = 1 .. Len(s) /\ DOMAIN Append(s, e) = 1 .. (Len(s) + 1)
  BY <1>1, LenProperties
<1>3. \A i \in 1 .. Len(s) : s[i] # e
  BY <1>2 DEF Range
<1>4. ASSUME NEW i \in 1 .. (Len(s) + 1), NEW j \in 1 .. (Len(s) + 1),
             Append(s, e)[i] = Append(s, e)[j]
      PROVE  i = j
  <2>1. CASE i \in 1 .. Len(s) /\ j \in 1 .. Len(s)
    BY <1>1, <1>2, <1>4, <2>1 DEF IsInjective
  <2>2. CASE i \in 1 .. Len(s) /\ j = Len(s) + 1
    BY <1>1, <1>3, <1>4, <2>2
  <2>3. CASE j \in 1 .. Len(s) /\ i = Len(s) + 1
    BY <1>1, <1>3, <1>4, <2>3
  <2> QED BY <1>1, <2>1, <2>2, <2>3
<1> QED BY <1>2, <1>4 DEF IsInjective

LEMMA TailApart ==
  ASSUME NEW S, NEW s \in Seq(S), IsInjective(s), s # <<>>
  PROVE  IsInjective(Tail(s)) /\ Head(s) \notin Range(Tail(s))
<1>1. /\ Tail(s) \in Seq(S) /\ Len(s) \in Nat \ {0} /\ Len(Tail(s)) = Len(s) - 1
      /\ Head(s) = s[1] /\ \A i \in 1 .. (Len(s) - 1) : Tail(s)[i] = s[i + 1]
  BY RangeOfTail
<1>2. DOMAIN s = 1 .. Len(s) /\ DOMAIN Tail(s) = 1 .. (Len(s) - 1)
  BY <1>1, LenProperties
<1>3. \A i \in 1 .. (Len(s) - 1) : Tail(s)[i] # s[1]
  <2> SUFFICES ASSUME NEW i \in 1 .. (Len(s) - 1), s[i + 1] = s[1] PROVE FALSE
    BY <1>1
  <2>1. i + 1 \in 1 .. Len(s) /\ 1 \in 1 .. Len(s) /\ i + 1 # 1
    BY <1>1
  <2> QED BY <1>2, <2>1 DEF IsInjective
<1>4. ASSUME NEW i \in 1 .. (Len(s) - 1), NEW j \in 1 .. (Len(s) - 1), Tail(s)[i] = Tail(s)[j]
      PROVE  i = j
  <2>1. i + 1 \in 1 .. Len(s) /\ j + 1 \in 1 .. Len(s) /\ s[i + 1] = s[j + 1]
    BY <1>1, <1>4
  <2>2. i + 1 = j + 1
    BY <1>2, <2>1 DEF IsInjective
  <2> QED BY <2>2
<1> QED BY <1>1, <1>2, <1>3, <1>4 DEF IsInjective, Range

LEMMA RemoveApart ==
  ASSUME NEW S, NEW s \in Seq(S), IsInjective(s), NEW i \in 1 .. Len(s)
  PROVE  /\ RemoveAt(s, i) \in Seq(S) /\ IsInjective(RemoveAt(s, i))
         /\ Range(RemoveAt(s, i)) \subseteq Range(s)
<1> DEFINE n == Len(s)
           short == RemoveAt(s, i)
<1>1. n \in Nat /\ s \in [1 .. n -> S] /\ DOMAIN s = 1 .. n
  BY LenProperties
<1>2. /\ SubSeq(s, 1, i - 1) \in Seq(S) /\ Len(SubSeq(s, 1, i - 1)) = i - 1
      /\ \A j \in 1 .. (i - 1) : SubSeq(s, 1, i - 1)[j] = s[j]
  BY <1>1
<1>3. /\ SubSeq(s, i + 1, n) \in Seq(S) /\ Len(SubSeq(s, i + 1, n)) = n - i
      /\ \A j \in 1 .. (n - i) : SubSeq(s, i + 1, n)[j] = s[j + i]
  <2>1. i + 1 \in Int /\ n \in Int /\ \A j \in (i + 1) .. n : s[j] \in S
    BY <1>1
  <2>2. /\ SubSeq(s, i + 1, n) \in Seq(S)
        /\ Len(SubSeq(s, i + 1, n)) = IF i + 1 <= n THEN n - (i + 1) + 1 ELSE 0
        /\ \A j \in 1 .. (n - (i + 1) + 1) : SubSeq(s, i + 1, n)[j] = s[(i + 1) + j - 1]
    BY <2>1, SubSeqProperties
  <2>3. i \in 1 .. n /\ n \in Nat
    BY <1>1
  <2> HIDE DEF n
  <2>4. n - (i + 1) + 1 = n - i /\ (~(i + 1 <= n) => n - i = 0)
    BY <2>3
  <2>5. \A j \in 1 .. (n - i) : (i + 1) + j - 1 = j + i
    BY <2>3
  <2> QED BY <2>2, <2>4, <2>5
<1>4. /\ short \in Seq(S) /\ Len(short) = n - 1
      /\ \A j \in 1 .. (n - 1) : short[j] = IF j < i THEN s[j] ELSE s[j + 1]
  <2>1. short = SubSeq(s, 1, i - 1) \o SubSeq(s, i + 1, n)
    BY DEF RemoveAt
  <2>2. /\ short \in Seq(S) /\ Len(short) = (i - 1) + (n - i)
        /\ \A j \in 1 .. ((i - 1) + (n - i)) :
             short[j] = IF j <= i - 1 THEN SubSeq(s, 1, i - 1)[j]
                        ELSE SubSeq(s, i + 1, n)[j - (i - 1)]
    <3> DEFINE l == SubSeq(s, 1, i - 1)
               r == SubSeq(s, i + 1, n)
    <3>1. l \in Seq(S) /\ r \in Seq(S) /\ Len(l) = i - 1 /\ Len(r) = n - i
      BY <1>2, <1>3
    <3> HIDE DEF l, r
    <3>2. /\ l \o r \in Seq(S) /\ Len(l \o r) = Len(l) + Len(r)
          /\ \A j \in 1 .. (Len(l) + Len(r)) :
               (l \o r)[j] = IF j <= Len(l) THEN l[j] ELSE r[j - Len(l)]
      BY <3>1, ConcatProperties
    <3>3. short = l \o r
      BY <2>1 DEF l, r
    <3> HIDE DEF short
    <3> QED BY <3>1, <3>2, <3>3 DEF l, r
  <2>3. (i - 1) + (n - i) = n - 1
    BY <1>1
  <2>4. ASSUME NEW j \in 1 .. (n - 1)
        PROVE  short[j] = IF j < i THEN s[j] ELSE s[j + 1]
    <3>1. CASE j < i
      BY <1>1, <1>2, <2>2, <2>3, <3>1
    <3>2. CASE ~(j < i)
      <4>1. j - (i - 1) \in 1 .. (n - i) /\ ~(j <= i - 1) /\ j - (i - 1) + i = j + 1
        BY <1>1, <3>2
      <4>2. SubSeq(s, i + 1, n)[j - (i - 1)] = s[j + 1]
        BY <1>3, <4>1
      <4> QED BY <2>2, <2>3, <3>2, <4>1, <4>2
    <3> QED BY <3>1, <3>2
  <2> QED BY <2>2, <2>3, <2>4
<1> HIDE DEF short
<1>5. DOMAIN short = 1 .. (n - 1)
  BY <1>1, <1>4, LenProperties
<1>6. ASSUME NEW j \in 1 .. (n - 1), NEW k \in 1 .. (n - 1), short[j] = short[k] PROVE j = k
  <2> DEFINE at(x) == IF x < i THEN x ELSE x + 1
  <2>1. at(j) \in 1 .. n /\ at(k) \in 1 .. n /\ (at(j) = at(k) => j = k)
    BY <1>1
  <2>2. short[j] = s[at(j)] /\ short[k] = s[at(k)]
    BY <1>4
  <2> HIDE DEF at
  <2> QED BY <1>1, <1>6, <2>1, <2>2 DEF IsInjective
<1>7. \A j \in 1 .. (n - 1) : short[j] \in Range(s)
  <2> SUFFICES ASSUME NEW j \in 1 .. (n - 1) PROVE short[j] \in Range(s)
    OBVIOUS
  <2>1. j \in 1 .. n /\ j + 1 \in 1 .. n
    BY <1>1
  <2> QED BY <1>1, <1>4, <2>1 DEF Range
<1>8. short \in Seq(S) /\ IsInjective(short) /\ Range(short) \subseteq Range(s)
  <2>1. IsInjective(short)
    BY <1>5, <1>6 DEF IsInjective
  <2>2. Range(short) \subseteq Range(s)
    BY <1>5, <1>7 DEF Range
  <2> QED BY <1>4, <2>1, <2>2
<1> QED BY <1>8 DEF short

LEMMA PairsCounted ==
  ASSUME NEW S, NEW s \in Seq(S), IsInjective(s), NEW b
  PROVE  /\ IsFiniteSet({<<b, s[i]>> : i \in 1 .. Len(s)})
         /\ Cardinality({<<b, s[i]>> : i \in 1 .. Len(s)}) = Len(s) /\ Len(s) \in Nat
<1> DEFINE pairs == {<<b, s[i]>> : i \in 1 .. Len(s)}
           pair == [i \in 1 .. Len(s) |-> <<b, s[i]>>]
<1>1. Len(s) \in Nat /\ DOMAIN s = 1 .. Len(s)
  BY LenProperties
<1>2. pair \in [1 .. Len(s) -> pairs] /\ \A p \in pairs : \E i \in 1 .. Len(s) : pair[i] = p
  OBVIOUS
<1>3. IsInjective(pair)
  BY <1>1 DEF IsInjective
<1> HIDE DEF pair, pairs
<1>4. pair \in Bijection(1 .. Len(s), pairs)
  BY <1>2, <1>3 DEF Bijection, Injection, Surjection
<1>5. ExistsBijection(1 .. Len(s), pairs)
  BY <1>4 DEF ExistsBijection
<1>6. IsFiniteSet(1 .. Len(s)) /\ Cardinality(1 .. Len(s)) = Len(s)
  BY <1>1, FS_Interval
<1>7. IsFiniteSet(pairs) /\ Cardinality(pairs) = Len(s)
  BY <1>5, <1>6, FS_Bijection
<1> QED BY <1>1, <1>7 DEF pairs

LEMMA JoinedCount ==
  ASSUME NEW S, NEW T, IsFiniteSet(S), IsFiniteSet(T), S \cap T = {}
  PROVE  /\ IsFiniteSet(S \cup T) /\ Cardinality(S \cup T) = Cardinality(S) + Cardinality(T)
         /\ Cardinality(S) \in Nat /\ Cardinality(T) \in Nat
<1>1. Cardinality(S \cap T) = 0
  BY FS_EmptySet
<1>2. Cardinality(S) \in Nat /\ Cardinality(T) \in Nat
  BY FS_CardinalityType
<1>3. /\ IsFiniteSet(S \cup T)
      /\ Cardinality(S \cup T) = Cardinality(S) + Cardinality(T) - Cardinality(S \cap T)
  BY FS_Union
<1> QED BY <1>1, <1>2, <1>3
-----------------------------------------------------------------------------
(***************************************************************************)
(* What is ahead of a backend in a thread is in the thread's batch.        *)
(***************************************************************************)
LEMMA WalkTypes ==
  ASSUME SiemInv, NEW t \in Threads
  PROVE  /\ thread[t] \in WalkRecord /\ thread[t].pos \in Nat \ {0} /\ thread[t].sent \in Nat
         /\ thread[t].batch \in Seq(Messages) /\ thread[t].todo \in Seq(Backends)
         /\ InOrder(thread[t])
         /\ Len(thread[t].batch) \in Nat /\ DOMAIN thread[t].batch = 1 .. Len(thread[t].batch)
<1>1. thread[t] \in WalkRecord
  BY DEF SiemInv, ListTypes
<1>2. /\ thread[t].pos \in Nat \ {0} /\ thread[t].sent \in Nat
      /\ thread[t].batch \in Seq(Messages) /\ thread[t].todo \in Seq(Backends)
  BY <1>1 DEF WalkRecord
<1> QED BY <1>1, <1>2, LenProperties DEF SiemInv, WalksInOrder

LEMMA AheadInBatch ==
  ASSUME NEW th \in WalkRecord, NEW b \in Backends
  PROVE  Ahead(th, b) \subseteq Range(th.batch)
<1>1. th.pos \in Nat \ {0} /\ th.batch \in Seq(Messages)
  BY DEF WalkRecord
<1>2. Len(th.batch) \in Nat /\ DOMAIN th.batch = 1 .. Len(th.batch)
  BY <1>1, LenProperties
<1>3. {th.batch[i] : i \in th.pos .. Len(th.batch)} \subseteq Range(th.batch)
  BY <1>1, <1>2 DEF Range
<1> QED BY <1>3 DEF Ahead

LEMMA AheadInNextBatch ==
  ASSUME NEW t \in Threads, thread'[t] \in WalkRecord, NEW b \in Backends
  PROVE  Ahead(thread[t], b)' \subseteq Range(thread'[t].batch)
<1>1. thread'[t].pos \in Nat \ {0} /\ thread'[t].batch \in Seq(Messages)
  BY DEF WalkRecord
<1>2. /\ Len(thread'[t].batch) \in Nat
      /\ DOMAIN thread'[t].batch = 1 .. Len(thread'[t].batch)
  BY <1>1, LenProperties
<1>3. {thread'[t].batch[i] : i \in thread'[t].pos .. Len(thread'[t].batch)}
        \subseteq Range(thread'[t].batch)
  BY <1>1, <1>2 DEF Range
<1> QED BY <1>3 DEF Ahead

LEMMA OnItsWayTaken ==
  ASSUME SiemInv, NEW b \in Backends
  PROVE  OnItsWay(b) \subseteq taken
<1>1. \A t \in Threads : Ahead(thread[t], b) \subseteq Batch(t)
  BY WalkTypes, AheadInBatch DEF Batch
<1>2. Waiting \subseteq taken /\ \A t \in Threads : Batch(t) \subseteq taken
  BY DEF SiemInv, MessagesApart
<1> QED BY <1>1, <1>2 DEF OnItsWay

(***************************************************************************)
(* One thread goes on to the walk r, and takes X out of the queue.         *)
(***************************************************************************)
WalksOn(t, r, X) ==
  /\ r \in WalkRecord /\ InOrder(r) /\ thread[t].at # "off" /\ thread' = [thread EXCEPT ![t] = r]
  /\ UNCHANGED <<backends, threads, messages, caller, taken>>
  /\ dispatching' \in BOOLEAN /\ control' \in {"free", "signal", "join"}
  /\ inbox' \in Seq(Messages \cup {NoMessage}) /\ Len(inbox') <= InboxMax
  /\ \A i, j \in 1 .. Len(inbox') : inbox'[i] = inbox'[j] => i = j \/ inbox'[i] = NoMessage
  /\ X \subseteq Waiting /\ Waiting' \subseteq Waiting \ X
  /\ Range(r.batch) \subseteq Batch(t) \cup X
  /\ \A b \in Backends : Ahead(r, b) \subseteq Ahead(thread[t], b) \cup X

LEMMA OneWalks ==
  ASSUME SiemInv, NEW t \in Threads, NEW r, NEW X, WalksOn(t, r, X)
  PROVE  /\ ListTypes' /\ WalksInOrder' /\ MessagesApart'
         /\ \A b \in Backends : OnItsWay(b)' \subseteq OnItsWay(b)
<1> USE DEF WalksOn
<1>1. thread \in [Threads -> WalkRecord]
  BY DEF SiemInv, ListTypes
<1>2. /\ thread' \in [Threads -> WalkRecord] /\ thread'[t] = r
      /\ \A u \in Threads : u # t => thread'[u] = thread[u]
  BY <1>1
<1>3. ListTypes'
  BY <1>2 DEF SiemInv, ListTypes
<1>4. WalksInOrder'
  <2>1. ASSUME NEW u \in Threads PROVE InOrder(thread[u])'
    <3>1. CASE u = t
      BY <1>2, <3>1 DEF InOrder, Sending
    <3>2. CASE u # t
      <4>1. InOrder(thread[u]) /\ thread'[u] = thread[u]
        BY <1>2, <3>2, WalkTypes
      <4> QED BY <4>1 DEF InOrder, Sending
    <3> QED BY <3>1, <3>2
  <2>2. \A u \in Threads : u > threads => thread'[u].at = "off"
    BY <1>2 DEF SiemInv, WalksInOrder
  <2> QED BY <2>1, <2>2 DEF WalksInOrder
<1>5. /\ Batch(t)' \subseteq Batch(t) \cup X
      /\ \A u \in Threads : u # t => Batch(u)' = Batch(u)
  BY <1>2 DEF Batch
<1>6. MessagesApart'
  <2>1. Waiting' \subseteq taken'
    BY DEF SiemInv, MessagesApart
  <2>2. /\ Waiting \subseteq taken /\ \A u \in Threads : Batch(u) \subseteq taken
        /\ \A u \in Threads : Batch(u) \cap Waiting = {}
        /\ \A u, v \in Threads : u # v => Batch(u) \cap Batch(v) = {}
    BY DEF SiemInv, MessagesApart
  <2>3. \A u \in Threads : Batch(u)' \subseteq taken' /\ Batch(u)' \cap Waiting' = {}
    <3>1. Batch(t)' \subseteq taken' /\ Batch(t)' \cap Waiting' = {}
      BY <1>5, <2>2
    <3>2. ASSUME NEW u \in Threads, u # t
          PROVE  Batch(u)' \subseteq taken' /\ Batch(u)' \cap Waiting' = {}
      BY <1>5, <2>2, <3>2
    <3> QED BY <3>1, <3>2
  <2>4. \A u, v \in Threads : u # v => Batch(u)' \cap Batch(v)' = {}
    <3>1. \A u \in Threads : u # t => Batch(t)' \cap Batch(u)' = {}
      BY <1>5, <2>2
    <3>2. \A u, v \in Threads : u # v /\ u # t /\ v # t => Batch(u)' \cap Batch(v)' = {}
      BY <1>5, <2>2
    <3> QED BY <3>1, <3>2
  <2>5. /\ taken' \subseteq 1 .. messages'
        /\ \A c \in Callers :
             caller'[c].at = "put" => caller'[c].message \in (1 .. messages') \ taken'
        /\ \A c, d \in Callers :
             caller'[c].at = "put" /\ caller'[d].at = "put"
               /\ caller'[c].message = caller'[d].message => c = d
    BY DEF SiemInv, MessagesApart
  <2> QED BY <2>1, <2>3, <2>4, <2>5 DEF MessagesApart
<1>7. ASSUME NEW b \in Backends PROVE OnItsWay(b)' \subseteq OnItsWay(b)
  <2>1. Ahead(thread[t], b)' \subseteq Ahead(thread[t], b) \cup X
    BY <1>2 DEF Ahead
  <2>2. \A u \in Threads : u # t => Ahead(thread[u], b)' = Ahead(thread[u], b)
    BY <1>2 DEF Ahead
  <2> QED BY <2>1, <2>2 DEF OnItsWay
<1> QED BY <1>3, <1>4, <1>6, <1>7

(***************************************************************************)
(* A step deals with messages that were on their way, or a caller's        *)
(* message is accepted.                                                    *)
(***************************************************************************)
Deals ==
  /\ UNCHANGED taken /\ arrived \subseteq arrived'
  /\ \A b \in Backends : OnItsWay(b)' \subseteq OnItsWay(b)
  /\ \A b \in Backends : \A e \in Messages : <<b, e>> \in arrived' \ arrived => e \in OnItsWay(b)

TakesIn(e) ==
  /\ e \in Messages \ taken /\ taken' = taken \cup {e} /\ UNCHANGED arrived
  /\ \A b \in Backends : OnItsWay(b)' = OnItsWay(b) \cup {e}

(***************************************************************************)
(* Nothing is handed to a backend, and no thread goes on in its batch.     *)
(***************************************************************************)
LEMMA NothingHanded ==
  ASSUME SiemInv, UNCHANGED <<handed, arrived, stats, refused, taken>>,
         \A b \in Backends : OnItsWay(b)' \subseteq OnItsWay(b),
         \A t \in Threads : Uncounted(t)' = Uncounted(t)
  PROVE  CountTypes' /\ HandedOnce' /\ StatsTell' /\ Deals
<1>1. CountTypes'
  BY DEF SiemInv, CountTypes
<1>2. HandedOnce'
  BY DEF SiemInv, HandedOnce
<1>3. UNION {Uncounted(t) : t \in Threads}' = UNION {Uncounted(t) : t \in Threads}
  OBVIOUS
<1>4. StatsTell'
  BY <1>3 DEF SiemInv, StatsTell
<1> QED BY <1>1, <1>2, <1>4 DEF Deals

LEMMA HandlesStay ==
  ASSUME SiemInv, UNCHANGED <<handle, after>>
  PROVE  HandleTypes' /\ Heals'
BY DEF SiemInv, HandleTypes, Heals
-----------------------------------------------------------------------------
(***************************************************************************)
(* Steps in which no message and no thread moves: stop(), and the peers.   *)
(***************************************************************************)
LEMMA NobodyWalks ==
  ASSUME SiemInv,
         UNCHANGED <<backends, threads, thread, messages, caller, taken, handed, arrived,
                     stats, refused>>,
         dispatching' \in BOOLEAN, control' \in {"free", "signal", "join"},
         inbox' \in Seq(Messages \cup {NoMessage}), Len(inbox') <= InboxMax,
         \A i, j \in 1 .. Len(inbox') : inbox'[i] = inbox'[j] => i = j \/ inbox'[i] = NoMessage,
         Waiting' = Waiting, HandleTypes', Heals'
  PROVE  SiemInv' /\ Deals
<1>1. ListTypes'
  BY DEF SiemInv, ListTypes
<1>2. WalksInOrder'
  BY DEF SiemInv, WalksInOrder, InOrder, Sending
<1>3. MessagesApart'
  BY DEF SiemInv, MessagesApart, Batch
<1>4. \A b \in Backends : OnItsWay(b)' \subseteq OnItsWay(b)
  BY DEF OnItsWay, Ahead
<1>5. \A t \in Threads : Uncounted(t)' = Uncounted(t)
  BY DEF Uncounted
<1> QED BY <1>1, <1>2, <1>3, <1>4, <1>5, NothingHanded DEF SiemInv

LEMMA InboxStays ==
  ASSUME SiemInv, UNCHANGED inbox
  PROVE  /\ inbox' \in Seq(Messages \cup {NoMessage}) /\ Len(inbox') <= InboxMax
         /\ \A i, j \in 1 .. Len(inbox') :
              inbox'[i] = inbox'[j] => i = j \/ inbox'[i] = NoMessage
         /\ Waiting' = Waiting
         /\ dispatching \in BOOLEAN /\ control \in {"free", "signal", "join"}
BY DEF SiemInv, ListTypes, MessagesApart, Waiting

LEMMA SiemStopKeeps == ASSUME SiemInv, SiemStop PROVE SiemInv' /\ Deals
<1>1. /\ dispatching' = FALSE /\ control' = "signal"
      /\ UNCHANGED <<inbox, threads, thread, stats, handed, handle, up, flaps, arrived, after,
                     caller, messages, taken, refused, backends, changes>>
  BY DEF SiemStop, network, callers, list
<1> QED BY <1>1, InboxStays, HandlesStay, NobodyWalks

LEMMA SignalEndKeeps == ASSUME SiemInv, SignalEnd PROVE SiemInv' /\ Deals
<1>1. /\ Len(inbox) < InboxMax /\ inbox' = Append(inbox, NoMessage) /\ control' = "join"
      /\ UNCHANGED <<dispatching, threads, thread, stats, handed, handle, up, flaps, arrived,
                     after, caller, messages, taken, refused, backends, changes>>
  BY DEF SignalEnd, Fits, network, callers, list
<1>2. /\ inbox \in Seq(Messages \cup {NoMessage}) /\ Len(inbox) <= InboxMax
      /\ dispatching \in BOOLEAN
  BY DEF SiemInv, ListTypes
<1>3. /\ inbox' \in Seq(Messages \cup {NoMessage}) /\ Len(inbox') = Len(inbox) + 1
      /\ Len(inbox) \in Nat /\ Range(inbox') = Range(inbox) \cup {NoMessage}
      /\ \A i \in 1 .. Len(inbox) : inbox'[i] = inbox[i]
      /\ inbox'[Len(inbox) + 1] = NoMessage
  BY <1>1, <1>2, RangeOfAppend
<1>4. Len(inbox') <= InboxMax
  BY <1>1, <1>3, SiemAssumption
<1>5. Waiting' = Waiting
  BY <1>3 DEF Waiting
<1>6. ASSUME NEW i \in 1 .. Len(inbox'), NEW j \in 1 .. Len(inbox'), inbox'[i] = inbox'[j]
      PROVE  i = j \/ inbox'[i] = NoMessage
  <2>1. CASE i \in 1 .. Len(inbox) /\ j \in 1 .. Len(inbox)
    BY <1>3, <1>6, <2>1 DEF SiemInv, MessagesApart
  <2>2. CASE i = Len(inbox) + 1 \/ j = Len(inbox) + 1
    BY <1>3, <1>6, <2>2
  <2> QED BY <1>3, <2>1, <2>2
<1> QED BY <1>1, <1>2, <1>3, <1>4, <1>5, <1>6, HandlesStay, NobodyWalks

LEMMA SiemCloseKeeps == ASSUME SiemInv, SiemClose PROVE SiemInv' /\ Deals
<1>1. /\ handle' = CloseAll(Range(backends)) /\ control' = "free"
      /\ UNCHANGED <<dispatching, inbox, threads, thread, stats, handed, arrived, after,
                     caller, messages, taken, refused, backends, changes>>
  BY DEF SiemClose, callers, list
<1>2. /\ handle \in [Backends -> {"open", "closed", "none", "stale", "broken"}]
      /\ Files \cup Hooks \cup Sockets = Backends /\ Syslogs \subseteq Sockets
      /\ Files \cap Sockets = {} /\ Files \cap Hooks = {}
  BY SiemAssumption DEF SiemInv, HandleTypes, Backends, Sockets
<1>3. /\ handle' \in [Backends -> {"open", "closed", "none", "stale", "broken"}]
      /\ \A b \in Backends : handle'[b] = IF b \notin Range(backends) THEN handle[b]
                                          ELSE IF b \in Files THEN "closed" ELSE "none"
  BY <1>1, <1>2 DEF CloseAll
<1>4. HandleTypes' /\ Heals'
  BY <1>1, <1>2, <1>3 DEF SiemInv, HandleTypes, Heals
<1> QED BY <1>1, <1>4, InboxStays, NobodyWalks

LEMMA PeersKeep ==
  ASSUME SiemInv, NEW b \in Sockets, PeerLeaves(b) \/ PeerReturns(b)
  PROVE  SiemInv' /\ Deals
<1>1. /\ UNCHANGED <<dispatching, inbox, threads, thread, control, stats, handed, arrived, after,
                     caller, messages, taken, refused, backends, changes>>
      /\ handle' \in {handle, [handle EXCEPT ![b] = IF @ = "open" THEN "stale" ELSE @]}
  BY DEF PeerLeaves, PeerReturns, callers, list
<1>2. /\ handle \in [Backends -> {"open", "closed", "none", "stale", "broken"}]
      /\ b \in Backends
  BY DEF SiemInv, HandleTypes, Backends, Sockets
<1>3. /\ handle' \in [Backends -> {"open", "closed", "none", "stale", "broken"}]
      /\ \A c \in Backends : handle'[c] = handle[c]
                               \/ (c = b /\ handle[c] = "open" /\ handle'[c] = "stale")
  BY <1>1, <1>2
<1>4. /\ Syslogs \subseteq Backends /\ Files \subseteq Backends /\ Hooks \subseteq Backends
      /\ Sockets \subseteq Backends /\ b \notin Files /\ b \notin Hooks
  BY SiemAssumption DEF Backends, Sockets
<1>5. HandleTypes' /\ Heals'
  BY <1>1, <1>3, <1>4 DEF SiemInv, HandleTypes, Heals
<1> QED BY <1>1, <1>5, InboxStays, NobodyWalks

(***************************************************************************)
(* The list of backends changes under the threads that walk it.            *)
(***************************************************************************)
LEMMA ListChanges ==
  ASSUME SiemInv, UNCHANGED <<inbox, threads, control, dispatching, messages, caller, taken,
                              handed, arrived, stats, refused, handle, after>>,
         backends' \in Seq(Backends), IsInjective(backends'),
         thread' \in [Threads -> WalkRecord],
         \A t \in Threads :
           /\ InOrder(thread[t])' /\ thread'[t].batch = thread[t].batch
           /\ thread'[t].at = thread[t].at /\ Uncounted(t)' = Uncounted(t)
           /\ \A b \in Backends : Ahead(thread[t], b)' \subseteq Ahead(thread[t], b)
  PROVE  SiemInv' /\ Deals
<1>1. ListTypes'
  BY DEF SiemInv, ListTypes
<1>2. WalksInOrder'
  BY DEF SiemInv, WalksInOrder
<1>3. MessagesApart'
  BY DEF SiemInv, MessagesApart, Batch, Waiting
<1>4. \A b \in Backends : OnItsWay(b)' \subseteq OnItsWay(b)
  BY DEF OnItsWay, Waiting
<1> QED BY <1>1, <1>2, <1>3, <1>4, NothingHanded, HandlesStay DEF SiemInv

LEMMA AddBackendKeeps ==
  ASSUME SiemInv, NEW b \in Backends, AddBackend(b)
  PROVE  SiemInv' /\ Deals
<1>1. /\ b \notin Range(backends) /\ backends' = Append(backends, b)
      /\ thread' = [t \in Threads |->
           IF Walks(t) THEN [thread[t] EXCEPT !.todo = Append(@, b)] ELSE thread[t]]
      /\ UNCHANGED <<inbox, threads, control, dispatching, messages, caller, taken, handed,
                     arrived, stats, refused, handle, after>>
  BY DEF AddBackend, network, callers
<1>2. backends \in Seq(Backends) /\ IsInjective(backends)
  BY DEF SiemInv, ListTypes
<1>3. /\ backends' \in Seq(Backends) /\ IsInjective(backends')
      /\ Range(backends') = Range(backends) \cup {b}
  BY <1>1, <1>2, RangeOfAppend, AppendApart
<1>4. ASSUME NEW t \in Threads
      PROVE  /\ thread'[t] \in WalkRecord
             /\ InOrder(thread[t])' /\ thread'[t].batch = thread[t].batch
             /\ thread'[t].at = thread[t].at /\ Uncounted(t)' = Uncounted(t)
             /\ \A c \in Backends : Ahead(thread[t], c)' \subseteq Ahead(thread[t], c)
  <2>1. /\ thread[t] \in WalkRecord /\ thread[t].pos \in Nat \ {0} /\ thread[t].sent \in Nat
        /\ thread[t].batch \in Seq(Messages) /\ thread[t].todo \in Seq(Backends)
        /\ InOrder(thread[t])
        /\ Len(thread[t].batch) \in Nat /\ DOMAIN thread[t].batch = 1 .. Len(thread[t].batch)
    BY WalkTypes
  <2>2. CASE ~Walks(t)
    <3>1. thread'[t] = thread[t]
      BY <1>1, <2>2
    <3>2. InOrder(thread[t])'
      BY <1>3, <2>1, <3>1 DEF InOrder, Sending
    <3>3. \A c \in Backends : Ahead(thread[t], c)' \subseteq Ahead(thread[t], c)
      <4>1. ~Sending(thread[t]) => thread[t].todo = <<>>
        BY <2>1 DEF InOrder
      <4>2. CASE ~thread[t].same
        BY <3>1, <4>2 DEF Ahead
      <4>3. CASE ~Sending(thread[t])
        BY <1>3, <3>1, <4>1, <4>3, EmptyRange DEF Ahead
      <4> QED BY <2>2, <4>2, <4>3 DEF Walks, Sending
    <3> QED BY <2>1, <3>1, <3>2, <3>3 DEF Uncounted
  <2>3. CASE Walks(t)
    <3> DEFINE before == thread[t]
               longer == Append(before.todo, b)
    <3>1. /\ before.at \in {"send", "stuck"} /\ before.same
          /\ Range(before.todo) \subseteq Range(backends)
          /\ before.batch # <<>> /\ (before.todo = <<>> => before.pos = 1)
          /\ b \notin Range(before.todo)
      BY <1>1, <2>1, <2>3 DEF Walks, InOrder, Sending
    <3>2. /\ longer \in Seq(Backends) /\ IsInjective(longer)
          /\ Range(longer) = Range(before.todo) \cup {b}
          /\ longer # <<>> /\ Head(longer) = IF before.todo = <<>> THEN b ELSE Head(before.todo)
      <4>1. /\ longer \in Seq(Backends) /\ Range(longer) = Range(before.todo) \cup {b}
            /\ IsInjective(longer) /\ Len(longer) = Len(before.todo) + 1
            /\ Len(before.todo) \in Nat
            /\ \A i \in 1 .. Len(before.todo) : longer[i] = before.todo[i]
            /\ longer[Len(before.todo) + 1] = b
        BY <2>1, <3>1, RangeOfAppend, AppendApart DEF InOrder
      <4>2. longer # <<>> /\ Head(longer) = longer[1]
        <5>1. longer # <<>>
          <6>1. Len(longer) # 0
            BY <4>1
          <6> HIDE DEF longer
          <6> QED BY <6>1, EmptyRange
        <5> HIDE DEF longer
        <5> QED BY <4>1, <5>1, RangeOfTail
      <4>3. CASE before.todo = <<>>
        BY <4>1, <4>2, <4>3
      <4>4. CASE before.todo # <<>>
        <5>1. 1 \in 1 .. Len(before.todo) /\ Head(before.todo) = before.todo[1]
          BY <2>1, <4>4, RangeOfTail
        <5> QED BY <4>1, <4>2, <4>4, <5>1
      <4> QED BY <4>1, <4>2, <4>3, <4>4
    <3>3. thread'[t] = [before EXCEPT !.todo = longer]
      BY <1>1, <2>3
    <3> HIDE DEF longer
    <3>4. thread'[t] \in WalkRecord
      BY <2>1, <3>2, <3>3 DEF WalkRecord
    <3>5. /\ thread'[t].todo = longer /\ thread'[t].at = before.at
          /\ thread'[t].batch = before.batch /\ thread'[t].pos = before.pos
          /\ thread'[t].sent = before.sent /\ thread'[t].same = before.same
      BY <2>1, <3>3 DEF WalkRecord
    <3>6. before.pos <= Len(before.batch)
      <4>1. Len(before.batch) # 0
        BY <2>1, <3>1, EmptySeq
      <4> QED BY <2>1, <3>1, <4>1 DEF InOrder
    <3>7. InOrder(thread[t])'
      BY <1>3, <2>1, <3>1, <3>2, <3>5, <3>6 DEF InOrder, Sending
    <3>8. Uncounted(t)' = Uncounted(t)
      <4>1. CASE before.todo = <<>>
        BY <3>1, <3>2, <3>5, <4>1 DEF Uncounted
      <4>2. CASE before.todo # <<>>
        BY <3>2, <3>5, <4>2 DEF Uncounted
      <4> QED BY <4>1, <4>2
    <3>9. ASSUME NEW c \in Backends
          PROVE  Ahead(thread[t], c)' \subseteq Ahead(thread[t], c)
      <4>1. Range(before.batch) = {before.batch[i] : i \in 1 .. Len(before.batch)}
        BY <2>1 DEF Range
      <4>2. thread'[t].at \notin {"off", "gather"}
        BY <3>1, <3>5
      <4>3. CASE c = b
        <5>1. Ahead(thread[t], c) = Range(before.batch)
          BY <1>1, <3>1, <4>3 DEF Ahead
        <5>2. Ahead(thread[t], c)' \subseteq Range(before.batch)
          BY <3>4, <3>5, AheadInNextBatch
        <5> QED BY <5>1, <5>2
      <4>4. CASE c # b
        <5>1. c \in Range(backends') <=> c \in Range(backends)
          BY <1>3, <4>4
        <5>2. c \in Range(longer) <=> c \in Range(before.todo)
          BY <3>2, <4>4
        <5>3. c \in Range(before.todo) => before.todo # <<>>
          BY EmptyRange
        <5> QED BY <3>1, <3>2, <3>5, <4>2, <5>1, <5>2, <5>3 DEF Ahead
      <4> QED BY <4>3, <4>4
    <3> QED BY <3>4, <3>5, <3>7, <3>8, <3>9
  <2> QED BY <2>2, <2>3
<1>5. thread' \in [Threads -> WalkRecord]
  BY <1>1, <1>4
<1> QED BY <1>1, <1>3, <1>4, <1>5, ListChanges

LEMMA RemoveBackendKeeps ==
  ASSUME SiemInv, NEW b \in Backends, RemoveBackend(b)
  PROVE  SiemInv' /\ Deals
<1>1. /\ \E i \in 1 .. Len(backends) : backends' = RemoveAt(backends, i)
      /\ thread' = [t \in Threads |-> [thread[t] EXCEPT !.same = FALSE]]
      /\ UNCHANGED <<inbox, threads, control, dispatching, messages, caller, taken, handed,
                     arrived, stats, refused, handle, after>>
  BY DEF RemoveBackend, network, callers
<1>2. backends \in Seq(Backends) /\ IsInjective(backends)
  BY DEF SiemInv, ListTypes
<1>3. backends' \in Seq(Backends) /\ IsInjective(backends')
  BY <1>1, <1>2, RemoveApart
<1>4. ASSUME NEW t \in Threads
      PROVE  /\ thread'[t] \in WalkRecord
             /\ InOrder(thread[t])' /\ thread'[t].batch = thread[t].batch
             /\ thread'[t].at = thread[t].at /\ Uncounted(t)' = Uncounted(t)
             /\ \A c \in Backends : Ahead(thread[t], c)' \subseteq Ahead(thread[t], c)
  <2>1. thread[t] \in WalkRecord /\ InOrder(thread[t])
    BY WalkTypes
  <2>2. thread'[t] = [thread[t] EXCEPT !.same = FALSE]
    BY <1>1
  <2>3. thread'[t] \in WalkRecord
    BY <2>1, <2>2 DEF WalkRecord
  <2>4. /\ thread'[t].todo = thread[t].todo /\ thread'[t].at = thread[t].at
        /\ thread'[t].batch = thread[t].batch /\ thread'[t].pos = thread[t].pos
        /\ thread'[t].sent = thread[t].sent /\ ~thread'[t].same
    BY <2>1, <2>2 DEF WalkRecord
  <2>5. InOrder(thread[t])'
    BY <2>1, <2>4 DEF InOrder, Sending
  <2>6. ASSUME NEW c \in Backends
        PROVE  Ahead(thread[t], c)' \subseteq Ahead(thread[t], c)
    <3>1. Ahead(thread[t], c)' \subseteq Range(thread[t].batch)
      BY <2>3, <2>4, AheadInNextBatch
    <3>2. CASE thread[t].same /\ c \notin Range(backends)
      BY <3>1, <3>2 DEF Ahead
    <3>3. CASE ~(thread[t].same /\ c \notin Range(backends))
      BY <2>4, <3>3 DEF Ahead
    <3> QED BY <3>2, <3>3
  <2> QED BY <2>3, <2>4, <2>5, <2>6 DEF Uncounted
<1>5. thread' \in [Threads -> WalkRecord]
  BY <1>1, <1>4
<1> QED BY <1>1, <1>3, <1>4, <1>5, ListChanges
(***************************************************************************)
(* dispatch().                                                             *)
(***************************************************************************)
LEMMA DispatchKeeps ==
  ASSUME SiemInv, NEW c \in Callers, Dispatch(c)
  PROVE  SiemInv' /\ Deals
<1>1. /\ caller[c].at = "idle" /\ messages < MaxMessages /\ messages' = messages + 1
      /\ caller' = [caller EXCEPT ![c] = [at |-> "put", message |-> messages + 1]]
      /\ UNCHANGED <<dispatching, inbox, threads, thread, control, stats, handed, handle, up,
                     flaps, arrived, after, backends, changes, taken, refused>>
  BY DEF Dispatch, network, list
<1>2. /\ messages \in 0 .. MaxMessages /\ MaxMessages \in Nat
      /\ caller \in [Callers -> [at : {"idle", "put"}, message : 0 .. MaxMessages]]
  BY SiemAssumption DEF SiemInv, ListTypes
<1>3. messages' \in 0 .. MaxMessages /\ 1 .. messages \subseteq 1 .. messages'
      /\ messages + 1 \in (1 .. messages') \ (1 .. messages)
  BY <1>1, <1>2
<1>4. /\ caller' \in [Callers -> [at : {"idle", "put"}, message : 0 .. MaxMessages]]
      /\ caller'[c].message = messages + 1
      /\ \A d \in Callers : d # c => caller'[d] = caller[d]
  BY <1>1, <1>2, <1>3
<1>5. ListTypes'
  BY <1>1, <1>3, <1>4 DEF SiemInv, ListTypes
<1>6. WalksInOrder'
  BY <1>1 DEF SiemInv, WalksInOrder, InOrder, Sending
<1>7. MessagesApart'
  <2>1. taken' \subseteq 1 .. messages' /\ Waiting' \subseteq taken'
    BY <1>1, <1>3 DEF SiemInv, MessagesApart, Waiting
  <2>2. \A d \in Callers :
          caller'[d].at = "put" => caller'[d].message \in (1 .. messages') \ taken'
    BY <1>1, <1>3, <1>4 DEF SiemInv, MessagesApart
  <2>3. ASSUME NEW d \in Callers, NEW e \in Callers, caller'[d].at = "put",
               caller'[e].at = "put", caller'[d].message = caller'[e].message
        PROVE  d = e
    <3>1. CASE d # c /\ e # c
      BY <1>4, <2>3, <3>1 DEF SiemInv, MessagesApart
    <3>2. ASSUME NEW x \in Callers, x # c, caller'[x].at = "put" PROVE caller'[x].message # messages + 1
      BY <1>3, <1>4, <3>2 DEF SiemInv, MessagesApart
    <3> QED BY <1>4, <2>3, <3>1, <3>2
  <2>4. /\ \A i, j \in 1 .. Len(inbox') :
             inbox'[i] = inbox'[j] => i = j \/ inbox'[i] = NoMessage
        /\ \A t \in Threads : Batch(t)' \subseteq taken' /\ Batch(t)' \cap Waiting' = {}
        /\ \A t, u \in Threads : t # u => Batch(t)' \cap Batch(u)' = {}
    BY <1>1 DEF SiemInv, MessagesApart, Batch, Waiting
  <2> QED BY <2>1, <2>2, <2>3, <2>4 DEF MessagesApart
<1>8. \A b \in Backends : OnItsWay(b)' \subseteq OnItsWay(b)
  BY <1>1 DEF OnItsWay, Ahead, Waiting
<1>9. \A t \in Threads : Uncounted(t)' = Uncounted(t)
  BY <1>1 DEF Uncounted
<1> QED BY <1>1, <1>5, <1>6, <1>7, <1>8, <1>9, NothingHanded, HandlesStay DEF SiemInv

(***************************************************************************)
(* A caller that has put its message, or could not, has none any more.     *)
(***************************************************************************)
LEMMA CallerGoes ==
  ASSUME SiemInv, NEW c \in Callers, Enqueue(c)
  PROVE  /\ caller' \in [Callers -> [at : {"idle", "put"}, message : 0 .. MaxMessages]]
         /\ caller'[c].at = "idle" /\ \A d \in Callers : d # c => caller'[d] = caller[d]
<1>1. /\ caller' = [caller EXCEPT ![c] = [at |-> "idle", message |-> 0]]
      /\ caller \in [Callers -> [at : {"idle", "put"}, message : 0 .. MaxMessages]]
      /\ 0 \in 0 .. MaxMessages
  BY SiemAssumption DEF Enqueue, SiemInv, ListTypes
<1> QED BY <1>1

LEMMA EnqueueKeeps ==
  ASSUME SiemInv, NEW c \in Callers, Enqueue(c)
  PROVE  SiemInv' /\ (Deals \/ \E e \in Messages : TakesIn(e))
<1>1. /\ caller[c].at = "put"
      /\ UNCHANGED <<dispatching, threads, thread, control, handed, handle, up, flaps, arrived,
                     after, backends, changes, messages>>
  BY DEF Enqueue, network, list
<1>2. /\ caller' \in [Callers -> [at : {"idle", "put"}, message : 0 .. MaxMessages]]
      /\ caller'[c].at = "idle" /\ \A d \in Callers : d # c => caller'[d] = caller[d]
  BY CallerGoes
<1>3. WalksInOrder' /\ HandleTypes' /\ Heals'
  BY <1>1, HandlesStay DEF SiemInv, WalksInOrder, InOrder, Sending
<1>4. /\ \A t \in Threads : Uncounted(t)' = Uncounted(t) /\ Batch(t)' = Batch(t)
      /\ \A b \in Backends : \A t \in Threads : Ahead(thread[t], b)' = Ahead(thread[t], b)
  BY <1>1 DEF Uncounted, Ahead, Batch
<1>5. UNION {Uncounted(t) : t \in Threads}' = UNION {Uncounted(t) : t \in Threads}
  BY <1>4
<1>6. CASE /\ Fits /\ inbox' = Append(inbox, caller[c].message)
           /\ taken' = taken \cup {caller[c].message} /\ UNCHANGED <<stats, refused>>
  <2> DEFINE e == caller[c].message
  <2>1. e \in (1 .. messages) \ taken
    BY <1>1 DEF SiemInv, MessagesApart
  <2>2. messages \in 0 .. MaxMessages /\ MaxMessages \in Nat
    BY SiemAssumption DEF SiemInv, ListTypes
  <2>3. e \in Messages /\ e \notin taken /\ e # NoMessage
    BY <2>1, <2>2, SiemAssumption DEF Messages
  <2>4. inbox \in Seq(Messages \cup {NoMessage}) /\ e \in Messages \cup {NoMessage}
    BY <2>3 DEF SiemInv, ListTypes
  <2>5. inbox' = Append(inbox, e) /\ taken' = taken \cup {e} /\ Len(inbox) < InboxMax
    BY <1>6 DEF Fits
  <2> HIDE DEF e
  <2>6. /\ inbox' \in Seq(Messages \cup {NoMessage}) /\ Len(inbox') = Len(inbox) + 1
        /\ Len(inbox) \in Nat /\ Range(inbox') = Range(inbox) \cup {e}
        /\ \A i \in 1 .. Len(inbox) : inbox'[i] = inbox[i]
        /\ inbox'[Len(inbox) + 1] = e
    BY <2>4, <2>5, RangeOfAppend
  <2>7. Len(inbox') <= InboxMax
    BY <2>5, <2>6, SiemAssumption
  <2>8. ListTypes'
    BY <1>1, <1>2, <2>6, <2>7 DEF SiemInv, ListTypes
  <2>9. Waiting' = Waiting \cup {e} /\ e \notin Range(inbox)
    <3>1. Waiting \subseteq taken
      BY DEF SiemInv, MessagesApart
    <3> QED BY <2>3, <2>6, <3>1 DEF Waiting
  <2>10. MessagesApart'
    <3>1. /\ taken' \subseteq 1 .. messages' /\ Waiting' \subseteq taken'
      BY <1>1, <2>1, <2>5, <2>9 DEF SiemInv, MessagesApart
    <3>2. \A d \in Callers :
            caller'[d].at = "put" => caller'[d].message \in (1 .. messages') \ taken'
      BY <1>1, <1>2, <2>5 DEF SiemInv, MessagesApart, e
    <3>3. \A d, f \in Callers :
            caller'[d].at = "put" /\ caller'[f].at = "put" /\ caller'[d].message = caller'[f].message
              => d = f
      BY <1>2 DEF SiemInv, MessagesApart
    <3>4. ASSUME NEW i \in 1 .. Len(inbox'), NEW j \in 1 .. Len(inbox'), inbox'[i] = inbox'[j]
          PROVE  i = j \/ inbox'[i] = NoMessage
      <4>1. \A k \in 1 .. Len(inbox) : inbox[k] # e
        BY <2>4, <2>9, LenProperties DEF Range
      <4>2. CASE i \in 1 .. Len(inbox) /\ j \in 1 .. Len(inbox)
        BY <2>6, <3>4, <4>2 DEF SiemInv, MessagesApart
      <4>3. CASE i = Len(inbox) + 1 \/ j = Len(inbox) + 1
        BY <2>6, <3>4, <4>1, <4>3
      <4> QED BY <2>6, <4>2, <4>3
    <3>5. \A t \in Threads : Batch(t)' \subseteq taken' /\ Batch(t)' \cap Waiting' = {}
      BY <1>4, <2>3, <2>5, <2>9 DEF SiemInv, MessagesApart
    <3>6. \A t, u \in Threads : t # u => Batch(t)' \cap Batch(u)' = {}
      BY <1>4 DEF SiemInv, MessagesApart
    <3> QED BY <3>1, <3>2, <3>3, <3>4, <3>5, <3>6 DEF MessagesApart
  <2>11. CountTypes'
    BY <1>1, <1>6, <2>5 DEF SiemInv, CountTypes
  <2>12. \A b \in Backends : OnItsWay(b)' = OnItsWay(b) \cup {e}
    BY <1>4, <2>9 DEF OnItsWay
  <2>13. HandedOnce'
    <3>1. \A b \in Backends : <<b, e>> \notin handed
      BY <2>3 DEF SiemInv, CountTypes
    <3> QED BY <1>1, <1>4, <2>12, <3>1 DEF SiemInv, HandedOnce
  <2>14. StatsTell'
    BY <1>1, <1>5, <1>6 DEF SiemInv, StatsTell
  <2>15. TakesIn(e)
    BY <1>1, <2>3, <2>5, <2>12 DEF TakesIn
  <2> QED BY <1>3, <2>3, <2>8, <2>10, <2>11, <2>13, <2>14, <2>15 DEF SiemInv
<1>7. CASE /\ stats' = [stats EXCEPT !.dropped = @ + 1] /\ refused' = refused + 1
           /\ UNCHANGED <<inbox, taken>>
  <2>1. ListTypes'
    BY <1>1, <1>2, <1>7 DEF SiemInv, ListTypes
  <2>2. MessagesApart'
    <3>1. Waiting' = Waiting
      BY <1>7 DEF Waiting
    <3>2. \A d \in Callers :
            caller'[d].at = "put" => caller'[d].message \in (1 .. messages') \ taken'
      BY <1>1, <1>2, <1>7 DEF SiemInv, MessagesApart
    <3>3. \A d, f \in Callers :
            caller'[d].at = "put" /\ caller'[f].at = "put" /\ caller'[d].message = caller'[f].message
              => d = f
      BY <1>2 DEF SiemInv, MessagesApart
    <3> QED BY <1>1, <1>4, <1>7, <3>1, <3>2, <3>3 DEF SiemInv, MessagesApart
  <2>3. /\ stats' \in [dispatched : Nat, failed : Nat, dropped : Nat]
        /\ stats'.dispatched = stats.dispatched /\ stats'.failed = stats.failed
        /\ stats'.dropped = stats.dropped + 1 /\ refused' \in Nat
    BY <1>7 DEF SiemInv, CountTypes
  <2>4. CountTypes'
    BY <1>1, <1>7, <2>3 DEF SiemInv, CountTypes
  <2>5. \A b \in Backends : OnItsWay(b)' = OnItsWay(b)
    BY <1>4, <1>7 DEF OnItsWay, Waiting
  <2>6. HandedOnce'
    BY <1>1, <1>4, <2>5 DEF SiemInv, HandedOnce
  <2>7. StatsTell'
    BY <1>1, <1>5, <1>7, <2>3 DEF SiemInv, StatsTell
  <2>8. Deals
    BY <1>1, <1>7, <2>5 DEF Deals
  <2> QED BY <1>3, <2>1, <2>2, <2>4, <2>6, <2>7, <2>8 DEF SiemInv
<1> QED BY <1>6, <1>7 DEF Enqueue
(***************************************************************************)
(* start() brings a thread with nothing in its hands.                      *)
(***************************************************************************)
LEMMA SiemStartKeeps == ASSUME SiemInv, SiemStart PROVE SiemInv' /\ Deals
<1> SUFFICES ASSUME NEW t, t = threads + 1
             PROVE  SiemInv' /\ Deals
  OBVIOUS
<1>1. /\ threads < MaxThreads /\ dispatching' = TRUE /\ threads' = t
      /\ thread' = [thread EXCEPT ![t].at = "gather"]
      /\ UNCHANGED <<inbox, control, stats, handed, handle, up, flaps, arrived, after, caller,
                     messages, taken, refused, backends, changes>>
  BY DEF SiemStart, network, callers, list
<1>2. /\ threads \in 0 .. MaxThreads /\ MaxThreads \in Nat
      /\ thread \in [Threads -> WalkRecord]
  BY SiemAssumption DEF SiemInv, ListTypes
<1>3. t \in Threads /\ t > threads /\ threads' \in 0 .. MaxThreads
      /\ \A u \in Threads : u > threads' => u > threads
  BY <1>1, <1>2 DEF Threads
<1>4. thread[t].at = "off" /\ thread[t] \in WalkRecord /\ InOrder(thread[t])
  BY <1>3, WalkTypes DEF SiemInv, WalksInOrder
<1>5. /\ thread'[t] = [thread[t] EXCEPT !.at = "gather"]
      /\ \A u \in Threads : u # t => thread'[u] = thread[u]
  BY <1>1, <1>2, <1>3
<1>6. thread'[t] \in WalkRecord
  BY <1>4, <1>5 DEF WalkRecord
<1>7. /\ thread'[t].at = "gather" /\ thread'[t].todo = thread[t].todo
      /\ thread'[t].batch = thread[t].batch /\ thread'[t].pos = thread[t].pos
      /\ thread'[t].sent = thread[t].sent /\ thread'[t].same = thread[t].same
  BY <1>4, <1>5 DEF WalkRecord
<1>8. thread' \in [Threads -> WalkRecord]
  BY <1>1, <1>2, <1>3, <1>5, <1>6
<1>9. ListTypes'
  BY <1>1, <1>3, <1>8 DEF SiemInv, ListTypes
<1>10. WalksInOrder'
  <2>1. InOrder(thread[t])'
    <3>1. Len(thread[t].batch) < SendMax
      BY <1>4, EmptyRange, SiemAssumption DEF InOrder
    <3>2. /\ thread[t].batch # <<>> => FALSE
          /\ thread[t].todo = <<>> /\ thread[t].pos = 1 /\ thread[t].sent < thread[t].pos
          /\ IsInjective(thread[t].todo) /\ IsInjective(thread[t].batch)
      BY <1>4 DEF InOrder, Sending
    <3>3. Len(thread[t].batch) <= SendMax
      BY <1>4 DEF InOrder
    <3> QED BY <1>7, <3>1, <3>2, <3>3 DEF InOrder, Sending
  <2>2. ASSUME NEW u \in Threads, u # t PROVE InOrder(thread[u])'
    BY <1>1, <1>5, <2>2, WalkTypes DEF InOrder, Sending
  <2>3. \A u \in Threads : u > threads' => thread'[u].at = "off"
    <3>1. ~(t > threads')
      BY <1>1, <1>3, <1>2 DEF Threads
    <3> QED BY <1>3, <1>5, <3>1 DEF SiemInv, WalksInOrder
  <2>4. \A u \in Threads : InOrder(thread[u])'
    BY <2>1, <2>2
  <2> QED BY <2>3, <2>4 DEF WalksInOrder
<1>11. \A u \in Threads : Batch(u)' = Batch(u)
  BY <1>5, <1>7 DEF Batch
<1>12. MessagesApart'
  BY <1>1, <1>11 DEF SiemInv, MessagesApart, Waiting
<1>13. \A b \in Backends : \A u \in Threads : Ahead(thread[u], b)' = Ahead(thread[u], b)
  <2>1. ASSUME NEW b \in Backends PROVE Ahead(thread[t], b)' = Ahead(thread[t], b)
    BY <1>1, <1>4, <1>7 DEF Ahead
  <2>2. ASSUME NEW b \in Backends, NEW u \in Threads, u # t
        PROVE  Ahead(thread[u], b)' = Ahead(thread[u], b)
    BY <1>1, <1>5, <2>2 DEF Ahead
  <2> QED BY <2>1, <2>2
<1>14. \A b \in Backends : OnItsWay(b)' \subseteq OnItsWay(b)
  BY <1>1, <1>13 DEF OnItsWay, Waiting
<1>15. \A u \in Threads : Uncounted(u)' = Uncounted(u)
  <2>1. Uncounted(t)' = Uncounted(t)
    BY <1>7 DEF Uncounted
  <2>2. ASSUME NEW u \in Threads, u # t PROVE Uncounted(u)' = Uncounted(u)
    <3>1. thread'[u] = thread[u]
      BY <1>5, <2>2
    <3> QED BY <3>1 DEF Uncounted
  <2> QED BY <2>1, <2>2
<1> QED BY <1>1, <1>9, <1>10, <1>12, <1>14, <1>15, NothingHanded, HandlesStay DEF SiemInv

-----------------------------------------------------------------------------
(***************************************************************************)
(* The thread gathers a batch, and begins its walk of the list.            *)
(***************************************************************************)
LEMMA SendBatchWalks ==
  ASSUME SiemInv, NEW batch \in Seq(Messages), Len(batch) <= SendMax, IsInjective(batch),
         NEW last \in BOOLEAN
  PROVE  /\ SendBatch(batch, last) \in WalkRecord /\ InOrder(SendBatch(batch, last))
         /\ SendBatch(batch, last).pos = 1
         /\ Range(SendBatch(batch, last).batch) \subseteq Range(batch)
         /\ \A b \in Backends : Ahead(SendBatch(batch, last), b) \subseteq Range(batch)
<1>1. backends \in Seq(Backends) /\ IsInjective(backends)
  BY DEF SiemInv, ListTypes
<1>2. CASE batch = <<>>
  <2> DEFINE r == [at |-> "ended", batch |-> <<>>, last |-> FALSE, todo |-> <<>>,
                   pos |-> 1, sent |-> 0, same |-> FALSE]
  <2>1. SendBatch(batch, last) = r
    BY <1>2 DEF SendBatch, NotStarted
  <2>2. r \in WalkRecord
    <3>1. <<>> \in Seq(Messages) /\ <<>> \in Seq(Backends)
      BY EmptySeq
    <3> QED BY <3>1 DEF WalkRecord
  <2>3. InOrder(r)
    BY EmptyRange, SiemAssumption DEF InOrder, Sending
  <2>4. \A b \in Backends : Ahead(r, b) \subseteq Range(r.batch)
    BY <2>2, AheadInBatch
  <2>5. r.pos = 1 /\ Range(r.batch) \subseteq Range(batch)
    BY <1>2
  <2> HIDE DEF r
  <2> QED BY <2>1, <2>2, <2>3, <2>4, <2>5
<1>3. CASE batch # <<>>
  <2> DEFINE r == [at |-> "send", batch |-> batch, last |-> last, todo |-> backends,
                   pos |-> 1, sent |-> 0, same |-> TRUE]
  <2>1. SendBatch(batch, last) = r
    BY <1>3 DEF SendBatch
  <2>2. r \in WalkRecord
    BY <1>1 DEF WalkRecord
  <2>3. InOrder(r)
    <3>1. 1 <= Len(batch)
      BY <1>3, RangeOfTail
    <3> QED BY <1>1, <1>3, <3>1 DEF InOrder, Sending
  <2>4. \A b \in Backends : Ahead(r, b) \subseteq Range(r.batch)
    BY <2>2, AheadInBatch
  <2>5. r.pos = 1 /\ Range(r.batch) \subseteq Range(batch)
    OBVIOUS
  <2> HIDE DEF r
  <2> QED BY <2>1, <2>2, <2>3, <2>4, <2>5
<1> QED BY <1>2, <1>3

(***************************************************************************)
(* A gathering thread has everything of its batch ahead, and nothing       *)
(* half counted.                                                           *)
(***************************************************************************)
LEMMA Gathering ==
  ASSUME SiemInv, NEW t \in Threads, thread[t].at = "gather"
  PROVE  /\ thread[t] \in WalkRecord /\ thread[t].batch \in Seq(Messages)
         /\ IsInjective(thread[t].batch) /\ Len(thread[t].batch) < SendMax
         /\ Len(thread[t].batch) \in Nat
         /\ thread[t].todo = <<>> /\ thread[t].pos = 1 /\ thread[t].sent = 0
         /\ Uncounted(t) = {}
         /\ \A b \in Backends : Ahead(thread[t], b) = Batch(t)
<1>1. /\ thread[t] \in WalkRecord /\ thread[t].sent \in Nat
      /\ thread[t].batch \in Seq(Messages) /\ InOrder(thread[t])
      /\ Len(thread[t].batch) \in Nat
  BY WalkTypes
<1>2. /\ IsInjective(thread[t].batch) /\ Len(thread[t].batch) < SendMax
      /\ thread[t].todo = <<>> /\ thread[t].pos = 1 /\ thread[t].sent = 0
  BY <1>1 DEF InOrder, Sending
<1> QED BY <1>1, <1>2 DEF Uncounted, Ahead, Batch

LEMMA GatherEnds ==
  ASSUME SiemInv, NEW t \in Threads, thread[t].at = "gather", NEW last \in BOOLEAN,
         thread' = [thread EXCEPT ![t] = SendBatch(thread[t].batch, last)],
         UNCHANGED <<inbox, dispatching, threads, control, stats, handed, network, callers, list>>
  PROVE  SiemInv' /\ Deals
<1> DEFINE r == SendBatch(thread[t].batch, last)
<1>1. UNCHANGED <<handle, up, flaps, arrived, after, caller, messages, taken, refused, backends,
                  changes>>
  BY DEF network, callers, list
<1>2. /\ IsInjective(thread[t].batch) /\ Len(thread[t].batch) <= SendMax
      /\ thread[t].batch \in Seq(Messages) /\ Uncounted(t) = {}
      /\ \A b \in Backends : Ahead(thread[t], b) = Batch(t)
  BY Gathering, SiemAssumption
<1>3. /\ r \in WalkRecord /\ InOrder(r) /\ r.pos = 1 /\ Range(r.batch) \subseteq Batch(t)
      /\ \A b \in Backends : Ahead(r, b) \subseteq Ahead(thread[t], b)
  BY <1>2, SendBatchWalks DEF Batch
<1>4. thread' = [thread EXCEPT ![t] = r]
  OBVIOUS
<1> HIDE DEF r
<1>5. /\ thread \in [Threads -> WalkRecord] /\ dispatching \in BOOLEAN
      /\ control \in {"free", "signal", "join"}
  BY DEF SiemInv, ListTypes
<1>6. thread'[t] = r /\ \A u \in Threads : u # t => thread'[u] = thread[u]
  BY <1>4, <1>5
<1>7. \A u \in Threads : Uncounted(u)' = Uncounted(u)
  <2>1. Uncounted(t)' = {}
    BY <1>3, <1>6 DEF Uncounted
  <2>2. ASSUME NEW u \in Threads, u # t PROVE Uncounted(u)' = Uncounted(u)
    BY <1>6, <2>2 DEF Uncounted
  <2> QED BY <1>2, <2>1, <2>2
<1>8. /\ ListTypes' /\ WalksInOrder' /\ MessagesApart'
      /\ \A b \in Backends : OnItsWay(b)' \subseteq OnItsWay(b)
  <2>1. {} \subseteq Waiting /\ Waiting' \subseteq Waiting \ {}
    BY DEF Waiting
  <2>2. Range(r.batch) \subseteq Batch(t) \cup {}
        /\ \A b \in Backends : Ahead(r, b) \subseteq Ahead(thread[t], b) \cup {}
    BY <1>3
  <2>3. WalksOn(t, r, {})
    BY <1>1, <1>3, <1>4, <1>5, <2>1, <2>2, InboxStays DEF WalksOn
  <2> QED BY <2>3, OneWalks
<1> QED BY <1>1, <1>7, <1>8, NothingHanded, HandlesStay DEF SiemInv

LEMMA GatherKeeps ==
  ASSUME SiemInv, NEW t \in Threads, Gather(t)
  PROVE  SiemInv' /\ Deals
<1> DEFINE h == Head(inbox)
           batch == Append(thread[t].batch, h)
<1>1. /\ thread[t].at = "gather" /\ inbox # <<>> /\ inbox' = Tail(inbox)
      /\ UNCHANGED <<dispatching, threads, control, stats, handed, handle, up, flaps, arrived,
                     after, caller, messages, taken, refused, backends, changes>>
  BY DEF Gather, network, callers, list
<1>2. /\ inbox \in Seq(Messages \cup {NoMessage}) /\ Len(inbox) <= InboxMax
      /\ thread \in [Threads -> WalkRecord] /\ dispatching \in BOOLEAN
      /\ control \in {"free", "signal", "join"}
  BY DEF SiemInv, ListTypes
<1>3. /\ inbox' \in Seq(Messages \cup {NoMessage}) /\ Len(inbox) \in Nat \ {0}
      /\ Len(inbox') = Len(inbox) - 1 /\ h = inbox[1] /\ h \in Messages \cup {NoMessage}
      /\ \A i \in 1 .. (Len(inbox) - 1) : inbox'[i] = inbox[i + 1]
      /\ Range(inbox) = {h} \cup Range(inbox')
  BY <1>1, <1>2, RangeOfTail
<1>4. Len(inbox') <= InboxMax
  BY <1>2, <1>3, SiemAssumption
<1>5. ASSUME NEW i \in 1 .. Len(inbox'), NEW j \in 1 .. Len(inbox'), inbox'[i] = inbox'[j]
      PROVE  i = j \/ inbox'[i] = NoMessage
  <2>1. i + 1 \in 1 .. Len(inbox) /\ j + 1 \in 1 .. Len(inbox)
        /\ inbox[i + 1] = inbox'[i] /\ inbox[j + 1] = inbox'[j]
    BY <1>3
  <2>2. i + 1 = j + 1 \/ inbox[i + 1] = NoMessage
    BY <1>5, <2>1 DEF SiemInv, MessagesApart
  <2> QED BY <2>1, <2>2
<1>6. h # NoMessage => h \notin Range(inbox')
  <2>1. DOMAIN inbox' = 1 .. (Len(inbox) - 1)
    BY <1>3, LenProperties
  <2>2. ASSUME NEW i \in 1 .. (Len(inbox) - 1), inbox'[i] = h, h # NoMessage PROVE FALSE
    <3>1. i + 1 \in 1 .. Len(inbox) /\ 1 \in 1 .. Len(inbox) /\ i + 1 # 1
          /\ inbox[i + 1] = inbox[1] /\ inbox[1] # NoMessage
      BY <1>3, <2>2
    <3> QED BY <3>1 DEF SiemInv, MessagesApart
  <2> QED BY <2>1, <2>2 DEF Range
<1> HIDE DEF h
<1>7. /\ IsInjective(thread[t].batch) /\ Len(thread[t].batch) < SendMax
      /\ Len(thread[t].batch) \in Nat
      /\ thread[t] \in WalkRecord /\ thread[t].batch \in Seq(Messages) /\ Uncounted(t) = {}
      /\ thread[t].todo = <<>> /\ thread[t].pos = 1 /\ thread[t].sent = 0
      /\ \A b \in Backends : Ahead(thread[t], b) = Batch(t)
  BY <1>1, Gathering
<1>8. ASSUME NEW r \in WalkRecord, InOrder(r), r.pos = 1, thread' = [thread EXCEPT ![t] = r],
             NEW X, X \subseteq Waiting, Waiting' \subseteq Waiting \ X,
             Range(r.batch) \subseteq Batch(t) \cup X,
             \A b \in Backends : Ahead(r, b) \subseteq Batch(t) \cup X
      PROVE  SiemInv' /\ Deals
  <2>1. thread'[t] = r /\ \A u \in Threads : u # t => thread'[u] = thread[u]
    BY <1>2, <1>8
  <2>2. \A u \in Threads : Uncounted(u)' = Uncounted(u)
    <3>1. Uncounted(t)' = {}
      BY <1>8, <2>1 DEF Uncounted
    <3>2. ASSUME NEW u \in Threads, u # t PROVE Uncounted(u)' = Uncounted(u)
      BY <2>1, <3>2 DEF Uncounted
    <3> QED BY <1>7, <3>1, <3>2
  <2>3. \A b \in Backends : Ahead(r, b) \subseteq Ahead(thread[t], b) \cup X
    BY <1>7, <1>8
  <2>4. /\ ListTypes' /\ WalksInOrder' /\ MessagesApart'
        /\ \A b \in Backends : OnItsWay(b)' \subseteq OnItsWay(b)
    <3>1. /\ thread[t].at # "off"
          /\ UNCHANGED <<backends, threads, messages, caller, taken>>
          /\ dispatching' \in BOOLEAN /\ control' \in {"free", "signal", "join"}
          /\ inbox' \in Seq(Messages \cup {NoMessage}) /\ Len(inbox') <= InboxMax
          /\ \A i, j \in 1 .. Len(inbox') :
               inbox'[i] = inbox'[j] => i = j \/ inbox'[i] = NoMessage
      BY <1>1, <1>2, <1>3, <1>4, <1>5
    <3>2. /\ thread' = [thread EXCEPT ![t] = r] /\ InOrder(r)
          /\ X \subseteq Waiting /\ Waiting' \subseteq Waiting \ X
          /\ Range(r.batch) \subseteq Batch(t) \cup X
      BY <1>8
    <3> HIDE DEF batch
    <3>3. WalksOn(t, r, X)
      BY <1>8, <2>3, <3>1, <3>2 DEF WalksOn
    <3> QED BY <3>3, OneWalks
  <2> QED BY <1>1, <2>2, <2>4, NothingHanded, HandlesStay DEF SiemInv
<1>9. CASE h = NoMessage /\ thread' = [thread EXCEPT ![t] = SendBatch(thread[t].batch, TRUE)]
  <2>1. {} \subseteq Waiting /\ Waiting' \subseteq Waiting \ {}
    BY <1>3 DEF Waiting
  <2>2. /\ SendBatch(thread[t].batch, TRUE) \in WalkRecord
        /\ InOrder(SendBatch(thread[t].batch, TRUE))
        /\ SendBatch(thread[t].batch, TRUE).pos = 1
        /\ Range(SendBatch(thread[t].batch, TRUE).batch) \subseteq Batch(t)
        /\ \A b \in Backends : Ahead(SendBatch(thread[t].batch, TRUE), b) \subseteq Batch(t)
    <3>1. Len(thread[t].batch) <= SendMax
      BY <1>7, SiemAssumption
    <3> QED BY <1>7, <3>1, SendBatchWalks DEF Batch
  <2> QED BY <1>8, <1>9, <2>1, <2>2
<1>10. ASSUME h # NoMessage
       PROVE  /\ {h} \subseteq Waiting /\ Waiting' \subseteq Waiting \ {h}
              /\ batch \in Seq(Messages) /\ Len(batch) <= SendMax /\ IsInjective(batch)
              /\ Range(batch) \subseteq Batch(t) \cup {h}
  <2>1. h \in Messages /\ h \in Waiting
    BY <1>3, <1>10 DEF Waiting
  <2>2. h \notin Range(thread[t].batch)
    BY <2>1 DEF SiemInv, MessagesApart, Batch
  <2>3. /\ batch \in Seq(Messages) /\ Len(batch) = Len(thread[t].batch) + 1
        /\ Range(batch) = Range(thread[t].batch) \cup {h} /\ IsInjective(batch)
    BY <1>7, <2>1, <2>2, RangeOfAppend, AppendApart
  <2>4. Len(batch) <= SendMax
    BY <1>7, <2>3, SiemAssumption
  <2>5. Waiting' \subseteq Waiting \ {h}
    BY <1>3, <1>6, <1>10 DEF Waiting
  <2> QED BY <2>1, <2>3, <2>4, <2>5 DEF Batch
<1>11. CASE h # NoMessage /\ thread' = [thread EXCEPT ![t] = SendBatch(batch, FALSE)]
  <2> HIDE DEF batch
  <2>1. /\ SendBatch(batch, FALSE) \in WalkRecord /\ InOrder(SendBatch(batch, FALSE))
        /\ SendBatch(batch, FALSE).pos = 1
        /\ Range(SendBatch(batch, FALSE).batch) \subseteq Range(batch)
        /\ \A b \in Backends : Ahead(SendBatch(batch, FALSE), b) \subseteq Range(batch)
    BY <1>10, <1>11, SendBatchWalks
  <2> QED BY <1>8, <1>10, <1>11, <2>1
<1>12. CASE /\ h # NoMessage /\ Len(batch) < SendMax
            /\ thread' = [thread EXCEPT ![t].batch = batch]
  <2> DEFINE r == [thread[t] EXCEPT !.batch = batch]
  <2> HIDE DEF batch
  <2>1. r \in WalkRecord
    BY <1>7, <1>10, <1>12 DEF WalkRecord
  <2>2. /\ r.at = "gather" /\ r.batch = batch /\ r.todo = <<>> /\ r.pos = 1 /\ r.sent = 0
    BY <1>1, <1>7 DEF WalkRecord
  <2>3. thread' = [thread EXCEPT ![t] = r]
    BY <1>12
  <2> HIDE DEF r
  <2>4. InOrder(r)
    BY <1>10, <1>12, <2>2, EmptyRange DEF InOrder, Sending
  <2>5. \A b \in Backends : Ahead(r, b) \subseteq Range(batch)
    BY <2>1, <2>2, AheadInBatch
  <2> QED BY <1>8, <1>10, <1>12, <2>1, <2>2, <2>3, <2>4, <2>5
<1>13. \/ h = NoMessage /\ thread' = [thread EXCEPT ![t] = SendBatch(thread[t].batch, TRUE)]
       \/ h # NoMessage /\ thread' = [thread EXCEPT ![t] = SendBatch(batch, FALSE)]
       \/ /\ h # NoMessage /\ Len(batch) < SendMax
          /\ thread' = [thread EXCEPT ![t].batch = batch]
  BY DEF Gather, h
<1> QED BY <1>9, <1>11, <1>12, <1>13

LEMMA GatherStops ==
  ASSUME SiemInv, NEW t \in Threads, IntervalEnds(t) \/ LoopEnds(t)
  PROVE  SiemInv' /\ Deals
<1>1. /\ thread[t].at = "gather"
      /\ \E last \in BOOLEAN : thread' = [thread EXCEPT ![t] = SendBatch(thread[t].batch, last)]
      /\ UNCHANGED <<inbox, dispatching, threads, control, stats, handed, network, callers, list>>
  BY DEF IntervalEnds, LoopEnds
<1> QED BY <1>1, GatherEnds

-----------------------------------------------------------------------------
(***************************************************************************)
(* What a thread has tried on the backend it serves, and not counted yet,  *)
(* is of its batch.                                                        *)
(***************************************************************************)
LEMMA UncountedInBatch ==
  ASSUME SiemInv, NEW t \in Threads, NEW p \in Uncounted(t)
  PROVE  \E c \in Backends : \E e \in Batch(t) : p = <<c, e>>
<1>1. /\ thread[t].pos \in Nat \ {0} /\ thread[t].todo \in Seq(Backends)
      /\ InOrder(thread[t]) /\ Len(thread[t].batch) \in Nat
      /\ DOMAIN thread[t].batch = 1 .. Len(thread[t].batch)
  BY WalkTypes
<1>2. thread[t].todo # <<>>
  BY DEF Uncounted
<1>3. Head(thread[t].todo) \in Backends /\ thread[t].pos <= Len(thread[t].batch)
  BY <1>1, <1>2, RangeOfTail DEF InOrder
<1>4. PICK i \in 1 .. thread[t].pos - 1 : p = <<Head(thread[t].todo), thread[t].batch[i]>>
  BY <1>2 DEF Uncounted
<1>5. i \in DOMAIN thread[t].batch
  BY <1>1, <1>3
<1>6. thread[t].batch[i] \in Batch(t)
  BY <1>5 DEF Batch, Range
<1> QED BY <1>3, <1>4, <1>6

(***************************************************************************)
(* A thread that serves b has the rest of its batch ahead of b.            *)
(***************************************************************************)
LEMMA Serving ==
  ASSUME SiemInv, NEW t \in Threads, NEW b \in Backends, Serves(t, b)
  PROVE  /\ thread[t].at = "send" /\ thread[t].todo # <<>> /\ Head(thread[t].todo) = b
         /\ thread[t].batch # <<>> /\ thread[t].pos <= Len(thread[t].batch)
         /\ b \in Range(thread[t].todo) /\ b \notin Range(Tail(thread[t].todo))
         /\ Ahead(thread[t], b)
              = {thread[t].batch[i] : i \in thread[t].pos .. Len(thread[t].batch)}
         /\ Uncounted(t) = {<<b, thread[t].batch[i]>> : i \in 1 .. thread[t].pos - 1}
         /\ ~(thread[t].same /\ b \notin Range(backends))
<1>1. thread[t].at = "send" /\ thread[t].todo # <<>> /\ Head(thread[t].todo) = b
  BY DEF Serves
<1>2. thread[t].todo \in Seq(Backends) /\ InOrder(thread[t])
  BY WalkTypes
<1>3. /\ thread[t].batch # <<>> /\ thread[t].pos <= Len(thread[t].batch)
      /\ IsInjective(thread[t].todo)
      /\ thread[t].same => Range(thread[t].todo) \subseteq Range(backends)
  BY <1>1, <1>2 DEF InOrder, Sending
<1>4. b \in Range(thread[t].todo) /\ b \notin Range(Tail(thread[t].todo))
  BY <1>1, <1>2, <1>3, RangeOfTail, TailApart
<1>5. ~(thread[t].same /\ b \notin Range(backends))
  BY <1>3, <1>4
<1> QED BY <1>1, <1>3, <1>4, <1>5 DEF Ahead, Uncounted

(***************************************************************************)
(* The messages of E are handed to b by the thread that has them.          *)
(***************************************************************************)
Pairs(b, E) == {<<b, e>> : e \in E}

HandsOver(t, b, r, E) ==
  /\ WalksOn(t, r, {}) /\ UNCHANGED <<inbox, taken>>
  /\ E \subseteq Ahead(thread[t], b) /\ E \cap Ahead(r, b) = {} /\ IsFiniteSet(E)
  /\ handed' = handed \cup Pairs(b, E)
  /\ arrived \subseteq arrived' /\ arrived' \subseteq arrived \cup Pairs(b, E)

LEMMA PairsFinite ==
  ASSUME NEW E, IsFiniteSet(E), NEW b
  PROVE  IsFiniteSet(Pairs(b, E))
<1> DEFINE pairs == {<<b, e>> : e \in E}
           pair == [e \in E |-> <<b, e>>]
<1>1. pair \in [E -> pairs] /\ \A p \in pairs : \E e \in E : pair[e] = p
  OBVIOUS
<1>2. IsInjective(pair)
  BY DEF IsInjective
<1> HIDE DEF pair, pairs
<1>3. pair \in Bijection(E, pairs)
  BY <1>1, <1>2 DEF Bijection, Injection, Surjection
<1>4. ExistsBijection(E, pairs)
  BY <1>3 DEF ExistsBijection
<1>5. IsFiniteSet(pairs)
  BY <1>4, FS_Bijection
<1> QED BY <1>5 DEF pairs, Pairs

LEMMA HandedOver ==
  ASSUME SiemInv, NEW t \in Threads, NEW b \in Backends, NEW r, NEW E, HandsOver(t, b, r, E)
  PROVE  /\ arrived' \subseteq handed' /\ handed' \subseteq Backends \X taken'
         /\ IsFiniteSet(handed') /\ Deals
         /\ \A c \in Backends : \A e \in OnItsWay(c)' : <<c, e>> \notin handed'
         /\ Pairs(b, E) \cap handed = {}
         /\ \A u \in Threads : u # t => Uncounted(u)' = Uncounted(u)
         /\ \A u \in Threads : u # t => Pairs(b, E) \cap Uncounted(u) = {}
<1> DEFINE pairs == Pairs(b, E)
<1> USE DEF Pairs
<1>1. /\ thread' = [thread EXCEPT ![t] = r] /\ r \in WalkRecord /\ UNCHANGED <<backends, taken, inbox>>
      /\ E \subseteq Ahead(thread[t], b) /\ E \cap Ahead(r, b) = {} /\ IsFiniteSet(E)
      /\ handed' = handed \cup pairs
      /\ arrived \subseteq arrived' /\ arrived' \subseteq arrived \cup pairs
  BY DEF HandsOver, WalksOn
<1>2. \A c \in Backends : OnItsWay(c)' \subseteq OnItsWay(c)
  BY OneWalks DEF HandsOver
<1>3. thread \in [Threads -> WalkRecord]
  BY DEF SiemInv, ListTypes
<1>4. thread'[t] = r /\ \A u \in Threads : u # t => thread'[u] = thread[u]
  BY <1>1, <1>3
<1>5. E \subseteq Batch(t) /\ E \subseteq OnItsWay(b)
  BY <1>1, WalkTypes, AheadInBatch DEF Batch, OnItsWay
<1>6. E \subseteq taken /\ arrived \subseteq handed /\ handed \subseteq Backends \X taken
      /\ IsFiniteSet(handed)
  BY <1>5, OnItsWayTaken DEF SiemInv, CountTypes
<1>7. pairs \cap handed = {}
  BY <1>5 DEF SiemInv, HandedOnce
<1>8. IsFiniteSet(handed')
  <2> HIDE DEF Pairs
  <2>1. IsFiniteSet(pairs)
    BY <1>1, PairsFinite
  <2> HIDE DEF pairs
  <2> QED BY <1>1, <1>6, <2>1, FS_Union
<1>9. /\ \A u \in Threads : Batch(u) \cap Waiting = {}
      /\ \A u, v \in Threads : u # v => Batch(u) \cap Batch(v) = {}
  BY DEF SiemInv, MessagesApart
<1>10. \A e \in E : e \notin OnItsWay(b)'
  <2> SUFFICES ASSUME NEW e \in E, e \in OnItsWay(b)' PROVE FALSE
    OBVIOUS
  <2>1. e \in Batch(t) /\ e \notin Waiting
    BY <1>5, <1>9
  <2>2. Waiting' = Waiting
    BY <1>1 DEF Waiting
  <2>3. PICK u \in Threads : e \in Ahead(thread[u], b)'
    BY <2>1, <2>2 DEF OnItsWay
  <2>4. CASE u = t
    <3>1. Ahead(thread[u], b)' = Ahead(r, b)
      <4>1. thread'[u] = r /\ backends' = backends
        BY <1>1, <1>4, <2>4
      <4> QED BY <4>1 DEF Ahead
    <3> QED BY <1>1, <2>3, <3>1
  <2>5. CASE u # t
    <3>1. Ahead(thread[u], b)' = Ahead(thread[u], b)
      BY <1>1, <1>4, <2>5 DEF Ahead
    <3>2. Ahead(thread[u], b) \subseteq Batch(u)
      BY WalkTypes, AheadInBatch DEF Batch
    <3> QED BY <1>9, <2>1, <2>3, <2>5, <3>1, <3>2
  <2> QED BY <2>4, <2>5
<1>11. ASSUME NEW c \in Backends, NEW e \in OnItsWay(c)' PROVE <<c, e>> \notin handed'
  <2>1. <<c, e>> \notin handed
    BY <1>2 DEF SiemInv, HandedOnce
  <2>2. <<c, e>> \notin pairs
    BY <1>10
  <2> QED BY <1>1, <2>1, <2>2
<1>12. \A u \in Threads : u # t => Uncounted(u)' = Uncounted(u)
  <2> SUFFICES ASSUME NEW u \in Threads, u # t PROVE Uncounted(u)' = Uncounted(u)
    OBVIOUS
  <2>1. thread'[u] = thread[u]
    BY <1>4
  <2> QED BY <2>1 DEF Uncounted
<1>13. ASSUME NEW u \in Threads, u # t PROVE pairs \cap Uncounted(u) = {}
  <2> SUFFICES ASSUME NEW e \in E, <<b, e>> \in Uncounted(u) PROVE FALSE
    OBVIOUS
  <2>1. e \in Batch(u)
    BY UncountedInBatch
  <2> QED BY <1>5, <1>9, <1>13, <2>1
<1>14. Deals
  BY <1>1, <1>2, <1>5 DEF Deals
<1>15. arrived' \subseteq handed' /\ handed' \subseteq Backends \X taken'
  BY <1>1, <1>6
<1> QED BY <1>7, <1>8, <1>11, <1>12, <1>13, <1>14, <1>15

(***************************************************************************)
(* The thread is not done with b: nothing is counted yet.                  *)
(***************************************************************************)
LEMMA GoesOnWithBackend ==
  ASSUME SiemInv, NEW t \in Threads, NEW b \in Backends, Serves(t, b), b \notin Hooks,
         thread[t].pos < Len(thread[t].batch), NEW took \in {0, 1}, NEW r,
         r = [[thread[t] EXCEPT !.pos = @ + 1] EXCEPT !.sent = @ + took],
         thread' = [thread EXCEPT ![t] = r],
         UNCHANGED <<dispatching, inbox, threads, control, stats, backends, caller, messages,
                     taken, refused>>,
         handed' = handed \cup {<<b, thread[t].batch[thread[t].pos]>>},
         arrived \subseteq arrived',
         arrived' \subseteq arrived \cup {<<b, thread[t].batch[thread[t].pos]>>}
  PROVE  /\ ListTypes' /\ WalksInOrder' /\ CountTypes' /\ MessagesApart' /\ HandedOnce'
         /\ StatsTell' /\ Deals
<1> DEFINE th == thread[t]
           e == th.batch[th.pos]
<1>1. /\ th \in WalkRecord /\ th.pos \in Nat \ {0} /\ th.sent \in Nat
      /\ th.batch \in Seq(Messages) /\ th.todo \in Seq(Backends) /\ InOrder(th)
      /\ Len(th.batch) \in Nat /\ DOMAIN th.batch = 1 .. Len(th.batch)
  BY WalkTypes
<1>2. /\ th.at = "send" /\ th.todo # <<>> /\ Head(th.todo) = b /\ th.batch # <<>>
      /\ Ahead(th, b) = {th.batch[i] : i \in th.pos .. Len(th.batch)}
      /\ Uncounted(t) = {<<b, th.batch[i]>> : i \in 1 .. th.pos - 1}
      /\ ~(th.same /\ b \notin Range(backends)) /\ b \in Range(th.todo)
  BY Serving
<1>3. /\ r.at = "send" /\ r.batch = th.batch /\ r.last = th.last /\ r.todo = th.todo
      /\ r.pos = th.pos + 1 /\ r.sent = th.sent + took /\ r.same = th.same
  BY <1>1, <1>2 DEF WalkRecord
<1>4. r \in WalkRecord
  <2> DEFINE w == [th EXCEPT !.pos = @ + 1]
  <2>1. w \in WalkRecord
    <3>1. th \in WalkRecord /\ th.pos + 1 \in Nat \ {0}
      BY <1>1
    <3> HIDE DEF th
    <3> QED BY ONLY <3>1 DEF WalkRecord
  <2>2. w.sent \in Nat /\ w.sent + took \in Nat
    BY <1>1 DEF WalkRecord
  <2>3. r = [w EXCEPT !.sent = @ + took]
    OBVIOUS
  <2> HIDE DEF w
  <2> QED BY <2>1, <2>2, <2>3 DEF WalkRecord
<1>5. thread \in [Threads -> WalkRecord] /\ dispatching \in BOOLEAN
      /\ control \in {"free", "signal", "join"}
  BY DEF SiemInv, ListTypes
<1>6. thread'[t] = r
  BY <1>5
<1>7. /\ handed' = handed \cup {<<b, e>>} /\ e \in Ahead(th, b)
      /\ arrived' \subseteq arrived \cup {<<b, e>>}
  BY <1>1, <1>2
<1>8. InOrder(r)
  <2>1. Sending(r) /\ r.todo # <<>> /\ r.batch # <<>> /\ Head(r.todo) \notin Hooks
    BY <1>2, <1>3 DEF Sending
  <2>2. r.sent < r.pos /\ r.pos <= Len(r.batch) /\ Len(r.batch) <= SendMax
    BY <1>1, <1>3 DEF InOrder
  <2>3. /\ IsInjective(r.todo) /\ IsInjective(r.batch)
        /\ r.same => Range(r.todo) \subseteq Range(backends)
    BY <1>1, <1>2, <1>3 DEF InOrder, Sending
  <2>4. r.at = "send"
    BY <1>3
  <2> HIDE DEF th
  <2> QED BY ONLY <2>1, <2>2, <2>3, <2>4 DEF InOrder
<1>9. Ahead(r, b) = {th.batch[i] : i \in (th.pos + 1) .. Len(th.batch)}
  BY <1>2, <1>3 DEF Ahead
<1>10. e \notin Ahead(r, b)
  <2> SUFFICES ASSUME NEW i \in (th.pos + 1) .. Len(th.batch), th.batch[i] = e PROVE FALSE
    BY <1>9
  <2>1. i \in 1 .. Len(th.batch) /\ th.pos \in 1 .. Len(th.batch) /\ i # th.pos
    BY <1>1
  <2> QED BY <1>1, <2>1 DEF InOrder, IsInjective
<1>11. \A c \in Backends : Ahead(r, c) \subseteq Ahead(th, c)
  <2>1. Ahead(r, b) \subseteq Ahead(th, b)
    BY <1>1, <1>2, <1>9
  <2>2. ASSUME NEW c \in Backends, c # b PROVE Ahead(r, c) = Ahead(th, c)
    BY <1>2, <1>3, <2>2 DEF Ahead
  <2> QED BY <2>1, <2>2
<1>12. WalksOn(t, r, {})
  <2>1. {} \subseteq Waiting /\ Waiting' \subseteq Waiting \ {}
    BY DEF Waiting
  <2>2. Range(r.batch) \subseteq Batch(t) \cup {}
    BY <1>3 DEF Batch
  <2>3. \A c \in Backends : Ahead(r, c) \subseteq Ahead(thread[t], c) \cup {}
    BY <1>11
  <2> QED BY <1>2, <1>4, <1>5, <1>8, <2>1, <2>2, <2>3, InboxStays DEF WalksOn
<1>13. HandsOver(t, b, r, {e})
  <2>1. IsFiniteSet({e})
    BY FS_Singleton
  <2>2. Pairs(b, {e}) = {<<b, e>>}
    BY DEF Pairs
  <2> HIDE DEF e
  <2> QED BY <1>7, <1>10, <1>12, <2>1, <2>2 DEF HandsOver
<1>14. /\ arrived' \subseteq handed' /\ handed' \subseteq Backends \X taken'
       /\ IsFiniteSet(handed') /\ Deals
       /\ \A c \in Backends : \A f \in OnItsWay(c)' : <<c, f>> \notin handed'
       /\ <<b, e>> \notin handed
       /\ \A u \in Threads : u # t => Uncounted(u)' = Uncounted(u)
  <2>1. Pairs(b, {e}) = {<<b, e>>}
    BY DEF Pairs
  <2> HIDE DEF e
  <2>2. Pairs(b, {e}) \cap handed = {}
    BY <1>13, HandedOver
  <2>3. <<b, e>> \notin handed
    BY <2>1, <2>2
  <2> QED BY <1>13, <2>3, HandedOver
<1>15. CountTypes'
  BY <1>14 DEF SiemInv, CountTypes
<1>16. Uncounted(t)' = Uncounted(t) \cup {<<b, e>>}
  <2>1. Uncounted(t)' = {<<b, th.batch[i]>> : i \in 1 .. th.pos}
    <3>1. r.pos - 1 = th.pos
      BY <1>1, <1>3
    <3>2. /\ thread'[t].todo = th.todo /\ thread'[t].batch = th.batch
          /\ thread'[t].pos - 1 = th.pos
      BY <1>3, <1>6, <3>1
    <3>3. Uncounted(t)' = {<<Head(thread'[t].todo), thread'[t].batch[i]>> :
                             i \in 1 .. thread'[t].pos - 1}
      BY <1>2, <3>2 DEF Uncounted
    <3> QED BY <1>2, <3>2, <3>3
  <2>2. 1 .. th.pos = (1 .. th.pos - 1) \cup {th.pos}
    BY <1>1
  <2> QED BY <1>2, <2>1, <2>2
<1>17. HandedOnce'
  <2>1. \A u \in Threads : Uncounted(u) \subseteq handed
    BY DEF SiemInv, HandedOnce
  <2> HIDE DEF e
  <2> QED BY <1>7, <1>14, <1>16, <2>1 DEF HandedOnce
<1>18. StatsTell'
  <2> DEFINE H == UNION {Uncounted(u) : u \in Threads}
             after_ == UNION {Uncounted(u)' : u \in Threads}
  <2> HIDE DEF e
  <2>1. after_ = H \cup {<<b, e>>}
    BY <1>14, <1>16
  <2>2. handed' \ after_ = handed \ H
    BY <1>7, <1>14, <2>1
  <2>3. stats.dispatched + stats.failed = Cardinality(handed \ H) /\ stats.dropped = refused
    BY DEF SiemInv, StatsTell
  <2> QED BY <2>2, <2>3 DEF StatsTell
<1> QED BY <1>12, <1>14, <1>15, <1>17, <1>18, OneWalks

(***************************************************************************)
(* The thread is done with b, which took so many of the batch: all of it   *)
(* is counted.                                                             *)
(***************************************************************************)
LEMMA AddedUp ==
  ASSUME NEW d \in Nat, NEW f \in Nat, NEW k \in Nat, NEW n \in Nat
  PROVE  (d + k) + (f + (n - k)) = (d + f) + n
OBVIOUS

LEMMA GoesToNextBackend ==
  ASSUME SiemInv, NEW t \in Threads, NEW b \in Backends, Serves(t, b),
         NEW took \in 0 .. Len(thread[t].batch), NEW r \in WalkRecord,
         r.at = "send", r.batch = thread[t].batch, r.todo = Tail(thread[t].todo),
         r.pos = 1, r.sent = 0, r.same = thread[t].same,
         thread' = [thread EXCEPT ![t] = r], Count(took, Len(thread[t].batch)),
         UNCHANGED <<dispatching, inbox, threads, control, backends, caller, messages, taken,
                     refused>>,
         handed' = handed \cup Pairs(b, Ahead(thread[t], b)),
         arrived \subseteq arrived',
         arrived' \subseteq arrived \cup Pairs(b, Ahead(thread[t], b))
  PROVE  /\ ListTypes' /\ WalksInOrder' /\ CountTypes' /\ MessagesApart' /\ HandedOnce'
         /\ StatsTell' /\ Deals
<1> DEFINE th == thread[t]
           E == Ahead(th, b)
           all == {<<b, th.batch[i]>> : i \in 1 .. Len(th.batch)}
<1>1. /\ th \in WalkRecord /\ th.pos \in Nat \ {0} /\ th.sent \in Nat
      /\ th.batch \in Seq(Messages) /\ th.todo \in Seq(Backends) /\ InOrder(th)
      /\ Len(th.batch) \in Nat /\ DOMAIN th.batch = 1 .. Len(th.batch)
  BY WalkTypes
<1>2. /\ th.at = "send" /\ th.todo # <<>> /\ Head(th.todo) = b /\ th.batch # <<>>
      /\ th.pos <= Len(th.batch)
      /\ b \in Range(th.todo) /\ b \notin Range(Tail(th.todo))
      /\ E = {th.batch[i] : i \in th.pos .. Len(th.batch)}
      /\ Uncounted(t) = {<<b, th.batch[i]>> : i \in 1 .. th.pos - 1}
      /\ ~(th.same /\ b \notin Range(backends))
  BY Serving
<1>3. /\ Tail(th.todo) \in Seq(Backends) /\ IsInjective(Tail(th.todo))
      /\ Range(th.todo) = {b} \cup Range(Tail(th.todo))
  BY <1>1, <1>2, RangeOfTail, TailApart DEF InOrder
<1>4. /\ r.at = "send" /\ r.batch = th.batch /\ r.todo = Tail(th.todo)
      /\ r.pos = 1 /\ r.sent = 0 /\ r.same = th.same
  OBVIOUS
<1>5. r \in WalkRecord
  OBVIOUS
<1>6. /\ thread \in [Threads -> WalkRecord] /\ dispatching \in BOOLEAN
      /\ control \in {"free", "signal", "join"}
  BY DEF SiemInv, ListTypes
<1>7. thread'[t] = r
  BY <1>6
<1>8. InOrder(r)
  BY <1>1, <1>2, <1>3, <1>4 DEF InOrder, Sending
<1>9. Ahead(r, b) = {}
  BY <1>2, <1>4 DEF Ahead
<1>10. \A c \in Backends : Ahead(r, c) \subseteq Ahead(th, c)
  <2>1. ASSUME NEW c \in Backends, c # b PROVE Ahead(r, c) \subseteq Ahead(th, c)
    <3>1. c \in Range(Tail(th.todo)) <=> c \in Range(th.todo)
      BY <1>3, <2>1
    <3>2. Ahead(r, c) \subseteq Range(th.batch)
      BY <1>4, <1>5, AheadInBatch
    <3>3. CASE c \in Range(th.todo) \/ (th.same /\ c \notin Range(backends))
      BY <1>2, <2>1, <3>2, <3>3 DEF Ahead
    <3>4. CASE ~(c \in Range(th.todo) \/ (th.same /\ c \notin Range(backends)))
      BY <1>4, <3>1, <3>4 DEF Ahead
    <3> QED BY <3>3, <3>4
  <2> QED BY <1>9, <2>1
<1>11. WalksOn(t, r, {})
  <2>1. {} \subseteq Waiting /\ Waiting' \subseteq Waiting \ {}
    BY DEF Waiting
  <2>2. Range(r.batch) \subseteq Batch(t) \cup {}
    BY <1>4 DEF Batch
  <2>3. \A c \in Backends : Ahead(r, c) \subseteq Ahead(thread[t], c) \cup {}
    BY <1>10
  <2> QED BY <1>2, <1>5, <1>6, <1>8, <2>1, <2>2, <2>3, InboxStays DEF WalksOn
<1>12. IsFiniteSet(E)
  <2>1. IsFiniteSet(Range(th.batch))
    BY <1>1, CardinalityOfRange DEF InOrder
  <2>2. E \subseteq Range(th.batch)
    BY <1>1, AheadInBatch
  <2> QED BY <2>1, <2>2, FS_Subset
<1>13. HandsOver(t, b, r, E)
  BY <1>9, <1>11, <1>12 DEF HandsOver
<1>14. /\ arrived' \subseteq handed' /\ handed' \subseteq Backends \X taken'
       /\ IsFiniteSet(handed') /\ Deals
       /\ \A c \in Backends : \A f \in OnItsWay(c)' : <<c, f>> \notin handed'
       /\ Pairs(b, E) \cap handed = {}
       /\ \A u \in Threads : u # t => Uncounted(u)' = Uncounted(u)
       /\ \A u \in Threads : u # t => Pairs(b, E) \cap Uncounted(u) = {}
  BY <1>13, HandedOver
<1>15. Uncounted(t)' = {}
  BY <1>4, <1>7 DEF Uncounted
<1>16. Uncounted(t) \subseteq handed /\ \A u \in Threads : Uncounted(u) \subseteq handed
  BY DEF SiemInv, HandedOnce
<1>17. HandedOnce'
  <2> HIDE DEF E
  <2> QED BY <1>14, <1>15, <1>16 DEF HandedOnce
<1>18. all = Uncounted(t) \cup Pairs(b, E)
  <2>1. 1 .. Len(th.batch) = (1 .. th.pos - 1) \cup (th.pos .. Len(th.batch))
    BY <1>1, <1>2
  <2>2. Pairs(b, E) = {<<b, th.batch[i]>> : i \in th.pos .. Len(th.batch)}
    BY <1>2 DEF Pairs
  <2> HIDE DEF E
  <2> QED BY <1>2, <2>1, <2>2
<1>19. \A u \in Threads : u # t => Uncounted(t) \cap Uncounted(u) = {}
  <2> SUFFICES ASSUME NEW u \in Threads, u # t, NEW p, p \in Uncounted(t), p \in Uncounted(u)
               PROVE  FALSE
    OBVIOUS
  <2>1. PICK c \in Backends : \E e \in Batch(t) : p = <<c, e>>
    BY UncountedInBatch
  <2>2. PICK e \in Batch(t) : p = <<c, e>>
    BY <2>1
  <2>3. PICK d \in Backends : \E f \in Batch(u) : p = <<d, f>>
    BY UncountedInBatch
  <2>4. PICK f \in Batch(u) : p = <<d, f>>
    BY <2>3
  <2>5. e \in Batch(u)
    BY <2>2, <2>4
  <2> QED BY <2>2, <2>5 DEF SiemInv, MessagesApart
<1>20. /\ stats \in [dispatched : Nat, failed : Nat, dropped : Nat]
       /\ stats.dispatched \in Nat /\ stats.failed \in Nat /\ IsFiniteSet(handed)
  BY DEF SiemInv, CountTypes
<1>21. took \in Nat /\ Len(th.batch) - took \in Nat
  BY <1>1
<1>22. /\ stats' \in [dispatched : Nat, failed : Nat, dropped : Nat]
       /\ stats'.dispatched = stats.dispatched + took
       /\ stats'.failed = stats.failed + (Len(th.batch) - took)
       /\ stats'.dropped = stats.dropped
  <2> DEFINE s1 == [stats EXCEPT !.dispatched = @ + took]
             left == Len(th.batch) - took
  <2>1. stats' = [s1 EXCEPT !.failed = @ + left]
    BY DEF Count
  <2>2. /\ s1 \in [dispatched : Nat, failed : Nat, dropped : Nat]
        /\ s1.dispatched = stats.dispatched + took /\ s1.failed = stats.failed
        /\ s1.dropped = stats.dropped
    BY <1>20, <1>21
  <2>3. left \in Nat
    BY <1>21
  <2> HIDE DEF s1, left
  <2>4. /\ stats' \in [dispatched : Nat, failed : Nat, dropped : Nat]
        /\ stats'.dispatched = stats.dispatched + took
        /\ stats'.failed = stats.failed + left /\ stats'.dropped = stats.dropped
    BY <1>20, <2>1, <2>2, <2>3
  <2> QED BY <2>4 DEF left
<1>23. CountTypes'
  BY <1>14, <1>22 DEF SiemInv, CountTypes
<1>24. StatsTell'
  <2> DEFINE H == UNION {Uncounted(u) : u \in Threads}
             others == UNION {Uncounted(u) : u \in Threads \ {t}}
             next == UNION {Uncounted(u)' : u \in Threads}
  <2> HIDE DEF E, all
  <2>1. next = others /\ H = others \cup Uncounted(t)
    BY <1>14, <1>15
  <2>2. others \cap Uncounted(t) = {} /\ others \cap Pairs(b, E) = {}
    BY <1>14, <1>19
  <2>3. handed' = handed \cup Pairs(b, E)
    BY DEF E
  <2>4. handed' \ next = (handed \ H) \cup all /\ (handed \ H) \cap all = {}
    <3> HIDE DEF H, others, next
    <3> QED BY <1>14, <1>16, <1>18, <2>1, <2>2, <2>3
  <2>5. IsFiniteSet(all) /\ Cardinality(all) = Len(th.batch)
    <3>1. IsInjective(th.batch) /\ th.batch \in Seq(Messages)
      BY <1>1 DEF InOrder
    <3> DEFINE s == th.batch
    <3>2. all = {<<b, s[i]>> : i \in 1 .. Len(s)}
      BY DEF all
    <3>3. s \in Seq(Messages) /\ IsInjective(s)
      BY <3>1
    <3> HIDE DEF s
    <3>4. /\ IsFiniteSet({<<b, s[i]>> : i \in 1 .. Len(s)})
          /\ Cardinality({<<b, s[i]>> : i \in 1 .. Len(s)}) = Len(s)
      BY ONLY <3>3, PairsCounted
    <3>5. IsFiniteSet(all) /\ Cardinality(all) = Len(s)
      BY ONLY <3>2, <3>4
    <3> QED BY <3>5 DEF s
  <2>6. IsFiniteSet(handed \ H)
    BY <1>20, FS_Difference
  <2>7. /\ Cardinality(handed' \ next) = Cardinality(handed \ H) + Len(th.batch)
        /\ Cardinality(handed \ H) \in Nat
    <3> HIDE DEF H, next
    <3> QED BY <2>4, <2>5, <2>6, JoinedCount
  <2>8. stats.dispatched + stats.failed = Cardinality(handed \ H) /\ stats.dropped = refused
    BY DEF SiemInv, StatsTell
  <2>9. stats'.dispatched + stats'.failed = Cardinality(handed' \ next)
    <3> DEFINE n == Len(th.batch)
               m == Cardinality(handed \ H)
    <3>1. n \in Nat /\ m \in Nat /\ stats.dispatched + stats.failed = m
          /\ Cardinality(handed' \ next) = m + n
      BY <1>1, <2>7, <2>8
    <3>2. /\ stats'.dispatched = stats.dispatched + took
          /\ stats'.failed = stats.failed + (n - took)
      BY <1>22
    <3> HIDE DEF n, m, next
    <3>3. stats.dispatched \in Nat /\ stats.failed \in Nat /\ took \in Nat
      BY <1>20, <1>21
    <3>4. (stats.dispatched + took) + (stats.failed + (n - took))
            = (stats.dispatched + stats.failed) + n
      BY <3>1, <3>3, AddedUp
    <3> QED BY <3>1, <3>2, <3>4
  <2> QED BY <1>22, <2>8, <2>9 DEF StatsTell
<1> QED BY <1>11, <1>14, <1>17, <1>23, <1>24, OneWalks

-----------------------------------------------------------------------------
(***************************************************************************)
(* _send_batch, backend by backend.                                        *)
(***************************************************************************)
LEMMA FromTheFirst ==
  ASSUME NEW w \in WalkRecord, NEW r, r = [w EXCEPT !.pos = 1]
  PROVE  /\ r \in WalkRecord /\ r.at = w.at /\ r.batch = w.batch /\ r.todo = w.todo
         /\ r.pos = 1 /\ r.same = w.same
<1>1. r \in WalkRecord
  BY DEF WalkRecord
<1>2. r.at = w.at /\ r.batch = w.batch /\ r.todo = w.todo /\ r.pos = 1 /\ r.same = w.same
  BY DEF WalkRecord
<1> QED BY <1>1, <1>2

LEMMA NextWalk ==
  ASSUME NEW w \in WalkRecord, Tail(w.todo) \in Seq(Backends),
         NEW r, r = [[[w EXCEPT !.todo = Tail(@)] EXCEPT !.pos = 1] EXCEPT !.sent = 0]
  PROVE  /\ r \in WalkRecord /\ r.at = w.at /\ r.batch = w.batch /\ r.todo = Tail(w.todo)
         /\ r.pos = 1 /\ r.sent = 0 /\ r.same = w.same
<1> DEFINE x == [w EXCEPT !.todo = Tail(@)]
           y == [x EXCEPT !.pos = 1]
<1>1. /\ x \in WalkRecord /\ x.at = w.at /\ x.batch = w.batch /\ x.todo = Tail(w.todo)
      /\ x.same = w.same
  BY DEF WalkRecord
<1>2. y = [x EXCEPT !.pos = 1]
  OBVIOUS
<1>3. r = [y EXCEPT !.sent = 0]
  OBVIOUS
<1> HIDE DEF x, y
<1>4. /\ y \in WalkRecord /\ y.at = w.at /\ y.batch = w.batch /\ y.todo = Tail(w.todo)
      /\ y.pos = 1 /\ y.same = w.same
  BY <1>1, <1>2, FromTheFirst
<1> QED BY <1>3, <1>4 DEF WalkRecord

LEMMA SendsKeep ==
  ASSUME SiemInv, NEW t \in Threads, NEW b \in Backends, Serves(t, b), b \notin Hooks,
         NEW ok \in BOOLEAN, Sends(t, b, ok), Arrives(t, b) \/ UNCHANGED arrived,
         UNCHANGED <<dispatching, inbox, threads, control, callers, list>>
  PROVE  /\ ListTypes' /\ WalksInOrder' /\ CountTypes' /\ MessagesApart' /\ HandedOnce'
         /\ StatsTell' /\ Deals
<1> DEFINE th == thread[t]
           e == th.batch[th.pos]
<1>1. /\ th \in WalkRecord /\ th.pos \in Nat \ {0} /\ th.sent \in Nat
      /\ th.batch \in Seq(Messages) /\ th.todo \in Seq(Backends) /\ InOrder(th)
      /\ Len(th.batch) \in Nat
  BY WalkTypes
<1>2. /\ th.at = "send" /\ th.todo # <<>> /\ th.pos <= Len(th.batch)
      /\ Ahead(th, b) = {th.batch[i] : i \in th.pos .. Len(th.batch)}
  BY Serving
<1>3. UNCHANGED <<dispatching, inbox, threads, control, caller, messages, taken, refused,
                  backends>>
  BY DEF callers, list
<1>4. /\ handed' = handed \cup {<<b, e>>} /\ arrived \subseteq arrived'
      /\ arrived' \subseteq arrived \cup {<<b, e>>}
  BY DEF Sends, Arrives
<1>5. thread \in [Threads -> WalkRecord]
  BY DEF SiemInv, ListTypes
<1>6. PICK one \in {0, 1} : one = IF ok THEN 1 ELSE 0
  OBVIOUS
<1>7. th.sent + one <= th.pos /\ th.sent + one \in Nat
  BY <1>1 DEF InOrder
<1>8. CASE th.pos < Len(th.batch)
  <2> DEFINE r == [[th EXCEPT !.pos = @ + 1] EXCEPT !.sent = @ + one]
  <2>1. /\ thread' = [thread EXCEPT ![t].pos = @ + 1, ![t].sent = th.sent + one]
        /\ UNCHANGED stats
    BY <1>6, <1>8 DEF Sends
  <2>2. thread' = [thread EXCEPT ![t] = r]
    BY <1>1, <1>5, <2>1 DEF WalkRecord
  <2>3. r = [[th EXCEPT !.pos = @ + 1] EXCEPT !.sent = @ + one]
    OBVIOUS
  <2> HIDE DEF r
  <2> QED BY <1>3, <1>4, <1>8, <2>1, <2>2, <2>3, GoesOnWithBackend
<1>9. CASE ~(th.pos < Len(th.batch))
  <2> DEFINE r == [[[th EXCEPT !.todo = Tail(@)] EXCEPT !.pos = 1] EXCEPT !.sent = 0]
             took == th.sent + one
  <2>1. /\ thread' = [thread EXCEPT ![t].todo = Tail(@), ![t].pos = 1, ![t].sent = 0]
        /\ Count(took, Len(th.batch))
    BY <1>6, <1>9 DEF Sends
  <2>2. th.pos = Len(th.batch)
    BY <1>1, <1>2, <1>9
  <2>3. took \in 0 .. Len(th.batch)
    BY <1>1, <1>7, <2>2
  <2>4. Pairs(b, Ahead(th, b)) = {<<b, e>>}
    <3>1. Ahead(th, b) = {e}
      BY <1>1, <1>2, <2>2
    <3> QED BY <3>1 DEF Pairs
  <2>5. thread' = [thread EXCEPT ![t] = r]
    BY <1>5, <2>1
  <2>6. /\ r \in WalkRecord /\ r.at = "send" /\ r.batch = th.batch /\ r.todo = Tail(th.todo)
        /\ r.pos = 1 /\ r.sent = 0 /\ r.same = th.same
    <3>1. Tail(th.todo) \in Seq(Backends)
      BY <1>1, <1>2, RangeOfTail
    <3> QED BY <1>1, <1>2, <3>1, NextWalk
  <2> HIDE DEF r, took, e
  <2>7. /\ handed' = handed \cup Pairs(b, Ahead(th, b))
        /\ arrived' \subseteq arrived \cup Pairs(b, Ahead(th, b))
    BY <1>4, <2>4
  <2> QED BY <1>3, <1>4, <2>1, <2>3, <2>5, <2>6, <2>7, GoesToNextBackend
<1> QED BY <1>8, <1>9

LEMMA SendFileKeeps ==
  ASSUME SiemInv, NEW t \in Threads, NEW b \in Backends, SendFile(t, b) \/ SendLost(t, b)
  PROVE  SiemInv' /\ Deals
<1>1. /\ Serves(t, b) /\ b \notin Hooks
      /\ \E ok \in BOOLEAN : Sends(t, b, ok) /\ (Arrives(t, b) \/ UNCHANGED arrived)
      /\ UNCHANGED <<dispatching, inbox, threads, control, handle, after, callers, list>>
  <2>1. CASE SendFile(t, b)
    BY <2>1, SiemAssumption DEF SendFile
  <2>2. CASE SendLost(t, b)
    <3>1. handle[b] = "stale"
      BY <2>2 DEF SendLost
    <3>2. b \notin Hooks
      BY <3>1 DEF SiemInv, HandleTypes
    <3> QED BY <2>2, <3>2 DEF SendLost, network
  <2> QED BY <2>1, <2>2
<1>2. /\ ListTypes' /\ WalksInOrder' /\ CountTypes' /\ MessagesApart' /\ HandedOnce'
      /\ StatsTell' /\ Deals
  BY <1>1, SendsKeep
<1> QED BY <1>1, <1>2, HandlesStay DEF SiemInv

LEMMA SendSocketKeeps ==
  ASSUME SiemInv, NEW t \in Threads, NEW b \in Backends, SendSocket(t, b) \/ SendRaises(t, b)
  PROVE  SiemInv' /\ Deals
<1>1. /\ Serves(t, b) /\ b \in Sockets
      /\ \E ok \in BOOLEAN : Sends(t, b, ok) /\ (Arrives(t, b) \/ UNCHANGED arrived)
      /\ UNCHANGED <<dispatching, inbox, threads, control, callers, list>>
  BY DEF SendSocket, SendRaises
<1>2. /\ Files \subseteq Backends /\ Hooks \subseteq Backends /\ Sockets \subseteq Backends
      /\ Syslogs \subseteq Sockets /\ b \notin Files /\ b \notin Hooks
  BY <1>1, SiemAssumption DEF Backends, Sockets
<1>3. /\ ListTypes' /\ WalksInOrder' /\ CountTypes' /\ MessagesApart' /\ HandedOnce'
      /\ StatsTell' /\ Deals
  BY <1>1, <1>2, SendsKeep
<1>4. /\ handle \in [Backends -> {"open", "closed", "none", "stale", "broken"}]
      /\ after \in [Sockets -> {"sent", "raised", "missed"}]
  BY DEF SiemInv, HandleTypes
<1>5. CASE SendSocket(t, b)
  <2>1. handle' = [handle EXCEPT ![b] = "open"] /\ after' = [after EXCEPT ![b] = "sent"]
    BY <1>5 DEF SendSocket
  <2>2. HandleTypes'
    BY <1>1, <1>2, <1>4, <2>1 DEF SiemInv, HandleTypes
  <2>3. Heals'
    BY <1>1, <1>2, <1>4, <2>1 DEF SiemInv, Heals
  <2> QED BY <1>3, <2>2, <2>3 DEF SiemInv
<1>6. CASE SendRaises(t, b)
  <2>1. /\ handle' = [handle EXCEPT ![b] = IF b \in Syslogs THEN "none" ELSE "broken"]
        /\ after' = [after EXCEPT ![b] =
             IF @ = "missed" \/ (@ = "raised" /\ up[b]) THEN "missed" ELSE "raised"]
        /\ handle[b] = "none" => ~up[b]
    BY <1>6 DEF SendRaises, AfterRaise
  <2>2. HandleTypes'
    BY <1>1, <1>2, <1>4, <2>1 DEF SiemInv, HandleTypes
  <2>3. Heals'
    <3>1. b \in Syslogs => after[b] # "missed" /\ (after[b] = "raised" => ~up[b])
      BY <2>1 DEF SiemInv, Heals
    <3>2. b \in Syslogs => after'[b] = "raised" /\ handle'[b] = "none"
      BY <1>1, <1>2, <1>4, <2>1, <3>1
    <3>3. \A c \in Syslogs : c # b => after'[c] = after[c] /\ handle'[c] = handle[c]
      BY <1>1, <1>2, <1>4, <2>1
    <3> QED BY <3>2, <3>3 DEF SiemInv, Heals
  <2> QED BY <1>3, <2>2, <2>3 DEF SiemInv
<1> QED BY <1>5, <1>6

LEMMA PostBatchKeeps ==
  ASSUME SiemInv, NEW t \in Threads, NEW b \in Backends, PostBatch(t, b)
  PROVE  SiemInv' /\ Deals
<1> DEFINE th == thread[t]
           r == [th EXCEPT !.todo = Tail(@)]
           E == Batch(t)
<1>1. /\ Serves(t, b) /\ b \in Hooks
      /\ handed' = handed \cup Pairs(b, E)
      /\ arrived' \in {arrived, arrived \cup Pairs(b, E)}
      /\ \E took \in {0, Len(th.batch)} : Count(took, Len(th.batch))
      /\ thread' = [thread EXCEPT ![t].todo = Tail(@)]
      /\ UNCHANGED <<dispatching, inbox, threads, control, handle, after, backends, caller,
                     messages, taken, refused>>
  BY DEF PostBatch, Pairs, callers, list
<1>2. /\ th \in WalkRecord /\ th.pos \in Nat \ {0} /\ th.sent \in Nat
      /\ th.batch \in Seq(Messages) /\ th.todo \in Seq(Backends) /\ InOrder(th)
      /\ Len(th.batch) \in Nat /\ DOMAIN th.batch = 1 .. Len(th.batch)
  BY WalkTypes
<1>3. /\ th.at = "send" /\ th.todo # <<>> /\ Head(th.todo) = b
      /\ Ahead(th, b) = {th.batch[i] : i \in th.pos .. Len(th.batch)}
  BY <1>1, Serving
<1>4. th.pos = 1 /\ th.sent = 0
  BY <1>1, <1>2, <1>3 DEF InOrder
<1>5. Ahead(th, b) = E
  BY <1>2, <1>3, <1>4 DEF Batch, Range
<1>6. thread \in [Threads -> WalkRecord]
  BY DEF SiemInv, ListTypes
<1>7. thread' = [thread EXCEPT ![t] = r]
  BY <1>1
<1>8. /\ r \in WalkRecord /\ r.at = "send" /\ r.batch = th.batch /\ r.todo = Tail(th.todo)
      /\ r.pos = 1 /\ r.sent = 0 /\ r.same = th.same
  <2>1. Tail(th.todo) \in Seq(Backends)
    BY <1>2, <1>3, RangeOfTail
  <2> QED BY <1>2, <1>3, <1>4, <2>1 DEF WalkRecord
<1>9. PICK took \in 0 .. Len(th.batch) : Count(took, Len(th.batch))
  BY <1>1, <1>2
<1> HIDE DEF r, E
<1>10. /\ handed' = handed \cup Pairs(b, Ahead(th, b)) /\ arrived \subseteq arrived'
       /\ arrived' \subseteq arrived \cup Pairs(b, Ahead(th, b))
  BY <1>1, <1>5
<1>11. /\ ListTypes' /\ WalksInOrder' /\ CountTypes' /\ MessagesApart' /\ HandedOnce'
       /\ StatsTell' /\ Deals
  BY <1>1, <1>7, <1>8, <1>9, <1>10, GoesToNextBackend
<1> QED BY <1>1, <1>11, HandlesStay DEF SiemInv

(***************************************************************************)
(* A walk that ends, or that a stalled peer holds.                         *)
(***************************************************************************)
LEMMA WalkEndKeeps ==
  ASSUME SiemInv, NEW t \in Threads, WalkEnds(t)
  PROVE  SiemInv' /\ Deals
<1> DEFINE r == [NotStarted EXCEPT !.at = IF thread[t].last THEN "ended" ELSE "gather"]
<1>1. /\ thread[t].at = "send" /\ thread[t].todo = <<>>
      /\ thread' = [thread EXCEPT ![t] = r]
      /\ UNCHANGED <<dispatching, inbox, threads, control, stats, handed, handle, arrived, after,
                     caller, messages, taken, refused, backends>>
  BY DEF WalkEnds, network, callers, list
<1>2. r \in WalkRecord
  <2>1. <<>> \in Seq(Messages) /\ <<>> \in Seq(Backends)
    BY EmptySeq
  <2>2. NotStarted \in WalkRecord
    BY <2>1 DEF WalkRecord, NotStarted
  <2> QED BY <2>2 DEF WalkRecord
<1>3. /\ thread \in [Threads -> WalkRecord] /\ dispatching \in BOOLEAN
      /\ control \in {"free", "signal", "join"}
  BY DEF SiemInv, ListTypes
<1>4. /\ r.at \in {"gather", "ended"} /\ r.batch = <<>> /\ r.todo = <<>> /\ r.pos = 1
      /\ r.sent = 0
  BY DEF NotStarted
<1> HIDE DEF r
<1>5. InOrder(r)
  BY <1>4, EmptyRange, SiemAssumption DEF InOrder, Sending
<1>6. \A b \in Backends : Ahead(r, b) = {}
  BY <1>2, <1>4, AheadInBatch, EmptyRange
<1>7. WalksOn(t, r, {})
  <2>1. {} \subseteq Waiting /\ Waiting' \subseteq Waiting \ {}
    BY <1>1 DEF Waiting
  <2>2. Range(r.batch) \subseteq Batch(t) \cup {}
    BY <1>4, EmptyRange
  <2>3. \A b \in Backends : Ahead(r, b) \subseteq Ahead(thread[t], b) \cup {}
    BY <1>6
  <2> QED BY <1>1, <1>2, <1>3, <1>5, <2>1, <2>2, <2>3, InboxStays DEF WalksOn
<1>8. thread'[t] = r /\ \A u \in Threads : u # t => thread'[u] = thread[u]
  BY <1>1, <1>3
<1>9. \A u \in Threads : Uncounted(u)' = Uncounted(u)
  <2>1. Uncounted(t)' = Uncounted(t)
    BY <1>1, <1>4, <1>8 DEF Uncounted
  <2>2. ASSUME NEW u \in Threads, u # t PROVE Uncounted(u)' = Uncounted(u)
    BY <1>8, <2>2 DEF Uncounted
  <2> QED BY <2>1, <2>2
<1>10. /\ ListTypes' /\ WalksInOrder' /\ MessagesApart'
       /\ \A b \in Backends : OnItsWay(b)' \subseteq OnItsWay(b)
  BY <1>7, OneWalks
<1> QED BY <1>1, <1>9, <1>10, NothingHanded, HandlesStay DEF SiemInv

LEMMA StallsKeep ==
  ASSUME SiemInv, NEW t \in Threads, NEW b \in Sockets, Stalls(t, b)
  PROVE  SiemInv' /\ Deals
<1> DEFINE th == thread[t]
           r == [th EXCEPT !.at = "stuck"]
<1>1. /\ Serves(t, b) /\ thread' = [thread EXCEPT ![t].at = "stuck"]
      /\ UNCHANGED <<dispatching, inbox, threads, control, stats, handed, handle, arrived, after,
                     caller, messages, taken, refused, backends>>
  BY DEF Stalls, network, callers, list
<1>2. th \in WalkRecord /\ InOrder(th) /\ th.at = "send"
  BY <1>1, WalkTypes DEF Serves
<1>3. /\ thread \in [Threads -> WalkRecord] /\ dispatching \in BOOLEAN
      /\ control \in {"free", "signal", "join"}
  BY DEF SiemInv, ListTypes
<1>4. r \in WalkRecord
  BY <1>2 DEF WalkRecord
<1>5. /\ r.at = "stuck" /\ r.batch = th.batch /\ r.todo = th.todo /\ r.pos = th.pos
      /\ r.sent = th.sent /\ r.same = th.same
  BY <1>2 DEF WalkRecord
<1>6. thread' = [thread EXCEPT ![t] = r]
  BY <1>1
<1> HIDE DEF r
<1>7. InOrder(r)
  BY <1>2, <1>5 DEF InOrder, Sending
<1>8. \A c \in Backends : Ahead(r, c) = Ahead(th, c)
  BY <1>2, <1>5 DEF Ahead
<1>9. WalksOn(t, r, {})
  <2>1. {} \subseteq Waiting /\ Waiting' \subseteq Waiting \ {}
    BY <1>1 DEF Waiting
  <2>2. Range(r.batch) \subseteq Batch(t) \cup {}
    BY <1>5 DEF Batch
  <2>3. \A c \in Backends : Ahead(r, c) \subseteq Ahead(thread[t], c) \cup {}
    BY <1>8
  <2> QED BY <1>1, <1>2, <1>3, <1>4, <1>6, <1>7, <2>1, <2>2, <2>3, InboxStays DEF WalksOn
<1>10. thread'[t] = r /\ \A u \in Threads : u # t => thread'[u] = thread[u]
  BY <1>3, <1>6
<1>11. \A u \in Threads : Uncounted(u)' = Uncounted(u)
  <2>1. Uncounted(t)' = Uncounted(t)
    BY <1>5, <1>10 DEF Uncounted
  <2>2. ASSUME NEW u \in Threads, u # t PROVE Uncounted(u)' = Uncounted(u)
    BY <1>10, <2>2 DEF Uncounted
  <2> QED BY <2>1, <2>2
<1>12. /\ ListTypes' /\ WalksInOrder' /\ MessagesApart'
       /\ \A c \in Backends : OnItsWay(c)' \subseteq OnItsWay(c)
  BY <1>9, OneWalks
<1> QED BY <1>1, <1>11, <1>12, NothingHanded, HandlesStay DEF SiemInv

-----------------------------------------------------------------------------
LEMMA SiemInitInv == SiemInit => SiemInv
<1> SUFFICES ASSUME SiemInit PROVE SiemInv
  OBVIOUS
<1>1. /\ backends = <<>> /\ dispatching = FALSE /\ inbox = <<>> /\ threads = 0
      /\ control = "free"
      /\ messages = 0 /\ taken = {} /\ handed = {} /\ arrived = {} /\ refused = 0
      /\ stats = [dispatched |-> 0, failed |-> 0, dropped |-> 0]
  BY DEF SiemInit
<1>2. /\ thread = [t \in Threads |->
                    [at |-> "off", batch |-> <<>>, last |-> FALSE, todo |-> <<>>,
                     pos |-> 1, sent |-> 0, same |-> FALSE]]
      /\ caller = [c \in Callers |-> [at |-> "idle", message |-> 0]]
  BY DEF SiemInit, NotStarted
<1>3. \A t \in Threads :
        /\ thread[t].at = "off" /\ thread[t].batch = <<>> /\ thread[t].todo = <<>>
        /\ thread[t].pos = 1 /\ thread[t].sent = 0
  BY <1>2
<1>4. /\ <<>> \in Seq(Messages) /\ <<>> \in Seq(Backends)
      /\ <<>> \in Seq(Messages \cup {NoMessage})
  BY EmptySeq
<1>5. {MaxMessages, MaxThreads} \subseteq Nat /\ {InboxMax, SendMax} \subseteq Nat \ {0}
  BY SiemAssumption
<1>6. ListTypes
  <2>1. thread \in [Threads -> WalkRecord]
    BY <1>2, <1>4 DEF WalkRecord
  <2>2. caller \in [Callers -> [at : {"idle", "put"}, message : 0 .. MaxMessages]]
    BY <1>2, <1>5
  <2>3. /\ 0 \in 0 .. MaxThreads /\ 0 \in 0 .. MaxMessages
        /\ Len(inbox) <= InboxMax
    BY <1>1, <1>5, EmptyRange
  <2>4. IsInjective(backends)
    BY <1>1, EmptyRange
  <2> QED BY <1>1, <1>4, <2>1, <2>2, <2>3, <2>4 DEF ListTypes
<1>7. HandleTypes /\ Heals
  <2>1. /\ handle = [b \in Backends |-> IF b \in Files THEN "open" ELSE "none"]
        /\ after = [b \in Sockets |-> "sent"]
    BY DEF SiemInit
  <2>2. /\ Files \subseteq Backends /\ Hooks \subseteq Backends /\ Sockets \subseteq Backends
        /\ Syslogs \subseteq Sockets /\ Files \cap Hooks = {} /\ Files \cap Sockets = {}
    BY SiemAssumption DEF Backends, Sockets
  <2> QED BY <2>1, <2>2 DEF HandleTypes, Heals
<1>8. CountTypes
  BY <1>1, FS_EmptySet DEF CountTypes
<1>9. WalksInOrder
  BY <1>3, <1>5, EmptyRange DEF WalksInOrder, InOrder, Sending
<1>10. \A t \in Threads : Batch(t) = {} /\ Uncounted(t) = {}
  BY <1>3, EmptyRange DEF Batch, Uncounted
<1>11. MessagesApart
  <2>1. Waiting = {}
    BY <1>1, EmptyRange DEF Waiting
  <2>2. \A c \in Callers : caller[c].at = "idle"
    BY <1>2
  <2>3. \A i, j \in 1 .. Len(inbox) : inbox[i] = inbox[j] => i = j \/ inbox[i] = NoMessage
    BY <1>1, EmptyRange
  <2> QED BY <1>1, <1>10, <2>1, <2>2, <2>3 DEF MessagesApart
<1>12. HandedOnce
  BY <1>1, <1>10 DEF HandedOnce
<1>13. StatsTell
  <2>1. handed \ UNION {Uncounted(t) : t \in Threads} = {}
    BY <1>1
  <2> QED BY <1>1, <2>1, FS_EmptySet DEF StatsTell
<1> QED BY <1>6, <1>7, <1>8, <1>9, <1>11, <1>12, <1>13 DEF SiemInv

LEMMA LoopKeeps ==
  ASSUME SiemInv, NEW t \in Threads, Loop(t)
  PROVE  SiemInv' /\ Deals
BY GatherKeeps, GatherStops, SendFileKeeps, SendSocketKeeps, PostBatchKeeps, WalkEndKeeps
   DEF Loop, Send

LEMMA SiemRests == ASSUME SiemInv, UNCHANGED siemVars PROVE SiemInv' /\ Deals
<1>1. UNCHANGED <<dispatching, inbox, threads, thread, control, stats, handed, handle, up, flaps,
                  arrived, after, caller, messages, taken, refused, backends, changes>>
  BY DEF siemVars, network, callers, list
<1> QED BY <1>1, InboxStays, HandlesStay, NobodyWalks

LEMMA SiemStep ==
  ASSUME SiemInv, [SiemNext]_siemVars
  PROVE  SiemInv' /\ (Deals \/ \E e \in Messages : TakesIn(e))
<1>1. CASE UNCHANGED siemVars
  BY <1>1, SiemRests
<1>2. CASE \E b \in Backends : AddBackend(b) \/ RemoveBackend(b)
  BY <1>2, AddBackendKeeps, RemoveBackendKeeps
<1>3. CASE \E c \in Callers : Dispatch(c) \/ Enqueue(c)
  BY <1>3, DispatchKeeps, EnqueueKeeps
<1>4. CASE SiemStart \/ SiemStop \/ SignalEnd \/ SiemClose
  BY <1>4, SiemStartKeeps, SiemStopKeeps, SignalEndKeeps, SiemCloseKeeps
<1>5. CASE \E t \in Threads : Loop(t)
  BY <1>5, LoopKeeps
<1>6. CASE Peers
  BY <1>6, PeersKeep, StallsKeep DEF Peers
<1> QED BY <1>1, <1>2, <1>3, <1>4, <1>5, <1>6 DEF SiemNext

LEMMA SiemInvImplies == SiemInv => SiemIsSound
<1> SUFFICES ASSUME SiemInv PROVE SiemIsSound
  OBVIOUS
<1>1. /\ backends \in Seq(Backends) /\ IsInjective(backends)
      /\ inbox \in Seq(Messages \cup {NoMessage})
  BY DEF SiemInv, ListTypes
<1>2. Range(backends) \subseteq Backends /\ Len(backends) = Cardinality(Range(backends))
  <2>1. Range(backends) \subseteq Backends
    BY <1>1, LenProperties DEF Range
  <2> QED BY <1>1, <2>1, CardinalityOfRange
<1>3. Range(inbox) \subseteq Messages \cup {NoMessage}
  BY <1>1, LenProperties DEF Range
<1>4. ASSUME NEW t \in Threads
      PROVE  /\ thread[t].at \in {"off", "gather", "send", "stuck", "ended"}
             /\ Range(thread[t].batch) \subseteq Messages /\ Len(thread[t].batch) <= SendMax
             /\ thread[t].sent < thread[t].pos
  <2>1. thread[t] \in WalkRecord /\ thread[t].batch \in Seq(Messages) /\ InOrder(thread[t])
    BY WalkTypes
  <2>2. Range(thread[t].batch) \subseteq Messages
    BY <2>1, LenProperties DEF Range
  <2>3. thread[t].at \in {"off", "gather", "send", "stuck", "ended"}
    BY <2>1 DEF WalkRecord
  <2> QED BY <2>1, <2>2, <2>3 DEF InOrder
<1>5. /\ \A b \in Backends :
           handle[b] \in IF b \in Files THEN {"open", "closed"}
                         ELSE {"none", "open", "stale", "broken"}
      /\ \A b \in Syslogs : handle[b] # "broken"
  <2>1. \A b \in Backends : b \in Files \/ b \in Hooks \/ b \in Sockets
    BY DEF Backends, Sockets
  <2> QED BY <2>1 DEF SiemInv, HandleTypes
<1>6. SiemTypeOK
  BY <1>2, <1>3, <1>4, <1>5 DEF SiemInv, ListTypes, CountTypes, SiemTypeOK
<1>7. SyslogHeals
  BY DEF SiemInv, Heals, SyslogHeals
<1> QED BY <1>6, <1>7 DEF SiemInv, SiemIsSound

(***************************************************************************)
(* Types, statistics and the healing of syslog hold whatever threads,      *)
(* callers and changes of the list interleave, and however peers come and  *)
(* go.                                                                     *)
(***************************************************************************)
THEOREM SiemSound == SiemSpec => []SiemIsSound
<1>1. SiemInit => SiemInv
  BY SiemInitInv
<1>2. SiemInv /\ [SiemNext]_siemVars => SiemInv'
  BY SiemStep
<1>3. SiemInv => SiemIsSound
  BY SiemInvImplies
<1> QED BY <1>1, <1>2, <1>3, PTL DEF SiemSpec

(***************************************************************************)
(* Each backend implements EventLog: what is pending for it is what is on  *)
(* its way, and a step settles some of that.                               *)
(***************************************************************************)
LEMMA SinkInit == SiemInit => \A b \in Backends : Sink(b)!Init
<1> SUFFICES ASSUME SiemInit, NEW b \in Backends PROVE Sink(b)!Init
  OBVIOUS
<1>1. taken = {} /\ arrived = {}
  BY DEF SiemInit
<1>2. OnItsWay(b) = {}
  BY <1>1, SiemInitInv, OnItsWayTaken
<1>3. (Range(inbox) \ {NoMessage}) \cup UNION {Ahead(thread[t], b) : t \in Threads} = {}
  BY <1>2 DEF OnItsWay, Waiting
<1> QED BY <1>1, <1>3 DEF Sink!Init

LEMMA SinkStep ==
  ASSUME SiemInv, SiemInv', [SiemNext]_siemVars, NEW b \in Backends
  PROVE  [Sink(b)!Next]_(Sink(b)!vars)
<1> DEFINE kept == {e \in Messages : <<b, e>> \in arrived}
           pending == (Range(inbox) \ {NoMessage}) \cup UNION {Ahead(thread[t], b) : t \in Threads}
<1>1. pending = OnItsWay(b) /\ pending' = OnItsWay(b)'
  BY DEF OnItsWay, Waiting
<1>2. ASSUME NEW e \in Messages, TakesIn(e) PROVE Sink(b)!Next
  <2>1. e \notin taken /\ taken' = taken \cup {e} /\ pending' = pending \cup {e} /\ kept' = kept
    BY <1>1, <1>2 DEF TakesIn
  <2>2. Sink(b)!Accept(e)
    BY <2>1 DEF Sink!Accept
  <2> QED BY <2>2 DEF Sink!Next
<1>3. ASSUME Deals, NEW batch, batch = pending \ pending', NEW reached, reached = kept' \ kept
      PROVE  Sink(b)!Next
  <2>1. /\ kept' = kept \cup reached /\ pending' = pending \ batch /\ UNCHANGED taken
    BY <1>1, <1>3 DEF Deals
  <2>2. reached \subseteq pending
    BY <1>1, <1>3 DEF Deals
  <2>3. \A e \in kept' : e \notin pending'
    BY <1>1 DEF SiemInv, HandedOnce, CountTypes
  <2>4. batch \in SUBSET pending /\ reached \in SUBSET batch
    <3> HIDE DEF pending, kept
    <3> QED BY <1>3, <2>2, <2>3
  <2>5. Sink(b)!Settle(batch, reached)
    BY <2>1 DEF Sink!Settle
  <2> QED BY <2>4, <2>5 DEF Sink!Next
<1> QED BY <1>2, <1>3, SiemStep

(***************************************************************************)
(* Every SIEM backend is an EventLog: a message the dispatcher accepted is *)
(* settled once for it, by one thread, through changes of the list, stops  *)
(* and restarts.                                                           *)
(***************************************************************************)
THEOREM SinkLogs == SiemSpec => SinksAreLogs
<1>1. SiemInit => \A b \in Backends : Sink(b)!Init
  BY SinkInit
<1>2. SiemInv /\ SiemInv' /\ [SiemNext]_siemVars
        => [\A b \in Backends : [Sink(b)!Next]_(Sink(b)!vars)]_siemVars
  BY SinkStep
<1>3. SiemInit => SiemInv
  BY SiemInitInv
<1>4. SiemInv /\ [SiemNext]_siemVars => SiemInv'
  BY SiemStep
<1> QED BY <1>1, <1>2, <1>3, <1>4, PTL DEF SiemSpec, SinksAreLogs

-----------------------------------------------------------------------------
(***************************************************************************)
(* The two records of one run: the one that rests behaves as well.         *)
(***************************************************************************)
LEMMA RecordsAreBoth == RecordsSpec => AuditSpec /\ SiemSpec
<1>1. RecordsInit => AuditInit /\ SiemInit
  BY DEF RecordsInit
<1>2. [RecordsNext]_<<live, auditVars, siemVars>> => [AuditNext]_auditVars /\ [SiemNext]_siemVars
  <2>1. CASE UNCHANGED <<live, auditVars, siemVars>>
    BY <2>1
  <2>2. CASE Only("audit") /\ AuditNext
    BY <2>2 DEF Only
  <2>3. CASE Only("siem") /\ SiemNext
    BY <2>3 DEF Only
  <2> QED BY <2>1, <2>2, <2>3 DEF RecordsNext
<1> QED BY <1>1, <1>2, PTL DEF RecordsSpec, AuditSpec, SiemSpec

(***************************************************************************)
(* The table, the JSONL file and every SIEM backend implement EventLog.    *)
(***************************************************************************)
THEOREM RecordsLog == RecordsSpec => RecordsAreLogs
BY RecordsAreBoth, TableLogs, MirrorLogs, SinkLogs DEF RecordsAreLogs

=============================================================================
