---------------------------- MODULE Texts_proofs ----------------------------
(***************************************************************************)
(* Proofs about what is done to the characters of a text, by the scan that *)
(* redacts one on its way out and by the relay that detokenizes one on its *)
(* way back, for any texts, sizes of chunks, spans of detectors and pieces *)
(* of a streamed reply.  First what recursive definitions conform to, then *)
(* the relay, then the scan.                                               *)
(***************************************************************************)
EXTENDS TextFlow, SequenceTheorems, WellFoundedInduction, TLAPS

-----------------------------------------------------------------------------
(***************************************************************************)
(* A set of numbers has a least member, and what holds of 0 and of every   *)
(* number up to n whose predecessor it holds of, holds up to n.            *)
(***************************************************************************)
LEMMA LeastOne ==
  ASSUME NEW S \in SUBSET Nat, S # {}
  PROVE  \E m \in S : \A k \in S : m <= k
<1>1. PICK m \in S : \A k \in S : ~ (<<k, m>> \in OpToRel(<, Nat))
  BY NatLessThanWellFounded, WFMin, Zenon
<1>2. \A k \in S : ~ (k < m)
  BY <1>1, Zenon DEF OpToRel
<1> QED
  BY <1>2

LEMMA UpToInduction ==
  ASSUME NEW n \in Nat, NEW P \in SUBSET (0 .. n), 0 \in P,
         \A k \in 1 .. n : k - 1 \in P => k \in P
  PROVE  \A k \in 0 .. n : k \in P
<1> SUFFICES ASSUME NEW k \in 0 .. n, k \notin P PROVE FALSE
  OBVIOUS
<1> DEFINE others == (0 .. n) \ P
<1>1. others \in SUBSET Nat /\ others # {}
  OBVIOUS
<1> HIDE DEF others
<1>2. PICK m \in others : \A j \in others : m <= j
  BY <1>1, LeastOne
<1>3. m \in 0 .. n /\ m \notin P
  BY <1>2 DEF others
<1>4. m # 0
  BY <1>3
<1>5. m \in 1 .. n /\ m - 1 \in 0 .. n /\ ~(m <= m - 1)
  BY <1>3, <1>4
<1>6. m - 1 \in P
  BY <1>2, <1>5 DEF others
<1> QED BY <1>3, <1>5, <1>6

LEMMA DownToInduction ==
  ASSUME NEW n \in Nat, NEW P \in SUBSET (0 .. n), n \in P,
         \A k \in 0 .. n - 1 : (\A j \in k + 1 .. n : j \in P) => k \in P
  PROVE  \A k \in 0 .. n : k \in P
<1> DEFINE Q == {m \in 0 .. n : \A j \in n - m .. n : j \in P}
<1>1. 0 \in Q
  <2>1. \A j \in n - 0 .. n : j = n
    OBVIOUS
  <2> QED BY <2>1
<1>2. ASSUME NEW m \in 1 .. n, m - 1 \in Q PROVE m \in Q
  <2>1. \A j \in n - (m - 1) .. n : j \in P
    BY <1>2
  <2>2. n - m \in 0 .. n - 1 /\ (n - m) + 1 = n - (m - 1)
    OBVIOUS
  <2>3. n - m \in P
    BY <2>1, <2>2
  <2>4. \A j \in n - m .. n : j = n - m \/ j \in n - (m - 1) .. n
    OBVIOUS
  <2> QED BY <2>1, <2>3, <2>4
<1>3. Q \in SUBSET (0 .. n)
  OBVIOUS
<1> HIDE DEF Q
<1>4. n \in Q
  BY <1>1, <1>2, <1>3, UpToInduction
<1> QED BY <1>4 DEF Q

(***************************************************************************)
(* A recursive definition conforms to its equation: next is the right side *)
(* as a function of the left, and what it says of d depends on arguments   *)
(* of lower rank only.                                                     *)
(***************************************************************************)
Recursion(Args, Res, n, rank, next) ==
  /\ rank \in [Args -> 0 .. n] /\ next \in [[Args -> Res] -> [Args -> Res]]
  /\ \A f, g \in [Args -> Res] : \A d \in Args :
       (\A e \in Args : rank[e] < rank[d] => f[e] = g[e]) => next[f][d] = next[g][d]

LEMMA RecursiveFunction ==
  ASSUME NEW Args, NEW Res, NEW any \in Res, NEW n \in Nat, NEW rank, NEW next,
         Recursion(Args, Res, n, rank, next)
  PROVE  \E f \in [Args -> Res] : f = next[f]
<1> USE DEF Recursion
<1> DEFINE UpTo(f, m) == \A d \in Args : rank[d] < m => f[d] = next[f][d]
           P == {m \in 0 .. n + 1 : \E f \in [Args -> Res] : UpTo(f, m)}
<1>1. 0 \in P
  <2>1. PICK f \in [Args -> Res] : f = [d \in Args |-> any]
    OBVIOUS
  <2>2. \A d \in Args : ~(rank[d] < 0)
    <3>1. \A d \in Args : rank[d] \in 0 .. n
      OBVIOUS
    <3> QED BY <3>1
  <2> QED BY <2>1, <2>2
<1>2. ASSUME NEW m \in 1 .. n + 1, m - 1 \in P PROVE m \in P
  <2>1. PICK f \in [Args -> Res] : UpTo(f, m - 1)
    BY <1>2
  <2>2. PICK g \in [Args -> Res] : g = next[f]
    OBVIOUS
  <2>3. ASSUME NEW d \in Args, rank[d] < m PROVE g[d] = next[g][d]
    <3>1. \A e \in Args : rank[e] < rank[d] => f[e] = g[e]
      <4>1. ASSUME NEW e \in Args, rank[e] < rank[d] PROVE f[e] = g[e]
        <5>1. rank[e] \in 0 .. n /\ rank[d] \in 0 .. n
          OBVIOUS
        <5>2. rank[e] < m - 1
          BY <2>3, <4>1, <5>1
        <5> QED BY <2>1, <2>2, <5>2
      <4> QED BY <4>1
    <3>2. next[f][d] = next[g][d]
      BY <3>1
    <3> QED BY <2>2, <3>2
  <2> QED BY <2>3
<1>3. P \in SUBSET (0 .. n + 1) /\ n + 1 \in Nat /\ n + 1 \in 0 .. n + 1
  OBVIOUS
<1>4. n + 1 \in P
  <2> HIDE DEF P
  <2> QED BY <1>1, <1>2, <1>3, UpToInduction
<1>5. PICK f \in [Args -> Res] : UpTo(f, n + 1)
  BY <1>4
<1>6. \A d \in Args : f[d] = next[f][d]
  <2>1. \A d \in Args : rank[d] < n + 1
    <3>1. \A d \in Args : rank[d] \in 0 .. n
      OBVIOUS
    <3> QED BY <3>1
  <2> QED BY <1>5, <2>1
<1>7. next[f] \in [Args -> Res]
  OBVIOUS
<1> QED BY <1>6, <1>7

-----------------------------------------------------------------------------
(***************************************************************************)
(* Texts that are joined from pieces: h[i] is what the first i pieces give.*)
(***************************************************************************)
Joins(h, pieces, n) == h[0] = <<>> /\ \A i \in 1 .. n : h[i] = h[i - 1] \o pieces[i]

StepByStep(h, pieces, n) ==
  h = [i \in 0 .. n |-> IF i = 0 THEN <<>> ELSE h[i - 1] \o pieces[i]]

Typed(pieces, n, Res) == pieces \in [1 .. n -> Seq(Res)]

LEMMA JoinExists ==
  ASSUME NEW Res, NEW n \in Nat, NEW pieces, Typed(pieces, n, Res)
  PROVE  \E h : StepByStep(h, pieces, n)
<1> DEFINE Texted == Seq(Res)
           body(h, i) == IF i = 0 THEN <<>> ELSE h[i - 1] \o pieces[i]
           next == [h \in [0 .. n -> Texted] |-> [i \in 0 .. n |-> body(h, i)]]
           rank == [i \in 0 .. n |-> i]
<1> USE DEF Typed
<1>1. <<>> \in Texted /\ rank \in [0 .. n -> 0 .. n]
  OBVIOUS
<1>2. ASSUME NEW h \in [0 .. n -> Texted], NEW i \in 0 .. n PROVE body(h, i) \in Texted
  <2>1. CASE i = 0
    BY <1>1, <2>1
  <2>2. CASE i # 0
    <3>1. h[i - 1] \in Seq(Res) /\ pieces[i] \in Seq(Res)
      BY <2>2
    <3>2. h[i - 1] \o pieces[i] \in Seq(Res)
      BY <3>1, ConcatProperties
    <3> QED BY <2>2, <3>2
  <2> QED BY <2>1, <2>2
<1> HIDE DEF Texted
<1>3. next \in [[0 .. n -> Texted] -> [0 .. n -> Texted]]
  <2> HIDE DEF body
  <2> QED BY <1>2
<1>4. \A f, g \in [0 .. n -> Texted] : \A i \in 0 .. n :
        (\A e \in 0 .. n : rank[e] < rank[i] => f[e] = g[e]) => next[f][i] = next[g][i]
  <2> SUFFICES ASSUME NEW f \in [0 .. n -> Texted], NEW g \in [0 .. n -> Texted], NEW i \in 0 .. n,
                      \A e \in 0 .. n : rank[e] < rank[i] => f[e] = g[e]
               PROVE  next[f][i] = next[g][i]
    OBVIOUS
  <2>1. i # 0 => i - 1 \in 0 .. n /\ rank[i - 1] < rank[i]
    OBVIOUS
  <2>2. body(f, i) = body(g, i)
    BY <2>1
  <2> HIDE DEF body
  <2> QED BY <2>2
<1>5. \E h \in [0 .. n -> Texted] : h = next[h]
  <2> DEFINE Indices == 0 .. n
  <2>1. \A f, g \in [Indices -> Texted] : \A i \in Indices :
        (\A e \in Indices : rank[e] < rank[i] => f[e] = g[e]) => next[f][i] = next[g][i]
    BY <1>4
  <2>2. next \in [[Indices -> Texted] -> [Indices -> Texted]] /\ rank \in [Indices -> 0 .. n] /\ <<>> \in Texted
    BY <1>1, <1>3
  <2> HIDE DEF next, rank, Indices
  <2>3. Recursion(Indices, Texted, n, rank, next)
    BY <2>1, <2>2 DEF Recursion
  <2>4. \E h \in [Indices -> Texted] : h = next[h]
    <3> HIDE DEF Typed, body
    <3>1. PICK A, T, r, f : A = Indices /\ T = Texted /\ r = rank /\ f = next
      OBVIOUS
    <3>2. Recursion(A, T, n, r, f) /\ <<>> \in T
      BY <2>2, <2>3, <3>1
    <3>3. \E h \in [A -> T] : h = f[h]
      BY <3>2, RecursiveFunction
    <3> QED BY <3>1, <3>3
  <2> QED BY <2>4 DEF Indices
<1> QED BY <1>5 DEF Texted, StepByStep

AreTexts(pieces, n, Res) == \A i \in 1 .. n : pieces[i] \in Seq(Res)

Behind(h, p, n, a, g, q, b, Res) ==
  /\ a \in Nat /\ b \in Nat /\ n = a + b
  /\ AreTexts(p, n, Res) /\ AreTexts(q, b, Res)
  /\ Joins(h, p, n) /\ Joins(g, q, b) /\ \A k \in 1 .. b : p[a + k] = q[k]

LEMMA JoinTypes ==
  ASSUME NEW Res, NEW n \in Nat, NEW h, NEW pieces, Joins(h, pieces, n),
         \A i \in 1 .. n : pieces[i] \in Seq(Res)
  PROVE  \A i \in 0 .. n : h[i] \in Seq(Res)
<1> DEFINE Texted == Seq(Res)
<1>1. \A s, t \in Texted : s \o t \in Texted
  BY ConcatProperties
<1>2. <<>> \in Texted /\ \A i \in 1 .. n : pieces[i] \in Texted
  OBVIOUS
<1> HIDE DEF Texted
<1> DEFINE P == {i \in 0 .. n : h[i] \in Texted}
<1>3. 0 \in P
  BY <1>2 DEF Joins
<1>4. ASSUME NEW k \in 1 .. n, k - 1 \in P PROVE k \in P
  <2>1. h[k - 1] \in Texted /\ pieces[k] \in Texted
    BY <1>2, <1>4
  <2>2. h[k] = h[k - 1] \o pieces[k]
    BY DEF Joins
  <2>3. h[k] \in Texted
    BY <1>1, <2>1, <2>2
  <2> QED BY <2>3
<1>5. P \in SUBSET (0 .. n)
  OBVIOUS
<1> HIDE DEF P
<1>6. \A k \in 0 .. n : k \in P
  BY <1>3, <1>4, <1>5, UpToInduction
<1> QED BY <1>6 DEF P, Texted

Makes(s, t, whole) == whole = s \o t

LEMMA JoinedBehind ==
  ASSUME NEW Res, NEW a, NEW b, NEW n, NEW h, NEW g, NEW p, NEW q,
         Behind(h, p, n, a, g, q, b, Res)
  PROVE  Makes(h[a], g[b], h[n])
<1> USE DEF AreTexts, Behind, Makes
<1> DEFINE Texted == Seq(Res)
<1>1. /\ \A s, t, u \in Texted : (s \o t) \o u = s \o (t \o u)
      /\ \A s \in Texted : s \o <<>> = s
  BY ConcatAssociative, ConcatEmptySeq
<1>2. \A i \in 0 .. b : g[i] \in Texted
  <2> HIDE DEF Texted
  <2> QED BY JoinTypes DEF Texted
<1>3. h[a] \in Texted
  <2>1. n \in Nat /\ \A i \in 0 .. a : i \in 0 .. n
    OBVIOUS
  <2>2. Joins(h, p, n) /\ \A i \in 1 .. n : p[i] \in Seq(Res)
    BY <2>1
  <2>3. \A i \in 0 .. n : h[i] \in Seq(Res)
    BY <2>2, JoinTypes
  <2> QED BY <2>1, <2>3
<1>4. \A i \in 1 .. b : q[i] \in Texted
  OBVIOUS
<1> HIDE DEF Texted
<1> DEFINE P == {k \in 0 .. b : h[a + k] = h[a] \o g[k]}
<1>5. 0 \in P
  <2>1. g[0] = <<>> /\ a + 0 = a /\ 0 \in 0 .. b
    BY DEF Joins
  <2>2. h[a] \o <<>> = h[a]
    BY <1>1, <1>3
  <2>3. h[a + 0] = h[a] \o g[0]
    BY <2>1, <2>2
  <2> QED BY <2>1, <2>3
<1>6. ASSUME NEW k \in 1 .. b, k - 1 \in P PROVE k \in P
  <2>1. h[a + (k - 1)] = h[a] \o g[k - 1]
    BY <1>6
  <2>2. a + k \in 1 .. a + b /\ (a + k) - 1 = a + (k - 1) /\ k - 1 \in 0 .. b /\ k \in 0 .. b
    OBVIOUS
  <2>3. h[a + k] = h[a + (k - 1)] \o p[a + k]
    <3>1. \A i \in 1 .. n : h[i] = h[i - 1] \o p[i]
      BY DEF Joins
    <3>2. h[a + k] = h[(a + k) - 1] \o p[a + k]
      BY <2>2, <3>1
    <3> QED BY <2>2, <3>2
  <2>4. g[k] = g[k - 1] \o q[k] /\ p[a + k] = q[k]
    BY DEF Joins
  <2>5. (h[a] \o g[k - 1]) \o q[k] = h[a] \o (g[k - 1] \o q[k])
    <3>1. g[k - 1] \in Texted /\ q[k] \in Texted
      BY <1>2, <1>4, <2>2
    <3> QED BY <1>1, <1>3, <3>1
  <2>6. h[a + k] = h[a] \o g[k]
    BY <2>1, <2>3, <2>4, <2>5
  <2> QED BY <2>2, <2>6
<1>7. \A k \in P : k \in 0 .. b
  OBVIOUS
<1> HIDE DEF P
<1>8. b \in P
  <2>1. P \in SUBSET (0 .. b) /\ b \in 0 .. b
    BY <1>7
  <2> QED BY <1>5, <1>6, <2>1, UpToInduction
<1> QED BY <1>8 DEF P

LEMMA JoinsAgree ==
  ASSUME NEW n \in Nat, NEW h, NEW g, NEW p, NEW q,
         Joins(h, p, n), Joins(g, q, n), \A i \in 1 .. n : p[i] = q[i]
  PROVE  h[n] = g[n]
<1> DEFINE P == {i \in 0 .. n : h[i] = g[i]}
<1>1. 0 \in P
  BY DEF Joins
<1>2. ASSUME NEW k \in 1 .. n, k - 1 \in P PROVE k \in P
  <2>1. h[k] = h[k - 1] \o p[k] /\ g[k] = g[k - 1] \o q[k] /\ p[k] = q[k]
    BY DEF Joins
  <2>2. h[k - 1] = g[k - 1]
    BY <1>2
  <2>3. h[k] = g[k]
    BY <2>1, <2>2
  <2> QED BY <2>3
<1>3. P \in SUBSET (0 .. n) /\ n \in 0 .. n
  OBVIOUS
<1> HIDE DEF P
<1>4. n \in P
  BY <1>1, <1>2, <1>3, UpToInduction
<1> QED BY <1>4 DEF P

-----------------------------------------------------------------------------
(***************************************************************************)
(* What detokenizing gives: characters and values.                         *)
(***************************************************************************)
Outputs == Char \cup {Value(t) : t \in Known}

LEMMA RewrittenIsOutput ==
  ASSUME NEW x \in Seq(Char), NEW i \in 1 .. Len(x)
  PROVE  Rewritten(x, i) \in Seq(Outputs)
<1>1. x[i] \in Outputs
  BY DEF Outputs
<1>2. \A o \in Outputs : <<o>> \in Seq(Outputs)
  OBVIOUS
<1>3. CASE TokensAt(x, i) # {}
  <2>1. PICK t \in Known : t = CHOOSE u \in TokensAt(x, i) : TRUE
    BY <1>3 DEF TokensAt
  <2>2. Value(t) \in Outputs
    BY DEF Outputs
  <2>3. Rewritten(x, i) = <<Value(t)>>
    BY <1>3, <2>1, Zenon DEF Rewritten
  <2> QED BY <1>2, <2>2, <2>3
<1>4. CASE TokensAt(x, i) = {}
  <2>1. Rewritten(x, i) = <<>> \/ Rewritten(x, i) = <<x[i]>>
    BY <1>4, Zenon DEF Rewritten
  <2>2. <<>> \in Seq(Outputs)
    OBVIOUS
  <2> QED BY <1>1, <1>2, <2>1, <2>2, Zenon
<1> QED BY <1>3, <1>4

(***************************************************************************)
(* A function defined step by step from pieces joins them.                 *)
(***************************************************************************)
Joined(pieces, n) == CHOOSE h : StepByStep(h, pieces, n)

LEMMA JoinedJoins ==
  ASSUME NEW Res, NEW n \in Nat, NEW pieces, Typed(pieces, n, Res)
  PROVE  Joins(Joined(pieces, n), pieces, n)
<1>1. PICK h : h = Joined(pieces, n)
  OBVIOUS
<1>2. StepByStep(h, pieces, n)
  BY <1>1, JoinExists DEF Joined
<1>4. 0 \in 0 .. n /\ \A i \in 1 .. n : i \in 0 .. n /\ i # 0
  OBVIOUS
<1>5. h[0] = <<>>
  BY <1>2, <1>4 DEF StepByStep
<1>6. \A i \in 1 .. n : h[i] = h[i - 1] \o pieces[i]
  BY <1>2, <1>4 DEF StepByStep
<1> QED BY <1>1, <1>5, <1>6 DEF Joins

Pieces(x) == [i \in 1 .. Len(x) |-> Rewritten(x, i)]

LEMMA DetokenizedJoins ==
  ASSUME NEW x \in Seq(Char)
  PROVE  \E h : Joins(h, Pieces(x), Len(x)) /\ Detokenized(x) = h[Len(x)]
<1>1. PICK n \in Nat : n = Len(x)
  OBVIOUS
<1>2. Typed(Pieces(x), n, Outputs)
  BY <1>1, RewrittenIsOutput DEF Pieces, Typed
<1>3. Joins(Joined(Pieces(x), n), Pieces(x), n)
  BY <1>2, JoinedJoins
<1>4. Joined(Pieces(x), n)
        = CHOOSE h : h = [i \in 0 .. n |-> IF i = 0 THEN <<>> ELSE h[i - 1] \o Rewritten(x, i)]
  <2>1. \A h : [i \in 0 .. n |-> IF i = 0 THEN <<>> ELSE h[i - 1] \o Pieces(x)[i]]
                 = [i \in 0 .. n |-> IF i = 0 THEN <<>> ELSE h[i - 1] \o Rewritten(x, i)]
    BY <1>1 DEF Pieces
  <2> QED BY <2>1 DEF Joined, StepByStep
<1>5. Detokenized(x) = Joined(Pieces(x), n)[n]
  BY <1>1, <1>4 DEF Detokenized
<1> QED BY <1>1, <1>3, <1>5

-----------------------------------------------------------------------------
(***************************************************************************)
(* The tokens at a place of a text, character by character.                *)
(***************************************************************************)
LEMMA TokenShape ==
  ASSUME NEW t \in Known
  PROVE  /\ t \in Seq(Char) /\ Len(t) \in Nat /\ Len(t) >= 3 /\ Len(t) <= MAX_TOKEN_LEN
         /\ t[1] = "[" /\ t[Len(t)] = "]" /\ \A k \in 2 .. Len(t) - 1 : t[k] \in Letters
BY KnownAssumption

LEMMA Letterless ==
  {"[", "]", "\n"} \cap Letters = {} /\ MAX_TOKEN_LEN \in Nat
BY KnownAssumption

IsAt(t, x, i) ==
  /\ i + Len(t) - 1 <= Len(x)
  /\ \A k \in 1 .. Len(t) : x[i + k - 1] = t[k]

LEMMA TokensAre ==
  ASSUME NEW x \in Seq(Char), NEW i \in Nat \ {0}, NEW t \in Known
  PROVE  t \in TokensAt(x, i) <=> IsAt(t, x, i)
<1>1. t \in Seq(Char) /\ Len(t) \in Nat /\ Len(t) >= 3
  BY TokenShape
<1>2. PICK e : e = i + Len(t) - 1
  OBVIOUS
<1>3. CASE e <= Len(x)
  <2> e \in Int
    BY <1>1, <1>2
  <2>1. \A k \in i .. e : x[k] \in Char
    <3>1. \A k \in i .. e : k \in 1 .. Len(x)
      BY <1>3
    <3>2. \A k \in 1 .. Len(x) : x[k] \in Char
      BY ElementOfSeq
    <3> QED BY <3>1, <3>2
  <2>2. /\ SubSeq(x, i, e) \in Seq(Char)
        /\ Len(SubSeq(x, i, e)) = Len(t)
        /\ \A k \in 1 .. Len(t) : SubSeq(x, i, e)[k] = x[i + k - 1]
    <3>1. e - i + 1 = Len(t) /\ i <= e
      BY <1>1, <1>2
    <3> QED BY <2>1, <3>1, SubSeqProperties
  <2>3. SubSeq(x, i, e) = t <=> \A k \in 1 .. Len(t) : x[i + k - 1] = t[k]
    <3>1. ASSUME \A k \in 1 .. Len(t) : x[i + k - 1] = t[k] PROVE SubSeq(x, i, e) = t
      BY <1>1, <2>2, <3>1, SeqEqual
    <3> QED BY <2>2, <3>1
  <2> QED BY <1>2, <1>3, <2>3 DEF TokensAt, IsAt
<1>4. CASE ~(e <= Len(x))
  BY <1>2, <1>4 DEF TokensAt, IsAt
<1> QED BY <1>3, <1>4

NoneAcross(x, a) == \A i \in 1 .. a : \A t \in TokensAt(x, i) : i + Len(t) - 1 <= a

LEMMA ConcatAt ==
  ASSUME NEW S, NEW u \in Seq(S), NEW v \in Seq(S)
  PROVE  /\ u \o v \in Seq(S) /\ Len(u \o v) = Len(u) + Len(v)
         /\ \A i \in 1 .. Len(u) : (u \o v)[i] = u[i]
         /\ \A k \in 1 .. Len(v) : (u \o v)[Len(u) + k] = v[k]
<1>1. /\ u \o v \in Seq(S) /\ Len(u \o v) = Len(u) + Len(v)
      /\ \A i \in 1 .. Len(u) + Len(v) : (u \o v)[i] = IF i <= Len(u) THEN u[i] ELSE v[i - Len(u)]
  BY ConcatProperties
<1>2. Len(u) \in Nat /\ Len(v) \in Nat
  OBVIOUS
<1>3. ASSUME NEW k \in 1 .. Len(v) PROVE (u \o v)[Len(u) + k] = v[k]
  <2>1. Len(u) + k \in 1 .. Len(u) + Len(v) /\ ~(Len(u) + k <= Len(u)) /\ (Len(u) + k) - Len(u) = k
    BY <1>2
  <2> QED BY <1>1, <2>1
<1>4. ASSUME NEW i \in 1 .. Len(u) PROVE (u \o v)[i] = u[i]
  BY <1>1, <1>2
<1> QED BY <1>1, <1>3, <1>4

(***************************************************************************)
(* The tokens of a text's beginning are tokens of the text, and those of   *)
(* the text that end in the beginning are the beginning's.                 *)
(***************************************************************************)
LEMMA TokensOfPrefix ==
  ASSUME NEW u \in Seq(Char), NEW v \in Seq(Char), NEW i \in Nat \ {0}, NEW t \in Known
  PROVE  t \in TokensAt(u, i) <=> t \in TokensAt(u \o v, i) /\ i + Len(t) - 1 <= Len(u)
<1>1. PICK x : x = u \o v
  OBVIOUS
<1>2. x \in Seq(Char) /\ Len(x) = Len(u) + Len(v) /\ \A j \in 1 .. Len(u) : x[j] = u[j]
  BY <1>1, ConcatAt
<1>3. Len(u) \in Nat /\ Len(v) \in Nat /\ Len(t) \in Nat
  BY TokenShape
<1>4. IsAt(t, u, i) <=> IsAt(t, x, i) /\ i + Len(t) - 1 <= Len(u)
  <2>1. CASE i + Len(t) - 1 <= Len(u)
    <3>1. \A k \in 1 .. Len(t) : i + k - 1 \in 1 .. Len(u)
      BY <1>3, <2>1
    <3>2. \A k \in 1 .. Len(t) : x[i + k - 1] = u[i + k - 1]
      BY <1>2, <3>1
    <3>3. i + Len(t) - 1 <= Len(x)
      BY <1>2, <1>3, <2>1
    <3> QED BY <2>1, <3>2, <3>3 DEF IsAt
  <2>2. CASE ~(i + Len(t) - 1 <= Len(u))
    BY <2>2 DEF IsAt
  <2> QED BY <2>1, <2>2
<1> QED BY <1>1, <1>2, <1>4, TokensAre

LEMMA TokensOfSuffix ==
  ASSUME NEW u \in Seq(Char), NEW v \in Seq(Char), NEW k \in Nat \ {0}, NEW t \in Known
  PROVE  t \in TokensAt(u \o v, Len(u) + k) <=> t \in TokensAt(v, k)
<1>1. PICK x : x = u \o v
  OBVIOUS
<1>2. x \in Seq(Char) /\ Len(x) = Len(u) + Len(v) /\ \A j \in 1 .. Len(v) : x[Len(u) + j] = v[j]
  BY <1>1, ConcatAt
<1>3. Len(u) \in Nat /\ Len(v) \in Nat /\ Len(t) \in Nat
  BY TokenShape
<1>4. IsAt(t, v, k) <=> IsAt(t, x, Len(u) + k)
  <2>1. (Len(u) + k) + Len(t) - 1 <= Len(x) <=> k + Len(t) - 1 <= Len(v)
    BY <1>2, <1>3
  <2>2. CASE k + Len(t) - 1 <= Len(v)
    <3>1. \A m \in 1 .. Len(t) : k + m - 1 \in 1 .. Len(v)
      BY <1>3, <2>2
    <3>2. \A m \in 1 .. Len(t) : (Len(u) + k) + m - 1 = Len(u) + (k + m - 1)
      BY <1>3
    <3>3. \A m \in 1 .. Len(t) : x[(Len(u) + k) + m - 1] = v[k + m - 1]
      BY <1>2, <3>1, <3>2
    <3> QED BY <2>1, <2>2, <3>3 DEF IsAt
  <2>3. CASE ~(k + Len(t) - 1 <= Len(v))
    BY <2>1, <2>3 DEF IsAt
  <2> QED BY <2>2, <2>3
<1>5. Len(u) + k \in Nat \ {0}
  BY <1>3
<1> QED BY <1>1, <1>2, <1>4, <1>5, TokensAre

(***************************************************************************)
(* A text falls into two that are rewritten each on its own where no token *)
(* lies across.                                                            *)
(***************************************************************************)
LEMMA RewrittenInPrefix ==
  ASSUME NEW u \in Seq(Char), NEW v \in Seq(Char), NoneAcross(u \o v, Len(u)),
         NEW i \in 1 .. Len(u)
  PROVE  Rewritten(u \o v, i) = Rewritten(u, i)
<1>1. PICK x : x = u \o v
  OBVIOUS
<1>2. \A j \in 1 .. Len(u) : TokensAt(x, j) = TokensAt(u, j)
  <2>1. ASSUME NEW j \in 1 .. Len(u), NEW t \in Known
        PROVE  t \in TokensAt(x, j) <=> t \in TokensAt(u, j)
    <3>1. t \in TokensAt(x, j) => j + Len(t) - 1 <= Len(u)
      BY <1>1 DEF NoneAcross
    <3> QED BY <1>1, <3>1, TokensOfPrefix
  <2> QED BY <2>1 DEF TokensAt
<1>3. \A j \in 1 .. i : j \in 1 .. Len(u)
  OBVIOUS
<1>4. InToken(x, i) <=> InToken(u, i)
  BY <1>2, <1>3 DEF InToken
<1>5. x[i] = u[i]
  BY <1>1, ConcatAt
<1>6. TokensAt(x, i) = TokensAt(u, i)
  BY <1>2
<1> QED BY <1>1, <1>4, <1>5, <1>6 DEF Rewritten

LEMMA RewrittenInSuffix ==
  ASSUME NEW u \in Seq(Char), NEW v \in Seq(Char), NoneAcross(u \o v, Len(u)),
         NEW k \in 1 .. Len(v)
  PROVE  Rewritten(u \o v, Len(u) + k) = Rewritten(v, k)
<1>1. PICK x : x = u \o v
  OBVIOUS
<1>2. PICK a \in Nat : a = Len(u)
  OBVIOUS
<1>3. \A j \in Nat \ {0} : TokensAt(x, a + j) = TokensAt(v, j)
  <2>1. ASSUME NEW j \in Nat \ {0}, NEW t \in Known
        PROVE  t \in TokensAt(x, a + j) <=> t \in TokensAt(v, j)
    BY <1>1, <1>2, TokensOfSuffix
  <2> QED BY <2>1 DEF TokensAt
<1>4. InToken(x, a + k) <=> InToken(v, k)
  <2>1. ASSUME NEW j \in 1 .. k, NEW t \in TokensAt(v, j), k < j + Len(t)
        PROVE  InToken(x, a + k)
    <3>1. t \in TokensAt(x, a + j) /\ Len(t) \in Nat
      <4>1. t \in Known
        BY DEF TokensAt
      <4>2. t \in TokensAt(x, a + j)
        BY <1>3
      <4> QED BY <4>1, <4>2, TokenShape
    <3>2. a + j \in 1 .. a + k /\ a + k < (a + j) + Len(t)
      BY <2>1, <3>1
    <3> QED BY <3>1, <3>2 DEF InToken
  <2>2. ASSUME NEW j \in 1 .. a + k, NEW t \in TokensAt(x, j), a + k < j + Len(t)
        PROVE  InToken(v, k)
    <3>1. Len(t) \in Nat
      <4>1. t \in Known
        BY DEF TokensAt
      <4> QED BY <4>1, TokenShape
    <3>2. ~(j \in 1 .. a)
      <4>1. j \in 1 .. a => j + Len(t) - 1 <= a
        BY <1>1, <1>2 DEF NoneAcross
      <4> QED BY <2>2, <3>1, <4>1
    <3>3. PICK m \in 1 .. k : j = a + m
      <4>1. j - a \in 1 .. k /\ j = a + (j - a)
        BY <3>2
      <4> QED BY <4>1
    <3>4. t \in TokensAt(v, m) /\ k < m + Len(t)
      <4>1. t \in TokensAt(v, m)
        BY <1>3, <3>3
      <4> QED BY <2>2, <3>1, <3>3, <4>1
    <3> QED BY <3>4 DEF InToken
  <2> QED BY <2>1, <2>2 DEF InToken
<1>5. x[a + k] = v[k]
  BY <1>1, <1>2, ConcatAt
<1>6. TokensAt(x, a + k) = TokensAt(v, k)
  BY <1>3
<1>7. PICK e : e = a + k
  OBVIOUS
<1>8. (InToken(x, e) <=> InToken(v, k)) /\ x[e] = v[k] /\ TokensAt(x, e) = TokensAt(v, k)
  BY <1>4, <1>5, <1>6, <1>7
<1>9. Rewritten(x, e) = Rewritten(v, k)
  <2>1. PICK here : here = TokensAt(v, k)
    OBVIOUS
  <2>2. TokensAt(x, e) = here /\ TokensAt(v, k) = here
    BY <1>8, <2>1
  <2>3. CASE here # {}
    BY <2>2, <2>3 DEF Rewritten
  <2>4. CASE here = {} /\ InToken(v, k)
    BY <1>8, <2>2, <2>4, Zenon DEF Rewritten
  <2>5. CASE here = {} /\ ~InToken(v, k)
    BY <1>8, <2>2, <2>5, Zenon DEF Rewritten
  <2> QED BY <2>3, <2>4, <2>5
<1> QED BY <1>1, <1>2, <1>7, <1>9

LEMMA DetokenizedSplits ==
  ASSUME NEW u \in Seq(Char), NEW v \in Seq(Char), NoneAcross(u \o v, Len(u))
  PROVE  Detokenized(u \o v) = Detokenized(u) \o Detokenized(v)
<1>1. PICK x, a, b : x = u \o v /\ a = Len(u) /\ b = Len(v)
  OBVIOUS
<1>2. x \in Seq(Char) /\ Len(x) = a + b /\ a \in Nat /\ b \in Nat
  BY <1>1, ConcatAt
<1>3. PICK h, p : p = Pieces(x) /\ Joins(h, p, a + b) /\ Detokenized(x) = h[a + b]
  BY <1>2, DetokenizedJoins
<1>4. PICK f, q : q = Pieces(u) /\ Joins(f, q, a) /\ Detokenized(u) = f[a]
  BY <1>1, DetokenizedJoins
<1>5. PICK g, r : r = Pieces(v) /\ Joins(g, r, b) /\ Detokenized(v) = g[b]
  BY <1>1, DetokenizedJoins
<1>6. AreTexts(p, a + b, Outputs)
  BY <1>2, <1>3, RewrittenIsOutput DEF Pieces, AreTexts
<1>7. AreTexts(q, a, Outputs)
  BY <1>1, <1>4, RewrittenIsOutput DEF Pieces, AreTexts
<1>8. AreTexts(r, b, Outputs)
  BY <1>1, <1>5, RewrittenIsOutput DEF Pieces, AreTexts
<1>9. \A i \in 1 .. a : i \in 1 .. a + b
  BY <1>2
<1>10. Joins(h, p, a)
  BY <1>3, <1>9 DEF Joins
<1>11. ASSUME NEW i \in 1 .. a PROVE p[i] = q[i]
  <2>1. p[i] = Rewritten(x, i) /\ q[i] = Rewritten(u, i)
    BY <1>1, <1>2, <1>3, <1>4, <1>9 DEF Pieces
  <2> QED BY <1>1, <2>1, RewrittenInPrefix
<1>12. ASSUME NEW k \in 1 .. b PROVE p[a + k] = r[k]
  <2>1. a + k \in 1 .. a + b
    BY <1>2
  <2>2. p[a + k] = Rewritten(x, a + k) /\ r[k] = Rewritten(v, k)
    BY <1>1, <1>2, <1>3, <1>5, <2>1 DEF Pieces
  <2> QED BY <1>1, <2>2, RewrittenInSuffix
<1>13. h[a] = f[a]
  <2>1. \A i \in 1 .. a : p[i] = q[i]
    BY <1>11
  <2> QED BY <1>2, <1>4, <1>10, <2>1, JoinsAgree
<1>14. Makes(h[a], g[b], h[a + b])
  <2>1. Behind(h, p, a + b, a, g, r, b, Outputs)
    BY <1>2, <1>3, <1>5, <1>6, <1>8, <1>12 DEF Behind
  <2> QED BY <2>1, JoinedBehind
<1> QED BY <1>1, <1>3, <1>4, <1>5, <1>13, <1>14 DEF Makes

LEMMA DetokenizedIsOutput ==
  ASSUME NEW x \in Seq(Char)
  PROVE  Detokenized(x) \in Seq(Outputs)
<1>1. PICK n \in Nat : n = Len(x)
  OBVIOUS
<1>2. PICK h, p : p = Pieces(x) /\ Joins(h, p, n) /\ Detokenized(x) = h[n]
  BY <1>1, DetokenizedJoins
<1>3. \A i \in 1 .. n : p[i] \in Seq(Outputs)
  BY <1>1, <1>2, RewrittenIsOutput DEF Pieces
<1>4. n \in 0 .. n
  OBVIOUS
<1> QED BY <1>2, <1>3, <1>4, JoinTypes

LEMMA DetokenizedAlone ==
  ASSUME NEW x \in Seq(Char), \A i \in 1 .. Len(x) : x[i] # "]"
  PROVE  Detokenized(x) = x
<1>1. PICK n \in Nat : n = Len(x)
  OBVIOUS
<1>2. ASSUME NEW i \in 1 .. n PROVE TokensAt(x, i) = {}
  <2>1. ASSUME NEW t \in TokensAt(x, i) PROVE FALSE
    <3>1. t \in Known
      BY DEF TokensAt
    <3>2. Len(t) \in Nat /\ Len(t) >= 3 /\ t[Len(t)] = "]"
      BY <3>1, TokenShape
    <3>3. IsAt(t, x, i)
      BY <1>1, <2>1, <3>1, TokensAre
    <3>4. i + Len(t) - 1 \in 1 .. Len(x) /\ Len(t) \in 1 .. Len(t)
      BY <1>1, <3>2, <3>3 DEF IsAt
    <3>5. x[i + Len(t) - 1] = t[Len(t)]
      BY <3>3, <3>4 DEF IsAt
    <3> QED BY <3>2, <3>4, <3>5
  <2> QED BY <2>1
<1>3. ASSUME NEW i \in 1 .. n PROVE Rewritten(x, i) = <<x[i]>>
  <2>1. \A j \in 1 .. i : j \in 1 .. n
    OBVIOUS
  <2>2. ~InToken(x, i)
    BY <1>2, <2>1 DEF InToken
  <2> QED BY <1>2, <2>2 DEF Rewritten
<1>4. PICK h, p : p = Pieces(x) /\ Joins(h, p, n) /\ Detokenized(x) = h[n]
  BY <1>1, DetokenizedJoins
<1>5. \A i \in 1 .. n : p[i] = <<x[i]>> /\ p[i] \in Seq(Char)
  <2>1. ASSUME NEW i \in 1 .. n PROVE p[i] = <<x[i]>> /\ <<x[i]>> \in Seq(Char)
    BY <1>1, <1>3, <1>4 DEF Pieces
  <2> QED BY <2>1
<1>6. PICK g : g = [i \in 0 .. n |-> SubSeq(x, 1, i)]
  OBVIOUS
<1>7. Joins(g, p, n)
  <2>1. g[0] = <<>>
    BY <1>6, SubSeqEmpty
  <2>2. ASSUME NEW i \in 1 .. n PROVE g[i] = g[i - 1] \o p[i]
    <3>1. SubSeq(x, 1, i) = SubSeq(x, 1, i - 1) \o <<x[i]>>
      BY <1>1, SubSeqRecursiveSecond
    <3>2. i \in 0 .. n /\ i - 1 \in 0 .. n
      OBVIOUS
    <3>3. g[i] = SubSeq(x, 1, i) /\ g[i - 1] = SubSeq(x, 1, i - 1)
      BY <1>6, <3>2
    <3> QED BY <1>5, <3>1, <3>3
  <2> QED BY <2>1, <2>2 DEF Joins
<1>8. h[n] = g[n]
  BY <1>4, <1>5, <1>7, JoinsAgree
<1>9. g[n] = x
  BY <1>1, <1>6, SubSeqFull
<1> QED BY <1>4, <1>8, <1>9

-----------------------------------------------------------------------------
(***************************************************************************)
(* Where feed cuts: a tail is an unterminated token, and there is one at   *)
(* most.                                                                   *)
(***************************************************************************)
LEMMA OneTail ==
  ASSUME NEW x \in Seq(Char), NEW i \in 1 .. Len(x), NEW j \in 1 .. Len(x),
         OpensTail(x, i), OpensTail(x, j)
  PROVE  i = j
<1>1. ASSUME NEW k \in 1 .. Len(x), NEW m \in 1 .. Len(x), OpensTail(x, k), OpensTail(x, m), k < m
      PROVE  FALSE
  <2>1. m \in (k + 1) .. Len(x) /\ x[m] = "["
    BY <1>1 DEF OpensTail
  <2>2. x[m] \in Letters \/ x[m] = "\n"
    BY <1>1, <2>1 DEF OpensTail, EndsLine
  <2>3. "[" \notin Letters
    BY Letterless
  <2>4. "[" # "\n"
    OBVIOUS
  <2> QED BY <2>1, <2>2, <2>3, <2>4
<1> QED BY <1>1

LEMMA CutAt ==
  ASSUME NEW x \in Seq(Char)
  PROVE  /\ Cut(x) \in 0 .. Len(x)
         /\ Cut(x) < Len(x) => OpensTail(x, Cut(x) + 1) /\ Len(x) - Cut(x) <= MAX_TOKEN_LEN
         /\ Cut(x) = Len(x) => \A i \in 1 .. Len(x) : OpensTail(x, i) => Len(x) - i + 1 > MAX_TOKEN_LEN
<1>1. PICK n \in Nat : n = Len(x)
  OBVIOUS
<1>2. MAX_TOKEN_LEN \in Nat
  BY Letterless
<1> DEFINE Short(i) == OpensTail(x, i) /\ n - i + 1 <= MAX_TOKEN_LEN
<1>3. CASE \E i \in 1 .. n : Short(i)
  <2>1. PICK i \in 1 .. n : Short(i)
    BY <1>3
  <2>2. PICK e : e = CHOOSE k \in 1 .. Len(x) : OpensTail(x, k)
    OBVIOUS
  <2>3. e \in 1 .. n /\ OpensTail(x, e)
    BY <1>1, <2>1, <2>2
  <2>4. e = i
    BY <1>1, <2>1, <2>3, OneTail
  <2>5. Cut(x) = e - 1
    <3> HIDE DEF Short
    <3>1. \E k \in 1 .. Len(x) : OpensTail(x, k) /\ Len(x) - k + 1 <= MAX_TOKEN_LEN
      BY <1>1, <1>3 DEF Short
    <3> QED BY <2>2, <3>1 DEF Cut
  <2>6. Cut(x) \in 0 .. n /\ Cut(x) < n /\ Cut(x) + 1 = i /\ n - Cut(x) = n - i + 1
    BY <2>1, <2>3, <2>4, <2>5
  <2> QED BY <1>1, <2>1, <2>6
<1>4. CASE ~\E i \in 1 .. n : Short(i)
  <2>1. Cut(x) = n
    BY <1>1, <1>4 DEF Cut
  <2> QED BY <1>1, <1>2, <1>4, <2>1
<1> QED BY <1>3, <1>4

IsTail(tail) == tail = <<>> \/ (OpensTail(tail, 1) /\ Len(tail) <= MAX_TOKEN_LEN)

LEMMA CutSplits ==
  ASSUME NEW x \in Seq(Char)
  PROVE  \E e \in Seq(Char) :
           /\ x = e \o Held(x) /\ Emitted(x) = Detokenized(e) /\ Len(e) = Cut(x)
           /\ Held(x) \in Seq(Char) /\ IsTail(Held(x))
           /\ Held(x) = <<>> =>
                \A i \in 1 .. Len(x) : OpensTail(x, i) => Len(x) - i + 1 > MAX_TOKEN_LEN
<1>1. PICK n \in Nat : n = Len(x)
  OBVIOUS
<1>2. PICK c : c = Cut(x)
  OBVIOUS
<1>3. /\ c \in 0 .. n /\ (c < n => OpensTail(x, c + 1) /\ n - c <= MAX_TOKEN_LEN)
      /\ c = n => \A i \in 1 .. n : OpensTail(x, i) => n - i + 1 > MAX_TOKEN_LEN
  BY <1>1, <1>2, CutAt
<1>4. PICK e, r : e = SubSeq(x, 1, c) /\ r = SubSeq(x, c + 1, n)
  OBVIOUS
<1>5. \A k \in 1 .. n : x[k] \in Char
  BY <1>1, ElementOfSeq
<1>6. e \in Seq(Char) /\ Len(e) = c
  <2>1. \A k \in 1 .. c : x[k] \in Char
    BY <1>3, <1>5
  <2>2. c \in Int /\ (IF 1 <= c THEN c - 1 + 1 ELSE 0) = c
    BY <1>3
  <2> QED BY <1>4, <2>1, <2>2, SubSeqProperties
<1>7. r \in Seq(Char) /\ Len(r) = n - c /\ \A k \in 1 .. n - c : r[k] = x[c + k]
  <2>1. \A k \in c + 1 .. n : x[k] \in Char
    BY <1>3, <1>5
  <2>2. c + 1 \in Int /\ n \in Int /\ (IF c + 1 <= n THEN n - (c + 1) + 1 ELSE 0) = n - c
    BY <1>3
  <2>3. /\ r \in Seq(Char) /\ Len(r) = n - c
        /\ \A k \in 1 .. n - (c + 1) + 1 : r[k] = x[(c + 1) + k - 1]
    BY <1>4, <2>1, <2>2, SubSeqProperties
  <2>4. ASSUME NEW k \in 1 .. n - c PROVE r[k] = x[c + k]
    <3>1. k \in 1 .. n - (c + 1) + 1 /\ (c + 1) + k - 1 = c + k
      BY <1>3
    <3> QED BY <2>3, <3>1
  <2> QED BY <2>3, <2>4
<1>8. x = e \o r
  <2>1. SubSeq(x, 1, c) \o SubSeq(x, c + 1, n) = SubSeq(x, 1, n)
    <3>1. 1 \in 1 .. Len(x) + 1 /\ c \in 1 - 1 .. Len(x) /\ n \in c .. Len(x)
      BY <1>1, <1>3
    <3> QED BY <3>1, ConcatAdjacentSubSeq
  <2> QED BY <1>1, <1>4, <2>1, SubSeqFull
<1>9. IsTail(r)
  <2>1. CASE c = n
    <3>1. r = <<>>
      BY <1>3, <1>4, <2>1, SubSeqEmpty
    <3> QED BY <3>1 DEF IsTail
  <2>2. CASE c < n
    <3>1. x[c + 1] = "[" /\ \A j \in (c + 2) .. n : x[j] \in Letters \/ EndsLine(x, j)
      <4>1. (c + 1) + 1 = c + 2
        BY <1>3
      <4> QED BY <1>1, <1>3, <2>2, <4>1 DEF OpensTail
    <3>2. r[1] = "["
      BY <1>3, <1>7, <2>2, <3>1
    <3>3. ASSUME NEW j \in (1 + 1) .. Len(r) PROVE r[j] \in Letters \/ EndsLine(r, j)
      <4>1. j \in 1 .. n - c /\ c + j \in (c + 2) .. n
        BY <1>3, <1>7
      <4>2. r[j] = x[c + j]
        BY <1>7, <4>1
      <4>3. EndsLine(x, c + j) => EndsLine(r, j)
        BY <1>1, <1>3, <1>7, <4>1, <4>2 DEF EndsLine
      <4> QED BY <3>1, <4>1, <4>2, <4>3
    <3> QED BY <1>3, <1>7, <2>2, <3>2, <3>3 DEF IsTail, OpensTail
  <2> QED BY <1>3, <2>1, <2>2
<1>10. r = <<>> => c = n
  BY <1>3, <1>7
<1>11. Held(x) = r /\ Emitted(x) = Detokenized(e)
  BY <1>1, <1>2, <1>4 DEF Held, Emitted
<1> QED BY <1>1, <1>2, <1>3, <1>6, <1>7, <1>8, <1>9, <1>10, <1>11

-----------------------------------------------------------------------------
(***************************************************************************)
(* Along(x, g, tail): of the text x that came the client has g, the tokens *)
(* of all but the tail; nothing that may follow x makes a token that       *)
(* starts before the tail and ends in it.                                  *)
(***************************************************************************)
Clean(x, a) == \A z \in Seq(Char) : NoneAcross(x \o z, a)

Along(x, g, tail) ==
  \E u \in Seq(Char) :
    x = u \o tail /\ g = Detokenized(u) /\ Clean(x, Len(u)) /\ tail \in Seq(Char) /\ IsTail(tail)

LEMMA NothingAlong == Along(<<>>, <<>>, <<>>)
<1>1. <<>> \in Seq(Char) /\ Len(<<>>) = 0 /\ <<>> \o <<>> = <<>>
  BY EmptySeq, ConcatEmptySeq
<1>2. Detokenized(<<>>) = <<>>
  <2>1. PICK x \in Seq(Char) : x = <<>> /\ Len(x) = 0
    BY <1>1
  <2>2. \A i \in 1 .. Len(x) : x[i] # "]"
    BY <2>1
  <2>3. Detokenized(x) = x
    BY <2>2, DetokenizedAlone
  <2> QED BY <2>1, <2>3
<1>3. Clean(<<>>, 0)
  BY DEF Clean, NoneAcross
<1> QED BY <1>1, <1>2, <1>3 DEF Along, IsTail

LEMMA NoneAcrossPrefix ==
  ASSUME NEW u \in Seq(Char), NEW v \in Seq(Char), NEW a \in 0 .. Len(u), NoneAcross(u \o v, a)
  PROVE  NoneAcross(u, a)
<1> SUFFICES ASSUME NEW i \in 1 .. a, NEW t \in TokensAt(u, i) PROVE i + Len(t) - 1 <= a
  BY DEF NoneAcross
<1>1. t \in Known /\ i \in Nat \ {0}
  BY DEF TokensAt
<1>2. t \in TokensAt(u \o v, i)
  BY <1>1, TokensOfPrefix
<1> QED BY <1>2 DEF NoneAcross

LEMMA CleanBehind ==
  ASSUME NEW x \in Seq(Char), NEW y \in Seq(Char), NEW a \in Nat, Clean(x, a)
  PROVE  Clean(x \o y, a)
<1> SUFFICES ASSUME NEW z \in Seq(Char) PROVE NoneAcross((x \o y) \o z, a)
  BY DEF Clean
<1>1. (x \o y) \o z = x \o (y \o z)
  BY ConcatAssociative
<1>2. y \o z \in Seq(Char)
  BY ConcatProperties
<1> QED BY <1>1, <1>2 DEF Clean

LEMMA StillClean ==
  ASSUME NEW u \in Seq(Char), NEW buf \in Seq(Char), NEW e \in Seq(Char),
         NEW r \in Seq(Char), Clean(u \o buf, Len(u)), buf = e \o r, IsTail(r),
         r = <<>> => \A i \in 1 .. Len(buf) : OpensTail(buf, i) => Len(buf) - i + 1 > MAX_TOKEN_LEN
  PROVE  Clean(u \o buf, Len(u \o e))
<1> SUFFICES ASSUME NEW z \in Seq(Char) PROVE NoneAcross((u \o buf) \o z, Len(u \o e))
  BY DEF Clean
<1>1. PICK a, b, c, d : a = Len(u) /\ b = Len(buf) /\ c = Len(e) /\ d = Len(r)
  OBVIOUS
<1>2. a \in Nat /\ b \in Nat /\ c \in Nat /\ d \in Nat /\ b = c + d /\ Len(u \o e) = a + c
  BY <1>1, ConcatAt
<1>3. PICK x : x = u \o buf
  OBVIOUS
<1>4. PICK w : w = x \o z
  OBVIOUS
<1>5. x \in Seq(Char) /\ Len(x) = a + b /\ \A k \in 1 .. b : x[a + k] = buf[k]
  BY <1>1, <1>3, ConcatAt
<1>6. w \in Seq(Char) /\ \A k \in 1 .. a + b : w[k] = x[k]
  BY <1>4, <1>5, ConcatAt
<1>7. \A k \in 1 .. b : w[a + k] = buf[k]
  <2>1. \A k \in 1 .. b : a + k \in 1 .. a + b
    BY <1>2
  <2> QED BY <1>5, <1>6, <2>1
<1>8. \A k \in 1 .. d : buf[c + k] = r[k]
  BY <1>1, ConcatAt
<1>9. NoneAcross(w, a)
  BY <1>1, <1>3, <1>4 DEF Clean
<1>10. SUFFICES ASSUME NEW i \in 1 .. a + c, NEW t \in TokensAt(w, i), ~(i + Len(t) - 1 <= a + c)
                PROVE  FALSE
  BY <1>2, <1>3, <1>4 DEF NoneAcross
<1>11. t \in Known /\ i \in Nat \ {0} /\ i \in Nat
  BY <1>2 DEF TokensAt
<1>12. PICK m : m = Len(t)
  OBVIOUS
<1>13. m \in Nat /\ m >= 3 /\ m <= MAX_TOKEN_LEN /\ t[1] = "[" /\ t[m] = "]" /\ \A k \in 2 .. m - 1 : t[k] \in Letters
  BY <1>11, <1>12, TokenShape
<1>14. \A k \in 1 .. m : w[i + k - 1] = t[k]
  BY <1>6, <1>10, <1>11, <1>12, TokensAre DEF IsAt
<1>15. i > a
  <2>1. i \in 1 .. a => i + m - 1 <= a
    BY <1>9, <1>10, <1>12 DEF NoneAcross
  <2> QED BY <1>2, <1>10, <1>12, <1>13, <2>1
<1>16. CASE r = <<>>
  <2>1. d = 0 /\ b = c
    BY <1>1, <1>2, <1>16
  <2>2. PICK k \in 1 .. b : i = a + k
    <3>1. i - a \in 1 .. b /\ i = a + (i - a)
      BY <1>2, <1>10, <1>15, <2>1
    <3> QED BY <3>1
  <2>3. buf[k] = "["
    <3>1. w[i + 1 - 1] = t[1] /\ i + 1 - 1 = a + k
      BY <1>2, <1>13, <1>14, <2>2
    <3> QED BY <1>7, <1>13, <3>1
  <2>4. ASSUME NEW j \in (k + 1) .. b PROVE buf[j] \in Letters
    <3>1. PICK q \in 2 .. m - 1 : a + j = i + q - 1
      <4>1. (a + j) - i + 1 \in 2 .. m - 1 /\ a + j = i + ((a + j) - i + 1) - 1
        BY <1>2, <1>10, <1>12, <1>13, <2>1, <2>2
      <4> QED BY <4>1
    <3>2. q \in 1 .. m /\ j \in 1 .. b
      BY <1>13, <3>1
    <3>3. buf[j] = t[q]
      BY <1>7, <1>14, <3>1, <3>2
    <3> QED BY <1>13, <3>3
  <2>5. OpensTail(buf, k)
    BY <1>1, <2>3, <2>4 DEF OpensTail
  <2>6. b - k + 1 > MAX_TOKEN_LEN
    BY <1>1, <1>16, <2>2, <2>5
  <2>7. MAX_TOKEN_LEN \in Nat
    BY Letterless
  <2> QED BY <1>2, <1>10, <1>12, <1>13, <2>1, <2>2, <2>6, <2>7
<1>17. CASE r # <<>>
  <2>1. r[1] = "[" /\ d >= 1
    BY <1>1, <1>17 DEF IsTail, OpensTail
  <2>2. c + 1 \in 1 .. b /\ 1 \in 1 .. d
    BY <1>2, <2>1
  <2>3. w[a + (c + 1)] = "["
    <3>1. buf[c + 1] = r[1]
      BY <1>8, <2>2
    <3> QED BY <1>7, <2>1, <2>2, <3>1
  <2>4. PICK q \in 2 .. m : a + (c + 1) = i + q - 1
    <3>1. (a + c + 1) - i + 1 \in 2 .. m /\ a + (c + 1) = i + ((a + c + 1) - i + 1) - 1
      BY <1>2, <1>10, <1>12, <1>13
    <3> QED BY <3>1
  <2>5. t[q] = "["
    <3>1. q \in 1 .. m
      BY <2>4
    <3> QED BY <1>14, <2>3, <2>4, <3>1
  <2>6. t[q] \in Letters \/ t[q] = "]"
    <3>1. q = m \/ q \in 2 .. m - 1
      BY <1>13, <2>4
    <3> QED BY <1>13, <3>1
  <2>7. "[" \notin Letters
    BY Letterless
  <2>8. "[" # "]"
    OBVIOUS
  <2> QED BY <2>5, <2>6, <2>7, <2>8
<1> QED BY <1>16, <1>17

LEMMA FeedGoesAlong ==
  ASSUME NEW x, NEW g, NEW tail, NEW y \in Seq(Char), Along(x, g, tail)
  PROVE  Along(x \o y, g \o Emitted(tail \o y), Held(tail \o y))
<1>1. PICK u \in Seq(Char) :
        x = u \o tail /\ g = Detokenized(u) /\ Clean(x, Len(u)) /\ tail \in Seq(Char) /\ IsTail(tail)
  BY DEF Along
<1>2. PICK buf : buf = tail \o y
  OBVIOUS
<1>3. buf \in Seq(Char) /\ x \in Seq(Char)
  BY <1>1, <1>2, ConcatProperties
<1>4. PICK e \in Seq(Char) :
        /\ buf = e \o Held(buf) /\ Emitted(buf) = Detokenized(e) /\ Len(e) = Cut(buf)
        /\ Held(buf) \in Seq(Char) /\ IsTail(Held(buf))
        /\ Held(buf) = <<>> =>
             \A i \in 1 .. Len(buf) : OpensTail(buf, i) => Len(buf) - i + 1 > MAX_TOKEN_LEN
  BY <1>3, CutSplits
<1>5. PICK r : r = Held(buf)
  OBVIOUS
<1>6. x \o y = u \o buf /\ u \o buf = (u \o e) \o r
  <2>1. (u \o tail) \o y = u \o (tail \o y)
    BY <1>1, ConcatAssociative
  <2>2. (u \o e) \o r = u \o (e \o r)
    <3>1. r \in Seq(Char) /\ e \in Seq(Char) /\ u \in Seq(Char)
      BY <1>1, <1>4, <1>5
    <3>2. \A i, j, k \in Seq(Char) : (i \o j) \o k = i \o (j \o k)
      BY ConcatAssociative
    <3> QED BY <3>1, <3>2, Zenon
  <2> QED BY <1>1, <1>2, <1>4, <1>5, <2>1, <2>2
<1>7. u \o e \in Seq(Char) /\ Len(u \o e) = Len(u) + Len(e) /\ Len(u) \in Nat /\ Len(e) \in Nat
  BY ConcatAt
<1>8. Clean(u \o buf, Len(u))
  BY <1>1, <1>3, <1>6, CleanBehind, <1>7
<1>9. Clean(u \o buf, Len(u \o e))
  BY <1>1, <1>3, <1>4, <1>5, <1>8, StillClean
<1>10. NoneAcross(u \o e, Len(u))
  <2>1. NoneAcross((u \o buf) \o <<>>, Len(u))
    <3>1. <<>> \in Seq(Char)
      BY EmptySeq
    <3> QED BY <1>8, <3>1, Zenon DEF Clean
  <2>2. (u \o buf) \o <<>> = u \o buf
    <3>1. u \o buf \in Seq(Char)
      BY <1>1, <1>3, ConcatProperties
    <3> QED BY <3>1, ConcatEmptySeq
  <2>3. NoneAcross((u \o e) \o r, Len(u))
    BY <1>6, <2>1, <2>2
  <2>4. Len(u) \in 0 .. Len(u \o e) /\ r \in Seq(Char)
    BY <1>4, <1>5, <1>7
  <2> QED BY <1>7, <2>3, <2>4, NoneAcrossPrefix
<1>11. Detokenized(u \o e) = g \o Emitted(buf)
  BY <1>1, <1>4, <1>10, DetokenizedSplits
<1>12. Along(x \o y, g \o Emitted(buf), r)
  BY <1>4, <1>5, <1>6, <1>7, <1>9, <1>11 DEF Along
<1> QED BY <1>2, <1>5, <1>12

-----------------------------------------------------------------------------
(***************************************************************************)
(* One field goes through its channel.  CarryOn(relay, x): with x sent, a  *)
(* relay has lists of its channels and, of each stream, all but the tail   *)
(* in its channel.                                                         *)
(***************************************************************************)
LEMMA AlongTypes ==
  ASSUME NEW x, NEW g, NEW tail, Along(x, g, tail)
  PROVE  x \in Seq(Char) /\ g \in Seq(Outputs) /\ tail \in Seq(Char)
BY ConcatProperties, DetokenizedIsOutput DEF Along

(***************************************************************************)
(* Each text of a reply has a JSON key of its own: one choice, as clients  *)
(* ask for by default.                                                     *)
(***************************************************************************)
KeysOwn == \A s, r \in Streams : ChannelOf(s) = ChannelOf(r) => s = r

Listing(series) == series \in Seq(Keys) /\ IsInjective(series)

CarryOn(relay, x) ==
  /\ Listing(relay.channels)
  /\ relay.held \in [Keys -> Seq(Char)] /\ relay.got \in [Streams -> Seq(Outputs)]
  /\ \A k \in Keys : relay.held[k] # <<>> => k \in Range(relay.channels)
  /\ x \in [Streams -> Seq(Char)]
  /\ \A s \in Streams : Along(x[s], relay.got[s], relay.held[ChannelOf(s)])

LEMMA ListedOnce ==
  ASSUME NEW series, Listing(series), NEW k \in Keys
  PROVE  LET longer == IF k \in Range(series) THEN series ELSE Append(series, k)
         IN Listing(longer) /\ Range(longer) = Range(series) \cup {k}
<1>1. CASE k \in Range(series)
  BY <1>1
<1>2. CASE k \notin Range(series)
  <2>1. PICK n \in Nat : n = Len(series)
    BY DEF Listing
  <2>2. series \in Seq(Keys) /\ DOMAIN series = 1 .. n
    BY <2>1 DEF Listing
  <2>3. PICK more : more = Append(series, k)
    OBVIOUS
  <2>4. /\ more \in Seq(Keys) /\ DOMAIN more = 1 .. n + 1
        /\ \A i \in 1 .. n : more[i] = series[i]
        /\ more[n + 1] = k
    BY <2>1, <2>2, <2>3, AppendProperties, LenProperties
  <2>5. \A i \in 1 .. n + 1 : i \in 1 .. n \/ i = n + 1
    OBVIOUS
  <2>6. Range(more) = Range(series) \cup {k}
    <3>1. Range(more) = {more[i] : i \in 1 .. n + 1} /\ Range(series) = {series[i] : i \in 1 .. n}
      BY <2>2, <2>4 DEF Range
    <3>2. \A i \in 1 .. n : i \in 1 .. n + 1
      OBVIOUS
    <3>3. n + 1 \in 1 .. n + 1
      OBVIOUS
    <3> QED BY <2>4, <2>5, <3>1, <3>2, <3>3
  <2>7. IsInjective(more)
    <3>1. \A i \in 1 .. n : series[i] # k
      BY <1>2, <2>2 DEF Range
    <3>2. \A i, j \in 1 .. n : series[i] = series[j] => i = j
      BY <2>2 DEF Listing, IsInjective
    <3>3. \A i, j \in 1 .. n + 1 : more[i] = more[j] => i = j
      BY <2>4, <2>5, <3>1, <3>2
    <3> QED BY <2>4, <3>3 DEF IsInjective
  <2> QED BY <1>2, <2>3, <2>4, <2>6, <2>7 DEF Listing
<1> QED BY <1>1, <1>2

LEMMA FeedCarriesOn ==
  ASSUME KeysOwn, NEW relay, NEW x, CarryOn(relay, x), NEW f, f.stream \in Streams, f.text \in Seq(Char)
  PROVE  LET fed == FeedField(relay, f)
         IN /\ CarryOn(fed, [x EXCEPT ![f.stream] = x[f.stream] \o f.text])
            /\ Range(fed.channels) = Range(relay.channels) \cup {ChannelOf(f.stream)}
<1>1. PICK r, k, buf, y : /\ r = f.stream /\ k = ChannelOf(r) /\ y = f.text
                          /\ buf = relay.held[k] \o y
  OBVIOUS
<1>2. r \in Streams /\ k \in Keys /\ y \in Seq(Char)
  BY <1>1 DEF Keys
<1>3. PICK fed : fed = FeedField(relay, f)
  OBVIOUS
<1>4. /\ fed.channels = IF k \in Range(relay.channels) THEN relay.channels ELSE Append(relay.channels, k)
      /\ fed.held = [relay.held EXCEPT ![k] = Held(buf)]
      /\ fed.got = [relay.got EXCEPT ![r] = relay.got[r] \o Emitted(buf)]
  BY <1>1, <1>3 DEF FeedField
<1>5. /\ Listing(relay.channels)
      /\ relay.held \in [Keys -> Seq(Char)] /\ relay.got \in [Streams -> Seq(Outputs)]
      /\ \A m \in Keys : relay.held[m] # <<>> => m \in Range(relay.channels)
      /\ x \in [Streams -> Seq(Char)]
      /\ \A s \in Streams : Along(x[s], relay.got[s], relay.held[ChannelOf(s)])
  BY DEF CarryOn
<1>6. Along(x[r] \o y, relay.got[r] \o Emitted(buf), Held(buf))
  BY <1>1, <1>2, <1>5, FeedGoesAlong
<1>7. Listing(fed.channels) /\ Range(fed.channels) = Range(relay.channels) \cup {k}
  BY <1>2, <1>4, <1>5, ListedOnce
<1>8. /\ x[r] \o y \in Seq(Char) /\ relay.got[r] \o Emitted(buf) \in Seq(Outputs)
      /\ Held(buf) \in Seq(Char)
  BY <1>6, AlongTypes
<1>9. PICK x2, given2, kept2 :
        /\ x2 = [x EXCEPT ![r] = x[r] \o y]
        /\ given2 = relay.got[r] \o Emitted(buf) /\ kept2 = Held(buf)
  OBVIOUS
<1>10. x2 \in [Streams -> Seq(Char)] /\ x2[r] = x[r] \o y /\ \A s \in Streams \ {r} : x2[s] = x[s]
  BY <1>2, <1>5, <1>8, <1>9
<1>11. /\ fed.held \in [Keys -> Seq(Char)] /\ fed.held[k] = kept2
       /\ \A m \in Keys \ {k} : fed.held[m] = relay.held[m]
  BY <1>2, <1>4, <1>5, <1>8, <1>9
<1>12. /\ fed.got \in [Streams -> Seq(Outputs)] /\ fed.got[r] = given2
       /\ \A s \in Streams \ {r} : fed.got[s] = relay.got[s]
  BY <1>2, <1>4, <1>5, <1>8, <1>9
<1>13. ASSUME NEW s \in Streams PROVE Along(x2[s], fed.got[s], fed.held[ChannelOf(s)])
  <2>1. CASE s = r
    BY <1>1, <1>6, <1>9, <1>10, <1>11, <1>12, <2>1
  <2>2. CASE s # r
    <3>1. ChannelOf(s) \in Keys \ {k}
      BY <1>1, <1>2, <2>2 DEF Keys, KeysOwn
    <3> QED BY <1>5, <1>10, <1>11, <1>12, <2>2, <3>1
  <2> QED BY <2>1, <2>2
<1>14. ASSUME NEW m \in Keys, fed.held[m] # <<>> PROVE m \in Range(fed.channels)
  BY <1>5, <1>7, <1>11, <1>14
<1>15. CarryOn(fed, x2)
  BY <1>7, <1>10, <1>11, <1>12, <1>13, <1>14 DEF CarryOn
<1> QED BY <1>1, <1>3, <1>7, <1>9, <1>15

-----------------------------------------------------------------------------
(***************************************************************************)
(* An event has two fields at most.                                        *)
(***************************************************************************)
AtRestNow == [channels |-> channels, held |-> held, got |-> got]

LEMMA RelayedIs ==
  ASSUME NEW event, Len(event) \in 0 .. 2
  PROVE  /\ Len(event) = 0 => Relayed(event) = AtRestNow
         /\ Len(event) = 1 => Relayed(event) = FeedField(AtRestNow, event[1])
         /\ Len(event) = 2 => Relayed(event) = FeedField(FeedField(AtRestNow, event[1]), event[2])
<1> DEFINE n == Len(event)
           Equal(h) == h = [i \in 0 .. n |-> IF i = 0 THEN AtRestNow ELSE FeedField(h[i - 1], event[i])]
           relay == CHOOSE h : Equal(h)
<1>1. PICK one, two : /\ one = FeedField(AtRestNow, event[1])
                      /\ two = FeedField(one, event[2])
  OBVIOUS
<1>2. PICK h : h = [i \in 0 .. n |-> IF i = 0 THEN AtRestNow ELSE IF i = 1 THEN one ELSE two]
  OBVIOUS
<1>3. Equal(h)
  <2>1. ASSUME NEW i \in 0 .. n
        PROVE  (IF i = 0 THEN AtRestNow ELSE IF i = 1 THEN one ELSE two)
                 = (IF i = 0 THEN AtRestNow ELSE FeedField(h[i - 1], event[i]))
    <3>1. CASE i = 0
      BY <3>1
    <3>2. CASE i = 1
      <4>1. h[0] = AtRestNow /\ i - 1 = 0
        BY <1>2, <3>2
      <4> QED BY <1>1, <3>2, <4>1
    <3>3. CASE i = 2
      <4>1. h[1] = one /\ i - 1 = 1
        BY <1>2, <3>3
      <4> QED BY <1>1, <3>3, <4>1
    <3> QED BY <3>1, <3>2, <3>3
  <2>2. [i \in 0 .. n |-> IF i = 0 THEN AtRestNow ELSE IF i = 1 THEN one ELSE two]
          = [i \in 0 .. n |-> IF i = 0 THEN AtRestNow ELSE FeedField(h[i - 1], event[i])]
    BY <2>1
  <2> QED BY <1>2, <2>2
<1>4. Equal(relay)
  <2> HIDE DEF Equal
  <2> QED BY <1>3
<1>5. Relayed(event) = relay[n]
  BY DEF Relayed, AtRestNow
<1>6. PICK m : m = n
  OBVIOUS
<1>7. m \in 0 .. 2 /\ relay = [i \in 0 .. m |-> IF i = 0 THEN AtRestNow ELSE FeedField(relay[i - 1], event[i])]
  BY <1>4, <1>6
<1> HIDE DEF relay, n
<1>8. relay[0] = AtRestNow
  BY <1>7
<1>9. m >= 1 => relay[1] = one
  BY <1>1, <1>7, <1>8
<1>10. m = 2 => relay[2] = two
  BY <1>1, <1>7, <1>9
<1> QED BY <1>1, <1>5, <1>6, <1>8, <1>9, <1>10 DEF n

LEMMA FieldsHaveText ==
  ASSUME NEW f \in Fields
  PROVE  f.stream \in Streams /\ f.text \in Seq(Char)
<1>1. f.stream \in Streams /\ f.text \in Texts
  BY DEF Fields
<1>2. PICK n \in 0 .. MaxEvent : f.text \in [1 .. n -> Char]
  BY <1>1 DEF Texts
<1>3. n \in Nat
  OBVIOUS
<1> QED BY <1>1, <1>2, <1>3

(***************************************************************************)
(* What came so far of each stream, with the text f brings.                *)
(***************************************************************************)
With(x, f) == [x EXCEPT ![f.stream] = x[f.stream] \o f.text]

(***************************************************************************)
(* An event has no field, one, or two of different streams.                *)
(***************************************************************************)
Bare(event) == event = <<>>
OneField(event) == Len(event) = 1 /\ event = <<event[1]>> /\ event[1] \in Fields
TwoFields(event) ==
  /\ Len(event) = 2 /\ event = <<event[1], event[2]>> /\ event[1] \in Fields /\ event[2] \in Fields
  /\ event[1].stream # event[2].stream

LEMMA EventsAre ==
  ASSUME NEW event \in Events
  PROVE  Bare(event) \/ OneField(event) \/ TwoFields(event)
<1>1. CASE event \in {<<f>> : f \in Fields}
  BY <1>1 DEF OneField
<1>2. CASE event \in Pairs
  <2>1. PICK f \in Fields, g \in Fields : event = <<f, g>>
    BY <1>2 DEF Pairs
  <2>2. event[1].stream # event[2].stream
    BY <1>2 DEF Pairs
  <2> QED BY <2>1, <2>2 DEF TwoFields
<1>3. CASE event = <<>>
  BY <1>3 DEF Bare
<1> QED BY <1>1, <1>2, <1>3 DEF Events

Came(x, event) == [s \in Streams |-> x[s] \o SentBy(event, s)]

LEMMA NothingCame ==
  ASSUME NEW x \in [Streams -> Seq(Char)], NEW event, Bare(event)
  PROVE  Came(x, event) = x
<1>1. \A s \in Streams : SentBy(event, s) = <<>>
  <2>1. Range(event) = {}
    BY DEF Bare, Range
  <2> QED BY <2>1 DEF SentBy
<1>2. \A s \in Streams : x[s] \o <<>> = x[s]
  BY ConcatEmptySeq
<1> QED BY <1>1, <1>2 DEF Came

LEMMA OneCame ==
  ASSUME NEW x \in [Streams -> Seq(Char)], NEW event, OneField(event)
  PROVE  Came(x, event) = With(x, event[1])
<1>1. PICK f \in Fields : event = <<f>> /\ event[1] = f
  BY DEF OneField
<1>2. Range(event) = {f}
  BY <1>1 DEF Range
<1>3. ASSUME NEW s \in Streams, s # f.stream PROVE SentBy(event, s) = <<>>
  <2>1. {g \in Range(event) : g.stream = s} = {}
    BY <1>2, <1>3
  <2> QED BY <2>1 DEF SentBy
<1>4. SentBy(event, f.stream) = f.text
  <2>1. {g \in Range(event) : g.stream = f.stream} = {f}
    BY <1>2
  <2>2. (CHOOSE g \in {f} : TRUE) = f
    OBVIOUS
  <2> QED BY <2>1, <2>2 DEF SentBy
<1>5. \A s \in Streams : x[s] \o <<>> = x[s]
  BY ConcatEmptySeq
<1>6. ASSUME NEW s \in Streams
      PROVE  x[s] \o SentBy(event, s) = IF s = f.stream THEN x[f.stream] \o f.text ELSE x[s]
  BY <1>3, <1>4, <1>5
<1>7. f.stream \in Streams
  BY FieldsHaveText
<1> QED BY <1>1, <1>6, <1>7 DEF Came, With

LEMMA TwoCame ==
  ASSUME NEW x \in [Streams -> Seq(Char)], NEW event, TwoFields(event)
  PROVE  Came(x, event) = With(With(x, event[1]), event[2])
<1>1. PICK f \in Fields, g \in Fields :
        event = <<f, g>> /\ event[1] = f /\ event[2] = g /\ f.stream # g.stream
  BY DEF TwoFields
<1>2. Range(event) = {f, g}
  BY <1>1 DEF Range
<1>3. ASSUME NEW s \in Streams, s # f.stream, s # g.stream PROVE SentBy(event, s) = <<>>
  <2>1. {h \in Range(event) : h.stream = s} = {}
    BY <1>2, <1>3
  <2> QED BY <2>1 DEF SentBy
<1>4. SentBy(event, f.stream) = f.text
  <2>1. {h \in Range(event) : h.stream = f.stream} = {f}
    BY <1>1, <1>2
  <2>2. (CHOOSE h \in {f} : TRUE) = f
    OBVIOUS
  <2> QED BY <2>1, <2>2 DEF SentBy
<1>5. SentBy(event, g.stream) = g.text
  <2>1. {h \in Range(event) : h.stream = g.stream} = {g}
    BY <1>1, <1>2
  <2>2. (CHOOSE h \in {g} : TRUE) = g
    OBVIOUS
  <2> QED BY <2>1, <2>2 DEF SentBy
<1>6. \A s \in Streams : x[s] \o <<>> = x[s]
  BY ConcatEmptySeq
<1>7. f.stream \in Streams /\ g.stream \in Streams
  BY FieldsHaveText
<1>8. PICK x1 : x1 = With(x, f)
  OBVIOUS
<1>9. /\ x1[g.stream] = x[g.stream] /\ DOMAIN x1 = Streams
      /\ \A s \in Streams : x1[s] = IF s = f.stream THEN x[f.stream] \o f.text ELSE x[s]
  BY <1>1, <1>7, <1>8 DEF With
<1>10. ASSUME NEW s \in Streams
       PROVE  x[s] \o SentBy(event, s) = IF s = g.stream THEN x1[g.stream] \o g.text ELSE x1[s]
  BY <1>1, <1>3, <1>4, <1>5, <1>6, <1>9
<1>11. With(x1, g) = [s \in Streams |-> IF s = g.stream THEN x1[g.stream] \o g.text ELSE x1[s]]
  BY <1>7, <1>9 DEF With
<1>12. Came(x, event) = With(x1, g)
  BY <1>10, <1>11 DEF Came
<1> QED BY <1>1, <1>8, <1>12

LEMMA EventCarriesOn ==
  ASSUME KeysOwn, NEW event \in Events, CarryOn(AtRestNow, sent)
  PROVE  LET fed == Relayed(event)
         IN /\ CarryOn(fed, Came(sent, event))
            /\ Range(channels) \subseteq Range(fed.channels)
            /\ \A i \in 1 .. Len(event) : ChannelOf(event[i].stream) \in Range(fed.channels)
<1>1. sent \in [Streams -> Seq(Char)]
  BY DEF CarryOn
<1>2. AtRestNow.channels = channels
  BY DEF AtRestNow
<1>3. CASE Bare(event)
  <2>1. Len(event) = 0
    BY <1>3 DEF Bare
  <2>2. Relayed(event) = AtRestNow
    BY <2>1, RelayedIs
  <2> QED BY <1>1, <1>2, <1>3, <2>1, <2>2, NothingCame
<1>4. CASE OneField(event)
  <2>1. PICK f : f = event[1]
    OBVIOUS
  <2>2. Len(event) = 1 /\ f \in Fields
    BY <1>4, <2>1 DEF OneField
  <2>3. PICK fed : fed = FeedField(AtRestNow, f)
    OBVIOUS
  <2>4. Relayed(event) = fed
    BY <2>1, <2>2, <2>3, RelayedIs
  <2>5. f.stream \in Streams /\ f.text \in Seq(Char)
    BY <2>2, FieldsHaveText
  <2>6. CarryOn(fed, With(sent, f)) /\ Range(fed.channels) = Range(channels) \cup {ChannelOf(f.stream)}
    BY <1>2, <2>3, <2>5, FeedCarriesOn DEF With
  <2>7. Came(sent, event) = With(sent, f)
    BY <1>1, <1>4, <2>1, OneCame
  <2>8. \A i \in 1 .. Len(event) : event[i] = f
    BY <2>1, <2>2
  <2> QED BY <2>4, <2>6, <2>7, <2>8
<1>5. CASE TwoFields(event)
  <2>1. PICK f, g : f = event[1] /\ g = event[2]
    OBVIOUS
  <2>2. Len(event) = 2 /\ f \in Fields /\ g \in Fields
    BY <1>5, <2>1 DEF TwoFields
  <2>3. PICK mid : mid = FeedField(AtRestNow, f)
    OBVIOUS
  <2>4. PICK fed : fed = FeedField(mid, g)
    OBVIOUS
  <2>5. Relayed(event) = fed
    BY <2>1, <2>2, <2>3, <2>4, RelayedIs
  <2>6. f.stream \in Streams /\ f.text \in Seq(Char) /\ g.stream \in Streams /\ g.text \in Seq(Char)
    BY <2>2, FieldsHaveText
  <2>7. CarryOn(mid, With(sent, f)) /\ Range(mid.channels) = Range(channels) \cup {ChannelOf(f.stream)}
    BY <1>2, <2>3, <2>6, FeedCarriesOn DEF With
  <2>8. /\ CarryOn(fed, With(With(sent, f), g))
        /\ Range(fed.channels) = Range(mid.channels) \cup {ChannelOf(g.stream)}
    <3>1. PICK x : x = With(sent, f)
      OBVIOUS
    <3>2. CarryOn(mid, x)
      BY <2>7, <3>1
    <3>3. CarryOn(fed, With(x, g)) /\ Range(fed.channels) = Range(mid.channels) \cup {ChannelOf(g.stream)}
      BY <2>4, <2>6, <3>2, FeedCarriesOn DEF With
    <3> QED BY <3>1, <3>3
  <2>9. Came(sent, event) = With(With(sent, f), g)
    BY <1>1, <1>5, <2>1, TwoCame
  <2>10. \A i \in 1 .. Len(event) : event[i] = f \/ event[i] = g
    BY <2>1, <2>2
  <2> QED BY <2>5, <2>7, <2>8, <2>9, <2>10
<1> QED BY <1>3, <1>4, <1>5, EventsAre

-----------------------------------------------------------------------------
(***************************************************************************)
(* The invariant of the relay: as long as the reply streams, the client    *)
(* has all of it but what is held; what is held is always the end of what  *)
(* came, or nothing; once the reply is flushed the client has all of the   *)
(* stream that had a field in the last event, and all but a tail of any    *)
(* other.                                                                  *)
(***************************************************************************)
EndsIn(x, tail) == \E u \in Seq(Char) : x = u \o tail

Arrived(x, g) ==
  \/ g = Detokenized(x)
  \/ \E i \in 1 .. Len(x) :
       OpensTail(x, i) /\ Len(x) - i < MAX_TOKEN_LEN /\ g = Detokenized(SubSeq(x, 1, i - 1))

RelayTypes ==
  /\ sent \in [Streams -> Seq(Char)]
  /\ held \in [Keys -> Seq(Char)] /\ got = [s \in Streams |-> got[s]]
  /\ Listing(channels) /\ \A k \in Keys : held[k] # <<>> => k \in Range(channels)
  /\ template \in Seq(Streams)
  /\ \A i \in 1 .. Len(template) : ChannelOf(template[i]) \in Range(channels)
  /\ phase \in {"streaming", "done", "ended", "broken"}

TailsHeld ==
  \A s \in Streams : IsTail(held[ChannelOf(s)]) /\ EndsIn(sent[s], held[ChannelOf(s)])

AllGone == \A k \in Keys : held[k] = <<>>

AllArrived ==
  Single =>
    /\ \A s \in Streams : Arrived(sent[s], got[s])
    /\ \A s \in Range(template) : got[s] = Detokenized(sent[s])

RelayInv ==
  /\ RelayTypes /\ TailsHeld
  /\ phase = "streaming" => \A s \in Streams : Along(sent[s], got[s], held[ChannelOf(s)])
  /\ phase \in {"done", "ended"} => AllGone /\ AllArrived

LEMMA AlongHolds ==
  ASSUME NEW x, NEW g, NEW tail, Along(x, g, tail)
  PROVE  IsTail(tail) /\ EndsIn(x, tail)
BY DEF Along, EndsIn

LEMMA RelayStarts == Init => RelayInv
<1> SUFFICES ASSUME Init PROVE RelayInv
  OBVIOUS
<1>1. \A S : <<>> \in Seq(S)
  BY EmptySeq
<1>2. PICK none : none = <<>> /\ Len(none) = 0 /\ none \in Seq(Keys) /\ none \in Seq(Streams)
  BY EmptySeq
<1>3. Listing(channels)
  <2>1. DOMAIN none = {}
    BY <1>2, LenProperties
  <2>2. channels = none
    BY <1>2 DEF Init
  <2> QED BY <1>2, <2>1, <2>2 DEF Listing, IsInjective
<1>4. RelayTypes
  <2>1. template = none
    BY <1>2 DEF Init
  <2>2. sent \in [Streams -> Seq(Char)] /\ got = [s \in Streams |-> got[s]] /\ held \in [Keys -> Seq(Char)]
    BY <1>1 DEF Init
  <2>3. \A k \in Keys : held[k] = <<>>
    BY DEF Init
  <2>4. phase = "streaming"
    BY DEF Init
  <2> QED BY <1>2, <1>3, <2>1, <2>2, <2>3, <2>4 DEF RelayTypes
<1>5. ASSUME NEW s \in Streams PROVE Along(sent[s], got[s], held[ChannelOf(s)])
  <2>1. sent[s] = <<>> /\ got[s] = <<>> /\ held[ChannelOf(s)] = <<>>
    BY DEF Init, Keys
  <2> QED BY <2>1, NothingAlong
<1>6. TailsHeld
  BY <1>5, AlongHolds DEF TailsHeld
<1>7. phase = "streaming"
  BY DEF Init
<1> QED BY <1>4, <1>5, <1>6, <1>7 DEF RelayInv

LEMMA EventKeeps ==
  ASSUME KeysOwn, RelayInv, NEW event \in Events, Event(event)
  PROVE  RelayInv'
<1>1. phase = "streaming" /\ phase' = "streaming"
  BY DEF Event
<1>2. PICK fed : fed = Relayed(event)
  OBVIOUS
<1>3. channels' = fed.channels /\ held' = fed.held /\ got' = fed.got
  BY <1>2 DEF Event
<1>4. sent' = Came(sent, event)
  BY DEF Event, Came
<1>5. CarryOn(AtRestNow, sent)
  <2>1. \A s \in Streams : Along(sent[s], got[s], held[ChannelOf(s)])
    BY <1>1 DEF RelayInv
  <2>2. \A s \in Streams : got[s] \in Seq(Outputs)
    BY <2>1, AlongTypes
  <2>3. got \in [Streams -> Seq(Outputs)]
    BY <2>2 DEF RelayInv, RelayTypes
  <2> QED BY <2>1, <2>3 DEF RelayInv, RelayTypes, CarryOn, AtRestNow
<1>6. /\ CarryOn(fed, sent') /\ Range(channels) \subseteq Range(fed.channels)
      /\ \A i \in 1 .. Len(event) : ChannelOf(event[i].stream) \in Range(fed.channels)
  BY <1>2, <1>4, <1>5, EventCarriesOn
<1>7. PICK n \in Nat : n = Len(event) /\ \A i \in 1 .. n : event[i] \in Fields
  <2>1. CASE Bare(event)
    <3>1. Len(event) = 0 /\ 0 \in Nat
      BY <2>1 DEF Bare
    <3> QED BY <3>1
  <2>2. CASE OneField(event)
    BY <2>2 DEF OneField
  <2>3. CASE TwoFields(event)
    <3>1. \A i \in 1 .. 2 : i = 1 \/ i = 2
      OBVIOUS
    <3> QED BY <2>3, <3>1 DEF TwoFields
  <2> QED BY <2>1, <2>2, <2>3, EventsAre
<1>8. template' = [i \in 1 .. n |-> event[i].stream]
  BY <1>7 DEF Event, Template
<1>9. \A i \in 1 .. n : event[i].stream \in Streams
  BY <1>7, FieldsHaveText
<1>10. template' \in Seq(Streams) /\ Len(template') = n /\ \A i \in 1 .. n : template'[i] = event[i].stream
  BY <1>8, <1>9
<1>11. RelayTypes'
  <2>1. \A i \in 1 .. n : ChannelOf(template'[i]) \in Range(channels')
    BY <1>3, <1>6, <1>7, <1>10
  <2>2. /\ sent' \in [Streams -> Seq(Char)]
        /\ held' \in [Keys -> Seq(Char)] /\ got' = [s \in Streams |-> got'[s]]
        /\ Listing(channels') /\ \A k \in Keys : held'[k] # <<>> => k \in Range(channels')
    BY <1>3, <1>6 DEF CarryOn
  <2> QED BY <1>1, <1>10, <2>1, <2>2 DEF RelayTypes
<1>12. \A s \in Streams : Along(sent'[s], got'[s], held'[ChannelOf(s)])
  BY <1>3, <1>6 DEF CarryOn
<1>13. TailsHeld'
  BY <1>12, AlongHolds DEF TailsHeld
<1> QED BY <1>1, <1>11, <1>12, <1>13 DEF RelayInv

(***************************************************************************)
(* What one channel holds goes behind what the client has of its stream.   *)
(***************************************************************************)
LEMMA RemainderIs ==
  ASSUME RelayTypes, Single
  PROVE  /\ Len(channels) = 0 => Remainder = <<>>
         /\ Len(channels) = 1 => Remainder = held[channels[1]] /\ channels[1] \in Keys
<1> DEFINE n == Len(channels)
           Equal(h) == h = [i \in 0 .. n |-> IF i = 0 THEN <<>> ELSE h[i - 1] \o held[channels[i]]]
           upTo == CHOOSE h : Equal(h)
<1>2. PICK m : m = n
  OBVIOUS
<1>0. channels \in Seq(Keys) /\ DOMAIN channels = 1 .. m /\ m \in Nat
  BY <1>2 DEF RelayTypes, Listing
<1>1. n \in 0 .. 1 /\ n \in Nat
  BY <1>0, <1>2 DEF Single
<1>3. m = 1 => channels[1] \in Keys /\ held[channels[1]] \in Seq(Char)
  <2>1. m = 1 => channels[1] \in Keys
    BY <1>0
  <2> QED BY <2>1 DEF RelayTypes
<1>4. PICK h : h = [i \in 0 .. n |-> IF i = 0 THEN <<>> ELSE <<>> \o held[channels[1]]]
  OBVIOUS
<1>5. Equal(h)
  <2>1. ASSUME NEW i \in 0 .. n
        PROVE  (IF i = 0 THEN <<>> ELSE <<>> \o held[channels[1]])
                 = (IF i = 0 THEN <<>> ELSE h[i - 1] \o held[channels[i]])
    <3>1. CASE i = 0
      BY <3>1
    <3>2. CASE i # 0
      <4>1. i = 1 /\ i - 1 = 0
        <5> HIDE DEF n
        <5> QED BY <1>1, <3>2
      <4>2. h[0] = <<>>
        <5>1. 0 \in 0 .. n
          BY <1>1
        <5> QED BY <1>4, <5>1
      <4> QED BY <4>1, <4>2
    <3> QED BY <3>1, <3>2
  <2>2. [i \in 0 .. n |-> IF i = 0 THEN <<>> ELSE <<>> \o held[channels[1]]]
          = [i \in 0 .. n |-> IF i = 0 THEN <<>> ELSE h[i - 1] \o held[channels[i]]]
    BY <2>1
  <2> QED BY <1>4, <2>2
<1>6. Equal(upTo)
  <2> HIDE DEF Equal
  <2> QED BY <1>5
<1>7. Remainder = upTo[n]
  BY DEF Remainder
<1>8. upTo = [i \in 0 .. m |-> IF i = 0 THEN <<>> ELSE upTo[i - 1] \o held[channels[i]]]
  BY <1>2, <1>6
<1> HIDE DEF upTo, n
<1>9. upTo[0] = <<>>
  BY <1>1, <1>2, <1>8
<1>10. m = 1 => upTo[1] = upTo[0] \o held[channels[1]]
  BY <1>8
<1>11. m = 1 => upTo[1] = held[channels[1]]
  BY <1>3, <1>9, <1>10, ConcatEmptySeq
<1> QED BY <1>1, <1>2, <1>3, <1>7, <1>9, <1>11 DEF n

LEMMA TailEnds ==
  ASSUME NEW x, NEW tail \in Seq(Char), tail # <<>>, IsTail(tail), EndsIn(x, tail)
  PROVE  /\ Len(tail) <= MAX_TOKEN_LEN /\ tail = SubSeq(x, Len(x) - Len(tail) + 1, Len(x))
         /\ OpensTail(x, Len(x) - Len(tail) + 1)
<1>1. PICK u \in Seq(Char) : x = u \o tail
  BY DEF EndsIn
<1>2. PICK a, d : a = Len(u) /\ d = Len(tail)
  OBVIOUS
<1>3. OpensTail(tail, 1) /\ d <= MAX_TOKEN_LEN
  BY <1>2 DEF IsTail
<1>4. a \in Nat /\ d \in Nat /\ d >= 1
  BY <1>2
<1>5. x \in Seq(Char) /\ Len(x) = a + d /\ \A k \in 1 .. d : x[a + k] = tail[k]
  BY <1>1, <1>2, ConcatAt
<1>6. Len(x) - d + 1 = a + 1
  BY <1>4, <1>5
<1>7. OpensTail(x, a + 1)
  <2>1. x[a + 1] = "["
    BY <1>3, <1>4, <1>5 DEF OpensTail
  <2>2. ASSUME NEW j \in (a + 1) + 1 .. Len(x) PROVE x[j] \in Letters \/ EndsLine(x, j)
    <3>1. PICK k \in 2 .. d : j = a + k
      <4>1. j - a \in 2 .. d /\ j = a + (j - a)
        BY <1>4, <1>5
      <4> QED BY <4>1
    <3>2. x[j] = tail[k]
      BY <1>5, <3>1
    <3>3. tail[k] \in Letters \/ EndsLine(tail, k)
      <4>1. k \in (1 + 1) .. Len(tail)
        BY <1>2, <1>4
      <4> QED BY <1>3, <4>1 DEF OpensTail
    <3>4. EndsLine(tail, k) => EndsLine(x, j)
      BY <1>2, <1>5, <3>1, <3>2 DEF EndsLine
    <3> QED BY <3>2, <3>3, <3>4
  <2> QED BY <2>1, <2>2 DEF OpensTail
<1>8. tail = SubSeq(x, a + 1, Len(x))
  <2>1. SubSeq(u \o tail, a + 1, a + d) = SubSeq(tail, (a + 1) - a, (a + d) - a)
    <3>1. a + 1 \in Len(u) + 1 .. Len(u) + Len(tail) /\ a + d \in Len(u) + 1 .. Len(u) + Len(tail)
      BY <1>2, <1>4
    <3> QED BY <1>2, <3>1, SubSeqOfConcat2
  <2>2. (a + 1) - a = 1 /\ (a + d) - a = d
    BY <1>4
  <2>3. SubSeq(tail, 1, d) = tail
    BY <1>2, SubSeqFull
  <2> QED BY <1>1, <1>5, <2>1, <2>2, <2>3
<1> QED BY <1>2, <1>3, <1>6, <1>7, <1>8

LEMMA AlongGives ==
  ASSUME NEW x, NEW g, NEW tail, Along(x, g, tail)
  PROVE  Makes(g, tail, Detokenized(x)) /\ Arrived(x, g)
<1>1. PICK u \in Seq(Char) :
        x = u \o tail /\ g = Detokenized(u) /\ Clean(x, Len(u)) /\ tail \in Seq(Char) /\ IsTail(tail)
  BY DEF Along
<1>2. Detokenized(x) = Detokenized(u) \o Detokenized(tail)
  <2>1. <<>> \in Seq(Char) /\ x \in Seq(Char)
    BY <1>1, EmptySeq, ConcatProperties
  <2>2. x \o <<>> = x
    BY <2>1, ConcatEmptySeq
  <2>3. NoneAcross(x \o <<>>, Len(u))
    BY <1>1, <2>1, Zenon DEF Clean
  <2>4. NoneAcross(u \o tail, Len(u))
    BY <1>1, <2>2, <2>3
  <2> QED BY <1>1, <2>4, DetokenizedSplits
<1>3. CASE tail = <<>>
  <2>1. x = u
    BY <1>1, <1>3, ConcatEmptySeq
  <2>2. g \in Seq(Outputs)
    BY <1>1, DetokenizedIsOutput
  <2>3. g \o tail = g
    BY <1>3, <2>2, ConcatEmptySeq
  <2> QED BY <1>1, <2>1, <2>3 DEF Makes, Arrived
<1>4. CASE tail # <<>>
  <2>1. OpensTail(tail, 1) /\ Len(tail) <= MAX_TOKEN_LEN
    BY <1>1, <1>4 DEF IsTail
  <2>2. PICK a, d : a = Len(u) /\ d = Len(tail)
    OBVIOUS
  <2>3. a \in Nat /\ d \in Nat /\ d >= 1 /\ MAX_TOKEN_LEN \in Nat
    BY <1>1, <1>4, <2>2, Letterless
  <2>4. tail[1] = "[" /\ \A j \in 2 .. d : tail[j] \in Letters \/ tail[j] = "\n"
    BY <2>1, <2>2, <2>3 DEF OpensTail, EndsLine
  <2>5. \A i \in 1 .. d : tail[i] # "]"
    <3>1. "]" \notin Letters
      BY Letterless
    <3>2. ASSUME NEW i \in 1 .. d PROVE tail[i] # "]"
      <4>1. i = 1 \/ i \in 2 .. d
        BY <2>3
      <4>2. "[" # "]" /\ "\n" # "]"
        OBVIOUS
      <4> QED BY <2>4, <3>1, <4>1, <4>2
    <3> QED BY <3>2
  <2>6. Detokenized(tail) = tail
    BY <1>1, <2>2, <2>5, DetokenizedAlone
  <2>7. x \in Seq(Char) /\ Len(x) = a + d
    BY <1>1, <2>2, ConcatAt
  <2>8. OpensTail(x, a + 1)
    <3>1. Len(x) - d + 1 = a + 1
      BY <2>3, <2>7
    <3>2. EndsIn(x, tail)
      BY <1>1 DEF EndsIn
    <3> QED BY <1>1, <1>4, <2>2, <3>1, <3>2, TailEnds
  <2>9. SubSeq(x, 1, (a + 1) - 1) = u
    <3>1. (a + 1) - 1 = a
      BY <2>3
    <3>2. SubSeq(x, 1, a) = u
      <4>1. CASE a = 0
        <5>1. u = <<>>
          BY <1>1, <2>2, <4>1, EmptySeq
        <5> QED BY <4>1, <5>1, SubSeqEmpty
      <4>2. CASE a >= 1
        <5>1. SubSeq(u \o tail, 1, a) = SubSeq(u, 1, a)
          <6>1. 1 \in 1 .. Len(u) /\ a \in 1 .. Len(u)
            BY <2>2, <2>3, <4>2
          <6> QED BY <1>1, <6>1, SubSeqOfConcat1
        <5>2. SubSeq(u, 1, a) = u
          BY <2>2, SubSeqFull
        <5> QED BY <1>1, <5>1, <5>2
      <4> QED BY <2>3, <4>1, <4>2
    <3> QED BY <3>1, <3>2
  <2>10. a + 1 \in 1 .. Len(x) /\ Len(x) - (a + 1) < MAX_TOKEN_LEN
    BY <2>1, <2>2, <2>3, <2>7
  <2>11. g = Detokenized(SubSeq(x, 1, (a + 1) - 1))
    BY <1>1, <2>9
  <2>12. Arrived(x, g)
    BY <2>8, <2>10, <2>11 DEF Arrived
  <2> QED BY <1>1, <1>2, <2>6, <2>12 DEF Makes
<1> QED BY <1>3, <1>4

LEMMA FlushArrives ==
  ASSUME KeysOwn, RelayInv, phase \in {"streaming", "done"}, FlushRemainder,
         phase' \in {"done", "ended"}
  PROVE  RelayInv'
<1>1. RelayTypes /\ TailsHeld
  BY DEF RelayInv
<1>2. channels' = channels /\ template' = template /\ sent' = sent /\ held' = [k \in Keys |-> <<>>]
  BY DEF FlushRemainder
<1>3. AllGone'
  BY <1>2 DEF AllGone
<1>4. TailsHeld'
  <2>1. ASSUME NEW s \in Streams PROVE IsTail(held'[ChannelOf(s)]) /\ EndsIn(sent'[s], held'[ChannelOf(s)])
    <3>1. held'[ChannelOf(s)] = <<>>
      BY <1>2 DEF Keys
    <3>2. sent[s] \in Seq(Char)
      BY <1>1 DEF RelayTypes
    <3>3. sent[s] \o <<>> = sent[s]
      BY <3>2, ConcatEmptySeq
    <3> QED BY <1>2, <3>1, <3>2, <3>3 DEF IsTail, EndsIn
  <2> QED BY <2>1 DEF TailsHeld
<1>5. got' = [s \in Streams |-> got'[s]]
  BY <1>1 DEF RelayTypes, FlushRemainder
<1>6. RelayTypes'
  <2>1. held' \in [Keys -> Seq(Char)] /\ \A k \in Keys : held'[k] = <<>>
    BY <1>2, EmptySeq
  <2>2. Listing(channels')
    BY <1>1, <1>2 DEF RelayTypes
  <2>3. template' \in Seq(Streams) /\ \A i \in 1 .. Len(template') : ChannelOf(template'[i]) \in Range(channels')
    BY <1>1, <1>2 DEF RelayTypes
  <2>4. sent' \in [Streams -> Seq(Char)]
    BY <1>1, <1>2 DEF RelayTypes
  <2> QED BY <1>5, <2>1, <2>2, <2>3, <2>4 DEF RelayTypes
<1>7. ASSUME Single
      PROVE  /\ \A s \in Streams : Arrived(sent[s], got'[s])
             /\ \A s \in Range(template) : got'[s] = Detokenized(sent[s])
  <2>1. ASSUME NEW s \in Streams PROVE Arrived(sent[s], got[s])
    <3>1. CASE phase = "streaming"
      <4>1. Along(sent[s], got[s], held[ChannelOf(s)])
        BY <3>1 DEF RelayInv
      <4> QED BY <4>1, AlongGives
    <3>2. CASE phase = "done"
      BY <1>7, <3>2 DEF RelayInv, AllArrived
    <3> QED BY <3>1, <3>2
  <2>2. CASE template = <<>>
    <3>1. got' = got
      BY <2>2 DEF FlushRemainder
    <3>2. Range(template) = {}
      BY <2>2 DEF Range
    <3> QED BY <2>1, <3>1, <3>2
  <2>3. CASE template # <<>>
    <3>1. PICK r : r = template[1]
      OBVIOUS
    <3>2. PICK k : k = ChannelOf(r)
      OBVIOUS
    <3>3. 1 \in 1 .. Len(template) /\ r \in Streams /\ Range(template) = {template[i] : i \in 1 .. Len(template)}
      <4>1. template \in Seq(Streams)
        BY <1>1 DEF RelayTypes
      <4>2. Len(template) \in Nat \ {0}
        BY <2>3, <4>1, EmptySeq
      <4>3. 1 \in 1 .. Len(template)
        BY <4>2
      <4>4. r \in Streams
        BY <3>1, <4>1, <4>3, ElementOfSeq
      <4> QED BY <4>1, <4>3, <4>4, RangeEquality
    <3>4. k \in Range(channels)
      BY <1>1, <3>1, <3>2, <3>3 DEF RelayTypes
    <3>5. PICK n \in Nat : n = Len(channels) /\ Range(channels) = {channels[i] : i \in 1 .. n}
      <4>1. channels \in Seq(Keys)
        BY <1>1 DEF RelayTypes, Listing
      <4> QED BY <4>1, RangeEquality
    <3>6. n = 1
      <4>1. n <= 1
        BY <1>7, <3>5 DEF Single
      <4>2. n # 0
        BY <3>4, <3>5
      <4> QED BY <4>1, <4>2
    <3>7. channels[1] = k /\ \A m \in Range(channels) : m = k
      <4>1. \A i \in 1 .. n : i = 1
        BY <3>6
      <4> QED BY <3>4, <3>5, <4>1
    <3>8. Remainder = held[k]
      BY <1>1, <1>7, <3>5, <3>6, <3>7, RemainderIs
    <3>9. got' = [got EXCEPT ![r] = got[r] \o held[k]]
      BY <2>3, <3>1, <3>8 DEF FlushRemainder
    <3>10. got'[r] = got[r] \o held[k] /\ \A s \in Streams \ {r} : got'[s] = got[s]
      BY <1>1, <3>3, <3>9 DEF RelayTypes
    <3>11. Makes(got[r], held[k], Detokenized(sent[r]))
      <4>1. CASE phase = "streaming"
        <5>1. Along(sent[r], got[r], held[k])
          BY <3>2, <3>3, <4>1 DEF RelayInv
        <5> QED BY <5>1, AlongGives
      <4>2. CASE phase = "done"
        <5>1. r \in Range(template)
          BY <3>1, <3>3
        <5>2. got[r] = Detokenized(sent[r])
          BY <1>7, <4>2, <5>1 DEF RelayInv, AllArrived
        <5>3. held[k] = <<>>
          BY <3>2, <3>3, <4>2 DEF RelayInv, AllGone, Keys
        <5>4. sent[r] \in Seq(Char)
          BY <1>1, <3>3 DEF RelayTypes
        <5>5. got[r] \in Seq(Outputs)
          BY <5>2, <5>4, DetokenizedIsOutput
        <5>6. got[r] \o <<>> = got[r]
          BY <5>5, ConcatEmptySeq
        <5> QED BY <5>2, <5>3, <5>6 DEF Makes
      <4> QED BY <4>1, <4>2
    <3>12. got'[r] = Detokenized(sent[r])
      BY <3>10, <3>11 DEF Makes
    <3>13. ASSUME NEW s \in Range(template) PROVE s = r
      <4>1. PICK i \in 1 .. Len(template) : s = template[i]
        BY <3>3
      <4>2. s \in Streams /\ ChannelOf(s) \in Range(channels)
        BY <1>1, <4>1 DEF RelayTypes
      <4> QED BY <3>2, <3>3, <3>7, <4>2 DEF KeysOwn
    <3>14. ASSUME NEW s \in Streams PROVE Arrived(sent[s], got'[s])
      <4>1. CASE s = r
        BY <3>12, <4>1 DEF Arrived
      <4>2. CASE s # r
        BY <2>1, <3>10, <4>2
      <4> QED BY <4>1, <4>2
    <3> QED BY <3>12, <3>13, <3>14
  <2> QED BY <2>2, <2>3
<1>8. Single' => Single
  BY <1>2 DEF Single
<1>9. AllArrived'
  BY <1>2, <1>7, <1>8 DEF AllArrived
<1>10. phase' # "streaming"
  OBVIOUS
<1> QED BY <1>3, <1>4, <1>6, <1>9, <1>10 DEF RelayInv

LEMMA BreakKeeps ==
  ASSUME RelayInv, Break
  PROVE  RelayInv'
<1>1. phase' = "broken" /\ UNCHANGED <<channels, held, template, sent, got>>
  BY DEF Break
<1>2. RelayTypes'
  <2>1. RelayTypes
    BY DEF RelayInv
  <2>2. Listing(channels')
    BY <1>1, <2>1 DEF RelayTypes
  <2> QED BY <1>1, <2>1, <2>2 DEF RelayTypes
<1>3. TailsHeld'
  BY <1>1 DEF RelayInv, TailsHeld
<1> QED BY <1>1, <1>2, <1>3 DEF RelayInv

LEMMA RelayStays ==
  ASSUME RelayInv, UNCHANGED vars
  PROVE  RelayInv'
<1>1. UNCHANGED <<channels, held, template, phase, sent, got>>
  BY DEF vars
<1>2. RelayTypes'
  <2>1. RelayTypes
    BY DEF RelayInv
  <2>2. Listing(channels')
    BY <1>1, <2>1 DEF RelayTypes
  <2> QED BY <1>1, <2>1, <2>2 DEF RelayTypes
<1>3. TailsHeld'
  BY <1>1 DEF RelayInv, TailsHeld
<1>4. phase' \in {"done", "ended"} => AllGone' /\ AllArrived'
  BY <1>1 DEF RelayInv, AllGone, AllArrived, Single
<1>5. phase' = "streaming" => \A s \in Streams : Along(sent'[s], got'[s], held'[ChannelOf(s)])
  BY <1>1 DEF RelayInv
<1> QED BY <1>2, <1>3, <1>4, <1>5 DEF RelayInv

LEMMA RelayStep ==
  ASSUME KeysOwn, RelayInv, [Next]_vars
  PROVE  RelayInv'
<1>1. CASE Sending
  <2>1. PICK x \in SizedEvents : Event(x[1])
    BY <1>1 DEF Sending
  <2>2. PICK event \in Events : Event(event)
    BY <2>1 DEF SizedEvents
  <2> QED BY <2>2, EventKeeps
<1>2. CASE Done
  <2>1. phase \in {"streaming", "done"} /\ FlushRemainder /\ phase' \in {"done", "ended"}
    BY <1>2 DEF Done
  <2> QED BY <2>1, FlushArrives
<1>3. CASE End
  <2>1. phase \in {"streaming", "done"} /\ FlushRemainder /\ phase' \in {"done", "ended"}
    BY <1>3 DEF End
  <2> QED BY <2>1, FlushArrives
<1>4. CASE Break
  BY <1>4, BreakKeeps
<1>5. CASE UNCHANGED vars
  BY <1>5, RelayStays
<1> QED BY <1>1, <1>2, <1>3, <1>4, <1>5 DEF Next

(***************************************************************************)
(* What the invariant says of a relay is what the run checks of it.        *)
(***************************************************************************)
RelayIsSound == TypeOK /\ SameAsWhole /\ HoldsOnlyATail /\ LosesOnlyATail /\ WholeAfterText

LEMMA RelayInvSound ==
  ASSUME RelayInv
  PROVE  RelayIsSound
<1>1. RelayTypes /\ TailsHeld
  BY DEF RelayInv
<1>2. TypeOK
  <2>1. ASSUME NEW k \in Keys PROVE held[k] \in Seq(Char) /\ Len(held[k]) <= MAX_TOKEN_LEN
    <3>1. PICK s \in Streams : k = ChannelOf(s)
      BY DEF Keys
    <3>2. IsTail(held[k])
      BY <1>1, <3>1 DEF TailsHeld
    <3>3. held[k] = <<>> => Len(held[k]) = 0
      OBVIOUS
    <3> QED BY <1>1, <3>2, <3>3, Letterless DEF RelayTypes, IsTail
  <2>2. Range(channels) \subseteq Keys /\ IsInjective(channels)
    <3>1. channels \in Seq(Keys)
      BY <1>1 DEF RelayTypes, Listing
    <3> QED BY <1>1, <3>1, RangeOfSeq DEF RelayTypes, Listing
  <2> QED BY <1>1, <2>1, <2>2 DEF TypeOK, RelayTypes
<1>3. SameAsWhole
  <2>1. ASSUME phase = "streaming", NEW s \in Streams
        PROVE  Detokenized(sent[s]) = got[s] \o held[ChannelOf(s)]
    <3>1. Along(sent[s], got[s], held[ChannelOf(s)])
      BY <2>1 DEF RelayInv
    <3>2. Makes(got[s], held[ChannelOf(s)], Detokenized(sent[s]))
      BY <3>1, AlongGives
    <3> QED BY <3>2 DEF Makes
  <2> QED BY <2>1 DEF SameAsWhole
<1>4. HoldsOnlyATail
  <2> SUFFICES ASSUME NEW s \in Streams, held[ChannelOf(s)] # <<>>
               PROVE  LET tail == held[ChannelOf(s)]
                          from == Len(sent[s]) - Len(tail) + 1
                      IN /\ Len(tail) <= MAX_TOKEN_LEN
                         /\ tail = SubSeq(sent[s], from, Len(sent[s]))
                         /\ OpensTail(sent[s], from)
    BY DEF HoldsOnlyATail
  <2>1. PICK tail, x : tail = held[ChannelOf(s)] /\ x = sent[s]
    OBVIOUS
  <2>2. IsTail(tail) /\ EndsIn(x, tail) /\ tail \in Seq(Char) /\ tail # <<>>
    BY <1>1, <2>1 DEF TailsHeld, RelayTypes, Keys
  <2>3. Len(tail) <= MAX_TOKEN_LEN /\ tail = SubSeq(x, Len(x) - Len(tail) + 1, Len(x))
          /\ OpensTail(x, Len(x) - Len(tail) + 1)
    BY <2>2, TailEnds
  <2> QED BY <2>1, <2>3
<1>5. LosesOnlyATail
  BY DEF RelayInv, AllArrived, Arrived, LosesOnlyATail
<1>6. WholeAfterText
  BY DEF RelayInv, AllArrived, WholeAfterText
<1> QED BY <1>2, <1>3, <1>4, <1>5, <1>6 DEF RelayIsSound

-----------------------------------------------------------------------------
(***************************************************************************)
(* The chunks of a text.                                                   *)
(***************************************************************************)
LEMMA SmallestIs ==
  ASSUME NEW S \in SUBSET Nat, S # {}
  PROVE  Smallest(S) \in S /\ \A y \in S : Smallest(S) <= y
BY LeastOne DEF Smallest

LEMMA LargestIs ==
  ASSUME NEW S \in SUBSET Nat, S # {}, NEW n \in Nat, \A y \in S : y <= n
  PROVE  Largest(S) \in S /\ \A y \in S : y <= Largest(S)
<1> DEFINE mirror == {n - y : y \in S}
<1>1. mirror \in SUBSET Nat /\ mirror # {}
  <2>1. \A y \in S : n - y \in Nat
    OBVIOUS
  <2>2. PICK y : y \in S
    OBVIOUS
  <2>3. n - y \in mirror
    BY <2>2
  <2> QED BY <2>1, <2>3
<1>2. PICK m \in mirror : \A k \in mirror : m <= k
  <2> HIDE DEF mirror
  <2> QED BY <1>1, LeastOne
<1>3. PICK x \in S : m = n - x
  BY <1>2
<1>4. ASSUME NEW y \in S PROVE y <= x
  <2>1. n - y \in mirror
    OBVIOUS
  <2>2. n - x <= n - y
    BY <1>2, <1>3, <2>1
  <2> QED BY <2>2
<1> QED BY <1>4 DEF Largest

LEMMA Sizes ==
  /\ MinChars \in Nat /\ MaxChars \in Nat /\ Overlap \in Nat /\ MaxValue \in Nat
  /\ MinChars >= 1 /\ MaxChars >= 1 /\ Overlap >= 1 /\ MaxValue >= 1 /\ Overlap <= MaxChars
BY TextScanAssumption

LEMMA MarksAre == \A k \in DOMAIN Marks : Len(Marks[k]) \in 1 .. 2
<1>1. DOMAIN Marks = 1 .. 3
  BY DEF Marks
<1>2. ASSUME NEW k \in 1 .. 3 PROVE Len(Marks[k]) \in 1 .. 2
  <2>1. CASE k = 1
    BY <2>1 DEF Marks
  <2>2. CASE k = 2
    BY <2>2 DEF Marks
  <2>3. CASE k = 3
    BY <2>3 DEF Marks
  <2> QED BY <2>1, <2>2, <2>3
<1> QED BY <1>1, <1>2

LEMMA ChunkEnds ==
  ASSUME NEW t, Len(t) \in Nat, NEW start \in Nat
  PROVE  ChunkEnd(t, start) \in start + 1 .. start + MaxChars
<1> DEFINE usable == {k \in DOMAIN Marks : Breaks(t, Marks[k], start) # {}}
<1>1. CASE start + MaxChars >= Len(t) \/ usable = {}
  <2>1. ChunkEnd(t, start) = start + MaxChars
    BY <1>1, Zenon DEF ChunkEnd
  <2> QED BY <2>1, Sizes
<1>2. CASE ~(start + MaxChars >= Len(t) \/ usable = {})
  <2>1. PICK k : k = Smallest(usable)
    OBVIOUS
  <2>2. k \in DOMAIN Marks /\ Breaks(t, Marks[k], start) # {}
    <3>1. usable \in SUBSET Nat
      <4>1. DOMAIN Marks = 1 .. 3
        BY DEF Marks
      <4> QED BY <4>1
    <3>2. usable # {}
      BY <1>2
    <3>3. k \in usable
      <4> HIDE DEF usable
      <4> QED BY <2>1, <3>1, <3>2, SmallestIs
    <3> QED BY <3>3
  <2>3. PICK size, places : size = Len(Marks[k]) /\ places = Breaks(t, Marks[k], start)
    OBVIOUS
  <2>4. size \in 1 .. 2 /\ \A b \in places : b \in start + 1 .. start + MaxChars - size
    BY <2>2, <2>3, MarksAre DEF Breaks
  <2>5. PICK e : e = Largest(places)
    OBVIOUS
  <2>6. e \in places
    <3>1. places \in SUBSET Nat /\ \A b \in places : b <= start + MaxChars
      BY <2>4, Sizes
    <3>2. places # {} /\ start + MaxChars \in Nat
      BY <2>2, <2>3, Sizes
    <3> QED BY <2>5, <3>1, <3>2, LargestIs
  <2>7. ChunkEnd(t, start) = e + 1
    BY <1>2, <2>1, <2>3, <2>5 DEF ChunkEnd
  <2> QED BY <2>4, <2>6, <2>7, Sizes
<1> QED BY <1>1, <1>2

LEMMA NextStarts ==
  ASSUME NEW t, Len(t) \in Nat, NEW start \in Nat
  PROVE  /\ NextStart(t, start) \in start + 1 .. start + MaxChars
         /\ ChunkEnd(t, start) - start >= 2 * Overlap => NextStart(t, start) = ChunkEnd(t, start) - Overlap
<1>0. PICK e : e = ChunkEnd(t, start)
  OBVIOUS
<1>1. e \in Nat /\ e = ChunkEnd(t, start) /\ e \in start + 1 .. start + MaxChars
  <2>1. e \in start + 1 .. start + MaxChars
    BY <1>0, ChunkEnds
  <2> QED BY <1>0, <2>1, Sizes
<1>2. NextStart(t, start) = start + IF e - start >= 2 * Overlap THEN (e - start) - Overlap ELSE Overlap
  BY <1>1 DEF NextStart
<1>3. CASE e - start >= 2 * Overlap
  <2>1. NextStart(t, start) = start + ((e - start) - Overlap)
    BY <1>2, <1>3
  <2> QED BY <1>1, <2>1, <1>3, Sizes
<1>4. CASE ~(e - start >= 2 * Overlap)
  <2>1. NextStart(t, start) = start + Overlap
    BY <1>2, <1>4
  <2> QED BY <1>1, <1>4, <2>1, Sizes
<1> QED BY <1>3, <1>4

LEMMA ChunkAtIs ==
  ASSUME NEW t, Len(t) \in Nat, NEW start \in 0 .. Len(t) - 1
  PROVE  /\ ChunkAt(t, start) \in Spans(t) /\ ChunkAt(t, start) \in Nat \X Nat
         /\ ChunkAt(t, start)[1] = start /\ start < ChunkAt(t, start)[2]
         /\ ChunkAt(t, start)[2] = ChunkEnd(t, start) \/ ChunkAt(t, start)[2] = Len(t)
<1>1. PICK e \in Nat : e = ChunkEnd(t, start) /\ e >= start + 1
  <2>1. start \in Nat
    OBVIOUS
  <2>2. ChunkEnd(t, start) \in start + 1 .. start + MaxChars
    BY <2>1, ChunkEnds
  <2> QED BY <2>1, <2>2, Sizes
<1>2. PICK d : d = IF e > Len(t) THEN Len(t) ELSE e
  OBVIOUS
<1>3. d \in 0 .. Len(t) /\ start < d /\ (d = e \/ d = Len(t))
  BY <1>1, <1>2
<1>4. ChunkAt(t, start) = <<start, d>>
  BY <1>1, <1>2 DEF ChunkAt
<1> QED BY <1>1, <1>3, <1>4 DEF Spans

(***************************************************************************)
(* ChunksFrom is the recursive function that Chunks is defined with.       *)
(***************************************************************************)
IsChunking(from, t) ==
  from = [start \in 0 .. Len(t) + MaxChars |->
            IF start >= Len(t) THEN <<>> ELSE <<ChunkAt(t, start)>> \o from[NextStart(t, start)]]

LEMMA ChunkingExists ==
  ASSUME NEW t, Len(t) \in Nat
  PROVE  \E from : IsChunking(from, t)
<1> DEFINE last == Len(t) + MaxChars
           Starts == 0 .. last
           Lists == Seq(Nat \X Nat)
           body(f, start) == IF start >= Len(t) THEN <<>> ELSE <<ChunkAt(t, start)>> \o f[NextStart(t, start)]
           next == [f \in [Starts -> Lists] |-> [start \in Starts |-> body(f, start)]]
           rank == [start \in Starts |-> last - start]
<1>1. last \in Nat /\ <<>> \in Lists
  BY Sizes
<1>2. ASSUME NEW start \in Starts, start < Len(t)
      PROVE  /\ NextStart(t, start) \in Starts /\ rank[NextStart(t, start)] < rank[start]
             /\ <<ChunkAt(t, start)>> \in Lists
  <2>1. PICK e : e = NextStart(t, start)
    OBVIOUS
  <2>2. start \in Nat /\ start \in 0 .. Len(t) - 1
    BY <1>1, <1>2
  <2>3. e \in start + 1 .. start + MaxChars
    BY <2>1, <2>2, NextStarts
  <2>4. e \in Starts /\ last - e < last - start
    BY <1>1, <1>2, <2>2, <2>3, Sizes
  <2>5. ChunkAt(t, start) \in Nat \X Nat
    BY <2>2, ChunkAtIs
  <2> QED BY <2>1, <2>4, <2>5
<1>3. rank \in [Starts -> 0 .. last]
  BY <1>1
<1>4. ASSUME NEW f \in [Starts -> Lists], NEW start \in Starts PROVE body(f, start) \in Lists
  <2>1. CASE start >= Len(t)
    BY <1>1, <2>1
  <2>2. CASE ~(start >= Len(t))
    <3>0. start < Len(t)
      BY <1>1, <2>2
    <3>1. f[NextStart(t, start)] \in Lists /\ <<ChunkAt(t, start)>> \in Lists
      BY <1>2, <3>0
    <3>2. <<ChunkAt(t, start)>> \o f[NextStart(t, start)] \in Lists
      BY <3>1, ConcatProperties
    <3> QED BY <2>2, <3>2
  <2> QED BY <2>1, <2>2
<1>5. ASSUME NEW f \in [Starts -> Lists], NEW g \in [Starts -> Lists], NEW start \in Starts,
             \A e \in Starts : rank[e] < rank[start] => f[e] = g[e]
      PROVE  next[f][start] = next[g][start]
  <2>1. start < Len(t) => f[NextStart(t, start)] = g[NextStart(t, start)]
    BY <1>2, <1>5
  <2>2. body(f, start) = body(g, start)
    BY <1>1, <2>1
  <2> HIDE DEF body, Starts, Lists
  <2> QED BY <2>2
<1>6. next \in [[Starts -> Lists] -> [Starts -> Lists]]
  <2> HIDE DEF body, Starts, Lists
  <2> QED BY <1>4
<1>7. Recursion(Starts, Lists, last, rank, next)
  <2> HIDE DEF rank, next, Starts, Lists, last
  <2> QED BY <1>3, <1>5, <1>6 DEF Recursion
<1>8. \E f \in [Starts -> Lists] : f = next[f]
  <2> HIDE DEF rank, next, Starts, Lists, last
  <2>1. PICK args, res, n, r, h : args = Starts /\ res = Lists /\ n = last /\ r = rank /\ h = next
    OBVIOUS
  <2>2. Recursion(args, res, n, r, h) /\ <<>> \in res /\ n \in Nat
    BY <1>1, <1>7, <2>1
  <2>3. \E f \in [args -> res] : f = h[f]
    BY <2>2, RecursiveFunction
  <2> QED BY <2>1, <2>3
<1>9. PICK f \in [Starts -> Lists] : f = next[f]
  BY <1>8
<1>10. f = [start \in Starts |-> body(f, start)]
  <2> HIDE DEF body, Starts, Lists
  <2> QED BY <1>9
<1> QED BY <1>10 DEF IsChunking

ChunksFrom(t) == CHOOSE from : IsChunking(from, t)

LEMMA ChunksFromIs ==
  ASSUME NEW t, Len(t) \in Nat
  PROVE  /\ \A start \in Len(t) .. Len(t) + MaxChars : ChunksFrom(t)[start] = <<>>
         /\ \A start \in 0 .. Len(t) - 1 :
              ChunksFrom(t)[start] = <<ChunkAt(t, start)>> \o ChunksFrom(t)[NextStart(t, start)]
<1>1. PICK from : from = ChunksFrom(t)
  OBVIOUS
<1>2. IsChunking(from, t)
  BY <1>1, ChunkingExists DEF ChunksFrom
<1>3. ASSUME NEW start \in Len(t) .. Len(t) + MaxChars PROVE from[start] = <<>>
  <2>1. start \in 0 .. Len(t) + MaxChars /\ start >= Len(t)
    BY Sizes
  <2> QED BY <1>2, <2>1 DEF IsChunking
<1>4. ASSUME NEW start \in 0 .. Len(t) - 1
      PROVE  from[start] = <<ChunkAt(t, start)>> \o from[NextStart(t, start)]
  <2>1. start \in 0 .. Len(t) + MaxChars /\ ~(start >= Len(t))
    BY Sizes
  <2> QED BY <1>2, <2>1 DEF IsChunking
<1> QED BY <1>1, <1>3, <1>4

LEMMA ChunksUnfold ==
  ASSUME NEW t, Len(t) \in Nat
  PROVE  Chunks(t) = IF Len(t) <= MaxChars THEN <<<<0, Len(t)>>>> ELSE ChunksFrom(t)[0]
BY DEF Chunks, ChunksFrom, IsChunking

(***************************************************************************)
(* Chunks(t) are spans of t, and unless one that is not the last is short, *)
(* every window as long as the overlap lies in one of them.                *)
(***************************************************************************)
IsLong(c, t) == c[2] = Len(t) \/ c[2] - c[1] >= 2 * Overlap

WindowIn(t, w) == w \in Spans(t) /\ w[2] - w[1] \in 1 .. Overlap

ChunkList(series, t) ==
  /\ series \in Seq(Nat \X Nat)
  /\ \A c \in Range(series) : c \in Spans(t) /\ c[1] < c[2]

ShowsFrom(series, t, start) ==
  (\A c \in Range(series) : IsLong(c, t)) =>
     \A w : WindowIn(t, w) /\ start <= w[1] => \E c \in Range(series) : c[1] <= w[1] /\ w[2] <= c[2]

LEMMA RangeOfOne ==
  ASSUME NEW S, NEW c \in S, NEW series \in Seq(S)
  PROVE  <<c>> \o series \in Seq(S) /\ Range(<<c>> \o series) = {c} \cup Range(series)
<1>1. <<c>> \in Seq(S)
  OBVIOUS
<1>2. Range(<<c>>) = {c}
  <2>1. Range(<<c>>) = {<<c>>[i] : i \in 1 .. Len(<<c>>)}
    BY <1>1, RangeEquality
  <2>2. Len(<<c>>) = 1 /\ <<c>>[1] = c
    OBVIOUS
  <2>3. \A i : i \in 1 .. 1 <=> i = 1
    OBVIOUS
  <2>4. PICK one : one = <<c>>
    OBVIOUS
  <2>5. Range(one) = {one[i] : i \in 1 .. Len(one)} /\ Len(one) = 1 /\ one[1] = c
    BY <2>1, <2>2, <2>4
  <2>6. \A d : d \in {one[i] : i \in 1 .. Len(one)} <=> d = c
    BY <2>3, <2>5
  <2>7. Range(one) = {c}
    <3>1. \A d : d \in Range(one) <=> d = c
      BY <2>5, <2>6
    <3> QED BY <3>1
  <2> QED BY <2>4, <2>7
<1>3. PICK one : one = <<c>>
  OBVIOUS
<1>4. one \in Seq(S) /\ Range(one) = {c}
  BY <1>1, <1>2, <1>3
<1>5. one \o series \in Seq(S) /\ Range(one \o series) = {c} \cup Range(series)
  BY <1>4, ConcatProperties, RangeConcatenation
<1> QED BY <1>3, <1>5

LEMMA ChunksFromShow ==
  ASSUME NEW t, Len(t) \in Nat, NEW start \in 0 .. Len(t) + MaxChars
  PROVE  ChunkList(ChunksFrom(t)[start], t) /\ ShowsFrom(ChunksFrom(t)[start], t, start)
<1> DEFINE n == Len(t) + MaxChars
           from == ChunksFrom(t)
           P == {k \in 0 .. n : ChunkList(from[k], t) /\ ShowsFrom(from[k], t, k)}
<1>1. n \in Nat /\ n >= Len(t)
  BY Sizes
<1>2. ASSUME NEW k \in Len(t) .. n PROVE k \in P
  <2>1. from[k] = <<>>
    BY ChunksFromIs
  <2>2. Range(from[k]) = {}
    BY <2>1 DEF Range
  <2>3. \A w : ~(WindowIn(t, w) /\ k <= w[1])
    BY Sizes DEF WindowIn, Spans
  <2>4. ChunkList(from[k], t)
    BY <2>1, <2>2 DEF ChunkList
  <2>5. ShowsFrom(from[k], t, k)
    BY <2>3 DEF ShowsFrom
  <2> QED BY <1>1, <2>4, <2>5
<1>3. ASSUME NEW k \in 0 .. Len(t) - 1, \A j \in k + 1 .. n : j \in P PROVE k \in P
  <2>1. PICK e, c, rest, series : /\ e = NextStart(t, k) /\ c = ChunkAt(t, k) /\ rest = from[e] /\ series = from[k]
    OBVIOUS
  <2>2. series = <<c>> \o rest
    BY <2>1, ChunksFromIs
  <2>3. e \in k + 1 .. n /\ (ChunkEnd(t, k) - k >= 2 * Overlap => e = ChunkEnd(t, k) - Overlap)
    <3>1. e \in k + 1 .. k + MaxChars /\ (ChunkEnd(t, k) - k >= 2 * Overlap => e = ChunkEnd(t, k) - Overlap)
      BY <2>1, NextStarts
    <3> QED BY <3>1, Sizes
  <2>4. ChunkList(rest, t) /\ ShowsFrom(rest, t, e)
    BY <1>3, <2>1, <2>3
  <2>5. c \in Spans(t) /\ c \in Nat \X Nat /\ c[1] = k /\ k < c[2] /\ (c[2] = ChunkEnd(t, k) \/ c[2] = Len(t))
    BY <2>1, ChunkAtIs
  <2>6. series \in Seq(Nat \X Nat) /\ Range(series) = {c} \cup Range(rest)
    BY <2>2, <2>4, <2>5, RangeOfOne DEF ChunkList
  <2>7. ChunkList(series, t)
    BY <2>4, <2>5, <2>6 DEF ChunkList
  <2>8. ASSUME \A d \in Range(series) : IsLong(d, t), NEW w, WindowIn(t, w), k <= w[1]
        PROVE  \E d \in Range(series) : d[1] <= w[1] /\ w[2] <= d[2]
    <3>1. w[1] \in 0 .. Len(t) /\ w[2] \in 0 .. Len(t) /\ w[2] - w[1] <= Overlap
      BY <2>8 DEF WindowIn, Spans
    <3>2. CASE w[2] <= c[2]
      BY <2>5, <2>6, <2>8, <3>2
    <3>3. CASE ~(w[2] <= c[2])
      <4>1. c[2] \in Nat /\ c[2] # Len(t)
        BY <2>5, <3>1, <3>3
      <4>2. c[2] - k >= 2 * Overlap
        BY <2>5, <2>6, <2>8, <4>1 DEF IsLong
      <4>3. e = c[2] - Overlap
        BY <2>3, <2>5, <4>1, <4>2
      <4>4. e <= w[1]
        BY <3>1, <3>3, <4>1, <4>3, Sizes
      <4>5. \E d \in Range(rest) : d[1] <= w[1] /\ w[2] <= d[2]
        BY <2>4, <2>6, <2>8, <4>4 DEF ShowsFrom
      <4> QED BY <2>6, <4>5
    <3> QED BY <3>2, <3>3
  <2>9. ShowsFrom(series, t, k)
    BY <2>8 DEF ShowsFrom
  <2> QED BY <1>1, <2>1, <2>7, <2>9
<1>4. P \in SUBSET (0 .. n)
  OBVIOUS
<1>5. \A k \in 0 .. n : k \in P
  <2> HIDE DEF P, n
  <2>1. n \in P
    BY <1>1, <1>2
  <2>2. \A k \in 0 .. n - 1 : (\A j \in k + 1 .. n : j \in P) => k \in P
    <3>1. \A k \in 0 .. n - 1 : k \in Len(t) .. n \/ k \in 0 .. Len(t) - 1
      BY <1>1
    <3> QED BY <1>2, <1>3, <3>1
  <2> QED BY <1>1, <1>4, <2>1, <2>2, DownToInduction
<1> QED BY <1>5

LEMMA ChunksShow ==
  ASSUME NEW t, Len(t) \in Nat, Len(t) >= 1
  PROVE  ChunkList(Chunks(t), t) /\ ShowsFrom(Chunks(t), t, 0)
<1>1. CASE Len(t) <= MaxChars
  <2>1. PICK c : c = <<0, Len(t)>>
    OBVIOUS
  <2>2. Chunks(t) = <<c>>
    BY <1>1, <2>1, ChunksUnfold
  <2>3. c \in Nat \X Nat /\ c \in Spans(t) /\ c[1] = 0 /\ c[2] = Len(t)
    BY <2>1 DEF Spans
  <2>4. <<c>> \in Seq(Nat \X Nat) /\ Range(<<c>>) = {c}
    <3>1. <<c>> \in Seq(Nat \X Nat)
      BY <2>3
    <3>2. Range(<<c>>) = {<<c>>[i] : i \in 1 .. Len(<<c>>)}
      BY <3>1, RangeEquality
    <3> QED BY <3>1, <3>2
  <2>5. ChunkList(<<c>>, t)
    BY <2>3, <2>4 DEF ChunkList
  <2>6. ShowsFrom(<<c>>, t, 0)
    <3>1. \A w : WindowIn(t, w) => c[1] <= w[1] /\ w[2] <= c[2]
      BY <2>3 DEF WindowIn, Spans
    <3> QED BY <2>4, <3>1 DEF ShowsFrom
  <2> QED BY <2>2, <2>5, <2>6
<1>2. CASE ~(Len(t) <= MaxChars)
  <2>1. 0 \in 0 .. Len(t) + MaxChars
    BY Sizes
  <2>2. Chunks(t) = ChunksFrom(t)[0]
    BY <1>2, ChunksUnfold
  <2> QED BY <2>1, <2>2, ChunksFromShow
<1> QED BY <1>1, <1>2

-----------------------------------------------------------------------------
(***************************************************************************)
(* The occurrences of a value.                                             *)
(***************************************************************************)
IsLocating(from, t, value) ==
  from = [start \in 0 .. Len(t) + Len(value) |->
            LET hits == Hits(t, value, start)
            IN IF hits = {} THEN {}
                 ELSE {<<Smallest(hits), Smallest(hits) + Len(value)>>}
                        \cup from[Smallest(hits) + Len(value)]]

LEMMA HitsAre ==
  ASSUME NEW t, Len(t) \in Nat, NEW value, Len(value) \in Nat, Len(value) >= 1, NEW start \in Nat,
         Hits(t, value, start) # {}
  PROVE  LET hit == Smallest(Hits(t, value, start))
         IN /\ hit \in Nat /\ start <= hit /\ hit + Len(value) <= Len(t)
            /\ \A b \in Hits(t, value, start) : hit <= b
<1>1. PICK hits, hit : hits = Hits(t, value, start) /\ hit = Smallest(hits)
  OBVIOUS
<1>2. \A b \in hits : b \in Nat /\ start <= b /\ b + Len(value) <= Len(t)
  BY <1>1 DEF Hits
<1>3. hits \in SUBSET Nat /\ hits # {}
  BY <1>1, <1>2
<1>4. hit \in hits /\ \A b \in hits : hit <= b
  BY <1>1, <1>3, SmallestIs
<1> QED BY <1>1, <1>2, <1>4

LEMMA LocatingExists ==
  ASSUME NEW t, Len(t) \in Nat, NEW value, Len(value) \in Nat, Len(value) >= 1
  PROVE  \E from : IsLocating(from, t, value)
<1> DEFINE last == Len(t) + Len(value)
           Starts == 0 .. last
           Sets == SUBSET (Nat \X Nat)
           hits(start) == Hits(t, value, start)
           after(start) == Smallest(hits(start)) + Len(value)
           body(f, start) ==
             IF hits(start) = {} THEN {} ELSE {<<Smallest(hits(start)), after(start)>>} \cup f[after(start)]
           next == [f \in [Starts -> Sets] |-> [start \in Starts |-> body(f, start)]]
           rank == [start \in Starts |-> last - start]
<1>1. last \in Nat /\ {} \in Sets
  OBVIOUS
<1>2. ASSUME NEW start \in Starts, hits(start) # {}
      PROVE  /\ after(start) \in Starts /\ rank[after(start)] < rank[start]
             /\ <<Smallest(hits(start)), after(start)>> \in Nat \X Nat
  <2>1. PICK hit : hit = Smallest(hits(start))
    OBVIOUS
  <2>2. hit \in Nat /\ start <= hit /\ hit + Len(value) <= Len(t) /\ start \in Nat
    BY <1>1, <1>2, <2>1, HitsAre
  <2>3. after(start) = hit + Len(value)
    BY <2>1
  <2>4. hit + Len(value) \in Starts /\ last - (hit + Len(value)) < last - start
    BY <1>1, <2>2
  <2> HIDE DEF hits, after
  <2> QED BY <2>1, <2>2, <2>3, <2>4
<1>3. rank \in [Starts -> 0 .. last]
  BY <1>1
<1>4. ASSUME NEW f \in [Starts -> Sets], NEW start \in Starts PROVE body(f, start) \in Sets
  <2> HIDE DEF hits, after, Starts
  <2> QED BY <1>2
<1>5. ASSUME NEW f \in [Starts -> Sets], NEW g \in [Starts -> Sets], NEW start \in Starts,
             \A e \in Starts : rank[e] < rank[start] => f[e] = g[e]
      PROVE  next[f][start] = next[g][start]
  <2>1. hits(start) # {} => f[after(start)] = g[after(start)]
    <3> HIDE DEF hits, after, Starts, rank
    <3> QED BY <1>2, <1>5
  <2>2. body(f, start) = body(g, start)
    <3> HIDE DEF hits, after, Starts, rank
    <3> QED BY <2>1
  <2> HIDE DEF body, Starts, Sets
  <2> QED BY <2>2
<1>6. next \in [[Starts -> Sets] -> [Starts -> Sets]]
  <2> HIDE DEF body, Starts, Sets
  <2> QED BY <1>4
<1>7. Recursion(Starts, Sets, last, rank, next)
  <2> HIDE DEF rank, next, Starts, Sets, last
  <2> QED BY <1>3, <1>5, <1>6 DEF Recursion
<1>8. \E f \in [Starts -> Sets] : f = next[f]
  <2> HIDE DEF rank, next, Starts, Sets, last
  <2>1. PICK args, res, n, r, h : args = Starts /\ res = Sets /\ n = last /\ r = rank /\ h = next
    OBVIOUS
  <2>2. Recursion(args, res, n, r, h) /\ {} \in res /\ n \in Nat
    BY <1>1, <1>7, <2>1
  <2>3. \E f \in [args -> res] : f = h[f]
    BY <2>2, RecursiveFunction
  <2> QED BY <2>1, <2>3
<1>9. PICK f \in [Starts -> Sets] : f = next[f]
  BY <1>8
<1>10. f = [start \in Starts |-> body(f, start)]
  <2> HIDE DEF body, Starts, Sets
  <2> QED BY <1>9
<1> QED BY <1>10 DEF IsLocating

LocatedFrom(t, value) == CHOOSE from : IsLocating(from, t, value)

LEMMA LocatedFromIs ==
  ASSUME NEW t, Len(t) \in Nat, NEW value, Len(value) \in Nat, Len(value) >= 1,
         NEW start \in 0 .. Len(t) + Len(value)
  PROVE  LET hits == Hits(t, value, start)
             from == LocatedFrom(t, value)
         IN /\ hits = {} => from[start] = {}
            /\ hits # {} => from[start] = {<<Smallest(hits), Smallest(hits) + Len(value)>>}
                                            \cup from[Smallest(hits) + Len(value)]
<1>1. PICK from : from = LocatedFrom(t, value)
  OBVIOUS
<1>2. IsLocating(from, t, value)
  BY <1>1, LocatingExists DEF LocatedFrom
<1> QED BY <1>1, <1>2 DEF IsLocating

LocatesFrom(spans, t, value, start) ==
  /\ spans \subseteq Spans(t)
  /\ \A b \in Hits(t, value, start) : \E p \in spans : In(b, p)

LEMMA OccurrencesLocate ==
  ASSUME NEW t, Len(t) \in Nat, NEW value, Len(value) \in Nat, Len(value) >= 1
  PROVE  LocatesFrom(Occurrences(t, value), t, value, 0)
<1> DEFINE n == Len(t) + Len(value)
           from == LocatedFrom(t, value)
           P == {k \in 0 .. n : LocatesFrom(from[k], t, value, k)}
<1>1. n \in Nat
  OBVIOUS
<1>2. ASSUME NEW k \in 0 .. n, \A j \in k + 1 .. n : j \in P PROVE k \in P
  <2>1. CASE Hits(t, value, k) = {}
    <3>1. from[k] = {}
      BY <2>1, LocatedFromIs
    <3> QED BY <2>1, <3>1 DEF LocatesFrom
  <2>2. CASE Hits(t, value, k) # {}
    <3>1. PICK hit, e, rest : hit = Smallest(Hits(t, value, k)) /\ e = hit + Len(value) /\ rest = from[e]
      OBVIOUS
    <3>2. from[k] = {<<hit, e>>} \cup rest
      BY <2>2, <3>1, LocatedFromIs
    <3>3. k \in Nat
      OBVIOUS
    <3>4. hit \in Nat /\ k <= hit /\ e <= Len(t) /\ \A b \in Hits(t, value, k) : hit <= b
      BY <2>2, <3>1, <3>3, HitsAre
    <3>5. e \in k + 1 .. n
      BY <3>1, <3>3, <3>4
    <3>6. LocatesFrom(rest, t, value, e)
      BY <1>2, <3>1, <3>5
    <3>7. <<hit, e>> \in Spans(t)
      BY <3>1, <3>4 DEF Spans
    <3>8. ASSUME NEW b \in Hits(t, value, k) PROVE \E p \in from[k] : In(b, p)
      <4>1. hit <= b /\ b \in Nat
        BY <3>3, <3>4 DEF Hits
      <4>2. CASE b < e
        <5>0. PICK q : q = <<hit, e>>
          OBVIOUS
        <5>1. q = <<hit, e>> /\ q[1] = hit /\ q[2] = e
          BY <5>0
        <5>2. q \in from[k] /\ In(b, q)
          BY <3>2, <4>1, <4>2, <5>1 DEF In
        <5> QED BY <5>2
      <4>3. CASE ~(b < e)
        <5>1. b \in Hits(t, value, e)
          BY <3>1, <3>4, <4>1, <4>3 DEF Hits
        <5>2. \E p \in rest : In(b, p)
          BY <3>6, <5>1 DEF LocatesFrom
        <5> QED BY <3>2, <5>2
      <4> QED BY <4>2, <4>3
    <3>9. from[k] \subseteq Spans(t)
      BY <3>2, <3>6, <3>7 DEF LocatesFrom
    <3> QED BY <3>8, <3>9 DEF LocatesFrom
  <2> QED BY <2>1, <2>2
<1>3. P \in SUBSET (0 .. n)
  OBVIOUS
<1>4. \A k \in 0 .. n : k \in P
  <2> HIDE DEF P, n
  <2>1. n \in P
    <3>1. n \in 0 .. n /\ \A j \in n + 1 .. n : FALSE
      BY <1>1
    <3> QED BY <1>2, <3>1
  <2>2. \A k \in 0 .. n - 1 : (\A j \in k + 1 .. n : j \in P) => k \in P
    <3>1. \A k \in 0 .. n - 1 : k \in 0 .. n
      BY <1>1
    <3> QED BY <1>2, <3>1
  <2> QED BY <1>1, <1>3, <2>1, <2>2, DownToInduction
<1>5. Occurrences(t, value) = from[0]
  BY DEF Occurrences, LocatedFrom, IsLocating
<1>6. 0 \in 0 .. n
  OBVIOUS
<1> QED BY <1>4, <1>5, <1>6

-----------------------------------------------------------------------------
(***************************************************************************)
(* The spans of a text, merged.                                            *)
(***************************************************************************)
FullSpans(t) == {p \in Spans(t) : p[1] < p[2]}

LEMMA SpanTypes ==
  ASSUME NEW t, Len(t) \in Nat, NEW p \in Spans(t)
  PROVE  p[1] \in Nat /\ p[2] \in Nat /\ p[2] <= Len(t) /\ p[1] <= p[2] /\ p \in Nat \X Nat
BY DEF Spans

LEMMA FirstIs ==
  ASSUME NEW t, Len(t) \in Nat, NEW rest \in SUBSET Spans(t), rest # {}
  PROVE  First(rest) \in rest /\ \A q \in rest : First(rest)[1] <= q[1]
<1> DEFINE starts == {p[1] : p \in rest}
<1>1. starts \in SUBSET Nat /\ starts # {}
  <2>1. \A p \in rest : p[1] \in Nat
    BY SpanTypes
  <2>2. PICK p : p \in rest
    OBVIOUS
  <2>3. p[1] \in starts
    BY <2>2
  <2> QED BY <2>1, <2>3
<1>2. PICK m \in starts : \A y \in starts : m <= y
  <2> HIDE DEF starts
  <2> QED BY <1>1, LeastOne
<1>3. \A p \in rest : m <= p[1]
  BY <1>2
<1> DEFINE ends == {p[2] : p \in {q \in rest : q[1] = m}}
<1>4. ends \in SUBSET Nat /\ ends # {}
  <2>1. \A p \in rest : p[2] \in Nat
    BY SpanTypes
  <2>2. PICK p \in rest : p[1] = m
    BY <1>2
  <2>3. p[2] \in ends
    BY <2>2
  <2> QED BY <2>1, <2>3
<1>5. PICK e \in ends : \A y \in ends : e <= y
  <2> HIDE DEF ends
  <2> QED BY <1>4, LeastOne
<1>6. PICK p \in rest : p[1] = m /\ p[2] = e
  BY <1>5
<1>7. \A q \in rest : p[1] < q[1] \/ (p[1] = q[1] /\ p[2] <= q[2])
  <2>1. ASSUME NEW q \in rest PROVE p[1] < q[1] \/ (p[1] = q[1] /\ p[2] <= q[2])
    <3>1. q[1] \in Nat /\ m \in Nat /\ m <= q[1]
      BY <1>3, <1>6, SpanTypes
    <3>2. CASE q[1] = m
      BY <1>5, <1>6, <3>2
    <3>3. CASE q[1] # m
      BY <1>6, <3>1, <3>3
    <3> QED BY <3>2, <3>3
  <2> QED BY <2>1
<1>8. PICK p0 : p0 = First(rest)
  OBVIOUS
<1>9. p0 \in rest /\ \A q \in rest : p0[1] < q[1] \/ (p0[1] = q[1] /\ p0[2] <= q[2])
  BY <1>7, <1>8 DEF First
<1>10. \A q \in rest : p0[1] <= q[1]
  BY <1>9, SpanTypes
<1> QED BY <1>8, <1>9, <1>10

LEMMA ReachIs ==
  ASSUME NEW t, Len(t) \in Nat, NEW rest \in SUBSET FullSpans(t), rest # {}
  PROVE  LET m == First(rest)[1]
             r == Reach(rest)
         IN /\ m \in Nat /\ r \in Nat /\ m < r /\ r <= Len(t)
            /\ \A p \in rest : p[1] < r => p[2] <= r
            /\ \A o \in m + 1 .. r - 1 : \E p \in rest : p[1] < o /\ o < p[2]
<1>1. PICK p0, r : p0 = First(rest) /\ r = Reach(rest)
  OBVIOUS
<1>2. rest \in SUBSET Spans(t)
  BY DEF FullSpans
<1>3. p0 \in rest /\ \A q \in rest : p0[1] <= q[1]
  BY <1>1, <1>2, FirstIs
<1>4. \A p \in rest : p[1] \in Nat /\ p[2] \in Nat /\ p[2] <= Len(t) /\ p[1] < p[2]
  BY <1>2, SpanTypes DEF FullSpans
<1> DEFINE ends == {p[2] : p \in rest}
<1>5. PICK top : top = Largest(ends)
  OBVIOUS
<1>6. top \in Nat /\ top <= Len(t) /\ \A p \in rest : p[2] <= top
  <2>1. ends \in SUBSET Nat /\ \A y \in ends : y <= Len(t)
    BY <1>4
  <2>2. p0[2] \in ends
    BY <1>3
  <2>3. top \in ends /\ \A y \in ends : y <= top
    <3> HIDE DEF ends
    <3> QED BY <1>5, <2>1, <2>2, LargestIs
  <2> QED BY <2>1, <2>3
<1> DEFINE stops == {end \in p0[2] .. top : \A p \in rest : p[1] < end => p[2] <= end}
<1>7. r = Smallest(stops)
  BY <1>1, <1>5 DEF Reach
<1>8. stops \in SUBSET Nat /\ stops # {}
  <2>1. p0[2] \in Nat /\ p0[2] <= top
    BY <1>3, <1>4, <1>6
  <2>2. top \in stops
    BY <1>6, <2>1
  <2>3. \A end \in stops : end \in Nat
    BY <2>1
  <2> QED BY <2>2, <2>3
<1>9. r \in stops /\ \A y \in stops : r <= y
  <2> HIDE DEF stops
  <2> QED BY <1>7, <1>8, SmallestIs
<1>10. r \in Nat /\ p0[2] <= r /\ r <= top /\ \A p \in rest : p[1] < r => p[2] <= r
  BY <1>3, <1>4, <1>6, <1>9
<1>11. ASSUME NEW o \in p0[1] + 1 .. r - 1 PROVE \E p \in rest : p[1] < o /\ o < p[2]
  <2>1. SUFFICES ASSUME ~\E p \in rest : p[1] < o /\ o < p[2] PROVE FALSE
    OBVIOUS
  <2>2. o \in Nat /\ p0[1] < o /\ o < r
    BY <1>3, <1>4, <1>10
  <2>3. \A p \in rest : p[1] < o => p[2] <= o
    BY <1>4, <2>1, <2>2
  <2>4. o \in p0[2] .. top
    BY <1>3, <1>4, <1>6, <1>10, <2>2, <2>3
  <2>5. o \in stops
    BY <2>3, <2>4
  <2>6. r <= o
    <3> HIDE DEF stops
    <3> QED BY <1>9, <2>5
  <2> QED BY <1>10, <2>2, <2>6
<1>12. p0[1] \in Nat /\ p0[1] < r /\ r <= Len(t)
  BY <1>3, <1>4, <1>6, <1>10
<1> QED BY <1>1, <1>10, <1>11, <1>12

IsMerging(from, whole) ==
  from = [rest \in SUBSET whole |->
            IF rest = {} THEN <<>>
            ELSE <<<<First(rest)[1], Reach(rest)>>>> \o from[{p \in rest : p[1] >= Reach(rest)}]]

LEMMA MergingExists ==
  ASSUME NEW t, Len(t) \in Nat, NEW whole \in SUBSET FullSpans(t)
  PROVE  \E from : IsMerging(from, whole)
<1> DEFINE Sets == SUBSET whole
           Lists == Seq(Nat \X Nat)
           behind(rest) == {p \in rest : p[1] >= Reach(rest)}
           union(rest) == <<First(rest)[1], Reach(rest)>>
           body(f, rest) == IF rest = {} THEN <<>> ELSE <<union(rest)>> \o f[behind(rest)]
           next == [f \in [Sets -> Lists] |-> [rest \in Sets |-> body(f, rest)]]
           rank == [rest \in Sets |-> IF rest = {} THEN 0 ELSE Len(t) - First(rest)[1]]
<1>1. <<>> \in Lists
  OBVIOUS
<1>2. ASSUME NEW rest \in Sets, rest # {}
      PROVE  /\ behind(rest) \in Sets /\ rank[rest] \in 0 .. Len(t) /\ rank[behind(rest)] < rank[rest]
             /\ <<union(rest)>> \in Lists
  <2>1. PICK m, r, more : m = First(rest)[1] /\ r = Reach(rest) /\ more = behind(rest)
    OBVIOUS
  <2>2. rest \in SUBSET FullSpans(t)
    OBVIOUS
  <2>3. m \in Nat /\ r \in Nat /\ m < r /\ r <= Len(t)
    BY <1>2, <2>1, <2>2, ReachIs
  <2>4. more \in Sets /\ more \in SUBSET Spans(t) /\ \A p \in more : p[1] >= r
    BY <2>1 DEF FullSpans
  <2>5. rank[rest] = Len(t) - m
    BY <1>2, <2>1
  <2>6. rank[more] < Len(t) - m
    <3>1. CASE more = {}
      <4>1. rank[more] = 0
        BY <2>4, <3>1
      <4> QED BY <2>3, <4>1
    <3>2. CASE more # {}
      <4>1. First(more) \in more /\ First(more) \in Spans(t)
        BY <2>4, <3>2, FirstIs
      <4>2. First(more)[1] >= r /\ First(more)[1] \in Nat
        BY <2>4, <4>1, SpanTypes
      <4>3. rank[more] = Len(t) - First(more)[1]
        BY <2>4, <3>2
      <4> QED BY <2>3, <4>2, <4>3
    <3> QED BY <3>1, <3>2
  <2>7. <<union(rest)>> \in Lists
    <3>1. <<m, r>> \in Nat \X Nat
      BY <2>3
    <3> QED BY <2>1, <3>1
  <2> QED BY <2>1, <2>3, <2>4, <2>5, <2>6, <2>7
<1>3. rank \in [Sets -> 0 .. Len(t)]
  <2>1. ASSUME NEW rest \in Sets PROVE rank[rest] \in 0 .. Len(t)
    <3>1. CASE rest = {}
      BY <3>1
    <3>2. CASE rest # {}
      BY <1>2, <3>2
    <3> QED BY <3>1, <3>2
  <2> HIDE DEF Sets
  <2>2. \A rest \in Sets : (IF rest = {} THEN 0 ELSE Len(t) - First(rest)[1]) \in 0 .. Len(t)
    BY <2>1
  <2> QED BY <2>2
<1>4. ASSUME NEW f \in [Sets -> Lists], NEW rest \in Sets PROVE body(f, rest) \in Lists
  <2>1. CASE rest = {}
    BY <1>1, <2>1
  <2>2. CASE rest # {}
    <3>1. f[behind(rest)] \in Lists /\ <<union(rest)>> \in Lists
      BY <1>2, <2>2
    <3>2. <<union(rest)>> \o f[behind(rest)] \in Lists
      <4> HIDE DEF union, behind
      <4> QED BY <3>1, ConcatProperties
    <3> QED BY <2>2, <3>2
  <2> QED BY <2>1, <2>2
<1>5. ASSUME NEW f \in [Sets -> Lists], NEW g \in [Sets -> Lists], NEW rest \in Sets,
             \A e \in Sets : rank[e] < rank[rest] => f[e] = g[e]
      PROVE  next[f][rest] = next[g][rest]
  <2>1. rest # {} => f[behind(rest)] = g[behind(rest)]
    <3> HIDE DEF behind, rank, Sets, Lists
    <3> QED BY <1>2, <1>5
  <2>2. body(f, rest) = body(g, rest)
    <3> HIDE DEF behind, union
    <3> QED BY <2>1
  <2> HIDE DEF body, Sets, Lists
  <2> QED BY <2>2
<1>6. next \in [[Sets -> Lists] -> [Sets -> Lists]]
  <2> HIDE DEF body, Sets, Lists
  <2> QED BY <1>4
<1>7. Recursion(Sets, Lists, Len(t), rank, next)
  <2> HIDE DEF rank, next, Sets, Lists
  <2> QED BY <1>3, <1>5, <1>6 DEF Recursion
<1>8. \E f \in [Sets -> Lists] : f = next[f]
  <2> HIDE DEF rank, next, Sets, Lists
  <2>1. PICK args, res, n, r, h : args = Sets /\ res = Lists /\ n = Len(t) /\ r = rank /\ h = next
    OBVIOUS
  <2>2. Recursion(args, res, n, r, h) /\ <<>> \in res /\ n \in Nat
    BY <1>1, <1>7, <2>1
  <2>3. \E f \in [args -> res] : f = h[f]
    BY <2>2, RecursiveFunction
  <2> QED BY <2>1, <2>3
<1>9. PICK f \in [Sets -> Lists] : f = next[f]
  BY <1>8
<1>10. f = [rest \in Sets |-> body(f, rest)]
  <2> HIDE DEF body, Sets, Lists
  <2> QED BY <1>9
<1> QED BY <1>10 DEF IsMerging

MergedFrom(whole) == CHOOSE from : IsMerging(from, whole)

LEMMA MergedFromIs ==
  ASSUME NEW t, Len(t) \in Nat, NEW whole \in SUBSET FullSpans(t), NEW rest \in SUBSET whole
  PROVE  LET from == MergedFrom(whole)
         IN /\ rest = {} => from[rest] = <<>>
            /\ rest # {} => from[rest] = <<<<First(rest)[1], Reach(rest)>>>>
                                           \o from[{p \in rest : p[1] >= Reach(rest)}]
<1>1. PICK from : from = MergedFrom(whole)
  OBVIOUS
<1>2. IsMerging(from, whole)
  BY <1>1, MergingExists DEF MergedFrom
<1>3. from[rest] = IF rest = {} THEN <<>>
                   ELSE <<<<First(rest)[1], Reach(rest)>>>> \o from[{p \in rest : p[1] >= Reach(rest)}]
  BY <1>2 DEF IsMerging
<1>4. CASE rest = {}
  BY <1>1, <1>3, <1>4
<1>5. CASE rest # {}
  BY <1>1, <1>3, <1>5
<1> QED BY <1>4, <1>5

-----------------------------------------------------------------------------
(***************************************************************************)
(* Offsets in a row, and what replacing a span of them does.               *)
(***************************************************************************)
Marked == Nat \cup {Token}

Row(a, b) == [i \in 1 .. b - a |-> a + i - 1]

LEMMA RowIs ==
  ASSUME NEW a \in Nat, NEW b \in Nat, a <= b
  PROVE  Row(a, b) \in Seq(Marked) /\ Len(Row(a, b)) = b - a
<1>1. b - a \in Nat /\ \A i \in 1 .. b - a : a + i - 1 \in Marked
  BY DEF Marked
<1> QED BY <1>1 DEF Row

LEMMA RowSplits ==
  ASSUME NEW a \in Nat, NEW b \in Nat, NEW c \in Nat, a <= b, b <= c
  PROVE  Makes(Row(a, b), Row(b, c), Row(a, c))
<1>1. PICK x, y, z : x = Row(a, b) /\ y = Row(b, c) /\ z = Row(a, c)
  OBVIOUS
<1>2. x \in Seq(Marked) /\ y \in Seq(Marked) /\ z \in Seq(Marked)
  BY <1>1, RowIs
<1>3. Len(x) = b - a /\ Len(y) = c - b /\ Len(z) = c - a
  <2>1. Len(Row(a, b)) = b - a
    BY RowIs
  <2>2. Len(Row(b, c)) = c - b
    BY RowIs
  <2>3. Len(Row(a, c)) = c - a
    <3>1. a <= c
      OBVIOUS
    <3> QED BY <3>1, RowIs
  <2> QED BY <1>1, <2>1, <2>2, <2>3
<1>4. x \o y \in Seq(Marked) /\ Len(x \o y) = c - a
      /\ \A i \in 1 .. c - a : (x \o y)[i] = IF i <= b - a THEN x[i] ELSE y[i - (b - a)]
  <2>1. PICK w : w = x \o y
    OBVIOUS
  <2>2. w \in Seq(Marked) /\ Len(w) = Len(x) + Len(y)
        /\ \A i \in 1 .. Len(x) + Len(y) : w[i] = IF i <= Len(x) THEN x[i] ELSE y[i - Len(x)]
    BY <1>2, <2>1, ConcatProperties
  <2>3. (b - a) + (c - b) = c - a
    OBVIOUS
  <2> QED BY <1>3, <2>1, <2>2, <2>3
<1>5. ASSUME NEW i \in 1 .. c - a PROVE (x \o y)[i] = z[i]
  <2>1. z[i] = a + i - 1
    BY <1>1 DEF Row
  <2>2. CASE i <= b - a
    <3>1. x[i] = a + i - 1
      BY <1>1, <2>2 DEF Row
    <3> QED BY <1>4, <2>1, <2>2, <3>1
  <2>3. CASE ~(i <= b - a)
    <3>1. i - (b - a) \in 1 .. c - b
      BY <2>3
    <3>2. y[i - (b - a)] = b + (i - (b - a)) - 1
      BY <1>1, <3>1 DEF Row
    <3>3. b + (i - (b - a)) - 1 = a + i - 1
      OBVIOUS
    <3> QED BY <1>4, <2>1, <2>3, <3>2, <3>3
  <2> QED BY <2>2, <2>3
<1>6. x \o y = z
  <2>1. PICK w : w = x \o y
    OBVIOUS
  <2>2. w \in Seq(Marked) /\ Len(w) = Len(z) /\ \A i \in 1 .. Len(w) : w[i] = z[i]
    BY <1>3, <1>4, <1>5, <2>1
  <2>3. w = z
    BY <1>2, <2>2, SeqEqual
  <2> QED BY <2>1, <2>3
<1> QED BY <1>1, <1>6 DEF Makes

LEMMA RowOfOne ==
  ASSUME NEW a \in Nat
  PROVE  Row(a, a + 1) = <<a>> /\ Row(a, a) = <<>>
<1>1. Row(a, a + 1) = <<a>>
  <2>1. (a + 1) - a = 1 /\ \A i \in 1 .. 1 : a + i - 1 = a
    OBVIOUS
  <2>2. Row(a, a + 1) = [i \in 1 .. 1 |-> a]
    BY <2>1 DEF Row
  <2> QED BY <2>2
<1>2. Row(a, a) = <<>>
  <2>1. a - a = 0 /\ 1 .. 0 = {}
    OBVIOUS
  <2>2. Row(a, a) \in Seq(Marked) /\ Len(Row(a, a)) = 0
    BY <2>1, RowIs
  <2> QED BY <2>2, EmptySeq
<1> QED BY <1>1, <1>2

LEMMA Replaces ==
  ASSUME NEW m \in Nat, NEW r \in Nat, m <= r, NEW behind \in Seq(Marked), NEW whole,
         Makes(Row(0, r), behind, whole)
  PROVE  Makes(Row(0, m), <<Token>> \o behind, Replacing(whole, <<m, r>>))
<1>1. PICK head : head = Row(0, r)
  OBVIOUS
<1>2. head \in Seq(Marked) /\ Len(head) = r /\ whole = head \o behind
  BY <1>1, RowIs DEF Makes
<1>3. PICK n \in Nat : n = Len(behind)
  OBVIOUS
<1>4. whole \in Seq(Marked) /\ Len(whole) = r + n
      /\ \A i \in 1 .. r + n : whole[i] = IF i <= r THEN head[i] ELSE behind[i - r]
  BY <1>2, <1>3, ConcatProperties
<1>5. SubSeq(whole, 1, m) = Row(0, m)
  <2>1. PICK x, y : x = SubSeq(whole, 1, m) /\ y = Row(0, m)
    OBVIOUS
  <2>2. \A i \in 1 .. m : whole[i] = head[i] /\ head[i] = i - 1 /\ whole[i] \in Marked
    <3>1. \A i \in 1 .. m : i \in 1 .. r /\ i \in 1 .. r + n
      BY <1>3
    <3>2. \A i \in 1 .. m : whole[i] = head[i]
      BY <1>4, <3>1
    <3>3. \A i \in 1 .. m : head[i] = i - 1
      <4>1. r - 0 = r /\ \A i \in 1 .. m : 0 + i - 1 = i - 1
        OBVIOUS
      <4> QED BY <1>1, <3>1, <4>1 DEF Row
    <3>4. \A i \in 1 .. m : i - 1 \in Marked
      BY DEF Marked
    <3> QED BY <3>2, <3>3, <3>4
  <2>3. 1 \in Int /\ m \in Int /\ \A i \in 1 .. m : whole[i] \in Marked
    BY <2>2
  <2>4. x \in Seq(Marked) /\ Len(x) = (IF 1 <= m THEN m - 1 + 1 ELSE 0)
        /\ \A i \in 1 .. m - 1 + 1 : x[i] = whole[1 + i - 1]
    BY <2>1, <2>3, SubSeqProperties
  <2>5. Len(x) = m /\ \A i \in 1 .. m : x[i] = i - 1
    <3>1. m - 1 + 1 = m /\ \A i \in 1 .. m : 1 + i - 1 = i
      OBVIOUS
    <3> QED BY <2>2, <2>4, <3>1
  <2>6. y \in Seq(Marked) /\ Len(y) = m /\ \A i \in 1 .. m : y[i] = i - 1
    <3>1. m - 0 = m /\ \A i \in 1 .. m : 0 + i - 1 = i - 1
      OBVIOUS
    <3>2. y \in Seq(Marked) /\ Len(y) = m - 0
      BY <2>1, RowIs
    <3> QED BY <2>1, <3>1, <3>2 DEF Row
  <2>7. x = y
    BY <2>4, <2>5, <2>6, SeqEqual
  <2> QED BY <2>1, <2>7
<1>6. SubSeq(whole, r + 1, Len(whole)) = behind
  <2>1. PICK x : x = SubSeq(whole, r + 1, r + n)
    OBVIOUS
  <2>2. \A i \in r + 1 .. r + n : whole[i] \in Marked
    BY <1>3, <1>4
  <2>3. r + 1 \in Int /\ r + n \in Int
    BY <1>3
  <2>4. x \in Seq(Marked) /\ Len(x) = (IF r + 1 <= r + n THEN r + n - (r + 1) + 1 ELSE 0)
        /\ \A i \in 1 .. r + n - (r + 1) + 1 : x[i] = whole[r + 1 + i - 1]
    BY <2>1, <2>2, <2>3, SubSeqProperties
  <2>5. Len(x) = n /\ \A i \in 1 .. n : x[i] = whole[r + i]
    <3>1. r + n - (r + 1) + 1 = n /\ (r + 1 <= r + n <=> n # 0) /\ \A i \in 1 .. n : r + 1 + i - 1 = r + i
      BY <1>3
    <3> QED BY <2>4, <3>1
  <2>6. ASSUME NEW i \in 1 .. n PROVE whole[r + i] = behind[i]
    <3>1. r + i \in 1 .. r + n /\ ~(r + i <= r) /\ (r + i) - r = i
      BY <1>3
    <3> QED BY <1>4, <3>1
  <2>7. x = behind
    BY <1>3, <2>4, <2>5, <2>6, SeqEqual
  <2> QED BY <1>4, <2>1, <2>7
<1>7. Replacing(whole, <<m, r>>) = Row(0, m) \o <<Token>> \o behind
  <2>1. <<m, r>>[1] = m /\ <<m, r>>[2] = r
    OBVIOUS
  <2> QED BY <1>5, <1>6, <2>1 DEF Replacing
<1>8. (Row(0, m) \o <<Token>>) \o behind = Row(0, m) \o (<<Token>> \o behind)
  <2>1. PICK x, one : x = Row(0, m) /\ one = <<Token>>
    OBVIOUS
  <2>2. x \in Seq(Marked) /\ one \in Seq(Marked)
    <3>1. <<Token>> \in Seq(Marked)
      BY DEF Marked
    <3> QED BY <2>1, <3>1, RowIs
  <2>3. (x \o one) \o behind = x \o (one \o behind)
    BY <2>2, ConcatAssociative
  <2> QED BY <2>1, <2>3
<1> QED BY <1>7, <1>8 DEF Makes

-----------------------------------------------------------------------------
(***************************************************************************)
(* The recursive function that Spliced is defined with: there is one for   *)
(* every list of unions, and one only.                                     *)
(***************************************************************************)
IsSplicing(with, t, unions) ==
  with = [k \in 0 .. Len(unions) |->
            IF k = Len(unions) THEN Row(0, Len(t)) ELSE Replacing(with[k + 1], unions[k + 1])]

Splices(with, t, unions) == unions \in Seq(Nat \X Nat) /\ IsSplicing(with, t, unions)

LEMMA SplicingStarts ==
  ASSUME NEW t, Len(t) \in Nat
  PROVE  \E with : Splices(with, t, <<>>) /\ with[0] = Row(0, Len(t))
<1>1. PICK row, with : row = Row(0, Len(t)) /\ with = [k \in 0 .. 0 |-> row]
  OBVIOUS
<1>2. PICK unions : unions = <<>>
  OBVIOUS
<1>3. unions \in Seq(Nat \X Nat) /\ Len(unions) = 0
  BY <1>2
<1>4. \A k \in 0 .. 0 : k = 0
  OBVIOUS
<1>5. with = [k \in 0 .. Len(unions) |->
                IF k = Len(unions) THEN Row(0, Len(t)) ELSE Replacing(with[k + 1], unions[k + 1])]
  BY <1>1, <1>3, <1>4
<1> QED BY <1>1, <1>2, <1>3, <1>5 DEF Splices, IsSplicing

LEMMA SplicingGoesOn ==
  ASSUME NEW t, Len(t) \in Nat, NEW unions, NEW with, Splices(with, t, unions), NEW u \in Nat \X Nat
  PROVE  \E more : Splices(more, t, <<u>> \o unions) /\ more[0] = Replacing(with[0], u)
<1>1. PICK n \in Nat : n = Len(unions)
  BY DEF Splices
<1>2. PICK series : series = <<u>> \o unions
  OBVIOUS
<1>3. series \in Seq(Nat \X Nat) /\ Len(series) = n + 1 /\ series[1] = u /\ \A i \in 2 .. n + 1 : series[i] = unions[i - 1]
  <2>1. PICK one, all : one = <<u>> /\ all = Nat \X Nat
    OBVIOUS
  <2>2. one \in Seq(all) /\ Len(one) = 1 /\ one[1] = u
    BY <2>1
  <2>3. unions \in Seq(all) /\ series = one \o unions
    BY <1>2, <2>1 DEF Splices
  <2>4. /\ series \in Seq(all) /\ Len(series) = Len(one) + Len(unions)
        /\ \A i \in 1 .. Len(one) + Len(unions) : series[i] = IF i <= Len(one) THEN one[i] ELSE unions[i - Len(one)]
    BY <2>2, <2>3, ConcatProperties
  <2>5. Len(one) + Len(unions) = n + 1
    BY <1>1, <2>2
  <2>6. \A i \in 1 .. n + 1 : series[i] = IF i <= 1 THEN one[i] ELSE unions[i - 1]
    BY <2>2, <2>4, <2>5
  <2>7. series[1] = u
    <3>1. 1 \in 1 .. n + 1 /\ 1 <= 1
      OBVIOUS
    <3> QED BY <2>2, <2>6, <3>1
  <2>8. \A i \in 2 .. n + 1 : series[i] = unions[i - 1]
    <3>1. \A i \in 2 .. n + 1 : i \in 1 .. n + 1 /\ ~(i <= 1)
      OBVIOUS
    <3> QED BY <2>6, <3>1
  <2> QED BY <2>1, <2>4, <2>5, <2>7, <2>8
<1>4. PICK more : more = [k \in 0 .. n + 1 |-> IF k = 0 THEN Replacing(with[0], u) ELSE with[k - 1]]
  OBVIOUS
<1>5. \A k \in 0 .. n : with[k] = IF k = n THEN Row(0, Len(t)) ELSE Replacing(with[k + 1], unions[k + 1])
  BY <1>1 DEF Splices, IsSplicing
<1>6. ASSUME NEW k \in 0 .. n + 1
      PROVE  (IF k = 0 THEN Replacing(with[0], u) ELSE with[k - 1])
               = IF k = n + 1 THEN Row(0, Len(t)) ELSE Replacing(more[k + 1], series[k + 1])
  <2>1. CASE k = 0
    <3>1. more[k + 1] = with[0]
      <4>1. 1 \in 0 .. n + 1 /\ 1 # 0 /\ 1 - 1 = 0 /\ k + 1 = 1
        BY <2>1
      <4> QED BY <1>4, <4>1
    <3>2. series[k + 1] = u /\ k # n + 1
      BY <1>3, <2>1
    <3> QED BY <2>1, <3>1, <3>2
  <2>2. CASE k = n + 1
    <3>1. k # 0 /\ k - 1 = n /\ n \in 0 .. n
      BY <2>2
    <3>2. with[n] = Row(0, Len(t))
      BY <1>5, <3>1
    <3> QED BY <2>2, <3>1, <3>2
  <2>3. CASE k # 0 /\ k # n + 1
    <3>1. k - 1 \in 0 .. n /\ k - 1 # n /\ (k - 1) + 1 = k /\ k + 1 \in 2 .. n + 1 /\ k + 1 # 0 /\ (k + 1) - 1 = k
      BY <2>3
    <3>2. with[k - 1] = Replacing(with[k], unions[k])
      BY <1>5, <3>1
    <3>3. more[k + 1] = with[k]
      BY <1>4, <3>1
    <3>4. series[k + 1] = unions[k]
      BY <1>3, <3>1
    <3> QED BY <2>3, <3>2, <3>3, <3>4
  <2> QED BY <2>1, <2>2, <2>3
<1>7. more = [k \in 0 .. n + 1 |-> IF k = n + 1 THEN Row(0, Len(t)) ELSE Replacing(more[k + 1], series[k + 1])]
  BY <1>4, <1>6
<1>8. Splices(more, t, series)
  BY <1>3, <1>7 DEF Splices, IsSplicing
<1>9. more[0] = Replacing(with[0], u)
  BY <1>4
<1> QED BY <1>2, <1>8, <1>9

LEMMA SplicedIs ==
  ASSUME NEW t, t \in Seq({t[i] : i \in DOMAIN t}), NEW unions, NEW with, Splices(with, t, unions)
  PROVE  Spliced(t, unions) = with[0]
<1>1. PICK n \in Nat : n = Len(unions)
  BY DEF Splices
<1>2. Row(0, Len(t)) = [i \in 1 .. Len(t) |-> i - 1]
  <2>1. Len(t) \in Nat /\ Len(t) - 0 = Len(t) /\ \A i \in 1 .. Len(t) : 0 + i - 1 = i - 1
    OBVIOUS
  <2> QED BY <2>1 DEF Row
<1>3. PICK first : first = CHOOSE f : IsSplicing(f, t, unions)
  OBVIOUS
<1>4. Spliced(t, unions) = first[0]
  BY <1>2, <1>3 DEF Spliced, IsSplicing
<1>5. IsSplicing(first, t, unions)
  BY <1>3 DEF Splices
<1>6. \A k \in 0 .. n : first[k] = IF k = n THEN Row(0, Len(t)) ELSE Replacing(first[k + 1], unions[k + 1])
  BY <1>1, <1>5 DEF IsSplicing
<1>7. \A k \in 0 .. n : with[k] = IF k = n THEN Row(0, Len(t)) ELSE Replacing(with[k + 1], unions[k + 1])
  BY <1>1 DEF Splices, IsSplicing
<1> DEFINE P == {k \in 0 .. n : first[k] = with[k]}
<1>8. n \in P
  BY <1>6, <1>7
<1>9. ASSUME NEW k \in 0 .. n - 1, \A j \in k + 1 .. n : j \in P PROVE k \in P
  <2>1. k \in 0 .. n /\ k # n /\ k + 1 \in k + 1 .. n
    OBVIOUS
  <2>2. first[k + 1] = with[k + 1]
    BY <1>9, <2>1
  <2>3. first[k] = with[k]
    BY <1>6, <1>7, <2>1, <2>2
  <2> QED BY <2>1, <2>3
<1>10. P \in SUBSET (0 .. n)
  OBVIOUS
<1>11. 0 \in P
  <2> HIDE DEF P
  <2>1. 0 \in 0 .. n
    OBVIOUS
  <2> QED BY <1>8, <1>9, <1>10, <2>1, DownToInduction
<1> QED BY <1>4, <1>11

-----------------------------------------------------------------------------
(***************************************************************************)
(* What the redacted text should be, offset by offset.                     *)
(***************************************************************************)
LEMMA LeavesAre ==
  ASSUME NEW o \in Nat
  PROVE  Remains(o) \in Seq(Marked)
<1>1. <<o>> \in Seq(Marked) /\ <<Token>> \in Seq(Marked) /\ <<>> \in Seq(Marked)
  BY DEF Marked
<1> QED BY <1>1, Zenon DEF Remains

Left(n) == [i \in 1 .. n |-> Remains(i - 1)]

LEMMA ExpectedJoins ==
  ASSUME Len(text) \in Nat
  PROVE  \E h : Joins(h, Left(Len(text)), Len(text)) /\ Expected = h[Len(text)]
<1>1. PICK n \in Nat : n = Len(text)
  OBVIOUS
<1>2. Typed(Left(n), n, Marked)
  <2>1. \A i \in 1 .. n : Remains(i - 1) \in Seq(Marked)
    BY LeavesAre
  <2> QED BY <2>1 DEF Left, Typed
<1>3. Joins(Joined(Left(n), n), Left(n), n)
  BY <1>2, JoinedJoins
<1>4. Joined(Left(n), n)
        = CHOOSE h : h = [o \in 0 .. n |-> IF o = 0 THEN <<>> ELSE h[o - 1] \o Remains(o - 1)]
  <2>1. \A h : [o \in 0 .. n |-> IF o = 0 THEN <<>> ELSE h[o - 1] \o Left(n)[o]]
                 = [o \in 0 .. n |-> IF o = 0 THEN <<>> ELSE h[o - 1] \o Remains(o - 1)]
    BY DEF Left
  <2> QED BY <2>1 DEF Joined, StepByStep
<1>5. Expected = Joined(Left(n), n)[n]
  BY <1>1, <1>4 DEF Expected
<1> QED BY <1>1, <1>3, <1>5

Leaving(h, n) == Joins(h, Left(n), n)

LEMMA LeavingIs ==
  ASSUME NEW n \in Nat, NEW h, Leaving(h, n)
  PROVE  /\ \A o \in 0 .. n : h[o] \in Seq(Marked)
         /\ \A o \in 0 .. n - 1 : Makes(h[o], Remains(o), h[o + 1])
<1>1. \A i \in 1 .. n : Left(n)[i] \in Seq(Marked)
  BY LeavesAre DEF Left
<1>2. \A o \in 0 .. n : h[o] \in Seq(Marked)
  BY <1>1, JoinTypes DEF Leaving
<1>3. ASSUME NEW o \in 0 .. n - 1 PROVE h[o + 1] = h[o] \o Remains(o)
  <2>1. o + 1 \in 1 .. n /\ (o + 1) - 1 = o
    OBVIOUS
  <2>2. h[o + 1] = h[(o + 1) - 1] \o Left(n)[o + 1]
    BY <2>1 DEF Leaving, Joins
  <2>3. Left(n)[o + 1] = Remains(o)
    BY <2>1 DEF Left
  <2> QED BY <2>1, <2>2, <2>3
<1> QED BY <1>2, <1>3 DEF Makes

LEMMA ClearStretch ==
  ASSUME NEW n \in Nat, NEW h, Leaving(h, n), NEW a \in 0 .. n, NEW b \in a .. n,
         \A o \in a .. b - 1 : Remains(o) = <<o>>
  PROVE  Makes(h[a], Row(a, b), h[b])
<1> DEFINE P == {k \in 0 .. b - a : Makes(h[a], Row(a, a + k), h[a + k])}
<1>1. a \in Nat /\ b \in Nat /\ b - a \in Nat /\ h[a] \in Seq(Marked)
  BY LeavingIs
<1>2. 0 \in P
  <2>1. a + 0 = a /\ 0 \in 0 .. b - a
    BY <1>1
  <2>2. h[a] \o <<>> = h[a]
    BY <1>1, ConcatEmptySeq
  <2>3. Makes(h[a], Row(a, a), h[a])
    BY <1>1, <2>2, RowOfOne DEF Makes
  <2> QED BY <2>1, <2>3
<1>3. ASSUME NEW k \in 1 .. b - a, k - 1 \in P PROVE k \in P
  <2>1. PICK o : o = a + (k - 1)
    OBVIOUS
  <2>2. o \in a .. b - 1 /\ o \in 0 .. n - 1 /\ o \in Nat /\ o + 1 = a + k /\ a <= o
    BY <1>1, <2>1
  <2>3. Makes(h[a], Row(a, o), h[o])
    BY <1>3, <2>1
  <2>4. Makes(h[o], <<o>>, h[o + 1])
    BY <2>2, LeavingIs
  <2>5. Makes(Row(a, o), <<o>>, Row(a, o + 1))
    <3>1. Makes(Row(a, o), Row(o, o + 1), Row(a, o + 1))
      BY <1>1, <2>2, RowSplits
    <3> QED BY <2>2, <3>1, RowOfOne
  <2>6. PICK x, y, z : x = h[a] /\ y = Row(a, o) /\ z = <<o>>
    OBVIOUS
  <2>7. x \in Seq(Marked) /\ y \in Seq(Marked) /\ z \in Seq(Marked)
    <3>1. o \in Marked
      BY <2>2 DEF Marked
    <3>2. Row(a, o) \in Seq(Marked)
      BY <1>1, <2>2, RowIs
    <3> QED BY <1>1, <2>6, <3>1, <3>2
  <2>8. (x \o y) \o z = x \o (y \o z)
    BY <2>7, ConcatAssociative
  <2>9. Makes(h[a], Row(a, o + 1), h[o + 1])
    BY <2>3, <2>4, <2>5, <2>6, <2>8 DEF Makes
  <2> QED BY <2>2, <2>9
<1>4. P \in SUBSET (0 .. b - a)
  OBVIOUS
<1>5. b - a \in P
  <2> HIDE DEF P
  <2>1. b - a \in 0 .. b - a
    BY <1>1
  <2> QED BY <1>1, <1>2, <1>3, <1>4, <2>1, UpToInduction
<1>6. a + (b - a) = b
  BY <1>1
<1> QED BY <1>5, <1>6

LEMMA GoneStretch ==
  ASSUME NEW n \in Nat, NEW h, Leaving(h, n), NEW a \in 0 .. n, NEW b \in a .. n,
         \A o \in a .. b - 1 : Remains(o) = <<>>
  PROVE  h[b] = h[a]
<1> DEFINE P == {k \in 0 .. b - a : h[a + k] = h[a]}
<1>1. a \in Nat /\ b \in Nat /\ b - a \in Nat
  OBVIOUS
<1>2. 0 \in P
  BY <1>1
<1>3. ASSUME NEW k \in 1 .. b - a, k - 1 \in P PROVE k \in P
  <2>1. PICK o : o = a + (k - 1)
    OBVIOUS
  <2>2. o \in a .. b - 1 /\ o \in 0 .. n - 1 /\ o \in 0 .. n /\ o + 1 = a + k
    BY <1>1, <2>1
  <2>3. h[o] = h[a]
    BY <1>3, <2>1
  <2>4. h[o + 1] = h[o] \o <<>>
    BY <2>2, LeavingIs DEF Makes
  <2>5. h[o] \in Seq(Marked)
    BY <2>2, LeavingIs
  <2>6. h[o] \o <<>> = h[o]
    BY <2>5, ConcatEmptySeq
  <2> QED BY <2>2, <2>3, <2>4, <2>6
<1>4. P \in SUBSET (0 .. b - a)
  OBVIOUS
<1>5. b - a \in P
  <2> HIDE DEF P
  <2>1. b - a \in 0 .. b - a
    BY <1>1
  <2> QED BY <1>1, <1>2, <1>3, <1>4, <2>1, UpToInduction
<1>6. a + (b - a) = b
  BY <1>1
<1> QED BY <1>5, <1>6

(***************************************************************************)
(* From k on the unions in series cut exactly what the spans cover.        *)
(***************************************************************************)
CutsFrom(series, h, n, k, t) ==
  \E with, behind : /\ behind \in Seq(Marked) /\ Splices(with, t, series)
                    /\ Makes(Row(0, k), behind, with[0]) /\ Makes(h[k], behind, h[n])

Uncrossed(k, whole) == \A p \in whole : p[1] < k => p[2] <= k

LEMMA LeavesAt ==
  ASSUME NEW o \in Nat, found \subseteq Spans(text), Len(text) \in Nat
  PROVE  /\ (\A p \in NotEmpty(found) : ~In(o, p)) => Remains(o) = <<o>>
         /\ (\E p \in NotEmpty(found) : p[1] < o /\ o < p[2]) => Remains(o) = <<>>
         /\ (\E p \in NotEmpty(found) : p[1] = o) /\ (\A p \in NotEmpty(found) : p[1] < o => p[2] <= o)
              => Remains(o) = <<Token>>
<1>1. \A p \in found : p[1] \in Nat /\ p[2] \in Nat
  BY SpanTypes
<1>2. \A p \in found : In(o, p) => p \in NotEmpty(found)
  BY <1>1 DEF In, NotEmpty
<1>3. \A p \in NotEmpty(found) : p \in found /\ p[1] < p[2] /\ p[1] \in Nat /\ p[2] \in Nat
  BY <1>1 DEF NotEmpty
<1>4. ASSUME \A p \in NotEmpty(found) : ~In(o, p) PROVE Remains(o) = <<o>>
  <2>1. ~Covered(o)
    BY <1>2, <1>4 DEF Covered
  <2> QED BY <2>1 DEF Remains
<1>5. ASSUME NEW p \in NotEmpty(found), p[1] < o, o < p[2] PROVE Remains(o) = <<>>
  <2>1. In(o, p) /\ p \in found
    BY <1>3, <1>5 DEF In
  <2>2. Covered(o) /\ ~Opens(o)
    BY <1>5, <2>1 DEF Covered, Opens
  <2> QED BY <2>2 DEF Remains
<1>6. ASSUME NEW p \in NotEmpty(found), p[1] = o, \A q \in NotEmpty(found) : q[1] < o => q[2] <= o
      PROVE  Remains(o) = <<Token>>
  <2>1. In(o, p) /\ p \in found
    BY <1>3, <1>6 DEF In
  <2>2. \A q \in found : ~(In(o, q) /\ q[1] < o)
    <3>1. ASSUME NEW q \in found, In(o, q), q[1] < o PROVE FALSE
      <4>1. q \in NotEmpty(found)
        BY <1>2, <3>1
      <4>2. q[2] <= o /\ o < q[2]
        BY <1>6, <3>1, <4>1 DEF In
      <4> QED BY <1>1, <4>2
    <3> QED BY <3>1
  <2>3. Covered(o) /\ Opens(o)
    BY <2>1, <2>2 DEF Covered, Opens
  <2> QED BY <2>3 DEF Remains
<1> QED BY <1>4, <1>5, <1>6

(***************************************************************************)
(* No span goes across k, none begins at k or later: nothing is cut.       *)
(***************************************************************************)
LEMMA NothingCut ==
  ASSUME Len(text) \in Nat, found \subseteq Spans(text), NEW h, Leaving(h, Len(text)),
         NEW k \in 0 .. Len(text), Uncrossed(k, NotEmpty(found)), \A p \in NotEmpty(found) : ~(p[1] >= k)
  PROVE  CutsFrom(<<>>, h, Len(text), k, text)
<1>1. PICK n : n = Len(text)
  OBVIOUS
<1>2. n \in Nat /\ Leaving(h, n) /\ k \in 0 .. n /\ k \in Nat /\ k <= n
  BY <1>1
<1>3. ASSUME NEW o \in k .. n - 1 PROVE Remains(o) = <<o>>
  <2>1. o \in Nat
    BY <1>2
  <2>2. \A p \in NotEmpty(found) : p[1] \in Nat /\ p[2] \in Nat
    BY SpanTypes DEF NotEmpty
  <2>3. \A p \in NotEmpty(found) : ~In(o, p)
    BY <1>2, <2>1, <2>2 DEF In, Uncrossed
  <2> QED BY <2>1, <2>3, LeavesAt
<1>4. Makes(h[k], Row(k, n), h[n])
  <2>1. n \in k .. n
    BY <1>2
  <2> QED BY <1>2, <1>3, <2>1, ClearStretch
<1>5. PICK with : Splices(with, text, <<>>) /\ with[0] = Row(0, n)
  BY <1>1, SplicingStarts
<1>6. Makes(Row(0, k), Row(k, n), Row(0, n))
  BY <1>2, RowSplits
<1>7. Row(k, n) \in Seq(Marked)
  BY <1>2, RowIs
<1> QED BY <1>1, <1>4, <1>5, <1>6, <1>7 DEF CutsFrom

(***************************************************************************)
(* No span goes across k, and the first to begin there or later does at m, *)
(* those it is held together with end at r: one more union is cut.         *)
(***************************************************************************)
IsUnion(m, r, k) ==
  /\ m \in Nat /\ r \in Nat /\ k <= m /\ m < r /\ r <= Len(text)
  /\ \E p \in NotEmpty(found) : p[1] = m
  /\ \A p \in NotEmpty(found) : p[1] < m => p[2] <= k
  /\ \A o \in m + 1 .. r - 1 : \E p \in NotEmpty(found) : p[1] < o /\ o < p[2]

LEMMA UnionCut ==
  ASSUME Len(text) \in Nat, found \subseteq Spans(text), NEW h, Leaving(h, Len(text)),
         NEW k \in 0 .. Len(text), NEW m, NEW r, IsUnion(m, r, k),
         NEW series, CutsFrom(series, h, Len(text), r, text)
  PROVE  CutsFrom(<<<<m, r>>>> \o series, h, Len(text), k, text)
<1>1. PICK n : n = Len(text)
  OBVIOUS
<1>2. /\ n \in Nat /\ Leaving(h, n) /\ k \in 0 .. n /\ k \in Nat
      /\ m \in Nat /\ r \in Nat /\ k <= m /\ m < r /\ r <= n
  BY <1>1 DEF IsUnion
<1>3. m \in 0 .. n /\ r \in 0 .. n /\ m \in k .. n /\ m + 1 \in 0 .. n /\ r \in m + 1 .. n /\ m \in 0 .. n - 1
  BY <1>2
<1>4. \A p \in NotEmpty(found) : p[1] \in Nat /\ p[2] \in Nat
  BY SpanTypes DEF NotEmpty
<1>5. \A p \in NotEmpty(found) : p[1] < m => p[2] <= k
  BY DEF IsUnion
<1>6. ASSUME NEW o \in k .. m - 1 PROVE Remains(o) = <<o>>
  <2>1. o \in Nat
    BY <1>2
  <2>2. \A p \in NotEmpty(found) : ~In(o, p)
    BY <1>2, <1>4, <1>5, <2>1 DEF In
  <2> QED BY <2>1, <2>2, LeavesAt
<1>7. Remains(m) = <<Token>>
  <2>1. \E p \in NotEmpty(found) : p[1] = m
    BY DEF IsUnion
  <2>2. \A p \in NotEmpty(found) : p[1] < m => p[2] <= m
    BY <1>2, <1>4, <1>5
  <2> QED BY <1>2, <2>1, <2>2, LeavesAt
<1>8. ASSUME NEW o \in m + 1 .. r - 1 PROVE Remains(o) = <<>>
  <2>1. \E p \in NotEmpty(found) : p[1] < o /\ o < p[2]
    BY DEF IsUnion
  <2>2. o \in Nat
    BY <1>2
  <2> QED BY <2>1, <2>2, LeavesAt
<1>9. Makes(h[k], Row(k, m), h[m])
  BY <1>2, <1>3, <1>6, ClearStretch
<1>10. Makes(h[m], <<Token>>, h[m + 1])
  BY <1>2, <1>3, <1>7, LeavingIs
<1>11. h[r] = h[m + 1]
  BY <1>2, <1>3, <1>8, GoneStretch
<1>12. PICK with, behind : /\ behind \in Seq(Marked) /\ Splices(with, text, series)
                           /\ Makes(Row(0, r), behind, with[0]) /\ Makes(h[r], behind, h[n])
  BY <1>1 DEF CutsFrom
<1>13. PICK u : u = <<m, r>>
  OBVIOUS
<1>14. u \in Nat \X Nat
  BY <1>2, <1>13
<1>15. PICK more : Splices(more, text, <<u>> \o series) /\ more[0] = Replacing(with[0], u)
  BY <1>12, <1>14, SplicingGoesOn
<1>16. PICK later : later = <<Token>> \o behind
  OBVIOUS
<1>17. Makes(Row(0, m), later, more[0])
  <2>1. m <= r
    BY <1>2
  <2>2. Makes(Row(0, m), <<Token>> \o behind, Replacing(with[0], <<m, r>>))
    BY <1>2, <1>12, <2>1, Replaces
  <2> QED BY <1>13, <1>15, <1>16, <2>2
<1>18. PICK x, y, one : x = Row(0, k) /\ y = Row(k, m) /\ one = <<Token>>
  OBVIOUS
<1>19. x \in Seq(Marked) /\ y \in Seq(Marked) /\ one \in Seq(Marked)
  <2>1. x \in Seq(Marked)
    BY <1>2, <1>18, RowIs
  <2>2. y \in Seq(Marked)
    BY <1>2, <1>18, RowIs
  <2>3. one \in Seq(Marked)
    BY <1>18 DEF Marked
  <2> QED BY <2>1, <2>2, <2>3
<1>20. later \in Seq(Marked) /\ y \o later \in Seq(Marked)
  <2>1. later \in Seq(Marked)
    BY <1>12, <1>16, <1>18, <1>19, ConcatProperties
  <2> QED BY <1>19, <2>1, ConcatProperties
<1>21. Makes(Row(0, k), y \o later, more[0])
  <2>1. Makes(Row(0, k), Row(k, m), Row(0, m))
    BY <1>2, RowSplits
  <2>2. x \in Seq(Marked) /\ y \in Seq(Marked) /\ later \in Seq(Marked)
    BY <1>19, <1>20
  <2>3. (x \o y) \o later = x \o (y \o later)
    BY <2>2, ConcatAssociative
  <2> QED BY <1>17, <1>18, <2>1, <2>3 DEF Makes
<1>22. Makes(h[k], y \o later, h[n])
  <2>1. PICK at : at = h[k]
    OBVIOUS
  <2>2. at \in Seq(Marked)
    BY <1>2, <2>1, LeavingIs
  <2>3. h[n] = ((at \o y) \o one) \o behind
    BY <1>9, <1>10, <1>11, <1>12, <1>18, <2>1 DEF Makes
  <2>4. at \o y \in Seq(Marked)
    BY <1>19, <2>2, ConcatProperties
  <2>5. ((at \o y) \o one) \o behind = (at \o y) \o later
    BY <1>12, <1>16, <1>18, <1>19, <2>4, ConcatAssociative
  <2>6. (at \o y) \o later = at \o (y \o later)
    <3>1. at \in Seq(Marked) /\ y \in Seq(Marked) /\ later \in Seq(Marked)
      BY <1>19, <1>20, <2>2
    <3> QED BY <3>1, ConcatAssociative
  <2> QED BY <2>1, <2>3, <2>5, <2>6 DEF Makes
<1> QED BY <1>1, <1>13, <1>15, <1>20, <1>21, <1>22 DEF CutsFrom

LEMMA MergedCuts ==
  ASSUME Len(text) \in Nat, found \subseteq Spans(text), NEW h, Leaving(h, Len(text))
  PROVE  CutsFrom(Merged(found), h, Len(text), 0, text)
<1> DEFINE n == Len(text)
           whole == NotEmpty(found)
           from == MergedFrom(whole)
           rest(k) == {p \in whole : p[1] >= k}
           P == {k \in 0 .. n : Uncrossed(k, whole) => CutsFrom(from[rest(k)], h, n, k, text)}
<1>1. whole \in SUBSET FullSpans(text) /\ \A p \in whole : p[1] \in Nat /\ p[2] \in Nat /\ p[1] < p[2]
  <2>1. \A p \in found : p[1] \in Nat /\ p[2] \in Nat
    BY SpanTypes
  <2> QED BY <2>1 DEF NotEmpty, FullSpans
<1>2. ASSUME NEW k \in 0 .. n, \A j \in k + 1 .. n : j \in P PROVE k \in P
  <2>1. SUFFICES ASSUME Uncrossed(k, whole) PROVE CutsFrom(from[rest(k)], h, n, k, text)
    OBVIOUS
  <2>2. PICK some : some = rest(k)
    OBVIOUS
  <2>3. some \in SUBSET whole /\ some \in SUBSET FullSpans(text)
    BY <1>1, <2>2
  <2>4. CASE some = {}
    <3>1. from[some] = <<>>
      BY <1>1, <2>3, <2>4, MergedFromIs
    <3>2. \A p \in whole : ~(p[1] >= k)
      BY <2>2, <2>4
    <3>3. CutsFrom(<<>>, h, n, k, text)
      BY <2>1, <3>2, NothingCut
    <3> QED BY <2>2, <3>1, <3>3
  <2>5. CASE some # {}
    <3>1. PICK p0, m, r : p0 = First(some) /\ m = p0[1] /\ r = Reach(some)
      OBVIOUS
    <3>2. from[some] = <<<<m, r>>>> \o from[{p \in some : p[1] >= r}]
      BY <1>1, <2>3, <2>5, <3>1, MergedFromIs
    <3>3. /\ m \in Nat /\ r \in Nat /\ m < r /\ r <= n
          /\ \A p \in some : p[1] < r => p[2] <= r
          /\ \A o \in m + 1 .. r - 1 : \E p \in some : p[1] < o /\ o < p[2]
      BY <2>3, <2>5, <3>1, ReachIs
    <3>4. p0 \in some /\ \A q \in some : m <= q[1]
      <4>1. some \in SUBSET Spans(text)
        BY <2>3 DEF FullSpans
      <4> QED BY <2>5, <3>1, <4>1, FirstIs
    <3>5. k \in Nat /\ k <= m /\ r \in k + 1 .. n
      BY <2>2, <3>1, <3>3, <3>4
    <3>6. {p \in some : p[1] >= r} = rest(r)
      <4>1. \A p \in whole : p[1] >= r => p[1] >= k
        BY <1>1, <3>3, <3>5
      <4> QED BY <2>2, <4>1
    <3>7. Uncrossed(r, whole)
      <4>1. ASSUME NEW p \in whole, p[1] < r PROVE p[2] <= r
        <5>1. CASE p[1] < k
          BY <1>1, <2>1, <3>3, <3>5, <5>1 DEF Uncrossed
        <5>2. CASE ~(p[1] < k)
          <6>1. p \in some
            BY <1>1, <2>2, <3>5, <5>2
          <6> QED BY <3>3, <4>1, <6>1
        <5> QED BY <5>1, <5>2
      <4> QED BY <4>1 DEF Uncrossed
    <3>8. CutsFrom(from[rest(r)], h, n, r, text)
      BY <1>2, <3>5, <3>7
    <3>9. IsUnion(m, r, k)
      <4>1. \A p \in whole : p[1] < m => p[2] <= k
        <5>1. \A p \in whole : p[1] < m => p[1] < k
          BY <1>1, <2>2, <3>3, <3>4, <3>5
        <5> QED BY <2>1, <5>1 DEF Uncrossed
      <4>2. \E p \in whole : p[1] = m
        BY <2>3, <3>1, <3>4
      <4>3. \A o \in m + 1 .. r - 1 : \E p \in whole : p[1] < o /\ o < p[2]
        BY <2>3, <3>3
      <4> QED BY <3>3, <3>5, <4>1, <4>2, <4>3 DEF IsUnion
    <3>10. PICK series : series = from[rest(r)]
      OBVIOUS
    <3>11. CutsFrom(<<<<m, r>>>> \o series, h, n, k, text)
      <4>1. CutsFrom(series, h, Len(text), r, text)
        BY <3>8, <3>10
      <4> QED BY <3>9, <4>1, UnionCut
    <3> QED BY <2>2, <3>2, <3>6, <3>10, <3>11
  <2> QED BY <2>4, <2>5
<1>3. P \in SUBSET (0 .. n) /\ n \in Nat
  OBVIOUS
<1>4. 0 \in P
  <2> HIDE DEF P, n
  <2>1. n \in P
    <3>1. n \in 0 .. n /\ \A j \in n + 1 .. n : FALSE
      BY <1>3
    <3> QED BY <1>2, <3>1
  <2>2. \A k \in 0 .. n - 1 : (\A j \in k + 1 .. n : j \in P) => k \in P
    <3>1. \A k \in 0 .. n - 1 : k \in 0 .. n
      BY <1>3
    <3> QED BY <1>2, <3>1
  <2>3. 0 \in 0 .. n
    BY <1>3
  <2> QED BY <1>3, <2>1, <2>2, <2>3, DownToInduction
<1>5. Uncrossed(0, whole)
  BY <1>1 DEF Uncrossed
<1>6. rest(0) = whole
  BY <1>1
<1>7. Merged(found) = from[whole]
  BY DEF Merged, MergedFrom, IsMerging
<1> QED BY <1>4, <1>5, <1>6, <1>7

LEMMA SplicedIsExpected ==
  ASSUME text \in Seq({text[i] : i \in DOMAIN text}), found \subseteq Spans(text)
  PROVE  Spliced(text, Merged(found)) = Expected
<1>1. PICK n : n = Len(text)
  OBVIOUS
<1>2. n \in Nat
  BY <1>1
<1>3. PICK h : Joins(h, Left(n), n) /\ Expected = h[n]
  BY <1>1, <1>2, ExpectedJoins
<1>4. Leaving(h, n)
  BY <1>3 DEF Leaving
<1>5. CutsFrom(Merged(found), h, n, 0, text)
  BY <1>1, <1>2, <1>4, MergedCuts
<1>6. PICK with, behind : /\ behind \in Seq(Marked) /\ Splices(with, text, Merged(found))
                          /\ Makes(Row(0, 0), behind, with[0]) /\ Makes(h[0], behind, h[n])
  BY <1>5 DEF CutsFrom
<1>7. Row(0, 0) = <<>> /\ h[0] = <<>>
  BY <1>3, RowOfOne DEF Joins
<1>8. with[0] = h[n]
  BY <1>6, <1>7 DEF Makes
<1>9. Spliced(text, Merged(found)) = with[0]
  BY <1>6, SplicedIs
<1> QED BY <1>3, <1>8, <1>9

-----------------------------------------------------------------------------
(***************************************************************************)
(* What is left of a text: tokens and offsets that no span covers.         *)
(***************************************************************************)
Spared == {Token} \cup {o \in Offsets(text) : ~Covered(o)}

LEMMA ExpectedIsClear ==
  ASSUME Len(text) \in Nat
  PROVE  Expected \in Seq(Spared)
<1>1. PICK n \in Nat : n = Len(text)
  OBVIOUS
<1>2. PICK h : Joins(h, Left(n), n) /\ Expected = h[n]
  BY <1>1, ExpectedJoins
<1>3. ASSUME NEW i \in 1 .. n PROVE Left(n)[i] \in Seq(Spared)
  <2>1. PICK o : o = i - 1
    OBVIOUS
  <2>2. o \in Offsets(text) /\ Left(n)[i] = Remains(o)
    BY <1>1, <2>1 DEF Offsets, Left
  <2>3. <<>> \in Seq(Spared) /\ <<Token>> \in Seq(Spared)
    BY DEF Spared
  <2>4. CASE Covered(o)
    <3>1. Remains(o) = <<Token>> \/ Remains(o) = <<>>
      BY <2>4 DEF Remains
    <3> QED BY <2>2, <2>3, <3>1
  <2>5. CASE ~Covered(o)
    <3>1. o \in Spared
      BY <2>2, <2>5 DEF Spared
    <3>2. Remains(o) = <<o>>
      BY <2>5 DEF Remains
    <3> QED BY <2>2, <3>1, <3>2
  <2> QED BY <2>4, <2>5
<1>4. h[n] \in Seq(Spared)
  <2>1. \A i \in 0 .. n : h[i] \in Seq(Spared)
    BY <1>2, <1>3, JoinTypes
  <2> QED BY <2>1
<1> QED BY <1>2, <1>4

(***************************************************************************)
(* A value whose occurrences are all covered is not left in the clear.     *)
(***************************************************************************)
LEMMA CoveredIsNotClear ==
  ASSUME Len(text) \in Nat, kept \in Seq(Spared), NEW value, Len(value) \in Nat, Len(value) >= 1,
         Occurrences(text, value) \subseteq found, NEW k \in DOMAIN kept, InClear(value, k)
  PROVE  FALSE
<1>1. PICK n, m : n = Len(value) /\ m = Len(text)
  OBVIOUS
<1>2. n \in Nat /\ n >= 1 /\ m \in Nat
  BY <1>1
<1>3. k \in 1 .. Len(kept) /\ Len(kept) \in Nat /\ \A j \in 1 .. Len(kept) : kept[j] \in Spared
  BY ElementOfSeq, LenProperties
<1>4. k + n <= Len(kept) + 1 /\ \A i \in 1 .. n : kept[k + i - 1] # Token /\ kept[k + i - 1] = kept[k] + i - 1
  BY <1>1 DEF InClear
<1>5. k + 1 - 1 = k /\ k + n - 1 \in 1 .. Len(kept) /\ 1 \in 1 .. n /\ n \in 1 .. n
  BY <1>2, <1>3, <1>4
<1>6. PICK o : o = kept[k]
  OBVIOUS
<1>7. o \in Offsets(text) /\ ~Covered(o)
  <2>1. o # Token /\ o \in Spared
    BY <1>3, <1>4, <1>5, <1>6
  <2> QED BY <2>1 DEF Spared
<1>8. o \in Nat
  BY <1>7 DEF Offsets
<1>9. o + n - 1 \in Offsets(text)
  <2>1. kept[k + n - 1] \in Spared /\ kept[k + n - 1] # Token /\ kept[k + n - 1] = o + n - 1
    BY <1>3, <1>4, <1>5, <1>6
  <2> QED BY <2>1 DEF Spared
<1>10. o + n <= m
  BY <1>1, <1>2, <1>8, <1>9 DEF Offsets
<1>11. Found(text, value, o)
  BY <1>6 DEF InClear
<1>12. o \in Hits(text, value, 0)
  <2>1. o \in 0 .. m - n
    BY <1>2, <1>8, <1>10
  <2> QED BY <1>1, <1>11, <2>1 DEF Hits
<1>13. \E p \in Occurrences(text, value) : In(o, p)
  BY <1>12, OccurrencesLocate DEF LocatesFrom
<1> QED BY <1>7, <1>13 DEF Covered

-----------------------------------------------------------------------------
(***************************************************************************)
(* The inductive invariant of one scan: what was shown and what is still   *)
(* to be shown are all the chunks, unless the model has failed; what was   *)
(* named is located before anything is replaced; and the redacted text is  *)
(* the one the spans found call for.                                       *)
(***************************************************************************)
TextTypes ==
  /\ text \in Inputs /\ scanAt \in {"start", "ask", "redact", "done"} /\ tier \in {"unknown", "off"}
  /\ ChunkList(chunks, text) /\ shown \subseteq Spans(text) /\ found \subseteq Spans(text)
  /\ \A item \in items : Len(item[1]) \in 1 .. MaxValue /\ item[2] \in BOOLEAN

NothingYet ==
  /\ scanAt = "start" => chunks = <<>> /\ shown = {}
  /\ scanAt # "done" => kept = <<>>

AllIsShown ==
  scanAt # "start" /\ tier = "unknown" /\ Len(text) >= MinChars
    => shown \cup Range(chunks) = Range(Chunks(text))

NamedIsFound == scanAt \in {"redact", "done"} => Located \subseteq found

TextInv ==
  /\ TextTypes /\ NothingYet /\ AllIsShown /\ NamedIsFound
  /\ scanAt = "done" => kept = Spliced(text, Merged(found))

LEMMA TextIs ==
  ASSUME text \in Inputs
  PROVE  text \in Seq({text[i] : i \in DOMAIN text}) /\ Len(text) \in Nat
<1>1. text \in Seq({text[i] : i \in DOMAIN text})
  BY TextScanAssumption
<1> QED BY <1>1, LenProperties

LEMMA NoChunks ==
  Range(<<>>) = {} /\ ChunkList(<<>>, text)
<1>1. Range(<<>>) = {}
  BY DEF Range
<1> QED BY <1>1 DEF ChunkList

LEMMA TextStarts == TextInit => TextInv
<1> SUFFICES ASSUME TextInit PROVE TextInv
  OBVIOUS
<1> USE DEF TextInit
<1>1. TextTypes
  BY NoChunks DEF TextTypes
<1> QED BY <1>1 DEF TextInv, NothingYet, AllIsShown, NamedIsFound

LEMMA LocatedAreSpans ==
  ASSUME TextTypes
  PROVE  Located \subseteq Spans(text) /\ \A item \in items : item[2] => Occurrences(text, item[1]) \subseteq Located
<1>1. ASSUME NEW item \in items PROVE Occurrences(text, item[1]) \subseteq Spans(text)
  <2>1. Len(text) \in Nat
    BY TextIs DEF TextTypes
  <2>2. Len(item[1]) \in Nat /\ Len(item[1]) >= 1
    BY Sizes DEF TextTypes
  <2> QED BY <2>1, <2>2, OccurrencesLocate DEF LocatesFrom
<1> QED BY <1>1 DEF Located

LEMMA TextStep == TextInv /\ [TextNext]_scanTextVars => TextInv'
<1> SUFFICES ASSUME TextInv, [TextNext]_scanTextVars PROVE TextInv'
  OBVIOUS
<1> USE DEF TextInv
<1>0. text \in Inputs /\ Len(text) \in Nat
  BY TextIs DEF TextTypes
<1>1. CASE BeginScan
  <2> USE <1>1 DEF BeginScan
  <2>1. scanAt = "start" /\ scanAt' = "ask" /\ UNCHANGED <<text, shown, items, tier, found, kept>>
    OBVIOUS
  <2>2. chunks' = (IF Len(text) < MinChars THEN <<>> ELSE Chunks(text))
    OBVIOUS
  <2>3. Len(text) < MinChars \/ Len(text) >= MinChars
    BY <1>0, Sizes
  <2>4. ChunkList(chunks', text)
    <3>1. CASE Len(text) < MinChars
      BY <2>2, <3>1, NoChunks
    <3>2. CASE ~(Len(text) < MinChars)
      <4>1. Len(text) >= 1
        BY <1>0, <3>2, Sizes
      <4> QED BY <1>0, <2>2, <3>2, <4>1, ChunksShow
    <3> QED BY <3>1, <3>2
  <2>5. TextTypes'
    BY <2>1, <2>4 DEF TextTypes
  <2>6. AllIsShown'
    <3>1. Len(text) >= MinChars => chunks' = Chunks(text)
      BY <1>0, <2>2, Sizes
    <3>2. shown' = {}
      BY <2>1 DEF NothingYet
    <3> QED BY <2>1, <3>1, <3>2 DEF AllIsShown
  <2>7. NothingYet' /\ NamedIsFound'
    BY <2>1 DEF NothingYet, NamedIsFound
  <2> QED BY <2>1, <2>5, <2>6, <2>7
<1>2. CASE Ask
  <2> USE <1>2 DEF Ask
  <2>1. PICK c, rest : c = Head(chunks) /\ rest = Tail(chunks)
    OBVIOUS
  <2>2. /\ scanAt = "ask" /\ chunks # <<>> /\ chunks' = rest /\ shown' = shown \cup {c}
        /\ UNCHANGED <<text, scanAt, tier, found, kept>>
    BY <2>1
  <2>3. PICK all : all = Nat \X Nat
    OBVIOUS
  <2>4. chunks \in Seq(all) /\ c \in all /\ rest \in Seq(all)
    <3>1. chunks \in Seq(all)
      BY <2>3 DEF TextTypes, ChunkList
    <3> QED BY <2>1, <2>2, <3>1, HeadTailProperties
  <2>5. chunks = <<c>> \o rest
    BY <2>1, <2>2, <2>4
  <2>6. Range(chunks) = {c} \cup Range(rest)
    BY <2>4, <2>5, RangeOfOne
  <2>7. ChunkList(rest, text) /\ c \in Spans(text)
    BY <2>3, <2>4, <2>6 DEF TextTypes, ChunkList
  <2>8. \A item \in items' : Len(item[1]) \in 1 .. MaxValue /\ item[2] \in BOOLEAN
    <3>1. \A item \in items : Len(item[1]) \in 1 .. MaxValue /\ item[2] \in BOOLEAN
      BY DEF TextTypes
    <3>2. CASE items' = items
      BY <3>1, <3>2
    <3>3. ASSUME NEW v \in Named(Head(chunks)), NEW readable \in BOOLEAN, items' = items \cup {<<v, readable>>}
          PROVE  \A item \in items' : Len(item[1]) \in 1 .. MaxValue /\ item[2] \in BOOLEAN
      <4>1. Len(v) \in 1 .. MaxValue
        BY DEF Named
      <4>2. PICK pair : pair = <<v, readable>>
        OBVIOUS
      <4>3. pair[1] = v /\ pair[2] = readable /\ items' = items \cup {pair}
        BY <3>3, <4>2
      <4> QED BY <3>1, <4>1, <4>3
    <3> QED BY <3>2, <3>3
  <2>9. TextTypes'
    BY <2>2, <2>7, <2>8 DEF TextTypes
  <2>10. AllIsShown'
    BY <2>2, <2>6 DEF AllIsShown
  <2>11. NothingYet' /\ NamedIsFound'
    BY <2>2 DEF NothingYet, NamedIsFound
  <2> QED BY <2>2, <2>9, <2>10, <2>11
<1>3. CASE AskFails
  <2> USE <1>3 DEF AskFails
  <2>1. /\ scanAt = "ask" /\ tier' = "off" /\ chunks' = <<>>
        /\ UNCHANGED <<text, scanAt, shown, items, found, kept>>
    OBVIOUS
  <2>2. TextTypes'
    BY <2>1, NoChunks DEF TextTypes
  <2>3. NothingYet' /\ NamedIsFound' /\ AllIsShown'
    BY <2>1 DEF NothingYet, NamedIsFound, AllIsShown
  <2> QED BY <2>1, <2>2, <2>3
<1>4. CASE Locate
  <2> USE <1>4 DEF Locate
  <2>1. /\ scanAt = "ask" /\ scanAt' = "redact" /\ chunks = <<>>
        /\ UNCHANGED <<text, chunks, shown, items, tier, kept>>
    OBVIOUS
  <2>2. PICK others \in OtherSpans :
          found' = Located \cup {<<p[1], p[2]>> : p \in {q \in others : q[2] <= Len(text)}}
    OBVIOUS
  <2>3. \A p \in {q \in others : q[2] <= Len(text)} : <<p[1], p[2]>> \in Spans(text)
    <3>1. ASSUME NEW p \in others, p[2] <= Len(text) PROVE <<p[1], p[2]>> \in Spans(text)
      <4>1. p[1] \in Nat /\ p[2] \in Nat /\ p[1] <= p[2]
        BY TextScanAssumption
      <4>2. p[1] \in 0 .. Len(text) /\ p[2] \in 0 .. Len(text)
        BY <1>0, <3>1, <4>1
      <4> QED BY <4>1, <4>2 DEF Spans
    <3> QED BY <3>1
  <2>4. Located \subseteq Spans(text)
    BY LocatedAreSpans
  <2>5. found' \subseteq Spans(text) /\ Located \subseteq found'
    BY <2>2, <2>3, <2>4
  <2>6. Located' = Located
    BY <2>1 DEF Located
  <2>7. TextTypes'
    BY <2>1, <2>5 DEF TextTypes
  <2>8. NothingYet' /\ AllIsShown'
    BY <2>1 DEF NothingYet, AllIsShown
  <2>9. NamedIsFound'
    BY <2>5, <2>6 DEF NamedIsFound
  <2> QED BY <2>1, <2>7, <2>8, <2>9
<1>5. CASE Redact
  <2> USE <1>5 DEF Redact
  <2>1. /\ scanAt = "redact" /\ scanAt' = "done" /\ kept' = Spliced(text, Merged(found))
        /\ UNCHANGED <<text, chunks, shown, items, tier, found>>
    OBVIOUS
  <2>2. TextTypes'
    BY <2>1 DEF TextTypes
  <2>3. Located' = Located
    BY <2>1 DEF Located
  <2>4. NothingYet' /\ NamedIsFound' /\ AllIsShown'
    BY <2>1, <2>3 DEF NothingYet, NamedIsFound, AllIsShown
  <2> QED BY <2>1, <2>2, <2>4
<1>6. CASE UNCHANGED scanTextVars
  <2>1. UNCHANGED <<text, scanAt, chunks, shown, items, tier, found, kept>>
    BY <1>6 DEF scanTextVars
  <2>2. Located' = Located
    BY <2>1 DEF Located
  <2>3. TextTypes' /\ NothingYet' /\ NamedIsFound' /\ AllIsShown'
    BY <2>1, <2>2 DEF TextTypes, NothingYet, NamedIsFound, AllIsShown
  <2> QED BY <2>1, <2>3
<1> QED BY <1>1, <1>2, <1>3, <1>4, <1>5, <1>6 DEF TextNext

(***************************************************************************)
(* What is promised of a scan follows from it.                             *)
(***************************************************************************)
ScanIsSound == TextTypeOK /\ WholeTextIsShown /\ ExactlyTheSpansGo /\ NamedValuesGo

LEMMA TextInvSound == TextInv => ScanIsSound
<1> SUFFICES ASSUME TextInv PROVE ScanIsSound
  OBVIOUS
<1> USE DEF TextInv
<1>0. text \in Inputs /\ Len(text) \in Nat /\ text \in Seq({text[i] : i \in DOMAIN text})
  BY TextIs DEF TextTypes
<1>1. ExactlyTheSpansGo
  <2>1. found \subseteq Spans(text)
    BY DEF TextTypes
  <2> QED BY <1>0, <2>1, SplicedIsExpected DEF ExactlyTheSpansGo
<1>2. kept \in Seq(Spared)
  <2>1. CASE scanAt = "done"
    BY <1>0, <1>1, <2>1, ExpectedIsClear DEF ExactlyTheSpansGo
  <2>2. CASE scanAt # "done"
    BY <2>2 DEF NothingYet
  <2> QED BY <2>1, <2>2
<1>3. TextTypeOK
  <2>1. \A k \in DOMAIN kept : kept[k] = Token \/ kept[k] \in Offsets(text)
    <3>1. \A k \in DOMAIN kept : kept[k] \in Spared
      BY <1>2, LenProperties, ElementOfSeq
    <3> QED BY <3>1 DEF Spared
  <2>2. \A k \in DOMAIN chunks : chunks[k] \in Spans(text) /\ chunks[k][1] < chunks[k][2]
    <3>1. \A k \in DOMAIN chunks : chunks[k] \in Range(chunks)
      BY DEF Range
    <3> QED BY <3>1 DEF TextTypes, ChunkList
  <2> QED BY <2>1, <2>2 DEF TextTypeOK, TextTypes
<1>4. WholeTextIsShown
  <2>1. SUFFICES ASSUME scanAt # "start", chunks = <<>>, tier = "unknown", Len(text) >= MinChars, LongChunks,
                        NEW w \in Windows
                 PROVE  \E p \in shown : p[1] <= w[1] /\ w[2] <= p[2]
    BY DEF WholeTextIsShown
  <2>2. shown = Range(Chunks(text))
    <3>1. Range(chunks) = {}
      BY <2>1, NoChunks
    <3> QED BY <2>1, <3>1 DEF AllIsShown
  <2>3. \A c \in Range(Chunks(text)) : IsLong(c, text)
    BY <2>1, <2>2 DEF LongChunks, IsLong
  <2>4. WindowIn(text, w) /\ 0 <= w[1]
    BY <2>1 DEF Windows, WindowIn, Spans
  <2>5. Len(text) >= 1
    BY <1>0, <2>1, Sizes
  <2>6. ShowsFrom(Chunks(text), text, 0)
    BY <1>0, <2>5, ChunksShow
  <2> QED BY <2>2, <2>3, <2>4, <2>6 DEF ShowsFrom
<1>5. NamedValuesGo
  <2>1. SUFFICES ASSUME scanAt = "done", NEW item \in items, item[2], NEW k \in DOMAIN kept, InClear(item[1], k)
                 PROVE  FALSE
    BY DEF NamedValuesGo
  <2>2. Occurrences(text, item[1]) \subseteq found
    <3>1. Occurrences(text, item[1]) \subseteq Located
      BY <2>1, LocatedAreSpans
    <3> QED BY <2>1, <3>1 DEF NamedIsFound
  <2>3. PICK value : value = item[1]
    OBVIOUS
  <2>4. Len(value) \in Nat /\ Len(value) >= 1
    BY <2>3, Sizes DEF TextTypes
  <2> QED BY <1>0, <1>2, <2>1, <2>2, <2>3, <2>4, CoveredIsNotClear
<1> QED BY <1>1, <1>3, <1>4, <1>5 DEF ScanIsSound

-----------------------------------------------------------------------------
(***************************************************************************)
(* One scan, for any text, model and detectors: _chunk_text shows all of a *)
(* text, _redact_text replaces exactly what spans cover, and no value that *)
(* was named stays in the clear.  Nothing is assumed of replies.           *)
(***************************************************************************)
THEOREM ScanSound == TextSpec => []ScanIsSound
<1>1. TextInit => TextInv
  BY TextStarts
<1>2. TextInv /\ [TextNext]_scanTextVars => TextInv'
  BY TextStep
<1>3. TextInv => ScanIsSound
  BY TextInvSound
<1> QED BY <1>1, <1>2, <1>3, PTL DEF TextSpec

(***************************************************************************)
(* One relayed reply, in any pieces: what the client has is the            *)
(* detokenized whole but for a held tail (_detok_sse_iter).  It needs that *)
(* no two streams of a reply share a JSON key, as SameAsWhole says.        *)
(***************************************************************************)
THEOREM RelaySound ==
  ASSUME KeysOwn
  PROVE  Spec => []RelayIsSound
<1>1. Init => RelayInv
  BY RelayStarts
<1>2. RelayInv /\ [Next]_vars => RelayInv'
  BY RelayStep
<1>3. RelayInv => RelayIsSound
  BY RelayInvSound
<1> QED BY <1>1, <1>2, <1>3, PTL DEF Spec

(***************************************************************************)
(* What is done to texts is sound, by the scan on the way out and by the   *)
(* relay on the way back.                                                  *)
(***************************************************************************)
THEOREM TextsSound ==
  ASSUME KeysOwn
  PROVE  TextSpec /\ Spec => []TextsAreSound
<1>1. TextSpec => []ScanIsSound
  BY ScanSound
<1>2. Spec => []RelayIsSound
  BY RelaySound
<1>3. ScanIsSound /\ RelayIsSound => TextsAreSound
  BY DEF TextsAreSound, ScanIsSound, RelayIsSound
<1> QED BY <1>1, <1>2, <1>3, PTL

=============================================================================
