---------------------------- MODULE Vault_proofs ----------------------------
(***************************************************************************)
(* Theorems about Vault, for every number of threads, values, categories   *)
(* and token numbers.                                                      *)
(***************************************************************************)
EXTENDS Vault, TLAPS, WellFoundedInduction

(***************************************************************************)
(* Every non-empty set of natural numbers has a least element.             *)
(***************************************************************************)
LEMMA LeastNat ==
  ASSUME NEW T \in SUBSET Nat, T # {}
  PROVE  \E m \in T : \A k \in T : m <= k
<1>1. PICK m \in T : \A k \in T : ~ (<<k, m>> \in OpToRel(<, Nat))
  BY NatLessThanWellFounded, WFMin
<1>2. \A k \in T : ~ (k < m)
  BY <1>1, Zenon DEF OpToRel
<1> QED
  BY <1>2

(***************************************************************************)
(* _max_index_locked: the result is an index, it bounds every index in     *)
(* use, and it is itself in use unless it is 0.                            *)
(***************************************************************************)
LEMMA MaxPinnedIsMax ==
  ASSUME NEW tokens \in [Token -> Values \cup {NoValue}], NEW p \in Prefixes
  PROVE  /\ MaxPinned(tokens, p) \in 0 .. MaxIndex
         /\ \A n \in 1 .. MaxIndex :
              tokens[<<p, n>>] # NoValue => n <= MaxPinned(tokens, p)
         /\ MaxPinned(tokens, p) > 0 =>
              tokens[<<p, MaxPinned(tokens, p)>>] # NoValue
<1> DEFINE used == {n \in 1 .. MaxIndex : tokens[<<p, n>>] # NoValue}
           bound == {b \in 0 .. MaxIndex : \A n \in used : n <= b}
<1>1. MaxIndex \in bound /\ bound \in SUBSET Nat
  BY VaultAssumption
<1>2. PICK m \in bound : \A k \in bound : m <= k
  BY <1>1, LeastNat
<1>3. m \in used \cup {0}
  <2> SUFFICES ASSUME m \notin used, m # 0
               PROVE  FALSE
    OBVIOUS
  <2>1. m - 1 \in bound
    BY <1>2, VaultAssumption
  <2> QED
    BY <1>2, <2>1
<1>4. \E k \in 0 .. MaxIndex : k \in used \cup {0} /\ \A n \in used : n <= k
  BY <1>2, <1>3
<1>5. /\ MaxPinned(tokens, p) \in 0 .. MaxIndex
      /\ MaxPinned(tokens, p) \in used \cup {0}
      /\ \A n \in used : n <= MaxPinned(tokens, p)
  BY <1>4 DEF MaxPinned
<1> QED
  BY <1>5

-----------------------------------------------------------------------------
(***************************************************************************)
(* The operators of the taxonomy and of the stores return what their       *)
(* callers expect.                                                         *)
(***************************************************************************)
LEMMA PrefixType ==
  ASSUME NEW r \in Registry, NEW c \in Terms
  PROVE  PrefixFor(r, c) \in Prefixes
BY TaxonomyAssumption DEF PrefixFor, Registry

LEMMA UniquePrefixesType ==
  ASSUME NEW r \in Registry, NEW c \in Terms
  PROVE  UniquePrefixes(r, c) \subseteq Prefixes
BY TaxonomyAssumption DEF UniquePrefixes

LEMMA InverseType ==
  ASSUME NEW map \in [Values -> Token \cup {NoToken}]
  PROVE  Inverse(map) \in [Token -> Values \cup {NoValue}]
BY DEF Inverse

LEMMA FloorsType ==
  ASSUME NEW count \in [Prefixes -> 0 .. MaxIndex],
         NEW tokens \in [Token -> Values \cup {NoValue}]
  PROVE  Floors(count, tokens) \in [Prefixes -> 0 .. MaxIndex]
<1>1. \A p \in Prefixes : MaxPinned(tokens, p) \in 0 .. MaxIndex
  BY MaxPinnedIsMax
<1> QED
  BY <1>1 DEF Floors, Bigger

(***************************************************************************)
(* With room left, the number a pin starts from is still within the bound. *)
(***************************************************************************)
LEMMA FloorType ==
  ASSUME TypeOK, Room, NEW p \in Prefixes
  PROVE  PinFrom(p) \in 0 .. MaxIndex
<1>1. /\ MaxPinned(byToken, p) \in 0 .. MaxIndex
      /\ MaxPinned(byToken, p) > 0 => byToken[<<p, MaxPinned(byToken, p)>>] # NoValue
  BY MaxPinnedIsMax DEF TypeOK
<1>2. counters[p] \in 0 .. MaxIndex /\ counters[p] < MaxIndex
  BY DEF TypeOK, Room
<1>3. byToken[<<p, MaxIndex>>] = NoValue
  BY DEF Room
<1>4. MaxPinned(byToken, p) < MaxIndex
  BY <1>1, <1>2, <1>3, VaultAssumption
<1> QED
  BY <1>1, <1>2, <1>4, VaultAssumption DEF PinFrom, Bigger

-----------------------------------------------------------------------------
LEMMA TypeInit == Init => TypeInv
<1> SUFFICES ASSUME Init PROVE TypeInv
  OBVIOUS
<1>1. /\ up \in BOOLEAN /\ available \in BOOLEAN /\ lock \in Threads \cup {NoThread}
      /\ registry \in Registry
      /\ issued \subseteq Token \X Values /\ acked \subseteq Token \X Values
  BY DEF Init, Registry
<1>2. /\ forward \in [Values -> Token \cup {NoToken}]
      /\ reverse \in [Token -> Values \cup {NoValue}]
      /\ counters \in [Prefixes -> 0 .. MaxIndex]
      /\ entries \in [Values -> Token \cup {NoToken}]
      /\ byToken \in [Token -> Values \cup {NoValue}]
      /\ disk \in [Values -> Token \cup {NoToken}]
  BY VaultAssumption DEF Init, NoTokens, NoValues
<1>3. /\ pc \in [Threads -> {"idle", "mint", "pin", "sync", "detok", "restored"}]
      /\ val \in [Threads -> Values \cup {NoValue}]
      /\ cat \in [Threads -> Categories \cup {NoTerm}]
      /\ floor \in [Threads -> 0 .. MaxIndex]
      /\ tok \in [Threads -> Token \cup {NoToken}]
      /\ got \in [Threads -> Values \cup {NoValue}]
  BY VaultAssumption DEF Init, OfThreads
<1>4. CallTyped
  BY DEF Init, OfThreads, CallTyped
<1> QED
  BY <1>1, <1>2, <1>3, <1>4 DEF TypeInv, TypeOK

(***************************************************************************)
(* A call that returns leaves well-typed locals.                           *)
(***************************************************************************)
LEMMA ReturnType ==
  ASSUME TypeInv, NEW t \in Threads, Return(t)
  PROVE  /\ pc' \in [Threads -> {"idle", "mint", "pin", "sync", "detok", "restored"}]
         /\ val' \in [Threads -> Values \cup {NoValue}]
         /\ cat' \in [Threads -> Categories \cup {NoTerm}]
         /\ floor' \in [Threads -> 0 .. MaxIndex]
         /\ tok' \in [Threads -> Token \cup {NoToken}]
         /\ got' \in [Threads -> Values \cup {NoValue}]
         /\ CallTyped'
<1> USE DEF TypeInv, TypeOK
<1>1. /\ pc' \in [Threads -> {"idle", "mint", "pin", "sync", "detok", "restored"}]
      /\ val' \in [Threads -> Values \cup {NoValue}]
      /\ cat' \in [Threads -> Categories \cup {NoTerm}]
      /\ floor' \in [Threads -> 0 .. MaxIndex]
      /\ tok' \in [Threads -> Token \cup {NoToken}]
      /\ got' \in [Threads -> Values \cup {NoValue}]
  BY VaultAssumption DEF Return, Goto
<1>2. CallTyped'
  BY DEF Return, Goto, CallTyped
<1> QED
  BY <1>1, <1>2

(***************************************************************************)
(* A mint takes a token with the next number of its prefix.                *)
(***************************************************************************)
LEMMA MintTyped ==
  ASSUME TypeInv, NEW t \in Threads, TokenizeMint(t)
  PROVE  LET p == CategoryPrefix(cat[t])
             n == counters[p] + 1
         IN  /\ val[t] \in Values /\ p \in Prefixes /\ cat[t] \in Categories
             /\ forward[val[t]] = NoToken => n \in 1 .. MaxIndex /\ <<p, n>> \in Token
<1>1. /\ val[t] \in Values /\ cat[t] \in Categories
      /\ CategoryPrefix(cat[t]) \in Prefixes
  BY PrefixType, VaultAssumption
     DEF TokenizeMint, MayMint, CategoryPrefix, TypeInv, TypeOK, CallTyped
<1> QED
  BY <1>1 DEF TokenizeMint, MayMint, Token, TypeInv, TypeOK

(***************************************************************************)
(* A pin stores a token that no value has, numbered from its floor on.     *)
(***************************************************************************)
LEMMA StoreTyped ==
  ASSUME TypeInv, NEW t \in Threads, PinStore(t)
  PROVE  LET p == CategoryPrefix(cat[t])
             n == Bigger(1 + MaxPinned(byToken, p), floor[t])
         IN  /\ val[t] \in Values /\ p \in Prefixes /\ cat[t] \in Categories
             /\ n \in 1 .. MaxIndex /\ n >= floor[t]
             /\ <<p, n>> \in Token /\ byToken[<<p, n>>] = NoValue
<1> DEFINE p == CategoryPrefix(cat[t])
           n == Bigger(1 + MaxPinned(byToken, p), floor[t])
<1>1. val[t] \in Values /\ cat[t] \in Categories /\ p \in Prefixes
  BY PrefixType, VaultAssumption
     DEF PinStore, WriteRaises, Unpinned, CategoryPrefix, TypeInv, TypeOK, CallTyped
<1>2. /\ MaxPinned(byToken, p) \in 0 .. MaxIndex
      /\ \A k \in 1 .. MaxIndex : byToken[<<p, k>>] # NoValue => k <= MaxPinned(byToken, p)
  BY <1>1, MaxPinnedIsMax DEF TypeInv, TypeOK
<1>3. n \in 1 .. MaxIndex /\ n >= floor[t] /\ n > MaxPinned(byToken, p)
  BY <1>2 DEF PinStore, WriteRaises, Unpinned, Bigger, TypeInv, TypeOK
<1>4. byToken[<<p, n>>] = NoValue
  BY <1>2, <1>3
<1> QED
  BY <1>1, <1>3, <1>4 DEF Token

LEMMA TypeStep == TypeInv /\ [Next]_vars => TypeInv'
<1> SUFFICES ASSUME TypeInv, [Next]_vars PROVE TypeInv'
  OBVIOUS
<1> USE VaultAssumption DEF TypeInv, TypeOK
<1>1. ASSUME NEW loaded \in BOOLEAN, Start(loaded) PROVE TypeInv'
  BY <1>1, InverseType, FloorsType DEF Start, session, calls, CallTyped, NoTokens, NoValues
<1>2. CASE Crash
  <2>1. /\ up' \in BOOLEAN /\ available' \in BOOLEAN /\ lock' \in Threads \cup {NoThread}
        /\ registry' \in Registry
        /\ issued' \subseteq Token \X Values /\ acked' \subseteq Token \X Values
    BY <1>2 DEF Crash, Registry
  <2>2. /\ forward' \in [Values -> Token \cup {NoToken}]
        /\ reverse' \in [Token -> Values \cup {NoValue}]
        /\ counters' \in [Prefixes -> 0 .. MaxIndex]
        /\ entries' \in [Values -> Token \cup {NoToken}]
        /\ byToken' \in [Token -> Values \cup {NoValue}]
        /\ disk' \in [Values -> Token \cup {NoToken}]
    BY <1>2 DEF Crash, NoTokens, NoValues
  <2>3. /\ pc' \in [Threads -> {"idle", "mint", "pin", "sync", "detok", "restored"}]
        /\ val' \in [Threads -> Values \cup {NoValue}]
        /\ cat' \in [Threads -> Categories \cup {NoTerm}]
        /\ floor' \in [Threads -> 0 .. MaxIndex]
        /\ tok' \in [Threads -> Token \cup {NoToken}]
        /\ got' \in [Threads -> Values \cup {NoValue}]
    BY <1>2 DEF Crash, OfThreads
  <2>4. CallTyped'
    BY <1>2 DEF Crash, OfThreads, CallTyped
  <2> QED
    BY <2>1, <2>2, <2>3, <2>4
<1>3. ASSUME NEW term \in Coinable, Coin(term) PROVE TypeInv'
  BY <1>3, UniquePrefixesType DEF Coin, session, pinned, calls, CallTyped, Registry
<1>4. ASSUME NEW t \in Threads, NEW v \in Values, NEW c \in Categories,
             TokenizeLookup(t, v, c)
      PROVE  TypeInv'
  BY <1>4 DEF TokenizeLookup, Goto, session, pinned, calls, CallTyped
<1>5. ASSUME NEW t \in Threads, NEW v \in Values, NEW c \in Categories,
             PinFloor(t, v, c)
      PROVE  TypeInv'
  BY <1>5, FloorType, PrefixType DEF PinFloor, Goto, session, pinned, CallTyped, CategoryPrefix
<1>6. ASSUME NEW t \in Threads, TokenizeMint(t) PROVE TypeInv'
  <2> DEFINE p == CategoryPrefix(cat[t])
             n == counters[p] + 1
  <2>1. /\ val[t] \in Values /\ p \in Prefixes
        /\ forward[val[t]] = NoToken => n \in 1 .. MaxIndex /\ <<p, n>> \in Token
    BY <1>6, MintTyped
  <2>2. /\ forward' \in [Values -> Token \cup {NoToken}]
        /\ reverse' \in [Token -> Values \cup {NoValue}]
        /\ counters' \in [Prefixes -> 0 .. MaxIndex]
        /\ issued' \subseteq Token \X Values
    <3>1. CASE forward[val[t]] # NoToken
      BY <1>6, <2>1, <3>1 DEF TokenizeMint, session
    <3>2. CASE forward[val[t]] = NoToken
      <4>1. /\ counters' = [counters EXCEPT ![p] = n]
            /\ forward' = [forward EXCEPT ![val[t]] = <<p, n>>]
            /\ reverse' = [reverse EXCEPT ![<<p, n>>] = val[t]]
            /\ issued' = issued \cup {<<<<p, n>>, val[t]>>}
        BY <1>6, <3>2 DEF TokenizeMint
      <4> HIDE DEF p, n
      <4> QED
        BY <2>1, <3>2, <4>1
    <3> QED
      BY <3>1, <3>2
  <2> QED
    BY <1>6, <2>2, ReturnType DEF TokenizeMint, pinned
<1>7. ASSUME NEW t \in Threads, PinKnown(t) PROVE TypeInv'
  BY <1>7 DEF PinKnown, Goto, session, pinned, CallTyped
<1>8. ASSUME NEW t \in Threads, PinStore(t) PROVE TypeInv'
  <2> DEFINE p  == CategoryPrefix(cat[t])
             n  == Bigger(1 + MaxPinned(byToken, p), floor[t])
             tk == <<p, n>>
  <2>1. val[t] \in Values /\ tk \in Token
    BY <1>8, StoreTyped
  <2>2. /\ entries' \in [Values -> Token \cup {NoToken}]
        /\ byToken' \in [Token -> Values \cup {NoValue}]
        /\ disk' \in [Values -> Token \cup {NoToken}]
        /\ lock' \in Threads \cup {NoThread}
    BY <1>8, <2>1 DEF PinStore, WriteRaises, Unpinned
  <2>3. CASE /\ tok' = [tok EXCEPT ![t] = tk] /\ Goto(t, "sync")
             /\ UNCHANGED <<val, cat, floor, got>>
    BY <1>8, <2>1, <2>2, <2>3 DEF PinStore, WriteRaises, Unpinned, session, Goto, CallTyped
  <2>4. CASE Return(t)
    BY <1>8, <2>2, <2>4, ReturnType DEF PinStore, WriteRaises, Unpinned, session
  <2> QED
    BY <1>8, <2>3, <2>4 DEF PinStore, WriteRaises, Unpinned
<1>9. ASSUME NEW t \in Threads, PinSync(t) PROVE TypeInv'
  BY <1>9, ReturnType, FloorsType DEF PinSync, pinned, CallTyped
<1>10. ASSUME NEW t \in Threads, NEW pair \in issued, DetokSession(t, pair[1], pair[2])
       PROVE  TypeInv'
  BY <1>10 DEF DetokSession, Goto, session, pinned, CallTyped
<1>11. ASSUME NEW t \in Threads, DetokPinned(t) PROVE TypeInv'
  <2>1. pc[t] = "detok" /\ LookupPinnedToken(tok[t]) \in Values \cup {NoValue}
    BY <1>11 DEF DetokPinned, CallTyped, LookupPinnedToken
  <2> QED
    BY <1>11, <2>1 DEF DetokPinned, Goto, session, pinned, CallTyped
<1>12. ASSUME NEW t \in Threads, DetokReturn(t) PROVE TypeInv'
  BY <1>12, ReturnType DEF DetokReturn, session, pinned
<1>13. ASSUME NEW expired \in SUBSET Live, CleanupExpired(expired) PROVE TypeInv'
  BY <1>13 DEF CleanupExpired, pinned, calls, CallTyped
<1>14. CASE Clear
  BY <1>14 DEF Clear, pinned, calls, CallTyped, NoTokens, NoValues
<1>15. CASE UNCHANGED vars
  BY <1>15 DEF vars, session, pinned, calls, CallTyped
<1> QED
  BY <1>1, <1>2, <1>3, <1>4, <1>5, <1>6, <1>7, <1>8, <1>9, <1>10, <1>11, <1>12,
     <1>13, <1>14, <1>15 DEF Next, PinSteps

(***************************************************************************)
(* Every variable keeps its type, and a call in progress its arguments.    *)
(***************************************************************************)
THEOREM TypeCorrect == Spec => []TypeOK
<1>1. TypeInv => TypeOK
  BY DEF TypeInv
<1> QED
  BY TypeInit, TypeStep, <1>1, PTL DEF Spec

-----------------------------------------------------------------------------
(***************************************************************************)
(* The map read back from a file in which no two values share a token.     *)
(***************************************************************************)
LEMMA InverseOfInjective ==
  ASSUME NEW map \in [Values -> Token \cup {NoToken}],
         \A v, w \in Values : map[v] # NoToken /\ map[v] = map[w] => v = w
  PROVE  /\ \A v \in Values : map[v] # NoToken => Inverse(map)[map[v]] = v
         /\ \A t \in Token : Inverse(map)[t] # NoValue =>
              Inverse(map)[t] \in Values /\ map[Inverse(map)[t]] = t
<1>1. ASSUME NEW v \in Values, map[v] # NoToken PROVE Inverse(map)[map[v]] = v
  <2>1. map[v] \in Token
    BY <1>1
  <2>2. Inverse(map)[map[v]] = CHOOSE w \in Values : map[w] = map[v]
    BY <2>1 DEF Inverse
  <2> QED
    BY <1>1, <2>2
<1>2. ASSUME NEW t \in Token, Inverse(map)[t] # NoValue
      PROVE  Inverse(map)[t] \in Values /\ map[Inverse(map)[t]] = t
  <2>1. \E v \in Values : map[v] = t
    BY <1>2 DEF Inverse
  <2>2. Inverse(map)[t] = CHOOSE v \in Values : map[v] = t
    BY <2>1 DEF Inverse
  <2> QED
    BY <2>1, <2>2
<1> QED
  BY <1>1, <1>2

(***************************************************************************)
(* sync_counter_floors only raises counters.                               *)
(***************************************************************************)
LEMMA FloorsRaise ==
  ASSUME NEW count \in [Prefixes -> 0 .. MaxIndex],
         NEW tokens \in [Token -> Values \cup {NoValue}],
         NEW p \in Prefixes
  PROVE  count[p] <= Floors(count, tokens)[p]
<1>1. MaxPinned(tokens, p) \in 0 .. MaxIndex
  BY MaxPinnedIsMax
<1> QED
  BY <1>1, VaultAssumption DEF Floors, Bigger

LEMMA StoresInit == Init => StoresInv
BY TypeInit DEF Init, StoresInv, StoresConsistent, SessionBelowCounter, NoTokens, NoValues,
                TypeInv, TypeOK

(***************************************************************************)
(* Counters that only grow stay above the session tokens.                  *)
(***************************************************************************)
LEMMA CountersGrow ==
  ASSUME SessionBelowCounter, TypeInv, TypeInv', UNCHANGED reverse,
         \A p \in Prefixes : counters[p] <= counters'[p]
  PROVE  SessionBelowCounter'
BY DEF SessionBelowCounter, Token, TypeInv, TypeOK

(***************************************************************************)
(* One step per action that changes a store; the others leave all of them. *)
(***************************************************************************)
LEMMA StoresStep == StoresInv /\ [Next]_vars => StoresInv'
<1> SUFFICES ASSUME StoresInv, [Next]_vars PROVE StoresInv'
  OBVIOUS
<1>0. TypeInv /\ TypeInv'
  BY TypeStep DEF StoresInv
<1> SUFFICES StoresConsistent' /\ SessionBelowCounter'
  BY <1>0 DEF StoresInv
<1> USE DEF StoresInv
<1>1. ASSUME NEW loaded \in BOOLEAN, Start(loaded)
      PROVE  StoresConsistent' /\ SessionBelowCounter'
  <2>1. /\ \A v \in Values : disk[v] # NoToken => Inverse(disk)[disk[v]] = v
        /\ \A t \in Token : Inverse(disk)[t] # NoValue => disk[Inverse(disk)[t]] = t
    BY InverseOfInjective DEF StoresConsistent, TypeInv, TypeOK
  <2>2. UNCHANGED <<forward, reverse, disk>>
    BY <1>1 DEF Start
  <2>3. ASSUME loaded PROVE StoresConsistent'
    BY <1>1, <2>1, <2>2, <2>3 DEF Start, StoresConsistent
  <2>4. ASSUME ~loaded PROVE StoresConsistent'
    BY <1>1, <2>2, <2>4 DEF Start, StoresConsistent, NoTokens, NoValues
  <2>5. \A p \in Prefixes : counters[p] <= counters'[p]
    BY <1>1, InverseType, FloorsRaise DEF Start, TypeInv, TypeOK
  <2>6. SessionBelowCounter'
    BY <1>0, <2>2, <2>5, CountersGrow
  <2> QED
    BY <2>3, <2>4, <2>6
<1>2. CASE Crash
  BY <1>2 DEF Crash, StoresConsistent, SessionBelowCounter, NoTokens, NoValues
<1>3. ASSUME NEW t \in Threads, TokenizeMint(t)
      PROVE  StoresConsistent' /\ SessionBelowCounter'
  <2> DEFINE v == val[t]
             p == CategoryPrefix(cat[t])
             n == counters[p] + 1
  <2>1. UNCHANGED <<pinned, disk>>
    BY <1>3 DEF TokenizeMint, MayMint
  <2>2. CASE forward[v] # NoToken
    BY <1>3, <2>1, <2>2
       DEF TokenizeMint, MayMint, session, pinned, StoresConsistent, SessionBelowCounter
  <2>3. CASE forward[v] = NoToken
    <3>1. v \in Values /\ p \in Prefixes /\ n \in 1 .. MaxIndex /\ <<p, n>> \in Token
      BY <1>3, <2>3, MintTyped
    <3>2. /\ counters' = [counters EXCEPT ![p] = n]
          /\ forward' = [forward EXCEPT ![v] = <<p, n>>]
          /\ reverse' = [reverse EXCEPT ![<<p, n>>] = v]
      BY <1>3, <2>3 DEF TokenizeMint, MayMint
    <3>3. reverse[<<p, n>>] = NoValue
      BY <3>1 DEF SessionBelowCounter, TypeInv, TypeOK
    <3>4. \A w \in Values : forward'[w] # NoToken => reverse'[forward'[w]] = w
      <4> SUFFICES ASSUME NEW w \in Values, forward'[w] # NoToken
                   PROVE  reverse'[forward'[w]] = w
        OBVIOUS
      <4>1. CASE w = v
        BY <3>1, <3>2, <4>1 DEF TypeInv, TypeOK
      <4>2. CASE w # v
        <5>1. forward'[w] = forward[w] /\ forward[w] \in Token /\ reverse[forward[w]] = w
          BY <3>1, <3>2, <4>2 DEF StoresConsistent, TypeInv, TypeOK
        <5>2. forward[w] # <<p, n>>
          BY <3>3, <5>1, VaultAssumption
        <5> QED
          BY <3>1, <3>2, <5>1, <5>2 DEF TypeInv, TypeOK
      <4> QED
        BY <4>1, <4>2
    <3>5. SessionBelowCounter'
      BY <3>1, <3>2 DEF SessionBelowCounter, Token, TypeInv, TypeOK
    <3> QED
      BY <2>1, <3>4, <3>5 DEF pinned, StoresConsistent
  <2> QED
    BY <2>2, <2>3
<1>4. ASSUME NEW t \in Threads, PinStore(t)
      PROVE  StoresConsistent' /\ SessionBelowCounter'
  <2> DEFINE v == val[t]
             p == CategoryPrefix(cat[t])
             n == Bigger(1 + MaxPinned(byToken, p), floor[t])
             tk == <<p, n>>
  <2>1. /\ UNCHANGED <<session, available>>
        /\ available /\ entries[v] = NoToken
        /\ entries' = [entries EXCEPT ![v] = tk]
        /\ byToken' = [byToken EXCEPT ![tk] = v]
        /\ disk' \in {entries', disk}
    BY <1>4 DEF PinStore, WriteRaises, Unpinned
  <2>2. v \in Values /\ tk \in Token /\ byToken[tk] = NoValue
    BY <1>4, StoreTyped
  <2>3. /\ entries'[v] = tk /\ \A w \in Values \ {v} : entries'[w] = entries[w]
        /\ byToken'[tk] = v /\ \A k \in Token \ {tk} : byToken'[k] = byToken[k]
    BY <2>1, <2>2 DEF TypeInv, TypeOK
  <2>4. \A w \in Values : entries'[w] # NoToken => byToken'[entries'[w]] = w
    <3> SUFFICES ASSUME NEW w \in Values \ {v}, entries[w] # NoToken
                 PROVE  byToken'[entries[w]] = w
      BY <2>3
    <3>1. entries[w] \in Token /\ byToken[entries[w]] = w
      BY DEF StoresConsistent, TypeInv, TypeOK
    <3>2. entries[w] # tk
      BY <2>2, <3>1, VaultAssumption
    <3> QED
      BY <2>3, <3>1, <3>2
  <2>5. \A k \in Token : byToken'[k] # NoValue => entries'[byToken'[k]] = k
    BY <2>1, <2>2, <2>3, VaultAssumption DEF StoresConsistent, TypeInv, TypeOK
  <2>6. \A w \in Values : disk'[w] # NoToken => entries'[w] = disk'[w]
    BY <2>1, <2>2 DEF StoresConsistent, TypeInv, TypeOK
  <2>7. \A w, x \in Values : disk'[w] # NoToken /\ disk'[w] = disk'[x] => w = x
    BY <2>4, <2>6
  <2> QED
    BY <2>1, <2>4, <2>5, <2>6, <2>7 DEF session, StoresConsistent, SessionBelowCounter
<1>5. ASSUME NEW t \in Threads, PinSync(t)
      PROVE  StoresConsistent' /\ SessionBelowCounter'
  <2>1. UNCHANGED <<forward, reverse, pinned, disk>>
    BY <1>5 DEF PinSync
  <2>2. \A p \in Prefixes : counters[p] <= counters'[p]
    BY <1>5, FloorsRaise DEF PinSync, TypeInv, TypeOK
  <2>3. SessionBelowCounter'
    BY <1>0, <2>1, <2>2, CountersGrow
  <2> QED
    BY <2>1, <2>3 DEF pinned, StoresConsistent
<1>6. ASSUME NEW expired \in SUBSET Live, CleanupExpired(expired)
      PROVE  StoresConsistent' /\ SessionBelowCounter'
  <2>1. /\ UNCHANGED <<counters, pinned, disk>>
        /\ reverse' = [t \in Token |-> IF t \in expired THEN NoValue ELSE reverse[t]]
        /\ forward' = [v \in Values |-> IF \E t \in expired : reverse[t] = v
                                        THEN NoToken ELSE forward[v]]
    BY <1>6 DEF CleanupExpired
  <2>2. \A w \in Values : forward'[w] # NoToken => reverse'[forward'[w]] = w
    BY <2>1 DEF StoresConsistent, TypeInv, TypeOK
  <2> QED
    BY <2>1, <2>2 DEF pinned, StoresConsistent, SessionBelowCounter
<1>7. CASE Clear
  BY <1>7 DEF Clear, pinned, StoresConsistent, SessionBelowCounter, NoTokens, NoValues
<1>8. CASE UNCHANGED <<session, pinned, disk>>
  BY <1>8 DEF session, pinned, StoresConsistent, SessionBelowCounter
<1> QED
  BY <1>1, <1>2, <1>3, <1>4, <1>5, <1>6, <1>7, <1>8
     DEF Next, PinSteps, vars, Coin, TokenizeLookup, PinFloor, PinKnown, DetokSession,
         DetokPinned, DetokReturn

(***************************************************************************)
(* The maps of each store agree and the vault file is never corrupted,     *)
(* whatever writes fail, whatever prefixes are coined and whatever is      *)
(* cleared.                                                                *)
(***************************************************************************)
THEOREM StoresStayConsistent == Spec => []StoresConsistent
<1>1. StoresInv => StoresConsistent
  BY DEF StoresInv
<1> QED
  BY StoresInit, StoresStep, <1>1, PTL DEF Spec

-----------------------------------------------------------------------------
(***************************************************************************)
(* TokenService._lock is held by the thread that is inside pin, and a      *)
(* process that is down has no call in progress.                           *)
(***************************************************************************)
LEMMA ControlInit == Init => LockInv /\ DownInv
BY VaultAssumption DEF Init, LockInv, DownInv, OfThreads

LEMMA ControlStep ==
  TypeInv /\ LockInv /\ DownInv /\ [Next]_vars => LockInv' /\ DownInv'
<1> SUFFICES ASSUME TypeInv, LockInv, DownInv, [Next]_vars PROVE LockInv' /\ DownInv'
  OBVIOUS
<1>1. LockInv'
  <2> USE VaultAssumption DEF TypeInv, TypeOK, LockInv
  <2>1. CASE Crash
    BY <2>1 DEF Crash, OfThreads
  <2>2. ASSUME NEW t \in Threads, NEW v \in Values, NEW c \in Categories,
               TokenizeLookup(t, v, c)
        PROVE  LockInv'
    BY <2>2 DEF TokenizeLookup, Goto, calls
  <2>3. ASSUME NEW t \in Threads, NEW v \in Values, NEW c \in Categories, PinFloor(t, v, c)
        PROVE  LockInv'
    BY <2>3 DEF PinFloor, Goto
  <2>4. ASSUME NEW t \in Threads, TokenizeMint(t) PROVE LockInv'
    BY <2>4 DEF TokenizeMint, MayMint, Return, Goto
  <2>5. ASSUME NEW t \in Threads, PinKnown(t) PROVE LockInv'
    BY <2>5 DEF PinKnown, Goto
  <2>6. ASSUME NEW t \in Threads, PinStore(t) PROVE LockInv'
    BY <2>6 DEF PinStore, WriteRaises, Unpinned, Return, Goto
  <2>7. ASSUME NEW t \in Threads, PinSync(t) PROVE LockInv'
    BY <2>7 DEF PinSync, Return, Goto
  <2>8. ASSUME NEW t \in Threads, NEW pair \in issued, DetokSession(t, pair[1], pair[2])
        PROVE  LockInv'
    BY <2>8 DEF DetokSession, Goto
  <2>9. ASSUME NEW t \in Threads, DetokPinned(t) PROVE LockInv'
    BY <2>9 DEF DetokPinned, Goto
  <2>10. ASSUME NEW t \in Threads, DetokReturn(t) PROVE LockInv'
    BY <2>10 DEF DetokReturn, Return, Goto
  <2>11. CASE UNCHANGED <<lock, pc>>
    BY <2>11
  <2> QED
    BY <2>1, <2>2, <2>3, <2>4, <2>5, <2>6, <2>7, <2>8, <2>9, <2>10, <2>11
       DEF Next, PinSteps, vars, calls, Start, Coin, CleanupExpired, Clear
<1>2. DownInv'
  <2>1. ASSUME NEW loaded \in BOOLEAN, Start(loaded) PROVE DownInv'
    BY <2>1 DEF Start, DownInv
  <2>2. CASE Crash
    BY <2>2 DEF Crash, DownInv, OfThreads
  <2>3. CASE UNCHANGED vars
    BY <2>3 DEF vars, calls, session, pinned, DownInv
  <2>4. ASSUME up, up', UNCHANGED available, ~available => UNCHANGED <<entries, byToken>>
        PROVE  DownInv'
    BY <2>4 DEF DownInv
  <2>5. \A t \in Threads : pc[t] # "idle" => up
    BY DEF DownInv
  <2>6. ASSUME NEW t \in Threads, NEW v \in Values, NEW c \in Categories,
               TokenizeLookup(t, v, c) \/ PinFloor(t, v, c)
        PROVE  DownInv'
    BY <2>6, <2>4 DEF TokenizeLookup, PinFloor, pinned
  <2>7. ASSUME NEW t \in Threads,
               TokenizeMint(t) \/ PinSteps(t) \/ DetokPinned(t) \/ DetokReturn(t)
        PROVE  DownInv'
    <3>1. up /\ UNCHANGED up
      BY <2>5, <2>7
         DEF TokenizeMint, MayMint, PinSteps, PinKnown, PinStore, WriteRaises, Unpinned,
             PinSync, DetokPinned, DetokReturn
    <3> QED
      BY <2>4, <2>7, <3>1
         DEF TokenizeMint, MayMint, PinSteps, PinKnown, PinStore, WriteRaises, Unpinned,
             PinSync, DetokPinned, DetokReturn,
             pinned
  <2>8. ASSUME NEW t \in Threads, NEW pair \in issued, DetokSession(t, pair[1], pair[2])
        PROVE  DownInv'
    BY <2>8, <2>4 DEF DetokSession, pinned
  <2>9. ASSUME NEW expired \in SUBSET Live, CleanupExpired(expired) PROVE DownInv'
    BY <2>9, <2>4 DEF CleanupExpired, pinned
  <2>10. ASSUME Clear \/ \E term \in Coinable : Coin(term) PROVE DownInv'
    BY <2>10, <2>4 DEF Clear, Coin, pinned
  <2> QED
    BY <2>1, <2>2, <2>3, <2>6, <2>7, <2>8, <2>9, <2>10 DEF Next
<1> QED
  BY <1>1, <1>2

(***************************************************************************)
(* Every way out of a pin, failing writes and crashes included, leaves the *)
(* lock free, and only the thread inside pin ever holds it.                *)
(***************************************************************************)
THEOREM LockIsReleased == Spec => []LockInv
<1>1. Init => TypeInv /\ LockInv /\ DownInv
  BY TypeInit, ControlInit
<1>2. TypeInv /\ LockInv /\ DownInv /\ [Next]_vars => TypeInv' /\ LockInv' /\ DownInv'
  BY TypeStep, ControlStep
<1> QED
  BY <1>1, <1>2, PTL DEF Spec

-----------------------------------------------------------------------------
LEMMA DurabilityInit == Init => DurabilityInv
BY TypeInit, ControlInit
   DEF Init, DurabilityInv, MirrorInv, AckedPinsAreOnDisk, OfThreads

(***************************************************************************)
(* As long as writes succeed the file mirrors the loaded vault, so a pin   *)
(* that returns is in the file, and later pins do not disturb it.          *)
(***************************************************************************)
LEMMA DurabilityStep ==
  ASSUME ~WriteMayFail
  PROVE  DurabilityInv /\ [Next]_vars => DurabilityInv'
<1> SUFFICES ASSUME DurabilityInv, [Next]_vars PROVE DurabilityInv'
  OBVIOUS
<1>0. TypeInv' /\ LockInv' /\ DownInv'
  BY TypeStep, ControlStep DEF DurabilityInv
<1> SUFFICES MirrorInv' /\ AckedPinsAreOnDisk'
  BY <1>0 DEF DurabilityInv
<1> USE DEF DurabilityInv
<1>1. ASSUME NEW loaded \in BOOLEAN, Start(loaded)
      PROVE  MirrorInv' /\ AckedPinsAreOnDisk'
  BY <1>1 DEF Start, calls, DownInv, MirrorInv, AckedPinsAreOnDisk
<1>2. CASE Crash
  BY <1>2 DEF Crash, OfThreads, MirrorInv, AckedPinsAreOnDisk
<1>3. ASSUME NEW t \in Threads, NEW v \in Values, NEW c \in Categories,
             TokenizeLookup(t, v, c) \/ PinFloor(t, v, c)
      PROVE  MirrorInv' /\ AckedPinsAreOnDisk'
  BY <1>3 DEF TokenizeLookup, PinFloor, Goto, pinned, calls, MirrorInv,
              AckedPinsAreOnDisk, TypeInv, TypeOK
<1>4. ASSUME NEW t \in Threads, TokenizeMint(t) \/ DetokReturn(t)
      PROVE  MirrorInv' /\ AckedPinsAreOnDisk'
  BY <1>4 DEF TokenizeMint, MayMint, DetokReturn, Return, Goto, pinned, MirrorInv,
              AckedPinsAreOnDisk, TypeInv, TypeOK
<1>5. ASSUME NEW t \in Threads, PinKnown(t)
      PROVE  MirrorInv' /\ AckedPinsAreOnDisk'
  BY <1>5 DEF PinKnown, Goto, pinned, MirrorInv, AckedPinsAreOnDisk, TypeInv, TypeOK
<1>6. ASSUME NEW t \in Threads, PinStore(t)
      PROVE  MirrorInv' /\ AckedPinsAreOnDisk'
  <2> DEFINE p  == CategoryPrefix(cat[t])
             n  == Bigger(1 + MaxPinned(byToken, p), floor[t])
             tk == <<p, n>>
  <2>1. /\ available' /\ disk' = entries' /\ entries' = [entries EXCEPT ![val[t]] = tk]
        /\ tok' = [tok EXCEPT ![t] = tk] /\ pc' = [pc EXCEPT ![t] = "sync"]
        /\ UNCHANGED <<val, acked>>
        /\ entries[val[t]] = NoToken /\ disk = entries
    BY <1>6 DEF PinStore, WriteRaises, Unpinned, Goto, MirrorInv
  <2>2. val[t] \in Values
    BY <1>6, StoreTyped
  <2>3. \A th \in Threads \ {t} : pc[th] # "sync"
    BY <1>6 DEF PinStore, WriteRaises, Unpinned, LockInv
  <2>4. MirrorInv'
    BY <2>1, <2>2, <2>3 DEF MirrorInv, TypeInv, TypeOK
  <2>5. \A pair \in acked : pair[2] # val[t]
    BY <2>1, VaultAssumption DEF AckedPinsAreOnDisk, TypeInv, TypeOK
  <2> QED
    BY <2>1, <2>4, <2>5 DEF AckedPinsAreOnDisk, TypeInv, TypeOK
<1>7. ASSUME NEW t \in Threads, PinSync(t)
      PROVE  MirrorInv' /\ AckedPinsAreOnDisk'
  <2>1. MirrorInv'
    BY <1>7 DEF PinSync, Return, Goto, pinned, MirrorInv, TypeInv, TypeOK
  <2>2. ASSUME tok[t] # NoToken PROVE disk[val[t]] = tok[t]
    <3>1. val[t] \in Values /\ entries[val[t]] = tok[t]
      BY <1>7, <2>2 DEF PinSync, MirrorInv, TypeInv, CallTyped
    <3>2. available
      BY <2>2, <3>1 DEF DownInv, NoTokens
    <3> QED
      BY <3>1, <3>2 DEF MirrorInv
  <2> QED
    BY <1>7, <2>1, <2>2 DEF PinSync, AckedPinsAreOnDisk
<1>8. ASSUME NEW t \in Threads, NEW pair \in issued, DetokSession(t, pair[1], pair[2])
      PROVE  MirrorInv' /\ AckedPinsAreOnDisk'
  BY <1>8 DEF DetokSession, Goto, pinned, MirrorInv, AckedPinsAreOnDisk, TypeInv, TypeOK
<1>9. ASSUME NEW t \in Threads, DetokPinned(t)
      PROVE  MirrorInv' /\ AckedPinsAreOnDisk'
  BY <1>9 DEF DetokPinned, Goto, pinned, MirrorInv, AckedPinsAreOnDisk, TypeInv, TypeOK
<1>10. CASE UNCHANGED <<pinned, disk, calls, acked>>
  BY <1>10 DEF pinned, calls, MirrorInv, AckedPinsAreOnDisk
<1> QED
  BY <1>1, <1>2, <1>3, <1>4, <1>5, <1>6, <1>7, <1>8, <1>9, <1>10
     DEF Next, PinSteps, vars, Coin, CleanupExpired, Clear

(***************************************************************************)
(* Where no write fails, a token that pin() returned stays in the vault    *)
(* file for ever, across crashes and loads that fail.                      *)
(***************************************************************************)
THEOREM PinsAreDurable ==
  ASSUME ~WriteMayFail
  PROVE  Spec => []AckedPinsAreOnDisk
<1>1. DurabilityInv => AckedPinsAreOnDisk
  BY DEF DurabilityInv
<1> QED
  BY DurabilityInit, DurabilityStep, <1>1, PTL DEF Spec

(***************************************************************************)
(* Where no write fails, every vault that is loaded, in this run of the    *)
(* process or a later one, answers with the token pin() returned.          *)
(***************************************************************************)
THEOREM PinsAreStable ==
  ASSUME ~WriteMayFail
  PROVE  Spec => []AckedPinsAreStable
<1>1. DurabilityInv => AckedPinsAreStable
  BY DEF DurabilityInv, MirrorInv, AckedPinsAreOnDisk, AckedPinsAreStable
<1> QED
  BY DurabilityInit, DurabilityStep, <1>1, PTL DEF Spec

-----------------------------------------------------------------------------
(***************************************************************************)
(* Without prefix clashes the prefix of a category is the same in every    *)
(* state of the registry, and a pinned prefix is its own category_prefix:  *)
(* the floors miss no pinned token.                                        *)
(***************************************************************************)
LEMMA PrefixIsFixed ==
  ASSUME RegistryInv, NEW c \in Terms
  PROVE  PrefixFor(registry, c) = Fixed(c)
BY DEF RegistryInv, Fixed, PrefixFor, Unlearned

LEMMA RegistryStep ==
  ASSUME NoPrefixClash, TypeInv, RegistryInv, NEW term \in Coinable, Coin(term)
  PROVE  RegistryInv'
<1>1. /\ term \in LabelShaped /\ registry[term] = NoPrefix /\ term \in Terms
      /\ Derived[term] \notin CanonicalPrefixes
  BY VaultAssumption DEF Coin, MayCoin, NoPrefixClash
<1>2. \A u \in Learned(registry) : registry[u] # Derived[term]
  BY <1>1 DEF Learned, RegistryInv, NoPrefixClash
<1>3. UniquePrefixes(registry, term) = {Derived[term]}
  BY <1>1, <1>2 DEF UniquePrefixes
<1>4. registry' = [registry EXCEPT ![term] = Derived[term]]
  BY <1>3 DEF Coin
<1> QED
  BY <1>1, <1>4 DEF RegistryInv, TypeInv, TypeOK, Registry

LEMMA FloorsCover ==
  ASSUME NoPrefixClash, RegistryInv,
         NEW count \in [Prefixes -> 0 .. MaxIndex],
         NEW tokens \in [Token -> Values \cup {NoValue}],
         NEW t \in Token, tokens[t] # NoValue, t[1] \in Mintable
  PROVE  t[2] <= Floors(count, tokens)[t[1]]
<1> DEFINE p == t[1]
<1>1. p \in Prefixes /\ t[2] \in 1 .. MaxIndex /\ t = <<p, t[2]>>
  BY DEF Token
<1>2. TermOf[p] \in Terms /\ Fixed(TermOf[p]) = p
  BY <1>1, TaxonomyAssumption DEF NoPrefixClash
<1>3. Reprefix(registry, p) = p
  BY <1>2, PrefixIsFixed DEF Reprefix
<1>4. p \in {q \in Prefixes : \E n \in 1 .. MaxIndex : tokens[<<q, n>>] # NoValue}
  BY <1>1
<1>5. Floors(count, tokens)[p] = Bigger(count[p], MaxPinned(tokens, p))
  BY <1>1, <1>3, <1>4 DEF Floors
<1>6. t[2] <= MaxPinned(tokens, p) /\ MaxPinned(tokens, p) \in 0 .. MaxIndex
  BY <1>1, MaxPinnedIsMax
<1> QED
  BY <1>1, <1>5, <1>6, VaultAssumption DEF Bigger

-----------------------------------------------------------------------------
(***************************************************************************)
(* The two halves of SeparationInv: facts about the stores and what was    *)
(* issued from them, and facts about the calls in progress.                *)
(***************************************************************************)
StoreFacts ==
  /\ RegistryInv /\ PinnedMintable /\ IssuedInv
  /\ Promise!Unambiguous /\ NoCollision

CallFacts == PinnedBelowCounter /\ PinAboveCounter /\ DetokIssued /\ RestoredExact

(***************************************************************************)
(* A thread that mints takes a number that no token in sight has.          *)
(***************************************************************************)
LEMMA MintFresh ==
  ASSUME SeparationInv, NEW t \in Threads, TokenizeMint(t), forward[val[t]] = NoToken
  PROVE  LET p  == CategoryPrefix(cat[t])
             tk == <<p, counters[p] + 1>>
         IN  /\ reverse[tk] = NoValue /\ byToken[tk] = NoValue
             /\ \A pair \in issued : pair[1] # tk
<1> DEFINE p  == CategoryPrefix(cat[t])
           tk == <<p, counters[p] + 1>>
<1>1. tk \in Token /\ p \in Prefixes /\ counters[p] \in 0 .. MaxIndex
  BY MintTyped DEF SeparationInv, StoresInv, TypeInv, TypeOK
<1>2. reverse[tk] = NoValue
  BY <1>1 DEF SeparationInv, StoresInv, SessionBelowCounter
<1>3. up
  BY DEF TokenizeMint, MayMint, SeparationInv, DurabilityInv, DownInv
<1>4. \A th \in Threads : pc[th] # "sync"
  BY VaultAssumption DEF TokenizeMint, MayMint, SeparationInv, DurabilityInv, LockInv
<1>5. byToken[tk] = NoValue
  BY <1>1, <1>3, <1>4 DEF SeparationInv, PinnedBelowCounter
<1>6. \A pair \in issued : pair[1] # tk
  <2> SUFFICES ASSUME NEW pair \in issued, pair[1] = tk PROVE FALSE
    OBVIOUS
  <2>1. byToken[tk] = pair[2] /\ pair[2] \in Values
    BY <1>1 DEF SeparationInv, StoresInv, TypeInv, TypeOK, IssuedInv
  <2> QED
    BY <1>5, <2>1, VaultAssumption
<1> QED
  BY <1>2, <1>5, <1>6

(***************************************************************************)
(* So does a thread that stores a pin: its floor is above both stores.     *)
(***************************************************************************)
LEMMA StoreFresh ==
  ASSUME SeparationInv, NEW t \in Threads, PinStore(t)
  PROVE  LET p  == CategoryPrefix(cat[t])
             tk == <<p, Bigger(1 + MaxPinned(byToken, p), floor[t])>>
         IN  /\ p \in Mintable
             /\ reverse[tk] = NoValue
             /\ \A pair \in issued : pair[1] # tk
<1> DEFINE p  == CategoryPrefix(cat[t])
           n  == Bigger(1 + MaxPinned(byToken, p), floor[t])
           tk == <<p, n>>
<1>1. /\ tk \in Token /\ byToken[tk] = NoValue /\ cat[t] \in Categories
      /\ p \in Prefixes /\ n \in 1 .. MaxIndex /\ n >= floor[t]
  BY StoreTyped DEF SeparationInv, StoresInv
<1>2. p = Fixed(cat[t]) /\ p \in Mintable
  BY <1>1, PrefixIsFixed, VaultAssumption DEF SeparationInv, CategoryPrefix, Mintable
<1>3. counters[p] < floor[t]
  BY <1>2 DEF PinStore, WriteRaises, Unpinned, SeparationInv, PinAboveCounter
<1>4. counters[p] < n
  BY <1>1, <1>3 DEF SeparationInv, StoresInv, TypeInv, TypeOK
<1>5. reverse[tk] = NoValue
  BY <1>1, <1>4 DEF SeparationInv, StoresInv, SessionBelowCounter, TypeInv, TypeOK
<1>6. \A pair \in issued : pair[1] # tk
  <2> SUFFICES ASSUME NEW pair \in issued, pair[1] = tk PROVE FALSE
    OBVIOUS
  <2>1. pair[2] \in Values /\ (n <= counters[p] \/ byToken[tk] = pair[2])
    BY DEF SeparationInv, StoresInv, TypeInv, TypeOK, IssuedInv
  <2> QED
    BY <1>1, <1>4, <2>1, VaultAssumption DEF SeparationInv, StoresInv, TypeInv, TypeOK
<1> QED
  BY <1>2, <1>5, <1>6

(***************************************************************************)
(* Handing out again a token that a store holds is always safe.            *)
(***************************************************************************)
LEMMA ReissueSafe ==
  ASSUME SeparationInv, NEW tk \in Token, NEW v \in Values,
         \/ reverse[tk] = v
         \/ byToken[tk] = v
  PROVE  /\ reverse[tk] \in {v, NoValue}
         /\ byToken[tk] \in {v, NoValue}
         /\ tk[2] <= counters[tk[1]] \/ byToken[tk] = v
         /\ \A pair \in issued : pair[1] = tk => pair[2] = v
<1>1. CASE reverse[tk] = v
  BY <1>1, VaultAssumption
     DEF SeparationInv, StoresInv, SessionBelowCounter, NoCollision, IssuedInv
<1>2. CASE byToken[tk] = v
  BY <1>2, VaultAssumption DEF SeparationInv, NoCollision, IssuedInv
<1> QED
  BY <1>1, <1>2

(***************************************************************************)
(* A step that hands out one more pair, safely, keeps the issued tokens    *)
(* unambiguous.                                                            *)
(***************************************************************************)
LEMMA IssueOne ==
  ASSUME Promise!Unambiguous, NEW tk, NEW v,
         issued' = issued \cup {<<tk, v>>},
         \A pair \in issued : pair[1] = tk => pair[2] = v
  PROVE  Promise!Unambiguous'
BY DEF Promise!Unambiguous

LEMMA StoreFactsStep ==
  ASSUME NoPrefixClash, ~WriteMayFail, ~MayClear
  PROVE  SeparationInv /\ [Next]_vars => StoreFacts'
<1> SUFFICES ASSUME SeparationInv, [Next]_vars PROVE StoreFacts'
  OBVIOUS
<1>0. /\ TypeInv /\ TypeOK /\ TypeInv' /\ TypeOK'
      /\ RegistryInv /\ PinnedMintable /\ IssuedInv /\ Promise!Unambiguous /\ NoCollision
  BY TypeStep DEF SeparationInv, StoresInv, TypeInv
<1>1. ASSUME NEW loaded \in BOOLEAN, Start(loaded) PROVE StoreFacts'
  <2>1. issued' = {} /\ reverse' = NoValues /\ UNCHANGED <<registry, disk>>
    BY <1>1 DEF Start, SeparationInv, DurabilityInv, DownInv
  <2>2. \A t \in Token : byToken'[t] # NoValue => t[1] \in Mintable
    <3>1. CASE loaded
      <4>1. \A t \in Token : Inverse(disk)[t] # NoValue =>
              Inverse(disk)[t] \in Values /\ disk[Inverse(disk)[t]] = t
        BY InverseOfInjective DEF SeparationInv, StoresInv, StoresConsistent, TypeInv, TypeOK
      <4> QED
        BY <1>0, <1>1, <3>1, <4>1, VaultAssumption DEF Start, PinnedMintable
    <3>2. CASE ~loaded
      BY <1>1, <3>2 DEF Start, NoValues
    <3> QED
      BY <3>1, <3>2
  <2> QED
    BY <1>0, <2>1, <2>2
       DEF StoreFacts, RegistryInv, PinnedMintable, IssuedInv, Promise!Unambiguous,
           NoCollision, NoValues
<1>2. CASE Crash
  BY <1>0, <1>2
     DEF Crash, StoreFacts, RegistryInv, PinnedMintable, IssuedInv, Promise!Unambiguous,
         NoCollision, NoValues
<1>3. ASSUME NEW term \in Coinable, Coin(term) PROVE StoreFacts'
  <2>1. RegistryInv'
    BY <1>0, <1>3, RegistryStep
  <2> QED
    BY <1>0, <1>3, <2>1
       DEF Coin, session, pinned, StoreFacts, PinnedMintable, IssuedInv,
           Promise!Unambiguous, NoCollision
<1>4. ASSUME NEW t \in Threads, NEW v \in Values, NEW c \in Categories,
             TokenizeLookup(t, v, c)
      PROVE  StoreFacts'
  <2>1. UNCHANGED <<registry, session, pinned, disk>>
    BY <1>4 DEF TokenizeLookup
  <2>2. CASE issued' = issued
    BY <1>0, <2>1, <2>2
       DEF session, pinned, StoreFacts, RegistryInv, PinnedMintable, IssuedInv,
           Promise!Unambiguous, NoCollision
  <2>3. CASE entries[v] # NoToken /\ issued' = issued \cup {<<entries[v], v>>}
    <3>1. entries[v] \in Token /\ byToken[entries[v]] = v
      BY <2>3 DEF SeparationInv, StoresInv, StoresConsistent, TypeInv, TypeOK
    <3>2. Promise!Unambiguous'
      BY <1>0, <2>3, <3>1, ReissueSafe, IssueOne
    <3>3. IssuedInv'
      BY <1>0, <2>1, <2>3, <3>1, ReissueSafe DEF session, pinned, IssuedInv
    <3> QED
      BY <1>0, <2>1, <3>2, <3>3
         DEF session, pinned, StoreFacts, RegistryInv, PinnedMintable, NoCollision
  <2> QED
    BY <1>4, <2>2, <2>3 DEF TokenizeLookup
<1>5. ASSUME NEW t \in Threads, TokenizeMint(t) PROVE StoreFacts'
  <2>1. UNCHANGED <<registry, pinned, disk>>
    BY <1>5 DEF TokenizeMint, MayMint
  <2>2. CASE forward[val[t]] # NoToken
    <3>1. /\ forward[val[t]] \in Token /\ val[t] \in Values
          /\ reverse[forward[val[t]]] = val[t]
      <4>1. val[t] \in Values
        BY <1>0, <1>5, MintTyped
      <4> QED
        BY <1>0, <2>2, <4>1 DEF SeparationInv, StoresInv, StoresConsistent, TypeOK
    <3>2. issued' = issued \cup {<<forward[val[t]], val[t]>>} /\ UNCHANGED session
      BY <1>5, <2>2 DEF TokenizeMint, MayMint
    <3>3. Promise!Unambiguous'
      BY <1>0, <3>1, <3>2, ReissueSafe, IssueOne
    <3>4. IssuedInv'
      BY <1>0, <2>1, <3>1, <3>2, ReissueSafe DEF session, pinned, IssuedInv
    <3> QED
      BY <1>0, <2>1, <3>2, <3>3, <3>4
         DEF session, pinned, StoreFacts, RegistryInv, PinnedMintable, NoCollision
  <2>3. CASE forward[val[t]] = NoToken
    <3> DEFINE p  == CategoryPrefix(cat[t])
               n  == counters[p] + 1
               tk == <<p, n>>
    <3>1. /\ val[t] \in Values /\ p \in Prefixes /\ n \in 1 .. MaxIndex /\ tk \in Token
          /\ byToken[tk] = NoValue /\ \A pair \in issued : pair[1] # tk
      BY <1>0, <1>5, <2>3, MintTyped, MintFresh
    <3>2. /\ counters' = [counters EXCEPT ![p] = n]
          /\ reverse' = [reverse EXCEPT ![tk] = val[t]]
          /\ issued' = issued \cup {<<tk, val[t]>>}
      BY <1>5, <2>3 DEF TokenizeMint, MayMint
    <3>3. Promise!Unambiguous'
      <4>1. \A pair \in issued : pair[1] = tk => pair[2] = val[t]
        BY <3>1
      <4> HIDE DEF tk
      <4> QED
        BY <1>0, <3>2, <4>1, IssueOne
    <3>4. \A q \in Prefixes : counters[q] <= counters'[q]
      BY <3>1, <3>2 DEF SeparationInv, StoresInv, TypeInv, TypeOK
    <3>5. IssuedInv'
      <4>1. ASSUME NEW pair \in issued
            PROVE  /\ reverse'[pair[1]] = reverse[pair[1]]
                   /\ pair[1][2] <= counters[pair[1][1]] =>
                        pair[1][2] <= counters'[pair[1][1]]
        BY <1>0, <3>1, <3>2, <3>4 DEF TypeOK, Token
      <4>2. reverse'[tk] = val[t] /\ counters'[p] = n
        BY <1>0, <3>1, <3>2 DEF TypeOK
      <4> QED
        BY <1>0, <2>1, <3>1, <3>2, <4>1, <4>2 DEF pinned, IssuedInv, Token
    <3>6. NoCollision'
      BY <1>0, <2>1, <3>1, <3>2 DEF pinned, NoCollision, TypeOK
    <3> QED
      BY <1>0, <2>1, <3>3, <3>5, <3>6 DEF pinned, StoreFacts, RegistryInv, PinnedMintable
  <2> QED
    BY <2>2, <2>3
<1>6. ASSUME NEW t \in Threads, PinStore(t) PROVE StoreFacts'
  <2> DEFINE p  == CategoryPrefix(cat[t])
             tk == <<p, Bigger(1 + MaxPinned(byToken, p), floor[t])>>
  <2>1. /\ UNCHANGED <<registry, session, issued>> /\ disk' = entries'
        /\ entries' = [entries EXCEPT ![val[t]] = tk]
        /\ byToken' = [byToken EXCEPT ![tk] = val[t]]
        /\ disk = entries
    BY <1>6 DEF PinStore, WriteRaises, Unpinned, SeparationInv, DurabilityInv, MirrorInv
  <2>2. /\ val[t] \in Values /\ tk \in Token /\ byToken[tk] = NoValue /\ p \in Mintable
        /\ reverse[tk] = NoValue /\ \A pair \in issued : pair[1] # tk
    BY <1>0, <1>6, StoreTyped, StoreFresh
  <2>3. PinnedMintable'
    <3>1. \A k \in Token : byToken'[k] # NoValue => k[1] \in Mintable
      BY <1>0, <2>1, <2>2 DEF PinnedMintable, TypeOK
    <3>2. \A v \in Values : disk'[v] # NoToken => disk'[v][1] \in Mintable
      BY <1>0, <2>1, <2>2 DEF PinnedMintable, TypeOK
    <3> QED
      BY <3>1, <3>2 DEF PinnedMintable
  <2>4. IssuedInv'
    BY <1>0, <2>1, <2>2 DEF session, IssuedInv, TypeOK
  <2>5. NoCollision'
    BY <1>0, <2>1, <2>2 DEF session, NoCollision, TypeOK
  <2> QED
    BY <1>0, <2>1, <2>3, <2>4, <2>5 DEF StoreFacts, RegistryInv, Promise!Unambiguous
<1>7. ASSUME NEW t \in Threads, PinSync(t) PROVE StoreFacts'
  <2>1. UNCHANGED <<registry, forward, reverse, pinned, disk>>
    BY <1>7 DEF PinSync
  <2>2. \A q \in Prefixes : counters[q] <= counters'[q]
    BY <1>0, <1>7, FloorsRaise DEF PinSync, TypeOK
  <2>3. \A k \in Token : k[2] <= counters[k[1]] => k[2] <= counters'[k[1]]
    BY <1>0, <2>2 DEF TypeOK, Token
  <2>4. CASE tok[t] = NoToken
    <3>1. UNCHANGED issued
      BY <1>7, <2>4 DEF PinSync
    <3>2. IssuedInv'
      BY <1>0, <2>1, <2>3, <3>1 DEF pinned, IssuedInv, TypeOK
    <3> QED
      BY <1>0, <2>1, <3>1, <3>2
         DEF pinned, StoreFacts, RegistryInv, PinnedMintable, Promise!Unambiguous, NoCollision
  <2>5. CASE tok[t] # NoToken
    <3>1. /\ tok[t] \in Token /\ val[t] \in Values /\ byToken[tok[t]] = val[t]
          /\ issued' = issued \cup {<<tok[t], val[t]>>}
      BY <1>7, <2>5
         DEF PinSync, SeparationInv, StoresInv, DurabilityInv, MirrorInv,
             StoresConsistent, TypeInv, TypeOK, CallTyped
    <3>2. Promise!Unambiguous'
      BY <1>0, <3>1, ReissueSafe, IssueOne
    <3>3. IssuedInv'
      BY <1>0, <2>1, <2>3, <3>1, ReissueSafe DEF pinned, IssuedInv, TypeOK
    <3> QED
      BY <1>0, <2>1, <3>2, <3>3
         DEF pinned, StoreFacts, RegistryInv, PinnedMintable, NoCollision
  <2> QED
    BY <2>4, <2>5
<1>8. ASSUME NEW expired \in SUBSET Live, CleanupExpired(expired) PROVE StoreFacts'
  BY <1>0, <1>8
     DEF CleanupExpired, pinned, StoreFacts, RegistryInv, PinnedMintable, IssuedInv,
         Promise!Unambiguous, NoCollision, TypeOK
<1>9. CASE UNCHANGED <<registry, session, pinned, disk, issued>>
  BY <1>0, <1>9
     DEF session, pinned, StoreFacts, RegistryInv, PinnedMintable, IssuedInv,
         Promise!Unambiguous, NoCollision
<1> QED
  BY <1>1, <1>2, <1>3, <1>4, <1>5, <1>6, <1>7, <1>8, <1>9
     DEF Next, PinSteps, vars, PinFloor, PinKnown, DetokSession, DetokPinned, DetokReturn,
         Clear

LEMMA CallFactsStep ==
  ASSUME NoPrefixClash, ~WriteMayFail, ~MayClear
  PROVE  SeparationInv /\ [Next]_vars => CallFacts'
<1> SUFFICES ASSUME SeparationInv, [Next]_vars PROVE CallFacts'
  OBVIOUS
<1>0. /\ TypeInv /\ TypeOK /\ TypeInv' /\ TypeOK'
      /\ LockInv /\ DownInv /\ RegistryInv /\ PinnedMintable /\ IssuedInv
      /\ PinnedBelowCounter /\ PinAboveCounter /\ DetokIssued /\ RestoredExact
  BY TypeStep DEF SeparationInv, StoresInv, DurabilityInv, TypeInv
<1>1. ASSUME NEW loaded \in BOOLEAN, Start(loaded) PROVE CallFacts'
  <2>1. \A t \in Threads : pc'[t] = "idle"
    BY <1>0, <1>1 DEF Start, calls, DownInv
  <2>2. ASSUME NEW t \in Token, byToken'[t] # NoValue PROVE t[2] <= counters'[t[1]]
    <3>1. loaded /\ byToken' = Inverse(disk) /\ counters' = Floors(counters, Inverse(disk))
      BY <1>1, <2>2 DEF Start, NoValues
    <3>2. StoreFacts'
      BY StoreFactsStep
    <3>3. t[1] \in Mintable
      BY <2>2, <3>2 DEF StoreFacts, PinnedMintable
    <3> QED
      BY <1>0, <2>2, <3>1, <3>3, InverseType, FloorsCover DEF TypeOK
  <2> QED
    BY <2>1, <2>2
       DEF CallFacts, PinnedBelowCounter, PinAboveCounter, DetokIssued, RestoredExact
<1>2. CASE Crash
  BY <1>2
     DEF Crash, OfThreads, CallFacts, PinnedBelowCounter, PinAboveCounter, DetokIssued,
         RestoredExact
<1>3. ASSUME NEW t \in Threads, NEW v \in Values, NEW c \in Categories,
             TokenizeLookup(t, v, c)
      PROVE  CallFacts'
  BY <1>0, <1>3
     DEF TokenizeLookup, Goto, session, pinned, calls, CallFacts, PinnedBelowCounter,
         PinAboveCounter, DetokIssued, RestoredExact, TypeOK
<1>4. ASSUME NEW t \in Threads, NEW v \in Values, NEW c \in Categories, PinFloor(t, v, c)
      PROVE  CallFacts'
  <2>1. CategoryPrefix(c) = Fixed(c) /\ CategoryPrefix(c) \in Prefixes
    BY <1>0, PrefixIsFixed, PrefixType, VaultAssumption DEF CategoryPrefix, TypeOK
  <2>2. counters[CategoryPrefix(c)] < floor'[t]
    <3>1. MaxPinned(byToken, CategoryPrefix(c)) \in 0 .. MaxIndex
      BY <1>0, <2>1, MaxPinnedIsMax DEF TypeOK
    <3> QED
      BY <1>0, <1>4, <2>1, <3>1 DEF PinFloor, PinFrom, Bigger, TypeOK
  <2>3. PinAboveCounter'
    BY <1>0, <1>4, <2>1, <2>2 DEF PinFloor, Goto, session, PinAboveCounter, TypeOK
  <2> QED
    BY <1>0, <1>4, <2>3
       DEF PinFloor, Goto, session, pinned, CallFacts, PinnedBelowCounter, DetokIssued,
           RestoredExact, TypeOK
<1>5. ASSUME NEW t \in Threads, TokenizeMint(t) PROVE CallFacts'
  <2>1. \A th \in Threads : pc[th] \notin {"pin", "sync"}
    BY <1>0, <1>5, VaultAssumption DEF TokenizeMint, MayMint, LockInv
  <2>2. \A th \in Threads : pc'[th] \notin {"pin", "sync"}
    BY <1>0, <1>5, <2>1 DEF TokenizeMint, MayMint, Return, Goto, TypeOK
  <2>3. \A q \in Prefixes : counters[q] <= counters'[q]
    <3>1. CASE forward[val[t]] # NoToken
      BY <1>0, <1>5, <3>1 DEF TokenizeMint, MayMint, session, TypeOK
    <3>2. CASE forward[val[t]] = NoToken
      BY <1>0, <1>5, <3>2, MintTyped DEF TokenizeMint, MayMint, TypeOK
    <3> QED
      BY <3>1, <3>2
  <2>4. PinnedBelowCounter'
    BY <1>0, <1>5, <2>1, <2>3
       DEF TokenizeMint, MayMint, pinned, PinnedBelowCounter, Token, TypeOK
  <2>5. PinAboveCounter'
    BY <2>2 DEF PinAboveCounter
  <2>6. DetokIssued' /\ RestoredExact'
    BY <1>0, <1>5 DEF TokenizeMint, MayMint, Return, Goto, DetokIssued, RestoredExact, TypeOK
  <2> QED
    BY <2>4, <2>5, <2>6 DEF CallFacts
<1>6. ASSUME NEW t \in Threads, PinKnown(t) PROVE CallFacts'
  BY <1>0, <1>6
     DEF PinKnown, Goto, session, pinned, CallFacts, PinnedBelowCounter, PinAboveCounter,
         DetokIssued, RestoredExact, TypeOK
<1>7. ASSUME NEW t \in Threads, PinStore(t) PROVE CallFacts'
  <2> DEFINE p  == CategoryPrefix(cat[t])
             tk == <<p, Bigger(1 + MaxPinned(byToken, p), floor[t])>>
  <2>1. /\ byToken' = [byToken EXCEPT ![tk] = val[t]]
        /\ tok' = [tok EXCEPT ![t] = tk] /\ pc' = [pc EXCEPT ![t] = "sync"]
        /\ UNCHANGED <<up, session, val, cat, floor, got, issued>> /\ pc[t] = "pin"
    BY <1>7 DEF PinStore, WriteRaises, Unpinned, Goto
  <2>2. tk \in Token /\ val[t] \in Values
    BY <1>0, <1>7, StoreTyped
  <2>3. \A th \in Threads \ {t} : pc[th] # "sync"
    BY <1>0, <2>1 DEF LockInv
  <2>4. PinnedBelowCounter'
    BY <1>0, <2>1, <2>2, <2>3 DEF session, PinnedBelowCounter, TypeOK
  <2> QED
    BY <1>0, <2>1, <2>4
       DEF session, CallFacts, PinAboveCounter, DetokIssued, RestoredExact, TypeOK
<1>8. ASSUME NEW t \in Threads, PinSync(t) PROVE CallFacts'
  <2>1. UNCHANGED byToken /\ \A th \in Threads \ {t} : pc[th] \notin {"pin", "sync"}
    BY <1>0, <1>8 DEF PinSync, pinned, LockInv
  <2>2. \A th \in Threads : pc'[th] \notin {"pin", "sync"}
    BY <1>0, <1>8, <2>1 DEF PinSync, Return, Goto, TypeOK
  <2>3. ASSUME NEW k \in Token, byToken[k] # NoValue PROVE k[2] <= counters'[k[1]]
    <3>1. available
      BY <1>0, <2>3 DEF DownInv, NoValues
    <3>2. counters' = Floors(counters, byToken)
      BY <1>8, <3>1 DEF PinSync
    <3>3. k[1] \in Mintable
      BY <1>0, <2>3 DEF PinnedMintable
    <3> QED
      BY <1>0, <2>3, <3>2, <3>3, FloorsCover DEF TypeOK
  <2>4. PinnedBelowCounter'
    BY <2>1, <2>3 DEF PinnedBelowCounter
  <2>5. PinAboveCounter'
    BY <2>2 DEF PinAboveCounter
  <2>6. DetokIssued' /\ RestoredExact'
    BY <1>0, <1>8 DEF PinSync, Return, Goto, DetokIssued, RestoredExact, TypeOK
  <2> QED
    BY <2>4, <2>5, <2>6 DEF CallFacts
<1>9. ASSUME NEW t \in Threads, NEW pair \in issued, DetokSession(t, pair[1], pair[2])
      PROVE  CallFacts'
  <2>1. pair = <<pair[1], pair[2]>> /\ reverse[pair[1]] \in {pair[2], NoValue}
    BY <1>0 DEF IssuedInv, TypeOK
  <2>2. DetokIssued' /\ RestoredExact'
    BY <1>0, <1>9, <2>1 DEF DetokSession, Goto, DetokIssued, RestoredExact, TypeOK
  <2> QED
    BY <1>0, <1>9, <2>2
       DEF DetokSession, Goto, session, pinned, CallFacts, PinnedBelowCounter,
           PinAboveCounter, TypeOK
<1>10. ASSUME NEW t \in Threads, DetokPinned(t) PROVE CallFacts'
  <2>1. LookupPinnedToken(tok[t]) \in {val[t], NoValue}
    BY <1>0, <1>10 DEF DetokPinned, DetokIssued, IssuedInv, LookupPinnedToken
  <2> QED
    BY <1>0, <1>10, <2>1
       DEF DetokPinned, Goto, session, pinned, CallFacts, PinnedBelowCounter,
           PinAboveCounter, DetokIssued, RestoredExact, TypeOK
<1>11. ASSUME NEW t \in Threads, DetokReturn(t) PROVE CallFacts'
  BY <1>0, <1>11
     DEF DetokReturn, Return, Goto, session, pinned, CallFacts, PinnedBelowCounter,
         PinAboveCounter, DetokIssued, RestoredExact, TypeOK
<1>12. CASE UNCHANGED <<up, counters, pinned, calls, issued>>
  BY <1>0, <1>12
     DEF pinned, calls, CallFacts, PinnedBelowCounter, PinAboveCounter, DetokIssued,
         RestoredExact
<1> QED
  BY <1>1, <1>2, <1>3, <1>4, <1>5, <1>6, <1>7, <1>8, <1>9, <1>10, <1>11, <1>12
     DEF Next, PinSteps, vars, session, Coin, CleanupExpired, Clear

-----------------------------------------------------------------------------
LEMMA SeparationInit == Init => SeparationInv
<1> SUFFICES ASSUME Init PROVE SeparationInv
  OBVIOUS
<1>1. StoresInv /\ DurabilityInv
  BY StoresInit, DurabilityInit
<1>2. RegistryInv
  BY DEF Init, RegistryInv
<1>3. PinnedBelowCounter /\ PinnedMintable /\ NoCollision
  BY DEF Init, NoTokens, NoValues, PinnedBelowCounter, PinnedMintable, NoCollision
<1>4. PinAboveCounter /\ DetokIssued /\ RestoredExact
  BY DEF Init, OfThreads, PinAboveCounter, DetokIssued, RestoredExact
<1>5. IssuedInv /\ Promise!Unambiguous
  BY DEF Init, IssuedInv, Promise!Unambiguous
<1> QED
  BY <1>1, <1>2, <1>3, <1>4, <1>5 DEF SeparationInv

LEMMA SeparationStep ==
  ASSUME NoPrefixClash, ~WriteMayFail, ~MayClear
  PROVE  SeparationInv /\ [Next]_vars => SeparationInv'
<1> SUFFICES ASSUME SeparationInv, [Next]_vars PROVE SeparationInv'
  OBVIOUS
<1>1. StoresInv' /\ DurabilityInv'
  BY StoresStep, DurabilityStep DEF SeparationInv
<1>2. StoreFacts' /\ CallFacts'
  BY StoreFactsStep, CallFactsStep
<1> QED
  BY <1>1, <1>2 DEF SeparationInv, StoreFacts, CallFacts

(***************************************************************************)
(* Where no write fails, clear() is not called and no coined term shares   *)
(* its derived prefix, the stores, the counters, the calls under way and   *)
(* what was handed out stay in step.                                       *)
(***************************************************************************)
THEOREM StoresStayApart ==
  ASSUME NoPrefixClash, ~WriteMayFail, ~MayClear
  PROVE  Spec => []SeparationInv
BY SeparationInit, SeparationStep, PTL DEF Spec

(***************************************************************************)
(* Under the same conditions no token is in both stores.                   *)
(***************************************************************************)
THEOREM TokensNeverCollide ==
  ASSUME NoPrefixClash, ~WriteMayFail, ~MayClear
  PROVE  Spec => []NoCollision
<1>1. SeparationInv => NoCollision
  BY DEF SeparationInv
<1> QED
  BY StoresStayApart, <1>1, PTL

(***************************************************************************)
(* Under the same conditions a token read back is never turned into        *)
(* another value than the one it was issued for.                           *)
(***************************************************************************)
THEOREM TokensAreRestored ==
  ASSUME NoPrefixClash, ~WriteMayFail, ~MayClear
  PROVE  Spec => []RestoredExact
<1>1. SeparationInv => RestoredExact
  BY DEF SeparationInv
<1> QED
  BY StoresStayApart, <1>1, PTL

(***************************************************************************)
(* Every step hands out at most one pair, or forgets all of them.          *)
(***************************************************************************)
LEMMA IssueStep ==
  ASSUME TypeInv, TypeInv', [Next]_vars
  PROVE  \/ issued' = issued
         \/ issued' = {}
         \/ \E tk \in Token, v \in Values : issued' = issued \cup {<<tk, v>>}
<1> DEFINE Goal == \/ issued' = issued
                   \/ issued' = {}
                   \/ \E tk \in Token, v \in Values : issued' = issued \cup {<<tk, v>>}
<1> USE DEF TypeInv, TypeOK
<1>1. CASE Crash
  BY <1>1 DEF Crash
<1>2. ASSUME NEW t \in Threads, NEW v \in Values, NEW c \in Categories,
             TokenizeLookup(t, v, c)
      PROVE  Goal
  BY <1>2 DEF TokenizeLookup
<1>3. ASSUME NEW t \in Threads, TokenizeMint(t) PROVE Goal
  <2> DEFINE p  == CategoryPrefix(cat[t])
             tk == <<p, counters[p] + 1>>
  <2>1. val[t] \in Values
    BY <1>3, MintTyped
  <2>2. CASE forward[val[t]] # NoToken
    BY <1>3, <2>1, <2>2 DEF TokenizeMint, MayMint
  <2>3. CASE forward[val[t]] = NoToken
    <3>1. tk \in Token /\ issued' = issued \cup {<<tk, val[t]>>}
      BY <1>3, <2>3, MintTyped DEF TokenizeMint, MayMint
    <3> QED
      BY <2>1, <3>1
  <2> QED
    BY <2>2, <2>3
<1>4. ASSUME NEW t \in Threads, PinSync(t) PROVE Goal
  BY <1>4 DEF PinSync, CallTyped
<1>5. CASE UNCHANGED issued
  BY <1>5
<1> QED
  BY <1>1, <1>2, <1>3, <1>4, <1>5
     DEF Next, PinSteps, vars, Start, Coin, PinFloor, PinKnown, PinStore, DetokSession,
         DetokPinned, DetokReturn, CleanupExpired, Clear

(***************************************************************************)
(* Under the same conditions the two stores together implement one         *)
(* registry of unambiguous tokens.                                         *)
(***************************************************************************)
THEOREM PromiseIsKept ==
  ASSUME NoPrefixClash, ~WriteMayFail, ~MayClear
  PROVE  Spec => PromiseKept
<1>1. Init => Promise!Init
  BY DEF Init, Promise!Init
<1>2. SeparationInv /\ SeparationInv' /\ [Next]_vars => [Promise!Next]_issued
  <2> SUFFICES ASSUME SeparationInv, SeparationInv', [Next]_vars
               PROVE  [Promise!Next]_issued
    OBVIOUS
  <2>1. CASE issued' = issued
    BY <2>1
  <2>2. CASE issued' = {}
    BY <2>2 DEF Promise!Next, Promise!Forget
  <2>3. ASSUME NEW tk \in Token, NEW v \in Values, issued' = issued \cup {<<tk, v>>}
        PROVE  [Promise!Next]_issued
    <3>1. \A pair \in issued : pair[1] = tk => pair[2] = v
      BY <2>3 DEF SeparationInv, Promise!Unambiguous
    <3> QED
      BY <2>3, <3>1 DEF Promise!Next, Promise!Issue
  <2> QED
    BY <2>1, <2>2, <2>3, IssueStep DEF SeparationInv, StoresInv
<1> QED
  BY SeparationInit, SeparationStep, <1>1, <1>2, PTL DEF Spec, PromiseKept, Promise!Spec

(***************************************************************************)
(* What pin() returned lasts, in the file and in the answers of a loaded   *)
(* vault, where no write fails.                                            *)
(***************************************************************************)
THEOREM PinnedTokensLast ==
  ASSUME ~WriteMayFail
  PROVE  Spec => []PinsLast
<1>1. AckedPinsAreOnDisk /\ AckedPinsAreStable => PinsLast
  BY DEF PinsLast
<1> QED
  BY <1>1, PinsAreDurable, PinsAreStable, PTL

(***************************************************************************)
(* No failing write, crash or clear leaves the stores inconsistent or the  *)
(* lock held.                                                              *)
(***************************************************************************)
THEOREM FaultsLeaveNoTrace == Spec => []FaultsAreSurvived
<1>1. StoresConsistent /\ LockInv => FaultsAreSurvived
  BY DEF FaultsAreSurvived
<1> QED
  BY <1>1, StoresStayConsistent, LockIsReleased, PTL

=============================================================================
