------------------------------- MODULE Vault -------------------------------
(***************************************************************************)
(* The reversible-redaction vault of one process: SessionStore (memory     *)
(* only), PinnedVault (mirrored in an encrypted file) and the TokenService *)
(* facade, called by concurrent threads.                                   *)
(*                                                                         *)
(* Both stores draw tokens from one [PREFIX_n] name space but count on     *)
(* their own; TokenService._lock and the counter floors are what keeps     *)
(* them apart.  A thread's call is split where other threads can get in:   *)
(*                                                                         *)
(*   tokenize   lookup in the vault (no lock) . mint (under the lock)      *)
(*   pin        take the lock, compute the floor . PinnedVault.pin .       *)
(*              sync_counter_floors, release                               *)
(*   detokenize lookup in the session store . lookup in the vault          *)
(*                                                                         *)
(* The reads of both stores' highest index at the start of pin are one     *)
(* step: the lock keeps everything but a coined term from coming between.  *)
(*                                                                         *)
(* A crash loses everything but the vault file and those coined terms that *)
(* reached the taxonomy file (a write of it that fails is only logged).    *)
(***************************************************************************)
EXTENDS Taxonomy

CONSTANTS
  Threads, Values,
  Categories,      \* the categories callers pass
  Coinable,        \* the terms the language-model tier may coin
  NoValue, NoToken, NoThread, NoTerm,
  MaxIndex,        \* bound: the largest token number
  VaultConfigured, \* False for build_default_token_service(pinned=False)
  WriteMayFail,    \* the write of the vault file may raise
  MayClear         \* SessionStore.clear is called

Token == Prefixes \X (1 .. MaxIndex)

ASSUME VaultAssumption ==
  /\ Categories \subseteq Terms
  /\ Coinable \subseteq Terms
  /\ NoValue \notin Values
  /\ NoToken \notin Token
  /\ NoThread \notin Threads
  /\ NoTerm \notin Terms
  /\ MaxIndex \in Nat
  /\ {VaultConfigured, WriteMayFail, MayClear} \subseteq BOOLEAN

VARIABLES
  up,         \* the process is running
  registry,   \* TaxonomyStore._terms
  forward,    \* SessionStore._forward: value -> token
  reverse,    \* SessionStore._reverse: token -> value
  counters,   \* SessionStore._counters: prefix -> last index
  available,  \* PinnedVault._available
  entries,    \* PinnedVault._entries: value -> token
  byToken,    \* PinnedVault._by_token: token -> value
  disk,       \* the vault file
  lock,       \* holder of TokenService._lock
  pc, val, cat, floor, tok, got,  \* each thread's call: step, arguments, locals
  issued,     \* history: <<token, value>> pairs returned by this process
  acked       \* history: <<token, value>> pairs pin() returned, in any run

session == <<forward, reverse, counters>>
pinned  == <<available, entries, byToken>>
calls   == <<pc, val, cat, floor, tok, got>>
vars    == <<up, registry, session, pinned, disk, lock, calls, issued, acked>>

-----------------------------------------------------------------------------
Bigger(a, b) == IF a >= b THEN a ELSE b

CategoryPrefix(c) == PrefixFor(registry, c)

\* Mutant: a token the vault does not know is answered with itself.
LookupPinnedTokenEcho(t) == IF available THEN byToken[t] ELSE t

LookupPinnedToken(t) == IF available THEN byToken[t] ELSE NoValue

(***************************************************************************)
(* _max_index_locked: the highest index of a prefix in _by_token, or 0.    *)
(***************************************************************************)
MaxPinned(tokens, p) ==
  LET used == {n \in 1 .. MaxIndex : tokens[<<p, n>>] # NoValue}
  IN  CHOOSE m \in 0 .. MaxIndex :
        /\ m \in used \cup {0}
        /\ \A n \in used : n <= m

\* Mutant: the session counters are never raised.
FloorsNone(count, tokens) == count

(***************************************************************************)
(* sync_counter_floors.  For every prefix found among the pinned tokens it *)
(* calls set_counter_floor and max_index, which both take a category and   *)
(* so both map the prefix through category_prefix once more.               *)
(***************************************************************************)
Floors(count, tokens) ==
  LET seen   == {p \in Prefixes : \E n \in 1 .. MaxIndex : tokens[<<p, n>>] # NoValue}
      raised == {Reprefix(registry, p) : p \in seen}
  IN  [p \in Prefixes |-> IF p \in raised
                          THEN Bigger(count[p], MaxPinned(tokens, p))
                          ELSE count[p]]

(***************************************************************************)
(* There is a number left for every prefix (bound of the model).           *)
(***************************************************************************)
Room == \A p \in Prefixes : counters[p] < MaxIndex /\ byToken[<<p, MaxIndex>>] = NoValue

\* Mutant: the numbers the session store has used are not looked at.
PinFromVaultOnly(p) == 1 + (IF available THEN MaxPinned(byToken, p) ELSE 0)

(***************************************************************************)
(* The number TokenService.pin lets a new pin of a prefix start from.      *)
(***************************************************************************)
PinFrom(p) ==
  1 + Bigger(IF available THEN MaxPinned(byToken, p) ELSE 0, counters[p])

\* Mutant: a value that is pinned already is pinned again.
UnpinnedAlways(v) == available

Unpinned(v) == available /\ entries[v] = NoToken

NoTokens == [v \in Values |-> NoToken]
NoValues == [t \in Token |-> NoValue]

OfThreads(x) == [t \in Threads |-> x]

Inverse(map) == [t \in Token |-> IF \E v \in Values : map[v] = t
                                 THEN CHOOSE v \in Values : map[v] = t
                                 ELSE NoValue]

Goto(t, step) == pc' = [pc EXCEPT ![t] = step]

(***************************************************************************)
(* The call of thread t returns.                                           *)
(***************************************************************************)
Return(t) ==
  /\ Goto(t, "idle")
  /\ val' = [val EXCEPT ![t] = NoValue]
  /\ cat' = [cat EXCEPT ![t] = NoTerm]
  /\ floor' = [floor EXCEPT ![t] = 0]
  /\ tok' = [tok EXCEPT ![t] = NoToken]
  /\ got' = [got EXCEPT ![t] = NoValue]

Init ==
  /\ up = FALSE
  /\ registry = [t \in Terms |-> NoPrefix]
  /\ forward = NoTokens /\ reverse = NoValues
  /\ counters = [p \in Prefixes |-> 0]
  /\ available = FALSE /\ entries = NoTokens /\ byToken = NoValues
  /\ disk = NoTokens
  /\ lock = NoThread
  /\ pc = OfThreads("idle") /\ val = OfThreads(NoValue) /\ cat = OfThreads(NoTerm)
  /\ floor = OfThreads(0) /\ tok = OfThreads(NoToken) /\ got = OfThreads(NoValue)
  /\ issued = {} /\ acked = {}

-----------------------------------------------------------------------------
\* Mutant: a file that cannot be read counts as an empty vault.
StartEmpty(loaded) ==
  /\ ~up
  /\ loaded => VaultConfigured
  /\ up' = TRUE
  /\ available' = VaultConfigured
  /\ entries' = IF loaded THEN disk ELSE NoTokens
  /\ byToken' = IF loaded THEN Inverse(disk) ELSE NoValues
  /\ counters' = IF loaded THEN Floors(counters, Inverse(disk)) ELSE counters
  /\ UNCHANGED <<registry, forward, reverse, disk, lock, calls, issued, acked>>

(***************************************************************************)
(* PinnedVault.load and TokenService.__init__.  Without a key, or when the *)
(* file cannot be read, the vault stays unavailable and empty.             *)
(***************************************************************************)
Start(loaded) ==
  /\ ~up
  /\ loaded => VaultConfigured
  /\ up' = TRUE
  /\ available' = loaded
  /\ entries' = IF loaded THEN disk ELSE NoTokens
  /\ byToken' = IF loaded THEN Inverse(disk) ELSE NoValues
  /\ counters' = IF loaded THEN Floors(counters, Inverse(disk)) ELSE counters
  /\ UNCHANGED <<registry, forward, reverse, disk, lock, calls, issued, acked>>

Crash ==
  /\ up
  /\ up' = FALSE
  /\ forward' = NoTokens /\ reverse' = NoValues
  /\ counters' = [p \in Prefixes |-> 0]
  /\ available' = FALSE /\ entries' = NoTokens /\ byToken' = NoValues
  /\ lock' = NoThread
  /\ pc' = OfThreads("idle") /\ val' = OfThreads(NoValue) /\ cat' = OfThreads(NoTerm)
  /\ floor' = OfThreads(0) /\ tok' = OfThreads(NoToken) /\ got' = OfThreads(NoValue)
  /\ issued' = {}
  /\ \E kept \in SUBSET Learned(registry) :
        registry' = [t \in Terms |-> IF t \in kept THEN registry[t] ELSE NoPrefix]
  /\ UNCHANGED <<disk, acked>>

(***************************************************************************)
(* TaxonomyStore.register, called by the language-model tier in the middle *)
(* of anything the threads below do.                                       *)
(***************************************************************************)
Coin(term) ==
  /\ up
  /\ MayCoin(registry, term)
  /\ \E p \in UniquePrefixes(registry, term) :
        registry' = [registry EXCEPT ![term] = p]
  /\ UNCHANGED <<up, session, pinned, disk, lock, calls, issued, acked>>

-----------------------------------------------------------------------------
(***************************************************************************)
(* tokenize: the vault is asked first, outside the lock.                   *)
(***************************************************************************)
TokenizeLookup(t, v, c) ==
  /\ up /\ pc[t] = "idle"
  /\ IF available /\ entries[v] # NoToken
     THEN /\ issued' = issued \cup {<<entries[v], v>>}
          /\ UNCHANGED calls
     ELSE /\ Goto(t, "mint")
          /\ val' = [val EXCEPT ![t] = v]
          /\ cat' = [cat EXCEPT ![t] = c]
          /\ UNCHANGED <<floor, tok, got, issued>>
  /\ UNCHANGED <<up, registry, session, pinned, disk, lock, acked>>

\* Mutant: mint does not wait for the lock.
MayMintUnlocked(t) == pc[t] = "mint"

MayMint(t) == pc[t] = "mint" /\ lock = NoThread

(***************************************************************************)
(* SessionStore.tokenize, under TokenService._lock.                        *)
(***************************************************************************)
TokenizeMint(t) ==
  LET v == val[t]
      p == CategoryPrefix(cat[t])
      n == counters[p] + 1
  IN  /\ MayMint(t)
      /\ IF forward[v] # NoToken
         THEN /\ issued' = issued \cup {<<forward[v], v>>}
              /\ UNCHANGED session
         ELSE /\ n <= MaxIndex
              /\ counters' = [counters EXCEPT ![p] = n]
              /\ forward' = [forward EXCEPT ![v] = <<p, n>>]
              /\ reverse' = [reverse EXCEPT ![<<p, n>>] = v]
              /\ issued' = issued \cup {<<<<p, n>>, v>>}
      /\ Return(t)
      /\ UNCHANGED <<up, registry, pinned, disk, lock, acked>>

-----------------------------------------------------------------------------
(***************************************************************************)
(* pin: take the lock, read both stores' highest index of the category.    *)
(***************************************************************************)
PinFloor(t, v, c) ==
  LET p == CategoryPrefix(c)
  IN  /\ up /\ VaultConfigured
      /\ pc[t] = "idle" /\ lock = NoThread
      /\ Room
      /\ lock' = t
      /\ Goto(t, "pin")
      /\ val' = [val EXCEPT ![t] = v]
      /\ cat' = [cat EXCEPT ![t] = c]
      /\ floor' = [floor EXCEPT ![t] = PinFrom(p)]
      /\ UNCHANGED <<up, registry, session, pinned, disk, tok, got, issued, acked>>

(***************************************************************************)
(* PinnedVault.pin when there is nothing to store: the vault is            *)
(* unavailable (it answers ''), or the value is pinned already.            *)
(***************************************************************************)
PinKnown(t) ==
  /\ pc[t] = "pin"
  /\ ~Unpinned(val[t])
  /\ tok' = [tok EXCEPT ![t] = IF available THEN entries[val[t]] ELSE NoToken]
  /\ Goto(t, "sync")
  /\ UNCHANGED <<up, registry, session, pinned, disk, lock, val, cat, floor, got,
                 issued, acked>>

\* Mutant: the exception leaves the lock held.
WriteRaisesHolding(t) ==
  WriteMayFail /\ Return(t) /\ UNCHANGED <<lock, disk>>

(***************************************************************************)
(* _write_locked raises; the exception leaves TokenService.pin, which      *)
(* releases the lock without syncing.                                      *)
(***************************************************************************)
WriteRaises(t) ==
  WriteMayFail /\ Return(t) /\ lock' = NoThread /\ UNCHANGED disk

(***************************************************************************)
(* PinnedVault.pin stores a new entry: in memory first, then in the file.  *)
(* When the write raises, the entry stays in memory.                       *)
(***************************************************************************)
PinStore(t) ==
  LET p  == CategoryPrefix(cat[t])
      n  == Bigger(1 + MaxPinned(byToken, p), floor[t])
      tk == <<p, n>>
  IN  /\ pc[t] = "pin"
      /\ Unpinned(val[t])
      /\ n <= MaxIndex
      /\ entries' = [entries EXCEPT ![val[t]] = tk]
      /\ byToken' = [byToken EXCEPT ![tk] = val[t]]
      /\ \/ /\ disk' = entries'
            /\ tok' = [tok EXCEPT ![t] = tk]
            /\ Goto(t, "sync")
            /\ UNCHANGED <<lock, val, cat, floor, got>>
         \/ WriteRaises(t)
      /\ UNCHANGED <<up, registry, session, available, issued, acked>>

(***************************************************************************)
(* sync_counter_floors, then pin returns (only a real token is used).      *)
(***************************************************************************)
PinSync(t) ==
  /\ pc[t] = "sync"
  /\ counters' = IF available THEN Floors(counters, byToken) ELSE counters
  /\ LET returned == IF tok[t] = NoToken THEN {} ELSE {<<tok[t], val[t]>>}
     IN  /\ issued' = issued \cup returned
         /\ acked' = acked \cup returned
  /\ lock' = NoThread
  /\ Return(t)
  /\ UNCHANGED <<up, registry, forward, reverse, pinned, disk>>

-----------------------------------------------------------------------------
(***************************************************************************)
(* detokenize_text on a token that was issued for value v: the session     *)
(* store is asked first; after a miss the vault is asked, in a step of its *)
(* own.  got is the answer.                                                *)
(***************************************************************************)
DetokSession(t, tk, v) ==
  /\ up /\ pc[t] = "idle"
  /\ tok' = [tok EXCEPT ![t] = tk]
  /\ val' = [val EXCEPT ![t] = v]
  /\ got' = [got EXCEPT ![t] = reverse[tk]]
  /\ Goto(t, IF reverse[tk] # NoValue THEN "restored" ELSE "detok")
  /\ UNCHANGED <<up, registry, session, pinned, disk, lock, cat, floor, issued, acked>>

DetokPinned(t) ==
  /\ pc[t] = "detok"
  /\ got' = [got EXCEPT ![t] = LookupPinnedToken(tok[t])]
  /\ Goto(t, "restored")
  /\ UNCHANGED <<up, registry, session, pinned, disk, lock, val, cat, floor, tok,
                 issued, acked>>

DetokReturn(t) ==
  /\ pc[t] = "restored"
  /\ Return(t)
  /\ UNCHANGED <<up, registry, session, pinned, disk, lock, issued, acked>>

-----------------------------------------------------------------------------
\* Mutants: the forward map is forgotten; the numbers are given out again.
CleanupReverseOnly(expired) ==
  /\ up
  /\ reverse' = [t \in Token |-> IF t \in expired THEN NoValue ELSE reverse[t]]
  /\ UNCHANGED <<up, registry, forward, counters, pinned, disk, lock, calls, issued, acked>>

CleanupCounters(expired) ==
  /\ up
  /\ reverse' = [t \in Token |-> IF t \in expired THEN NoValue ELSE reverse[t]]
  /\ forward' = [v \in Values |-> IF \E t \in expired : reverse[t] = v
                                  THEN NoToken ELSE forward[v]]
  /\ counters' = [p \in Prefixes |-> Cardinality({n \in 1 .. MaxIndex :
                                                  reverse'[<<p, n>>] # NoValue})]
  /\ UNCHANGED <<up, registry, pinned, disk, lock, calls, issued, acked>>

(***************************************************************************)
(* SessionStore.cleanup_expired: entries go, counters stay.                *)
(***************************************************************************)
CleanupExpired(expired) ==
  /\ up
  /\ reverse' = [t \in Token |-> IF t \in expired THEN NoValue ELSE reverse[t]]
  /\ forward' = [v \in Values |-> IF \E t \in expired : reverse[t] = v
                                  THEN NoToken ELSE forward[v]]
  /\ UNCHANGED <<up, registry, counters, pinned, disk, lock, calls, issued, acked>>

(***************************************************************************)
(* SessionStore.clear: the counters go too.                                *)
(***************************************************************************)
Clear ==
  /\ up /\ MayClear
  /\ forward' = NoTokens /\ reverse' = NoValues
  /\ counters' = [p \in Prefixes |-> 0]
  /\ UNCHANGED <<up, registry, pinned, disk, lock, calls, issued, acked>>

-----------------------------------------------------------------------------
Live == {t \in Token : reverse[t] # NoValue}

PinSteps(t) == PinKnown(t) \/ PinStore(t) \/ PinSync(t)

Next ==
  \/ \E loaded \in BOOLEAN : Start(loaded)
  \/ Crash
  \/ \E term \in Coinable : Coin(term)
  \/ \E t \in Threads, v \in Values, c \in Categories :
        TokenizeLookup(t, v, c) \/ PinFloor(t, v, c)
  \/ \E t \in Threads : \/ TokenizeMint(t)
                        \/ PinSteps(t)
                        \/ \E pair \in issued : DetokSession(t, pair[1], pair[2])
                        \/ DetokPinned(t)
                        \/ DetokReturn(t)
  \/ \E expired \in SUBSET Live \ {{}} : CleanupExpired(expired)
  \/ Clear

Spec == Init /\ [][Next]_vars

-----------------------------------------------------------------------------
TypeOK ==
  /\ up \in BOOLEAN
  /\ registry \in Registry
  /\ forward \in [Values -> Token \cup {NoToken}]
  /\ reverse \in [Token -> Values \cup {NoValue}]
  /\ counters \in [Prefixes -> 0 .. MaxIndex]
  /\ available \in BOOLEAN
  /\ entries \in [Values -> Token \cup {NoToken}]
  /\ byToken \in [Token -> Values \cup {NoValue}]
  /\ disk \in [Values -> Token \cup {NoToken}]
  /\ lock \in Threads \cup {NoThread}
  /\ pc \in [Threads -> {"idle", "mint", "pin", "sync", "detok", "restored"}]
  /\ val \in [Threads -> Values \cup {NoValue}]
  /\ cat \in [Threads -> Categories \cup {NoTerm}]
  /\ floor \in [Threads -> 0 .. MaxIndex]
  /\ tok \in [Threads -> Token \cup {NoToken}]
  /\ got \in [Threads -> Values \cup {NoValue}]
  /\ issued \subseteq Token \X Values
  /\ acked \subseteq Token \X Values

(***************************************************************************)
(* Whatever fails or is cleared, the two maps of each store agree, the     *)
(* vault never gives one token to two values, and what its file holds is   *)
(* what a loaded vault answers (nothing on disk is dropped or renumbered). *)
(***************************************************************************)
StoresConsistent ==
  /\ \A v \in Values : forward[v] # NoToken => reverse[forward[v]] = v
  /\ \A v \in Values : entries[v] # NoToken => byToken[entries[v]] = v
  /\ \A t \in Token : byToken[t] # NoValue => entries[byToken[t]] = t
  /\ \A v, w \in Values : disk[v] # NoToken /\ disk[v] = disk[w] => v = w
  /\ available => \A v \in Values : disk[v] # NoToken => entries[v] = disk[v]

(***************************************************************************)
(* service.py promises "a session token whose number can never collide     *)
(* with a pinned one (sync_counter_floors)": no token is in both stores.   *)
(***************************************************************************)
NoCollision ==
  \A t \in Token : reverse[t] = NoValue \/ byToken[t] = NoValue

(***************************************************************************)
(* A token read back from a reply never turns into another value than the  *)
(* one it was issued for, however the two lookups of detokenize_text       *)
(* interleave with mints, pins and expiry ("never guessed", service.py).   *)
(***************************************************************************)
RestoredExact ==
  \A t \in Threads : pc[t] = "restored" => got[t] \in {val[t], NoValue}

(***************************************************************************)
(* A token pin() returned to its caller is in the vault file, in this run  *)
(* and in every later one, whatever loads and writes failed in between     *)
(* (pinned.py: a stable token; any problem degrades, never destroys).      *)
(***************************************************************************)
AckedPinsAreOnDisk ==
  \A pair \in acked : disk[pair[2]] = pair[1]

(***************************************************************************)
(* A vault that is loaded answers with the acknowledged token of a value.  *)
(***************************************************************************)
AckedPinsAreStable ==
  available => \A pair \in acked : entries[pair[2]] = pair[1]

(***************************************************************************)
(* The lock is held exactly by the thread that is inside pin: no way out   *)
(* of a pin, the failing write of the vault file included, leaves it held, *)
(* and nobody but its holder sets it free while both stores change.        *)
(***************************************************************************)
LockInv == \A t \in Threads : lock = t <=> pc[t] \in {"pin", "sync"}

(***************************************************************************)
(* The service keeps the promise of TokenRegistry.                         *)
(***************************************************************************)
Promise == INSTANCE TokenRegistry WITH Token <- Token, Values <- Values, issued <- issued
PromiseKept == Promise!Spec

-----------------------------------------------------------------------------
(***************************************************************************)
(* Why the stores stay apart.  Under NoPrefixClash a term's prefix never   *)
(* changes and a prefix is its own category_prefix, so the floors cover    *)
(* every pinned token; SeparationInv is the inductive invariant that       *)
(* carries NoCollision and RestoredExact from step to step.                *)
(***************************************************************************)
Unlearned == [t \in Terms |-> NoPrefix]
Fixed(c) == PrefixFor(Unlearned, c)
Mintable == {Fixed(c) : c \in Categories}

NoPrefixClash ==
  /\ \A t \in Coinable : /\ Derived[t] \notin CanonicalPrefixes
                         /\ \A u \in Coinable : Derived[u] = Derived[t] => u = t
  /\ \A p \in Mintable : Fixed(TermOf[p]) = p

\* With TypeOK, the inductive part of type correctness: a call in progress
\* has its arguments.
CallTyped ==
  \A t \in Threads :
    /\ pc[t] \in {"mint", "pin"} => val[t] \in Values /\ cat[t] \in Categories
    /\ pc[t] = "sync" /\ tok[t] # NoToken => val[t] \in Values
    /\ pc[t] = "detok" => tok[t] \in Token

TypeInv == TypeOK /\ CallTyped

DownInv ==
  /\ ~available => entries = NoTokens /\ byToken = NoValues
  /\ ~up => /\ ~available /\ lock = NoThread /\ issued = {} /\ reverse = NoValues
            /\ \A t \in Threads : pc[t] = "idle"

\* Session tokens are at most the counter.
SessionBelowCounter == \A t \in Token : reverse[t] # NoValue => t[2] <= counters[t[1]]

StoresInv == TypeInv /\ StoresConsistent /\ SessionBelowCounter

\* Pins that returned are in the loaded vault, which the file mirrors as
\* long as no write fails.
MirrorInv ==
  /\ available => disk = entries
  /\ \A t \in Threads : pc[t] = "sync" /\ tok[t] # NoToken => entries[val[t]] = tok[t]

DurabilityInv ==
  TypeInv /\ LockInv /\ DownInv /\ MirrorInv /\ AckedPinsAreOnDisk

RegistryInv ==
  \A t \in Terms : registry[t] # NoPrefix =>
    t \in Coinable /\ t \in LabelShaped /\ registry[t] = Derived[t]

\* Pinned tokens are at most the counter too, but for the one a pin has
\* stored and not yet synced.
PinnedBelowCounter ==
  \A t \in Token : up /\ byToken[t] # NoValue =>
    \/ t[2] <= counters[t[1]]
    \/ \E th \in Threads : pc[th] = "sync" /\ tok[th] = t

PinnedMintable ==
  /\ \A t \in Token : byToken[t] # NoValue => t[1] \in Mintable
  /\ \A v \in Values : disk[v] # NoToken => disk[v][1] \in Mintable

PinAboveCounter ==
  \A t \in Threads : pc[t] = "pin" => counters[Fixed(cat[t])] < floor[t]

DetokIssued ==
  \A t \in Threads : pc[t] \in {"detok", "restored"} => <<tok[t], val[t]>> \in issued

IssuedInv ==
  \A pair \in issued :
    /\ reverse[pair[1]] \in {pair[2], NoValue}
    /\ byToken[pair[1]] \in {pair[2], NoValue}
    /\ \/ pair[1][2] <= counters[pair[1][1]]
       \/ byToken[pair[1]] = pair[2]

(***************************************************************************)
(* The two stores never meet, whatever interleaves, pins, expires and      *)
(* restarts: no token is in both (sync_counter_floors, service.py), each   *)
(* is restored exactly, and the counters stay above what they issued and   *)
(* what the vault holds, which keeps it so.                                *)
(***************************************************************************)
SeparationInv ==
  /\ StoresInv /\ DurabilityInv /\ RegistryInv
  /\ PinnedBelowCounter /\ PinnedMintable /\ PinAboveCounter
  /\ DetokIssued /\ IssuedInv
  /\ Promise!Unambiguous
  /\ NoCollision /\ RestoredExact

(***************************************************************************)
(* What pin() returned lasts: in the file through failed loads and         *)
(* restarts, and in the answers of every vault that is loaded.             *)
(***************************************************************************)
PinsLast == AckedPinsAreOnDisk /\ AckedPinsAreStable

(***************************************************************************)
(* A write that raises, a crash and a clear() leave neither the maps of a  *)
(* store in disagreement nor the lock held.                                *)
(***************************************************************************)
FaultsAreSurvived == StoresConsistent /\ LockInv

=============================================================================
