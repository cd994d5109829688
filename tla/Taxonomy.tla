------------------------------ MODULE Taxonomy ------------------------------
(***************************************************************************)
(* The category vocabulary of domestique/taxonomy.py and the prefix rule   *)
(* of domestique/taxonomy_store.py, as constant-level operators.           *)
(*                                                                         *)
(* A term is a category name as normalize_category leaves it.  The text    *)
(* of a term or a prefix is abstracted away; what matters is which term    *)
(* maps to which prefix:                                                   *)
(*                                                                         *)
(*   Canonical   the CANONICAL table, a function on the built-in terms;    *)
(*   LabelShaped the terms that pass is_label_shaped;                      *)
(*   Derived     _derive_prefix: upper-cased, truncated, so two terms may  *)
(*               share a derived prefix with each other or with a          *)
(*               canonical term;                                           *)
(*   Suffixed    the "_2", "_3", ... forms of a prefix;                    *)
(*   TermOf      normalize_category applied to the text of a prefix.       *)
(***************************************************************************)
EXTENDS FiniteSets, Naturals

CONSTANTS Terms, Prefixes, Canonical, LabelShaped, Derived, Suffixed, TermOf,
          Generic,    \* GENERIC_PREFIX
          NoPrefix,   \* a term the store has not learned
          MaxCoined   \* _MAX_COINED_TERMS

ASSUME TaxonomyAssumption ==
  /\ DOMAIN Canonical \subseteq Terms
  /\ Canonical \in [DOMAIN Canonical -> Prefixes]
  /\ LabelShaped \subseteq Terms
  /\ Derived \in [Terms -> Prefixes]
  /\ Suffixed \in [Prefixes -> SUBSET Prefixes]
  /\ TermOf \in [Prefixes -> Terms]
  /\ Generic \in Prefixes
  /\ NoPrefix \notin Prefixes
  /\ MaxCoined \in Nat

CanonicalPrefixes == {Canonical[t] : t \in DOMAIN Canonical}

(***************************************************************************)
(* The registry of coined terms: a term -> prefix map.                     *)
(***************************************************************************)
Registry == [Terms -> Prefixes \cup {NoPrefix}]

Learned(registry) == {t \in Terms : registry[t] # NoPrefix}

(***************************************************************************)
(* prefix_for: canonical, else learned, else derived when label-shaped.    *)
(***************************************************************************)
PrefixFor(registry, term) ==
  IF term \in DOMAIN Canonical THEN Canonical[term]
  ELSE IF registry[term] # NoPrefix THEN registry[term]
  ELSE IF term \in LabelShaped THEN Derived[term]
  ELSE Generic

(***************************************************************************)
(* category_prefix applied to something that already is a prefix.          *)
(***************************************************************************)
Reprefix(registry, prefix) == PrefixFor(registry, TermOf[prefix])

(***************************************************************************)
(* _unique_prefix_locked: the derived prefix when no other term has it,    *)
(* else a free suffixed form of it, else (pathologically) itself.          *)
(***************************************************************************)
UniquePrefixes(registry, term) ==
  LET taken == CanonicalPrefixes \cup {registry[t] : t \in Learned(registry)}
      base  == Derived[term]
      free  == Suffixed[base] \ taken
  IN  IF base \notin taken THEN {base}
      ELSE IF free # {} THEN free
      ELSE {base}

(***************************************************************************)
(* register succeeds in coining term: not canonical, label-shaped, new,    *)
(* and the registry is below its cap.                                      *)
(***************************************************************************)
MayCoin(registry, term) ==
  /\ term \notin DOMAIN Canonical
  /\ term \in LabelShaped
  /\ registry[term] = NoPrefix
  /\ Cardinality(Learned(registry)) < MaxCoined

=============================================================================
