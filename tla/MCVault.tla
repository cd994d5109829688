------------------------------ MODULE MCVault ------------------------------
(***************************************************************************)
(* Instances of Vault for TLC.  The vocabulary is cut from the source: a   *)
(* canonical category with prefix CARD, a coined one (MEDREC), the term    *)
(* "card" that CARD itself normalises to, and the generic prefix.          *)
(***************************************************************************)
EXTENDS Vault, TLC

MCTerms == {"credit_card", "card", "medrec", "sensitive"}
MCPrefixes == {"CARD", "CARD_2", "MEDREC", "SENSITIVE"}
MCCanonical == [t \in {"credit_card"} |-> "CARD"]
MCLabelShaped == MCTerms
MCDerived == [t \in MCTerms |-> CASE t \in {"credit_card", "card"} -> "CARD"
                                  [] t = "medrec" -> "MEDREC"
                                  [] OTHER -> "SENSITIVE"]
MCSuffixed == [p \in MCPrefixes |-> IF p = "CARD" THEN {"CARD_2"} ELSE {}]
\* "card_2" is not label-shaped, so CARD_2 behaves like the generic term.
MCTermOf == [p \in MCPrefixes |-> CASE p = "CARD" -> "card"
                                    [] p = "MEDREC" -> "medrec"
                                    [] OTHER -> "sensitive"]

Symmetry == Permutations(Threads) \cup Permutations(Values)
=============================================================================
