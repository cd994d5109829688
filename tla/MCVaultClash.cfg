\* The term "card" is coined next to the canonical prefix CARD.
SPECIFICATION Spec
CONSTANTS
  Terms <- MCTerms
  Prefixes <- MCPrefixes
  Canonical <- MCCanonical
  LabelShaped <- MCLabelShaped
  Derived <- MCDerived
  Suffixed <- MCSuffixed
  TermOf <- MCTermOf
  Generic = "SENSITIVE"
  NoPrefix = NoPrefix
  MaxCoined = 2
  Threads = {t1, t2}
  Values = {v1, v2}
  Categories = {"credit_card"}
  Coinable = {"card"}
  NoValue = NoValue
  NoToken = NoToken
  NoThread = NoThread
  NoTerm = NoTerm
  MaxIndex = 3
  VaultConfigured = TRUE
  WriteMayFail = FALSE
  MayClear = FALSE
SYMMETRY Symmetry
INVARIANTS
  RestoredExact
