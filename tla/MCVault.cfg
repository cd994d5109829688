\* Concurrent calls over a canonical and a coined category, with crashes.
SPECIFICATION Spec
CONSTANTS
  Terms <- MCTerms
  Prefixes <- MCPrefixes
  Canonical <- MCCanonical
  LabelShaped <- MCLabelShaped
  Derived <- MCDerived
  Suffixed <- MCSuffixed
  TermOf <- MCTermOf
  Generic = "SENSITIVE"
  NoPrefix = NoPrefix
  MaxCoined = 2
  Threads = {t1, t2}
  Values = {v1, v2}
  Categories = {"credit_card", "medrec"}
  Coinable = {"medrec"}
  NoValue = NoValue
  NoToken = NoToken
  NoThread = NoThread
  NoTerm = NoTerm
  MaxIndex = 2
  VaultConfigured = TRUE
  WriteMayFail = FALSE
  MayClear = FALSE
SYMMETRY Symmetry
INVARIANTS TypeOK SeparationInv RestoredExact PinsLast
PROPERTY PromiseKept
