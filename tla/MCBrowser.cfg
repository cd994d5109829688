\* Two requests on one worker; replies of every kind.
SPECIFICATION FairSpec
CONSTANTS
  r1 = r1
  r2 = r2
  v = v
  Requests <- Two
  Values <- One
  Incoming <- Kinds
  Workers = 1
INVARIANTS CountsAreSound OnlyClearedLeaves MessagesAreRedacted SilenceMeansClean
PROPERTY AllIsAnswered
