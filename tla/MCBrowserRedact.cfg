\* A redaction of a body whose last user message is not a string.
SPECIFICATION Spec
CONSTANTS
  r1 = r1
  r2 = r2
  v = v
  Requests <- Two
  Values <- One
  Incoming <- Kinds
  Workers = 1
INVARIANT RedactedIsRedacted
