\* The last event has no text field.
SPECIFICATION Spec
CONSTANTS
  Letters <- OneLetter
  Others <- OneOther
  Known <- OneToken
  Value <- ValueOf
  MAX_TOKEN_LEN = 3
  Streams <- OneStream
  ChannelOf <- OwnChannel
  BareEvents = TRUE
  MaxText = 4
  MaxEvent = 2
INVARIANTS ReplyIsWhole
CHECK_DEADLOCK FALSE
