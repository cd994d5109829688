SPECIFICATION ServicesSpec
CONSTANTS
  Menus = {menu}
  Dashes = {dash}
  Monitors = {w1}
  Interfaces = {wifi, lan}
  AtStart = {wifi}
  DefaultService = wifi
  MaxProcesses = 2
  MaxCalls = 2
  MaxMoves = 1
  MaxFaults = 1
  MaxEvents = 3
  MaxRestarts = 2
  FailClosed = TRUE
  Requests = {request}
  Timeouts = {1, 2}
  Retention = 2
  MaxAge = 3
  Policies = {p1, p2}
  Loops = {l1, l2}
  MaxTime = 3
  MaxEdits = 2
  MaxSwitches = 3
INVARIANTS ProtectionIsSound ApprovalsAreSound WatchIsSound
PROPERTIES ProtectionMovesOn ApprovalsMoveOn EditsAreSeen
CHECK_DEADLOCK FALSE
