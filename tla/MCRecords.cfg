SPECIFICATION RecordsSpec
CONSTANTS
  Recorders = {r1, r2}
  NoThread = NoThread
  Sentinel = Sentinel
  MaxEvents = 2
  MaxWriters = 2
  QueueMax = 1
  BatchMax = 2
  MaxRows = 1
  InitMayFail = TRUE
  FlushMayFail = TRUE
  JoinMayExpire = TRUE
  MayCrash = TRUE
  Files = {file}
  Hooks = {hook}
  Syslogs = {syslog}
  Cefs = {}
  Callers = {c1}
  NoMessage = NoMessage
  MaxMessages = 2
  MaxThreads = 2
  MaxFlaps = 1
  MaxChanges = 2
  InboxMax = 1
  SendMax = 2
  Stalling = {syslog}
INVARIANTS AuditIsSound SiemIsSound
PROPERTIES RecordsAreLogs RecordsMoveOn
CHECK_DEADLOCK FALSE
