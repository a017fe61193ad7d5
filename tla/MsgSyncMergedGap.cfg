SPECIFICATION Spec
CONSTANTS
  chat = chat
  note = note
  Regular = {}
  Notif = {note}
  InitSeq = 1
  MaxSeq = 4
  PushCap = 2
  EventCap = 2
  MaxBatch = 2
  ConnectPullNums = 1
  DefaultPullNums = 2
  SplitPullMsgNum = 2
  MaxRetries = 2
  MaxOps = 2
  FreshInstall = FALSE
  Faults = {"merge"}
INVARIANTS NotificationsGapFree
