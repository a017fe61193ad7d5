SPECIFICATION LiveSpec
CONSTANTS
  chat = chat
  note = note
  Regular = {chat}
  Notif = {note}
  InitSeq = 1
  MaxSeq = 2
  PushCap = 1
  EventCap = 1
  MaxBatch = 2
  ConnectPullNums = 1
  DefaultPullNums = 2
  SplitPullMsgNum = 2
  MaxRetries = 2
  MaxOps = 1
  FreshInstall = TRUE
  Faults = {"merge"}
PROPERTIES PushCovered SyncedStored
