SPECIFICATION Spec
CONSTANTS
  chat = chat
  note = note
  Regular = {chat}
  Notif = {note}
  InitSeq = 1
  MaxSeq = 3
  PushCap = 1
  EventCap = 1
  MaxBatch = 0
  ConnectPullNums = 1
  DefaultPullNums = 2
  SplitPullMsgNum = 3
  MaxRetries = 1
  MaxOps = 2
  FreshInstall = FALSE
  Faults = {"loss", "reorder", "fail", "crash"}
INVARIANTS NotificationsGapFree NotificationsAppliedInOrder RestartLosesNoNotification LatestDelivered NothingBeyondSynced
PROPERTIES SyncedMonotone
