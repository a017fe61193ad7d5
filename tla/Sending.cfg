SPECIFICATION MessageSpec
CONSTANTS
  m1 = m1
  Messages = {m1}
  Sends = 3
  Restarts = 2
  Batches = 2
  CallFaults = {"fail", "loss", "timeout", "early"}
  Contents = {0}
  Limits = {1}
  MaxCalls = 0
  MaxChanges = 0
  Faults = {}
INVARIANTS SuccessOnServer EntryHasOneCall
PROPERTIES NumberedIsFinal SendingSettles ReceivedIsStored
CHECK_DEADLOCK FALSE
