SPECIFICATION FairSpec
CONSTANTS
  Contents = {0, 1}
  Limits = {1, 2}
  MaxCalls = 3
  MaxChanges = 1
  Faults = {"fail", "change", "limit", "expire", "forget", "crash"}
INVARIANTS OneUploader CountedIsStored
PROPERTIES UploadEnds
CHECK_DEADLOCK FALSE
