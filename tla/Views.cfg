SPECIFICATION JointSpec
CONSTANTS
  u1 = u1
  u2 = u2
  u3 = u3
  Ids = {u1, u2, u3}
  InitList <- FirstTwo
  Kinds = {"members", "friends", "conversations"}
  MaxVersion = 4
  MaxVersionID = 2
  PageSize = 1
  FullSyncLimit = 2
  Faults = {"fail", "crash", "compact", "query"}
  Writers = {"x", "y"}
  Readers = {"r", "s"}
  ItemChanges = 2
  Syncs = 4
  Platforms = {"ios", "web"}
  Here = "ios"
  Changers = {"c", "d"}
  Notices = 1
CONSTRAINT Few
INVARIANTS RowsFresh NothingMissing MemoryIsCurrent  
