SPECIFICATION LiveSpec
CONSTANTS
  r1 = r1
  r2 = r2
  bye = bye
  Reqs = {r2, bye}
  Newest = {r2}
  Bye = bye
  SendCap = 1
  MaxTries = 2
  MaxGens = 2
  MaxBreaks = 1
  Faults = {"background", "token", "kick", "logout"}
INVARIANTS ConnectedIsWatched
PROPERTIES  LogoutEnds CallsSpec
