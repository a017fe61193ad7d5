SPECIFICATION Spec
CONSTANTS
  Scopes = {{"groups", "members"}, {"friends"}, {"black"}}
  MaxChanges = 2
  MaxCalls = 1
  MaxEvents = 1
  Faults = {"fail", "crash"}
CHECK_DEADLOCK FALSE
INVARIANTS CoveredIsCurrent NoLeftovers  
