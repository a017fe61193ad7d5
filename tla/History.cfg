SPECIFICATION FairSpec
CONSTANTS
  MaxSeq = 4
  PageSize = 2
  Limit = 2
  MaxFaults = 1
  Disorders = {}
INVARIANTS WholePages EndIsTrue
 
