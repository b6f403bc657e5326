SPECIFICATION LfSpec
CONSTANTS
  None = None
  HasNextStart = FALSE
  Overlap = 1
  Interval = 1
  DaysBack = 2
  Lateness = 1
  Faults = {}
  MaxClock = 3
  Accounts = {a1, a2}
  Home = a1
  Day = 2
  Gaps = FALSE
  Dormancy = FALSE
  SfConfigured = TRUE
  MaxChanges = 1
INVARIANT NoDuplicates
