SPECIFICATION LfSpec
CONSTANTS
  None = None
  HasNextStart = FALSE
  Overlap = 1
  Interval = 1
  DaysBack = 2
  Lateness = 1
  Faults = {}
  MaxClock = 4
  Accounts = {a1, a2}
  Home = a1
  Day = 2
  Gaps = FALSE
  Dormancy = TRUE
  SfConfigured = TRUE
  MaxChanges = 2
INVARIANT NeverPassedOver
