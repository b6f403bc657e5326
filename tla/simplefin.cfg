SPECIFICATION SfFairSpec
CONSTANTS
  None = None
  HasNextStart = TRUE
  Overlap = 1
  Interval = 1
  DaysBack = 2
  Lateness = 1
  Faults = {"write"}
  MaxClock = 3
  Accounts = {a1, a2}
  Home = a1
  MaxWindow = 2
  PartialAnswers = FALSE
  MaxChanges = 1
INVARIANTS SfTypeOK CacheBacked LoopsOnceSaved
PROPERTIES ImplementsLoop LinkedPolls
