SPECIFICATION FairSpec
CONSTANTS
  None = None
  HasNextStart = TRUE
  Overlap = 2
  Interval = 2
  DaysBack = 3
  Lateness = 2
  Faults = {"read", "write"}
  MaxClock = 5
INVARIANTS TypeOK ResumeSafe NotMissed HealthHonest
PROPERTIES RateLimited PollsAgain KeepsPromise
