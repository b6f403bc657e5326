SPECIFICATION Spec
CONSTANTS
  Day = 2
  Window = 1
  MinTransactions = 2
  CentBelow = {100, 101}
  CentAtMost = {100, 101}
  Times = {0, 1, 2, 3, 4, 5}
  Dates = {0, 1, 2}
  Amounts = {100, 101, 102}
  MaxSf = 3
  MaxLf = 2
  SfLists <- SmallSf
  LfLists <- SmallLf
INVARIANTS ScoreTypeOK GreedyIsMaximum
CHECK_DEADLOCK FALSE
