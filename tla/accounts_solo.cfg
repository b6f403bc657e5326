SPECIFICATION Spec
CONSTANTS
  s1 = s1
  s2 = s2
  None = None
  Runners = {r1}
  SfAccounts <- Sf
  LfAccounts <- Lf
  Scores <- TwoScorings
  Threshold = 2
  MaxRules = 2
  MaxRescores = 1
INVARIANTS TypeOK EachOnce RulesObeyed NoMissedMatch ForeignKeys
