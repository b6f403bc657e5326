SPECIFICATION ApiSpec
CONSTANTS
  s1 = s1
  None = None
  Runners = {r1, r2}
  SfAccounts = {s1}
  LfAccounts <- Lf
  Scores <- Either
  Threshold = 2
  MaxRules = 0
  MaxRescores = 0
INVARIANTS ApiTypeOK LinksResolve ListAgreesWithGet IdsUnique
