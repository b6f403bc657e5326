SPECIFICATION FairSpec
CONSTANTS
  a = a
  s = s
  l = l
  None = None
  Runners = {r1, r2}
  SfAccounts = {a}
  LfAccounts <- One
  Scores <- Apart
  Threshold = 2
  MaxRules = 1
  MaxRescores = 0
  SfTxns = {s}
  LfTxns = {l}
  SfOwner <- SfTxnOf
  LfOwner <- LfTxnOf
  TxnScores <- TxnsApart
  TxnThreshold = 2
INVARIANTS NobodyLost NoTxnLost
PROPERTIES HalvesMeet RulesTakeEffect EventuallyReconciled
