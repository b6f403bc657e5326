SPECIFICATION UvSpec
CONSTANTS
  a1 = a1
  a2 = a2
  b1 = b1
  b2 = b2
  s1 = s1
  s2 = s2
  l1 = l1
  l2 = l2
  l3 = l3
  None = None
  Scores <- OneScoring
  Threshold = 60
  SfAccounts = {a1, a2}
  LfAccounts = {b1, b2}
  SfTxns = {s1, s2}
  LfTxns = {l1, l2, l3}
  SfOwner <- TwoSf
  LfOwner <- TwoLf
  Runners = {r1}
  Links <- Moving
  SfPosted <- Posted
  LfDate <- Dated
  SfPending = {}
  LfPending = {l3}
  Day = 2
  Forever = 5
  Requests <- Asked
INVARIANTS TypeOK ViewTypeOK EachCovered BestMatches NoStrangers NoSfinMissing ListedOnce PagesMeet
