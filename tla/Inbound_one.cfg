SPECIFICATION FairSpec
CONSTANTS
  p1 = p1
  p2 = p2
  p3 = p3
  m1 = m1
  m2 = m2
  a1 = a1
  None = None
  Path <- ThreePaths
  Message <- Messages
  MessageOf <- ResentAndOther
  Alias <- OneAlias
  AliasOf <- AllOneAlias
  MonthlyLimit = 1
  HourlyCap = 1
  Traffic <- ResendOrRivals
  MaxMonth = 2
  MaxUpsets = 1
INVARIANTS
  OneLogPerMessage
  LogKeepsRawFile
  DecisionStillTrue
  LimitsKept
PROPERTIES
  LostOnlyByDecision
  ActorsEnd
