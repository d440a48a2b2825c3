SPECIFICATION Spec
CONSTANTS
  p1 = p1
  p2 = p2
  p3 = p3
  m1 = m1
  m2 = m2
  a1 = a1
  None = None
  Path <- OnePath
  Message <- Messages
  MessageOf <- ResentAndOther
  Alias <- OneAlias
  AliasOf <- AllOneAlias
  MonthlyLimit = 1
  HourlyCap = 1
  Traffic <- OneRequest
  MaxMonth = 1
  MaxUpsets = 0
INVARIANTS
  AcknowledgedIsKept
