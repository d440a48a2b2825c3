SPECIFICATION Spec
CONSTANTS
  l1 = l1
  l2 = l2
  a1 = a1
  None = None
  Log <- TwoLogs
  Alias <- OneAlias
  AliasOf <- TwoLogsAlias
  MaxRetries = 1
  SendTries = 1
  MaxInflight = 1
  MaxSends = 1
  MaxFaults = 0
INVARIANTS
  DeliveredWithAttachments
SYMMETRY LogSymmetry
