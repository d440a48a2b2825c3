SPECIFICATION FairSpec
CONSTANTS
  l1 = l1
  l2 = l2
  a1 = a1
  None = None
  Log <- OneLog
  Alias <- OneAlias
  AliasOf <- OneLogAlias
  MaxRetries = 2
  SendTries = 2
  MaxInflight = 1
  MaxSends = 3
  MaxFaults = 2
INVARIANTS
  TypeOK
  OneJobPerLog
  NoUnexcusedDuplicate
  RefundIsFinal
  RetryBudget
  DeliveredIsRecorded
  RawFileLifecycle
PROPERTIES
  FinalLeftOnlyByRunningJob
  KeepsPromise
  RetentionCloses
  RetryRunEnds
