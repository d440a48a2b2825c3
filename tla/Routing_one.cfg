SPECIFICATION Spec
CONSTANTS
  a1 = a1
  a2 = a2
  None = None
  Alias <- Aliases
  User <- Users
  Group <- Groups
  Tables <- OneOrTwoAliases
  Admins <- SecondAdministers
  Supergroup <- FirstMigrates
  Screen <- OneScreen
  AliasLimit = 1
  MaxInputs = 4
INVARIANTS
  AuditChain
  RepairedChatEmpty
  ConfirmedAsShown
  ErasedOwnerLeavesNoAudit
CHECK_DEADLOCK FALSE
