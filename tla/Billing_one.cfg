SPECIFICATION Spec
CONSTANTS
  u1 = u1
  c1 = c1
  s1 = s1
  s2 = s2
  r1 = r1
  r2 = r2
  o1 = o1
  o2 = o2
  None = None
  User <- OneUser
  Customer <- OneCustomer
  Sub <- Subs
  Ref <- Refs
  Op <- Ops
  Payload <- Grants
  PriceOf <- Prices
  MaxEvents = 3
  MaxPaid = 2
INVARIANTS
  OperatorDecisionStands
  PaidThroughKept
PROPERTIES
  LiveSubscriptionKept
SYMMETRY BillingSymmetry
