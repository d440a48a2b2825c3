CONSTANTS
    Job = {j1, j2}
    Domain = {d1}
    None = None
    MaxAdmitted = 2
    MaxHeldMime = 2
    AuthSlots = 1
    ClaimBudget = 2
    RuleLimit = 1
    MaxVersion = 1
SYMMETRY Symmetry
SPECIFICATION Spec
INVARIANTS NothingLeaked TapAddsEarnedDomain
 
CHECK_DEADLOCK FALSE
