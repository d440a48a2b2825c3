CONSTANTS
    Mail = {m1, m2}
    MaxTries = 2
    MaxDeliveries = 2
    MaxCopies = 1
    Limit = 5
    Used = {3, 4, 5}
    MaxMonth = 2
    MaxAge = 1
    MaxSkew = 0
    HandlerTicks = 1
    NonceTicks = 2
SYMMETRY Symmetry
SPECIFICATION Spec
INVARIANTS UploadPassesOnce BounceIsDecided QuotaNoticeFits WarnedBeforeLimit
CHECK_DEADLOCK FALSE
