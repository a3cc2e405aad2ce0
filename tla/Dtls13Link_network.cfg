SPECIFICATION FairSpec
CONSTANTS
    ClientLast = 3
    ServerLast = 3
    MaxBackoff = 2
    MaxLosses = 1
    MaxAttempts = 3
INVARIANTS LinkTypeOK
PROPERTIES NetworkSpec Settles ConnectReturns Completes
CHECK_DEADLOCK FALSE
