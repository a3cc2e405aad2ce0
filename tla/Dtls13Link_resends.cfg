SPECIFICATION LinkSpec
CONSTANTS
    ClientLast = 3
    ServerLast = 3
    MaxBackoff = 2
    MaxLosses = 4
    MaxAttempts = 5
PROPERTIES TimeoutResends
CHECK_DEADLOCK FALSE
