SPECIFICATION Spec
CONSTANTS
    ClientLast = 3
    ServerLast = 3
    MaxBackoff = 2
INVARIANTS TypeOK NothingForgotten AcksTruthful NoneLeftWaiting Agreement
PROPERTIES OrderSpec
CHECK_DEADLOCK FALSE
