SPECIFICATION FairSpec
CONSTANTS
    Flight <- MCFlight
    MaxFragment = 2
    FragPool = 10
    Pool = 20
INVARIANTS
    TypeOK
    Assembled
    KeptIsWhatArrived
    SentOnceInOrder
PROPERTIES
    Delivered
\* The flight ends.
CHECK_DEADLOCK FALSE
