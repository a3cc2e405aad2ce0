SPECIFICATION Spec
CONSTANTS
    other = other
    Remote = server
    NoHost = none
    Broadcast = bcast
    Hosts <- MCHosts
    Arrivals <- MCArrivals
    RxSlots = 2
    TxSlots = 2
    ReaderDepth = 2
    TxPolls = 1
    ArpTries = 2
    ArpPolls = 2
    RecvPolls = 2
    MaxDatagrams = 1
    MaxSends = 2
INVARIANTS BufferAvailable
CHECK_DEADLOCK FALSE
