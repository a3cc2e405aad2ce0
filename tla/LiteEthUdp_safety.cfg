SPECIFICATION FairSpec
CONSTANTS
    other = other
    Remote = server
    NoHost = none
    Broadcast = bcast
    Hosts <- MCHosts
    Arrivals <- MCArrivals
    RxSlots = 2
    TxSlots = 2
    ReaderDepth = 1
    TxPolls = 1
    ArpTries = 2
    ArpPolls = 2
    RecvPolls = 2
    MaxDatagrams = 3
    MaxSends = 1
INVARIANTS TypeOK TxIntact RxSlotOwned AddressedToServer
PROPERTIES PortSpec CallsReturn
CHECK_DEADLOCK FALSE
