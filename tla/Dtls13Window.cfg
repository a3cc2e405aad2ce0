SPECIFICATION Spec
CONSTANTS
    WordBits = 2
    Words = 2
    Shift = 10
    Limit = 16
INVARIANTS TypeOK NoReplay NothingBeforeFirst LateRecordsAccepted
CHECK_DEADLOCK FALSE
