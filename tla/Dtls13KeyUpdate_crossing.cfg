\* Both sides may start an update of their own.
SPECIFICATION Spec
CONSTANTS
    MaxClientUpdates = 1
    MaxServerUpdates = 1
INVARIANTS
    TypeOK
    InStep
    CurrentKeysKept
    NoEcho
CHECK_DEADLOCK FALSE
