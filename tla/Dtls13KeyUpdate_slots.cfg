\* Two updates of the client: the second needs a slot that is in use.
SPECIFICATION Spec
CONSTANTS
    MaxClientUpdates = 2
    MaxServerUpdates = 0
INVARIANTS
    LastEpochReadable
CHECK_DEADLOCK FALSE
