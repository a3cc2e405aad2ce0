SPECIFICATION Spec
CONSTANTS
    Flight <- MCLongMessage
    MaxFragment = 1
    FragPool = 10
    Pool = 20
INVARIANTS
    Assembled
CHECK_DEADLOCK FALSE
