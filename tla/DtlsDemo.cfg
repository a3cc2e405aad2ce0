SPECIFICATION FairSpec
CONSTANTS
    MaxAttempts = 4
    MaxLate = 2
    MaxStrays = 2
INVARIANTS TypeOK Released PassedMeansEchoed FailsForCause ServedPeer
PROPERTY Returns
\* The demo has returned; a server that is not closed waits for datagrams.
CHECK_DEADLOCK FALSE
