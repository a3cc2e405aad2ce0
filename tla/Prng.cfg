\* Readings: 0 (the counter of a build without one), an ordinary one, the one
\* that would seed with zero, the one that seeds with the marker itself, and
\* the one whose third byte leaves the marker behind.
SPECIFICATION Spec
CONSTANTS
    CycleReadings = {{}, {0, 1, 4, 5, 7, 9, 13, 15, 16},
                     {1, 3, 4, 5, 6, 7, 9, 10, 12, 14, 16, 17, 19, 22, 23, 24, 27, 28, 31},
                     {0, 1, 2, 3, 4, 6, 8, 9, 12, 13, 14, 15, 17, 18, 19, 21, 22, 26, 27, 28, 29},
                     {2, 3, 4, 6, 8, 9, 11, 13, 14, 19, 20, 22, 23, 24, 25, 27, 28, 31}}
    MaxBytes = 4
    MaxCalls = 5
INVARIANTS TypeOK NeverZero
\* The bound on the calls stops it.
CHECK_DEADLOCK FALSE
