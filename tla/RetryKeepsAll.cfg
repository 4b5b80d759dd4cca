SPECIFICATION RetSpec
CONSTANTS
    MaxSaid = 2
    MaxCloses = 2
    RetireMax = 2
INVARIANT RetryKeepsAll
CHECK_DEADLOCK FALSE
