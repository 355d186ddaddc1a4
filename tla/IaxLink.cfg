SPECIFICATION FairSpec
CONSTANTS
    a = a
    b = b
    Ends = {a, b}
    M = 4
    MaxRetries = 1
    MaxSent <- Sends_3_0
    MaxNet = 2
INVARIANTS TypeOK InOrder AckSound NothingForgotten
PROPERTIES FifoSafety NotHalfOpen FifoLiveness
CHECK_DEADLOCK FALSE
