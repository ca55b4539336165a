SPECIFICATION FairSpec
CONSTANTS
    Boot = {b1}
    FirstNode = FALSE
    QueueLimit = 1
PROPERTIES
    StopReturns
CHECK_DEADLOCK FALSE
