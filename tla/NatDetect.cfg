SPECIFICATION FairSpec
CONSTANTS
    Boot = {b1, b2}
    FirstNode = FALSE
    QueueLimit = 0
INVARIANTS
    TypeOK
    FinishHasVerdict
    WorkerHasTransport
PROPERTIES
    VerdictIsFinal
    StartReturns
    OpenAnswerSettles
CHECK_DEADLOCK FALSE
