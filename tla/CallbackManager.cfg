SPECIFICATION FairSpec
CONSTANTS
    i1 = i1
    i2 = i2
    i3 = i3
    Item = {i1, i2, i3}
    NoItem = NoItem
    MessageIds = 2
    expect <- MCExpect
    timeout <- MCTimeout
INVARIANTS
    TypeOK
    AnswersAccounted
PROPERTIES
    ImplementsAnswerLedger
    TimesOutExpiredOnly
    ItemsSettle
CHECK_DEADLOCK FALSE
