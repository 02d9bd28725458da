SPECIFICATION Spec
CONSTANTS
    o1 = o1
    b1 = b1
    q1 = q1
    OrderCommands = {o1}
    BalanceCommands = {}
    Queries = {q1}
    Events <- MCEvents
    QueueCap = 1
    JournalCap = 2
    GroupMax = 2
    MaxAttempts = 2
    MaxCrashes = 1
    MaxFaults = 0
INVARIANTS
    AppliedOnce
    RealTimeOrder
    PublishHasRoom
PROPERTY
    ImplementsCommandLog
