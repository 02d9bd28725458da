SPECIFICATION FairSpec
CONSTANTS
    o1 = o1
    b1 = b1
    q1 = q1
    OrderCommands = {o1}
    BalanceCommands = {b1}
    Queries = {}
    Events <- MCEvents
    QueueCap = 1
    JournalCap = 1
    GroupMax = 2
    MaxAttempts = 1
    MaxCrashes = 1
    MaxFaults = 1
PROPERTIES
    HaltTerminates
    DurableIsDelivered
    AcceptedIsAnswered
