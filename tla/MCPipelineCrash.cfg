SPECIFICATION Spec
CONSTANTS
    o1 = o1
    b1 = b1
    q1 = q1
    OrderCommands = {o1}
    BalanceCommands = {b1}
    Queries = {}
    Events <- MCEvents
    QueueCap = 1
    JournalCap = 2
    GroupMax = 2
    MaxAttempts = 1
    MaxCrashes = 2
    MaxFaults = 2
INVARIANTS
    AnswersAreDurable
    JournalFollowsCore
    KafkaHasNoGap
    HaltDrains
    RealTimeOrder
PROPERTY
    ImplementsCommandLog
