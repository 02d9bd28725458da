SPECIFICATION HttpSpec
CONSTANTS
    Factor = 2
    MaxUnits = 4
    Prices <- MCPrices
    Users <- MCUsers
    Assets <- MCAssets
    Pairs <- MCPairs
    Orders <- MCOrders
    Credits <- MCCredits
    Withdrawals <- MCFunds
    Adjustments <- Nothing
    Genesis <- MCGenesis
    Mixes <- MCMixes
    QueueCap = 2
    MaxTries = 2
    MaxStops = 1
INVARIANTS
    AnswersHold
    NotAcceptedIsNeverApplied
CHECK_DEADLOCK FALSE
