SPECIFICATION MarketSpec
CONSTANTS
    Factor = 2
    MaxUnits = 20
    Prices <- MCPrices
    Users <- MCUsers
    Assets <- MCAssets
    Pairs <- MCPairs
    Orders <- MCOrders
    Credits <- MCCredits
    Withdrawals <- Nothing
    Adjustments <- Nothing
    Genesis <- MCGenesis
    Depth = 1
    MaxRecords = 4
    MaxRestarts = 1
INVARIANTS
    PublicBookIsCoreBook
    ChainIsUnbroken
    NewListenerSeesEveryMarket
CHECK_DEADLOCK FALSE
