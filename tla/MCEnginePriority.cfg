SPECIFICATION Spec
CONSTANTS
    Factor = 2
    MaxUnits = 20
    Prices <- MCPrices
    Users <- MCUsers
    Assets <- MCAssets
    Pairs <- MCPairs
    Orders <- TradingOrders
    Credits <- None
    Withdrawals <- None
    Adjustments <- None
    Genesis <- TradingGenesis
PROPERTY
    AllOrdersKeepPriority
