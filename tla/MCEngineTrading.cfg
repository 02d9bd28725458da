SPECIFICATION Spec
CONSTANTS
    Factor = 2
    MaxUnits = 20
    Prices <- MCPrices
    Users <- MCUsers
    Assets <- MCAssets
    Pairs <- MCPairs
    Orders <- TradingOrders
    Credits <- None
    Withdrawals <- None
    Adjustments <- None
    Genesis <- TradingGenesis
INVARIANTS
    Conservation
    LockedIsReserved
    NoCrossedStrangers
    RestingSound
PROPERTIES
    NeverRestsAgain
    QuantityOrdersKeepPriority
    FifoKept
    TradesAtMakerPrice
