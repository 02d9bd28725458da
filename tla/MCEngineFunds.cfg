SPECIFICATION Spec
CONSTANTS
    Factor = 2
    MaxUnits = 8
    Prices <- MCPrices
    Users <- FundsUsers
    Assets <- MCAssets
    Pairs <- MCPairs
    Orders <- FundsOrders
    Credits <- FundsCredits
    Withdrawals <- FundsWithdrawals
    Adjustments <- FundsAdjustments
    Genesis <- FundsGenesis
INVARIANTS
    Conservation
    LockedIsReserved
PROPERTIES
    ReceiptsAreFinal
