SPECIFICATION Spec
CONSTANTS
    Factor = 12
    MaxUnits = 14
    MaxPrice = 26
    MaxRate = 5
INVARIANTS
    LargestExactQuantity
    FeesFavourCustomer
CHECK_DEADLOCK FALSE
