SPECIFICATION Spec
CONSTANTS
    Callers <- RaceCallers
    Request <- RaceRequest
    Original <- RaceOriginal
    FeeRates <- Fees
    InvalidFees = {2}
    MaxId = 7
    MaxTries = 2
    MaxFaults = 1
INVARIANTS
    RefusedNeverAccepted
    SuccessIsJournaled
    EngineNeverConflicts
PROPERTY
    EveryRequestAnswered
CHECK_DEADLOCK FALSE
