SPECIFICATION Spec
CONSTANTS
    p1 = p1
    p2 = p2
    order = order
    credit = credit
    payout = payout
    Procs = {p1, p2}
    Placements = {order}
    Credits = {credit}
    Payouts = {payout}
    MaxCommands = 2
    MaxCrashes = 2
    MaxLosses = 2
INVARIANTS
    NothingAnsweredIsForgotten
    OneLineage
    RefusedHasServedNobody
PROPERTIES
    Restartable
