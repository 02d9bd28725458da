SPECIFICATION AuditSpec
CONSTANTS
    p1 = p1
    order = order
    credit = credit
    payout = payout
    Procs = {p1}
    Placements = {order}
    Credits = {credit}
    Payouts = {payout}
    MaxCommands = 3
    MaxCrashes = 1
    MaxLosses = 1
    MaxLimit = 3
    PageBytes = 2
INVARIANTS
    AuditIsComplete
