SPECIFICATION FairSpec
CONSTANTS
    p1 = p1
    p2 = p2
    Payment = {p1, p2}
    Amount <- MCAmount
    None = None
    Invoice = {i1}
    Handler = {r1, r2}
    Totals = {2, 3}
INVARIANTS BalanceExact SettlementMatchesBalance
PROPERTIES
    BalanceGrowsWithinTotal CancelledReopens OverdueIsMarked ImplementsLedger
CHECK_DEADLOCK FALSE
