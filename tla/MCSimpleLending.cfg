SPECIFICATION Spec
CONSTANTS
    u1 = u1
    u2 = u2
    Users <- MCUsers
    Amounts = {1, 2}
    Prices = {1, 3}
    Rates = {0, 40}
    WAD = 100
    VirtualShares = 2
    Lltv = 80
    Cursor = 30
    MaxIncentive = 115
    LoanEach = 2
    CollateralEach = 2
    MaxTime = 1
    MaxMoves = 1
    MaxShares = 8
SYMMETRY MCSymmetry
CHECK_DEADLOCK FALSE
INVARIANTS BooksBalance DebtorsListed NoDebtWithoutCollateral
PROPERTIES SharesKeepTheirWorth
