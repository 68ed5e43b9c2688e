SPECIFICATION Spec
CONSTANTS
    Companies = {c1, c2, c3}
    Tickers = {t1, t2}
    Exchanges = {x1, NoExchange}
    NoExchange = NoExchange
    LastDay = 3
    NoCompany = NoCompany
    MaxChanges = 4
SYMMETRY TickerSymmetry
INVARIANTS ActiveTickerHasOneOwner
PROPERTIES PastOwnersStay DirectoryContract
CHECK_DEADLOCK FALSE
