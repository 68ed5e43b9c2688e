SPECIFICATION LedgerSpec
CONSTANTS
    Lot = 2
    Requests <- AllPositions
    Quotes = {4, 7}
    Marks = {1, 3}
    Strikes = {4, 6}
    Expirations = {1, 2}
    ShareTrades = {1, 4}
    Contracts = {1, 2}
    AddedLegs <- HedgeAndPut
    MaxLegs = 3
    MaxEvents = 3
INVARIANTS LedgerReconciles CoveredMeansCovered CollateralSecuresPut
CHECK_DEADLOCK FALSE
