SPECIFICATION Spec
CONSTANTS
    None = None
    Definitions <- MCDefinitions
    DebtGroups <- MCDebtGroups
    Filings <- MCFilings
    Histories <- MCHistories
    Moments <- MCMoments
    Recent = 4
    MaxSyncs = 2
    Sessions <- MCSessions
    Price <- MCPrice
    Offsets <- MCOffsets
    MaxRequests = 2
    Books <- MCBooks
INVARIANT ValuationIsPointInTime
INVARIANT PeriodsMatchTheBooks
INVARIANT SettledPastStays
INVARIANT EventIsOfItsReport
INVARIANT ReactionFollowsNews
CHECK_DEADLOCK FALSE
