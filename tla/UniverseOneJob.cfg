SPECIFICATION FairSpec
CONSTANTS
    Whole = 6
    Jobs = {j1}
    s1 = s1
    s2 = s2
    s3 = s3
    big = big
    small = small
    Symbols <- ThreeSymbols
    Contents <- Tables
    Members <- ThreeMembers
    Commands <- UnforcedCommands
    Concurrency = 2
    Fragile = {s1, s2}
    MaxCrashes = 1
INVARIANT ClosedRunAccountsForItems
PROPERTIES JobContract JobsEnd
CHECK_DEADLOCK FALSE
