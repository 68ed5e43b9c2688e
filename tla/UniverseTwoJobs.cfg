SPECIFICATION Spec
CONSTANTS
    Whole = 6
    Jobs = {j1, j2}
    s1 = s1
    s2 = s2
    s3 = s3
    big = big
    small = small
    Symbols <- TwoSymbols
    Contents <- Tables
    Members <- TwoMembers
    Commands <- DefaultCommand
    Concurrency = 1
    Fragile = {}
    MaxCrashes = 1
SYMMETRY JobSymmetry
INVARIANTS AcceptedCancelWins CoverageWithinSnapshot 
CHECK_DEADLOCK FALSE
