SPECIFICATION Spec
CONSTANTS
    Whole = 2
    Jobs = {j1, j2}
    d1 = d1
    d2 = d2
    old = old
    new = new
    Documents <- TwoDocuments
    Contents <- TwoContents
    Listings <- AllListings
    Outcome <- SameRelease
    Forces <- NoForce
    Overlap = TRUE
    Fragile = FALSE
    MaxCrashes = 0
SYMMETRY JobSymmetry
INVARIANTS RunAccountsForDocuments CancelEndsLoop
PROPERTIES JobContract
CHECK_DEADLOCK FALSE
