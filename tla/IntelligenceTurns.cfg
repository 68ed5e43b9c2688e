SPECIFICATION Spec
CONSTANTS
    Whole = 2
    Jobs = {j1, j2}
    d1 = d1
    d2 = d2
    old = old
    new = new
    Documents <- OneDocument
    Contents <- TwoContents
    Listings <- OneListing
    Outcome <- NewRelease
    Forces <- OnlyForce
    Overlap = FALSE
    Fragile = TRUE
    MaxCrashes = 1
SYMMETRY JobSymmetry
PROPERTY ParsedEvidenceStays
CHECK_DEADLOCK FALSE
