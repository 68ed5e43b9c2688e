SPECIFICATION FairSpec
CONSTANTS
    Whole = 6
    Jobs = {j1}
    Prices = {1, 2}
    Cost = 1
    Cash = 1
    None = None
    Histories <- MCHistories
    Grid <- MCGrid
    Guides = {FALSE, TRUE}
    MaxTrials = 3
    TrainingPercent = 50
    FinalPercent = 10
    Folds = 2
    FoldRows = 2
    Warmup = 4
    Fragile = TRUE
    MaxCrashes = 1
INVARIANTS NoLookAhead TradesReconcile SelectionIgnoresFinal ResultIsBestRun CancelStopsSearch
PROPERTIES JobContract SearchesEnd
CHECK_DEADLOCK FALSE
