SPECIFICATION PlanningSpec
CONSTANTS
    Companies = {a, b}
    Tickers = {s, t}
    NoCompany = NoCompany
    None = None
    Unbounded = Unbounded
    Contexts <- MCContexts
    Holdings <- MCHoldings
    Policies <- MCPolicies
    IntentInputs <- MCIntentInputs
    PlanInputs <- MCPlanInputs
    Expressions <- MCExpressions
    Candidates <- MCCandidates
    PlanKeys = {1, 2}
    MaxChanges = 5
SYMMETRY Names
INVARIANTS PlanWithinIntent SizingStopsAtTarget  HoldingCountsOnce
CHECK_DEADLOCK FALSE
