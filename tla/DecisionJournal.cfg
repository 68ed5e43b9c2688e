SPECIFICATION Spec
CONSTANTS
    a = a
    b = b
    Companies <- MCCompanies
    Tickers = {s, t}
    NoCompany = NoCompany
    None = None
    Unbounded = Unbounded
    Contexts = {}
    Holdings = {}
    Policies <- MCPolicies
    IntentInputs <- MCIntentInputs
    PlanInputs <- MCPlanInputs
    Expressions <- MCExpressions
    Candidates = {}
    PlanKeys = {1}
    MaxChanges = 5
    Spans = {e}
    SpanOwner <- MCSpanOwner
    ThesisInputs <- MCThesisInputs
    Decisions = {1, 2}
    States = {"planned"}
    Reviews <- MCReviews
SYMMETRY Names
INVARIANTS FrozenComponents RevisionsTellTheJournal
PROPERTIES VersionContract
CHECK_DEADLOCK FALSE
