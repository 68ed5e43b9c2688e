SPECIFICATION Spec
CONSTANTS
    Documents = {"old", "new", "exhibit"}
    Times = {1, 2}
    KnownAt <- Filed
    Edges = {"supplier"}
    Exposures = {"low"}
    Validities = {{1}}
    Threads = {"revenue"}
    Texts = {"cautious", "bold", "firm", "vague"}
    Bounds <- Wording
    Actuals = {7}
    Keys = {"segment"}
    Bases = {"b1", "b2"}
    Periods = {1, 2}
    Amounts = {5, 6}
    Claims <- Filings
    Relevant = {"old"}
    MaxRefreshes = 2
    MaxFailures = 1
    MaxRequests = 1
INVARIANTS CurrentIsNotSuperseded  
PROPERTY PastIsSettled
CHECK_DEADLOCK FALSE
