CONSTANTS
    Threads = {"loop", "worker"}
    Repertoire <- MCRepertoire
    MaxCalls = 3
SPECIFICATION ConnectionSpec
INVARIANTS
    AllOrNothing
CHECK_DEADLOCK FALSE
