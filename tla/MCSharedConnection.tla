-------------------------- MODULE MCSharedConnection --------------------------
(* Instances of SharedConnection: the event loop and the thread of one       *)
(* intelligence refresh.                                                     *)
EXTENDS SharedConnection, RepositoryCalls

\* Two transactional calls and a single write on the loop, a transactional
\* call and a single write on the worker.
MCRepertoire ==
    [t \in {"loop", "worker"} |->
        IF t = "loop" THEN {UpsertCompany, AppendOptionEvent, SaveSimulationRun, UpdateDecision}
                      ELSE {SaveCandidate, SaveDocument}]

\* Every program of the repositories keeps its writes between BEGIN and COMMIT,
\* which ConnectionAssumption asks of the programs of a repertoire.
ASSUME RepositoriesAreWellBracketed ==
    \A program \in {UpsertCompany, RegisterSecurity, ChangePrimaryTicker, MarkInactive,
                     SaveCandidate, SaveDefinition, SaveObservation, SaveStatement,
                     SaveEvaluation, SaveFacts, SaveSnapshot, StartRefresh,
                     AppendOptionEvent, DeduplicateStrategies, SaveDocument, SaveSpan,
                     SaveSimulationRun, CreateOptionPosition, UpdateDecision} :
        WellBracketed(program)
===============================================================================
