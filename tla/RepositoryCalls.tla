---------------------------- MODULE RepositoryCalls ----------------------------
(***************************************************************************)
(* What the repositories say to the connection: each operation as the      *)
(* program of its statements, which SharedConnection interleaves.          *)
(***************************************************************************)
\* The statements of the repositories, on the path that writes everything;
\* an early return or an error ends a program before its last statement.

UpsertCompany == <<"begin", "read", "read", "write", "write", "commit", "read">>
RegisterSecurity == <<"begin", "read", "write", "commit", "read">>
ChangePrimaryTicker == <<"begin", "read", "write", "write", "write", "commit", "read">>
MarkInactive == <<"begin", "read", "write", "write", "commit", "read">>
SaveCandidate == <<"read", "begin", "write", "read", "write", "write", "commit", "read">>
SaveDefinition == <<"read", "begin", "write", "write", "commit", "read">>
SaveObservation == <<"read", "begin", "write", "write", "commit", "read">>
SaveStatement == <<"read", "begin", "write", "write", "write", "commit", "read">>
SaveEvaluation == <<"read", "begin", "write", "write", "commit">>
SaveFacts == <<"read", "begin", "write", "write", "commit", "read">>
SaveSnapshot == <<"read", "read", "begin", "write", "write", "commit", "read">>
StartRefresh == <<"begin", "write", "write", "commit">>
AppendOptionEvent == <<"read", "begin", "write", "write", "commit">>
DeduplicateStrategies == <<"read", "begin", "write", "write", "write", "commit">>
SaveDocument == <<"read", "read", "write", "read">>
SaveSpan == <<"read", "write", "write", "read">>
SaveSimulationRun == <<"write">>
CreateOptionPosition == <<"write", "write">>
UpdateDecision == <<"write", "write">>
================================================================================
