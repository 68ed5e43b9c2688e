-------------------------- MODULE MCUniverseRefresh --------------------------
(***************************************************************************)
(* Instances of UniverseRefresh for TLC.  Two membership tables: "small"   *)
(* lost members "big" still had.                                           *)
(***************************************************************************)
EXTENDS UniverseRefresh, TLC

CONSTANTS s1, s2, s3, big, small

OneSymbol    == {s1}
TwoSymbols   == {s1, s2}
ThreeSymbols == {s1, s2, s3}
OneTable     == {big}
Tables       == {big, small}
OneMember    == big :> {s1}
TwoMembers   == big :> {s1, s2} @@ small :> {s2}
ThreeMembers == big :> {s1, s2, s3} @@ small :> {s3}

UnforcedCommands == [force : {FALSE}, refreshSnapshot : BOOLEAN]
DefaultCommand   == {[force |-> FALSE, refreshSnapshot |-> TRUE]}

JobSymmetry == Permutations(Jobs)

=============================================================================
