------------------------ MODULE MCIntelligenceRefresh ------------------------
(***************************************************************************)
(* Instances of IntelligenceRefresh for TLC.  The first release reads the  *)
(* content "old" and not "new"; the release of a restart may differ.       *)
(***************************************************************************)
EXTENDS IntelligenceRefresh, TLC

CONSTANTS d1, d2, old, new

OneDocument  == {d1}
TwoDocuments == {d1, d2}
OneContent   == {old}
TwoContents  == {old, new}

OneListing  == {<<d1>>}
AllListings == {<<>>, <<d1>>, <<d1, d2>>}

\* One release that reads everything it supports
SameRelease == old :> <<"evidence">> @@ new :> <<"broken">>
OnlyOld     == old :> <<"evidence">>
\* A release that loses one content and gains another
NewRelease  == old :> <<"evidence", "broken">> @@ new :> <<"unsupported", "evidence">>
OldUpgrade  == old :> <<"evidence", "evidence">>

NoForce   == {FALSE}
OnlyForce == {TRUE}

JobSymmetry == Permutations(Jobs)

=============================================================================
