----------------------------- MODULE VersionChain -----------------------------
(***************************************************************************)
(* What is promised of everything the program keeps in versions: under one *)
(* key the versions are numbered from 1 without a gap, saving adds one at  *)
(* the end, and no version that was saved ever changes or disappears.      *)
(***************************************************************************)
EXTENDS Naturals, Sequences

CONSTANT Keys

VARIABLE chain         \* chain[k][n] is version n of k

Init == chain = [k \in Keys |-> << >>]

\* A new version of k after those that exist
Save(k) ==
    /\ Len(chain'[k]) = Len(chain[k]) + 1
    /\ SubSeq(chain'[k], 1, Len(chain[k])) = chain[k]
    /\ \A other \in Keys \ {k} : chain'[other] = chain[other]

Next == \E k \in Keys : Save(k)

Spec == Init /\ [][Next]_chain

=============================================================================
