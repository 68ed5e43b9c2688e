-------------------------- MODULE MCDecisionJournal --------------------------
(***************************************************************************)
(* Instances of DecisionJournal for TLC.                                   *)
(***************************************************************************)
EXTENDS DecisionJournal, TLC

CONSTANTS a, b

MCCompanies == {a, b}

MCPolicies ==
    [normal : {10}, single : {20, 30}, assignment : {50}, collateral : {60}, stress : {15},
     reservePercent : {20}, reserve : {None}]

MCIntentInputs ==
    [target : {1000}, targetPercent : {None}, maximum : {1500}, maximumPercent : {None},
     price : {300}]

MCPlanInputs == {<<[amount |-> None, percent |-> 50]>>}

MCExpressions == [kind : {"shares"}, quantity : {None}, price : {300}]

\* Evidence on one company
MCSpanOwner == [span \in Spans |-> a]

MCThesisInputs ==
    {[status |-> "watch", criteria |-> FALSE, spans |-> {}],
     [status |-> "ready_for_position_planning", criteria |-> TRUE, spans |-> Spans]}

MCReviews == {[quality |-> "good", outcome |-> None], [quality |-> "poor", outcome |-> "favorable"]}

Names == Permutations(Tickers)

=============================================================================
