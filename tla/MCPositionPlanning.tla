-------------------------- MODULE MCPositionPlanning --------------------------
(***************************************************************************)
(* Instances of PositionPlanning for TLC.                                  *)
(***************************************************************************)
EXTENDS PositionPlanning, TLC

\* $100.00 or $200.00 with $60.00 in cash, and no capital at all
MCContexts == [investable : {10000, 20000}, cash : {6000}] \cup [investable : {0}, cash : {0}]

\* Two shares of unknown value; a short position entered with its value
MCHoldings == {[shares |-> 2, value |-> None], [shares |-> -1, value |-> -700]}

MCPolicies ==
    {[normal |-> 10, single |-> 20, assignment |-> 50, collateral |-> 60, stress |-> 15,
      reservePercent |-> 20, reserve |-> 3000]}

\* By amount; target by percentage, maximum by amount; an amount with a
\* percentage that contradicts it unless there is no capital
MCIntentInputs ==
    {[target |-> 1000, targetPercent |-> None, maximum |-> 1500, maximumPercent |-> None,
      price |-> 300],
     [target |-> None, targetPercent |-> 20, maximum |-> 2500, maximumPercent |-> None,
      price |-> None],
     [target |-> 1000, targetPercent |-> 20, maximum |-> 4000, maximumPercent |-> None,
      price |-> 300]}

ByAmount(n)  == [amount |-> n, percent |-> None]
ByPercent(p) == [amount |-> None, percent |-> p]

\* All of the target in thirds; more than most targets in two parts
MCPlanInputs == {<<ByPercent(33), ByPercent(33), ByPercent(34)>>,
                 <<ByPercent(60), ByAmount(500)>>}

Option(t, secured, cost, obligation) ==
    [kind |-> "option", ticker |-> t, secured |-> secured, committed |-> cost,
     collateral |-> obligation, loss |-> cost, assignment |-> obligation, premium |-> 100]

ShareBuy(n) == [kind |-> "shares", quantity |-> n, price |-> 300]

MCExpressions == {ShareBuy(None)} \cup {Option(t, FALSE, 500, 0) : t \in Tickers}

MCCandidates ==
    MCExpressions \cup {ShareBuy(3), ShareBuy(5)} \cup {Option(t, TRUE, 900, 1000) : t \in Tickers}

Names == Permutations(Companies) \cup Permutations(Tickers)

=============================================================================
