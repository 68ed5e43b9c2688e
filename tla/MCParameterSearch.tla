-------------------------- MODULE MCParameterSearch --------------------------
(***************************************************************************)
(* Instances of ParameterSearch for TLC.                                   *)
(***************************************************************************)
EXTENDS ParameterSearch

At1(price) == [open |-> 1, close |-> price]

\* All histories of five sessions: too short to be split, long enough for every
\* way into and out of a trade
Short == {<<a, b, c, d, e>> : a, b, c, d, e \in Session}

\* Seven quiet sessions, the last of them the first of the walk-forward windows,
\* and no gaps overnight
Quiet == [n \in 1 .. 7 |-> At1(1)]
NoGap(closes) == [n \in DOMAIN closes |->
                     [open |-> IF n = 1 THEN 1 ELSE closes[n - 1], close |-> closes[n]]]
Long == {Quiet \o NoGap(closes) : closes \in [1 .. 5 -> Prices]}

MCHistories == Short \cup Long

NoRisk == [stop |-> None, target |-> None, trail |-> None, atr |-> None, hold |-> None]

Rule(side, enter, exit, warm, risk) ==
    [side |-> side, enter |-> enter, exit |-> exit, warm |-> warm,
     stop |-> risk.stop, target |-> risk.target, trail |-> risk.trail,
     atr |-> risk.atr, hold |-> risk.hold]

\* Trend with a stop, reversal with a trailing stop and a limit in time, short
\* with a target and an ATR stop
MCGrid ==
    <<Rule(1, {2}, {1}, 0, [NoRisk EXCEPT !.stop = 50]),
      Rule(1, {1}, {}, 1, [NoRisk EXCEPT !.trail = 50, !.hold = 2]),
      Rule(-1, {1, 2}, {}, 0, [NoRisk EXCEPT !.target = 50, !.atr = 1])>>

=============================================================================
