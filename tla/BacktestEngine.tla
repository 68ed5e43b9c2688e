---------------------------- MODULE BacktestEngine ----------------------------
(***************************************************************************)
(* DeclarativeStrategy.positions, apply_execution and                      *)
(* run_research_backtest: from the sessions of one symbol to target        *)
(* positions, executed positions, the equity curve and the ledger of       *)
(* trades.  Nothing here has a state: a backtest is a function of its      *)
(* history.                                                                *)
(*                                                                         *)
(* A history is a sequence of sessions.  A criterion is the set of closes  *)
(* it matches; high and low of a session are its open and close, and the   *)
(* ATR window is one session.  A price divides the double of every other,  *)
(* so that the factor of a session is a number of quarters and the equity  *)
(* of an active row is a whole number of units.                            *)
(* Benchmarks, metrics other than the score, charts and wording are left   *)
(* out.                                                                    *)
(***************************************************************************)
EXTENDS Integers, Sequences, FiniteSetsExt, Functions

CONSTANTS
    Prices,        \* of the opens and closes
    Cost,          \* one_way_cost_rate in quarters
    Cash,          \* cash_daily_rate in quarters
    None

ASSUME EngineAssumption ==
    /\ Prices \subseteq Nat \ {0}
    /\ \A p, q \in Prices : (2 * p) % q = 0
    /\ Cost \in 0 .. 3
    /\ Cash \in 0 .. 1
    /\ None \notin Int

Session == [open : Prices, close : Prices]

Setting == (1 .. 100) \cup {None}

\* side, rules and risk of a configuration, and the rows its indicators need
Strategy == [side : {1, -1}, enter : SUBSET Prices, exit : SUBSET Prices, warm : Nat,
             stop : Setting, target : Setting, trail : Setting, atr : Setting, hold : Setting]

-----------------------------------------------------------------------------
\* positions

\* max and min of one array after the other
Farther(side, a, b) == IF (a - b) * side > 0 THEN a ELSE b

\* IndicatorRegistry "atr": the range of the session and the close before it
TrueRange(h, k) ==
    LET seen == {h[k].open, h[k].close} \cup (IF k = 1 THEN {} ELSE {h[k - 1].close})
    IN  Max(seen) - Min(seen)

Flat == [position |-> 0, pending |-> FALSE, entry |-> None, best |-> None, atr |-> None, days |-> 0]

Entering(h, s, k) == [position |-> s.side, pending |-> TRUE, entry |-> None, best |-> None,
                      atr |-> TrueRange(h, k), days |-> 0]

\* The entry price is the open after the signal.
Filled(held, session) ==
    IF held.pending
    THEN [held EXCEPT !.pending = FALSE, !.entry = session.open, !.best = session.open]
    ELSE held

Carried(s, held, session) ==
    [Filled(held, session) EXCEPT !.days = @ + 1, !.best = Farther(s.side, @, session.close)]

\* The close has moved by the percentage against the position, or for it.
Lost(s, from, close, percent) ==
    percent # None /\ 100 * (close - from) * s.side <= -percent * from
Won(s, from, close, percent) ==
    percent # None /\ 100 * (close - from) * s.side >= percent * from

Leaves(s, held, close) ==
    \/ close \in s.exit
    \/ Lost(s, held.entry, close, s.stop)
    \/ Won(s, held.entry, close, s.target)
    \/ Lost(s, held.best, close, s.trail)
    \/ s.atr # None /\ (close - held.entry) * s.side <= -held.atr * s.atr
    \/ s.hold # None /\ held.days >= s.hold

\* One pass of the loop: what is held after the close of session k
Decided(h, s, mind, k) ==
    LET close == h[k].close
        held  == Carried(s, mind, h[k])
    IN  IF mind.position = 0
        THEN IF close \in s.enter THEN Entering(h, s, k) ELSE Flat
        ELSE IF Leaves(s, held, close) THEN Flat ELSE held

\* What the strategy holds in its mind after each session, nothing before them
Mind(h, s) ==
    LET mind[k \in 1 .. Len(h) + 1] ==
            IF k = 1 THEN Flat ELSE Decided(h, s, mind[k - 1], k - 1)
    IN  Tail(mind)

-----------------------------------------------------------------------------
\* apply_execution

\* Targets before the first active row count as none.
Signals(h, s, start) ==
    LET mind == Mind(h, s)
    IN  [k \in 1 .. Len(h) |-> IF k < start THEN 0 ELSE mind[k].position]

\* Mutated form: the target is executed at the open of its own session.
ShiftedNot(signal, k) == IF k < 1 THEN 0 ELSE signal[k]

\* signal_lag_sessions = 1
Shifted(signal, k) == IF k <= 1 THEN 0 ELSE signal[k - 1]

\* 1 + position * (to / from - 1), in halves
Factor(position, from, to) == 2 + (position * 2 * (to - from)) \div from

Absolute(n) == IF n < 0 THEN -n ELSE n

\* The factor of a session in quarters: the old position from the close to the
\* open, the new one from the open to the close, cost and cash; a factor that is
\* not positive is clipped to next to nothing.
NetFactor(h, previous, position, k) ==
    LET overnight == IF k = 1 THEN 2 ELSE Factor(previous, h[k - 1].close, h[k].open)
        intraday  == Factor(position, h[k].open, h[k].close)
        idle      == IF previous = 0 /\ position = 0 THEN Cash ELSE 0
        net       == overnight * intraday + idle - Absolute(position - previous) * Cost
    IN  Max({net, 0})

-----------------------------------------------------------------------------
\* run_research_backtest

\* The first row with all indicators, at the requested start or later
Start(s, from) == Max({s.warm + 1, from})

\* "requires at least two aligned sessions"
CanRun(h, s, from) == Start(s, from) < Len(h)

\* 4 ^ n
Fours(n) ==
    LET power[k \in 0 .. n] == IF k = 0 THEN 1 ELSE 4 * power[k - 1]
    IN  power[n]

\* 1.0 in units
Unit(h, start) == Fours(Len(h) - start + 1)

\* cumulative_wealth of the active rows, the first of which earns nothing
Wealth(h, position, start) ==
    LET wealth[n \in 1 .. Len(h) - start + 1] ==
            IF n = 1 THEN Unit(h, start)
            ELSE (wealth[n - 1] \div 4)
                 * NetFactor(h, position[start + n - 2], position[start + n - 1], start + n - 1)
    IN  wealth

Positions(h, s, start) ==
    LET signal == Signals(h, s, start)
    IN  [k \in 0 .. Len(h) |-> Shifted(signal, k)]

\* The active rows
Rows(h, s, from) ==
    LET start    == Start(s, from)
        signal   == Signals(h, s, start)
        position == Positions(h, s, start)
        equity   == <<Unit(h, start)>> \o Wealth(h, position, start)
    IN  [k \in start .. Len(h) |->
            [signal |-> signal[k], position |-> position[k],
             before |-> equity[k - start + 1], equity |-> equity[k - start + 2]]]

\* Mutated form: a trade starts from the equity after its first session.
EntryEquityAfter(row) == row.equity

EntryEquity(row) == row.before

\* _trades: a trade goes from the row the position is entered to the row it is
\* left; one that is still open is marked at the last close.
Entries(rows) ==
    {k \in DOMAIN rows : /\ rows[k].position # 0
                         /\ k - 1 \in DOMAIN rows => rows[k - 1].position = 0}

Exits(rows, e) == {k \in DOMAIN rows : k > e /\ rows[k].position = 0}

End(h, rows, e) == IF Exits(rows, e) = {} THEN Len(h) ELSE Min(Exits(rows, e))

Trade(h, rows, e) ==
    [entry  |-> e,
     price  |-> h[e].open,
     closed |-> Exits(rows, e) # {},
     end    |-> End(h, rows, e),
     pnl    |-> rows[End(h, rows, e)].equity - EntryEquity(rows[e])]

Ledger(h, rows) == {Trade(h, rows, e) : e \in Entries(rows)}

\* calmarRatio: what is gained for each part of the deepest fall from a peak, and
\* 0 without a fall; total return stands for CAGR.
Score(rows) ==
    LET active  == DOMAIN rows
        unit    == rows[Min(active)].before
        peak(k) == Max({unit} \cup {rows[i].equity : i \in {i \in active : i <= k}})
        fall    == Max({(100 * (peak(k) - rows[k].equity)) \div peak(k) : k \in active})
        gain    == (100 * (rows[Max(active)].equity - unit)) \div unit
    IN  IF fall = 0 THEN 0 ELSE (100 * gain) \div fall

-----------------------------------------------------------------------------
\* What a backtest promises, for one history, strategy and start

\* The history ends with session n, whose close is p.
EndingWith(h, n, p) == [SubSeq(h, 1, n) EXCEPT ![n].close = p]

\* Nothing is known before it happened: the rows and closed trades of a history
\* that ends earlier, whatever its last close, are those of the longer history,
\* and the position of the last session is settled at its open.
KnownInTime(h, s, from) ==
    \A n \in 1 .. Len(h), p \in Prices :
        LET early == EndingWith(h, n, p)
            past  == Rows(early, s, from)
            later == Rows(h, s, from)
            \* units of the two histories
            scale == Fours(Len(h) - n)
        IN  CanRun(early, s, from) =>
              /\ past[n].position = later[n].position
              /\ past[n].before * scale = later[n].before
              /\ \A k \in Start(s, from) .. n - 1 :
                    /\ past[k].signal = later[k].signal
                    /\ past[k].position = later[k].position
                    /\ past[k].equity * scale = later[k].equity
              /\ {t.entry : t \in Ledger(early, past)} =
                 {t.entry : t \in {t \in Ledger(h, later) : t.entry <= n}}
              /\ \A t \in Ledger(early, past) : t.closed /\ t.end < n =>
                    [t EXCEPT !.pnl = @ * scale] \in Ledger(h, later)

\* The ledger explains the equity curve: what all trades earned, and what cash
\* earned on the rows outside them, is what the curve gained; no row is counted
\* by two trades, and a trade has a fill at each of its ends.
LedgerExplainsCurve(h, s, from) ==
    CanRun(h, s, from) =>
        LET rows    == Rows(h, s, from)
            trades  == Ledger(h, rows)
            covered == UNION {t.entry .. t.end : t \in trades}
            idle    == DOMAIN rows \ covered
        IN  /\ rows[Len(h)].equity - Unit(h, Start(s, from)) =
                  SumFunction([t \in trades |-> t.pnl])
                  + SumFunction([k \in idle |-> rows[k].equity - rows[k].before])
            /\ \A t, u \in trades : t # u => (t.entry .. t.end) \cap (u.entry .. u.end) = {}

=============================================================================
