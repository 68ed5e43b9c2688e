---------------------------- MODULE PeriodMetrics ----------------------------
(***************************************************************************)
(* NormalizedMetricsService: annual, quarterly and trailing-year metrics   *)
(* from a set of reported facts.                                           *)
(*                                                                         *)
(* Calendar quarters are numbered.  A fact is about the quarters start ..  *)
(* end, or about the end of one when start is None.  So 60 to 120 days are *)
(* one quarter, 250 days and more at least three, and period ends up to    *)
(* 130 days apart are those of the same or of consecutive quarters.  A     *)
(* metric is a value, None when there is none, and the filings it comes    *)
(* from.                                                                   *)
(***************************************************************************)
EXTENDS Amounts, Sequences, FiniteSetsExt, Functions

CONSTANTS
    Definitions,   \* [metric -> definition], METRIC_DEFINITIONS
    DebtGroups     \* DEBT_COMPONENT_GROUPS: sequence of sequences of concepts

Behaviors == {"flow", "instant", "average"}

ASSUME DefinitionsAssumption ==
    /\ DOMAIN Definitions = {"revenue", "capex", "shares", "cash", "debt"}
    /\ \A m \in DOMAIN Definitions :
          /\ Definitions[m].behavior \in Behaviors
          /\ Definitions[m].concepts \in Seq(STRING) \ {<< >>}
          /\ Definitions[m].absolute \in BOOLEAN
    /\ DebtGroups \in Seq(Seq(STRING))

Metrics == DOMAIN Definitions

\* One value for every metric
ForEachMetric(Of(_)) ==
    [revenue |-> Of("revenue"), capex |-> Of("capex"), shares |-> Of("shares"),
     cash |-> Of("cash"), debt |-> Of("debt")]

-----------------------------------------------------------------------------
\* UnitNormalizer
Units == [USD    |-> [unit |-> "USD", by |-> 1],
          USDth  |-> [unit |-> "USD", by |-> 1000],
          shares |-> [unit |-> "shares", by |-> 1]]

Normalized(r, unit) ==
    IF r.unit \in DOMAIN Units /\ Units[r.unit].unit = unit
    THEN r.value * Units[r.unit].by
    ELSE None

\* Of the facts that became known last and were filed last, the one with the
\* greatest hash.
Latest(rows) ==
    CHOOSE r \in rows :
        \A q \in rows : q.known < r.known \/ (q.known = r.known /\ q.filed <= r.filed)

NoMetric == [value |-> None, filings |-> {}]

\* _latest_normalized_fact
LatestUsable(d, rows) ==
    LET usable == {r \in rows : Normalized(r, d.unit) # None}
    IN  IF usable = {} THEN None ELSE Latest(usable)

-----------------------------------------------------------------------------
\* Which facts are about a period of a kind

AnnualForm(r)    == r.form \in {"10-K", "10-K/A"}
QuarterlyForm(r) == r.form \in {"10-Q", "10-Q/A"}

Quarters(r) == r.end - r.start + 1

\* _flow_matches_kind.  The frame of a quarter names it, that of a year does not.
FlowMatches(r, kind) ==
    /\ r.start # None
    /\ IF kind = "annual"
       THEN Quarters(r) >= 3 /\ (r.fiscal = "FY" \/ AnnualForm(r))
       ELSE Quarters(r) = 1 /\ (QuarterlyForm(r) \/ r.fiscal # "FY" \/ r.framed)

\* _fact_matches_kind
FactMatches(r, kind) ==
    \/ FlowMatches(r, kind)
    \/ /\ r.start = None
       /\ IF kind = "annual"
          THEN r.fiscal = "FY" \/ AnnualForm(r)
          ELSE QuarterlyForm(r) \/ r.fiscal # "FY" \/ r.framed \/ AnnualForm(r)

-----------------------------------------------------------------------------
\* _select_metric

\* Mutated form: the last year to date of any quarter before is subtracted.
PriorToDateAny(current, rows) ==
    {r \in rows : r.start = current.start /\ r.end < current.end}

\* The year to date of one quarter before
PriorToDate(current, rows) ==
    {r \in rows : r.start = current.start /\ r.end = current.end - 1}

Signed(d, v) == IF d.absolute THEN Magnitude(v) ELSE v

Difference(d, current, prior) ==
    IF None \in {current, prior} THEN NoMetric
    ELSE [value   |-> Signed(d, Normalized(current, d.unit) - Normalized(prior, d.unit)),
          filings |-> {current.filing, prior.filing}]

Since(d, current, flows) ==
    Difference(d, current,
               IF current = None THEN None ELSE LatestUsable(d, PriorToDate(current, flows)))

\* _derive_cumulative_quarter
FromYearToDate(d, concept, rows, start, end) ==
    LET flows == {r \in rows : r.concept = concept /\ r.start # None}
    IN  Since(d, LatestUsable(d, {r \in flows : r.end = end /\ r.start < start /\ QuarterlyForm(r)}),
              flows)

MetricOf(d, r) ==
    IF r = None THEN NoMetric
    ELSE [value |-> Signed(d, Normalized(r, d.unit)), filings |-> {r.filing}]

Else(metric, other) == IF metric = NoMetric THEN other ELSE metric

FirstFound(metrics) ==
    LET found == {i \in DOMAIN metrics : metrics[i] # NoMetric}
    IN  IF found = {} THEN NoMetric ELSE metrics[Min(found)]

\* Concepts in the order of their precedence, each reported or derived
Selected(d, kind, period, rows, start, end) ==
    LET Reported(concept) == MetricOf(d, LatestUsable(d, {r \in period : r.concept = concept}))
        Derived(concept) ==
            IF kind = "quarterly" /\ d.behavior = "flow"
            THEN FromYearToDate(d, concept, rows, start, end)
            ELSE NoMetric
    IN  FirstFound([i \in DOMAIN d.concepts |->
                      Else(Reported(d.concepts[i]), Derived(d.concepts[i]))])

\* _compose_debt: of each group the first concept whose latest fact has a
\* usable unit
Composed(period) ==
    LET Of(concept) == {r \in period : r.concept = concept}
        Usable(concept) == Of(concept) # {} /\ Normalized(Latest(Of(concept)), "USD") # None
        found == {g \in DOMAIN DebtGroups : \E i \in DOMAIN DebtGroups[g] : Usable(DebtGroups[g][i])}
        Fact(g) ==
            LET i == Min({n \in DOMAIN DebtGroups[g] : Usable(DebtGroups[g][n])})
            IN  Latest(Of(DebtGroups[g][i]))
    IN  IF found = {} THEN NoMetric
        ELSE [value   |-> SumFunctionOnSet([g \in found |-> Normalized(Fact(g), "USD")], found),
              filings |-> {Fact(g).filing : g \in found}]

-----------------------------------------------------------------------------
\* _base_periods

Period(rows, kind, end) ==
    LET period == {r \in rows : r.end = end /\ FactMatches(r, kind)}
        start  == Min({r.start : r \in {x \in period : x.start # None}})
        metric == ForEachMetric(LAMBDA m : Selected(Definitions[m], kind, period, rows, start, end))
    IN  [start |-> start, end |-> end,
         metrics |-> [metric EXCEPT !["debt"] = IF @.value = None THEN Composed(period) ELSE @]]

ReportedPeriods(rows, kind) ==
    {Period(rows, kind, end) : end \in {r.end : r \in {x \in rows : FlowMatches(x, kind)}}}

InOrderOfEnd(periods) ==
    [i \in 1 .. Cardinality(periods) |->
        CHOOSE p \in periods : Cardinality({q \in periods : q.end < p.end}) = i - 1]

Sources(metrics) == UNION {metrics[i].filings : i \in DOMAIN metrics}
Sum(metrics)     == SumFunctionOnSet([i \in DOMAIN metrics |-> metrics[i].value], DOMAIN metrics)
Complete(metrics) == \A i \in DOMAIN metrics : metrics[i].value # None

\* _infer_fourth_quarter_metric
FourthMetric(m, annual, prior) ==
    LET first == [i \in DOMAIN prior |-> prior[i].metrics[m]]
        year  == annual.metrics[m]
    IN  [filings |-> year.filings \cup Sources(first),
         value   |-> IF Definitions[m].behavior # "flow" THEN year.value
                     ELSE IF year.value # None /\ Complete(first) THEN year.value - Sum(first)
                     ELSE None]

Successive(periods) ==
    \A i \in 2 .. Len(periods) : periods[i].end - periods[i - 1].end <= 1

\* The first three quarters of the year and a fourth one are missing only that.
Bridges(annual, prior) ==
    /\ Len(prior) = 3
    /\ prior[1].start = annual.start
    /\ Successive(prior)
    /\ annual.end = prior[3].end + 1

\* _infer_fourth_quarters
FourthQuarters(quarters, years) ==
    LET Before(annual) ==
            InOrderOfEnd({q \in quarters : annual.start <= q.start /\ q.end < annual.end})
        Prior(annual) ==
            LET all == Before(annual) IN SubSeq(all, IF Len(all) > 3 THEN Len(all) - 2 ELSE 1, Len(all))
        missing == {y \in years : /\ \A q \in quarters : q.end # y.end
                                  /\ Bridges(y, Prior(y))}
    IN  {[start |-> y.end, end |-> y.end,
          metrics |-> ForEachMetric(LAMBDA m : FourthMetric(m, y, Prior(y)))] : y \in missing}

WithFourth(quarters, years) == InOrderOfEnd(quarters \cup FourthQuarters(quarters, years))

QuarterlyPeriods(rows) ==
    WithFourth(ReportedPeriods(rows, "quarterly"), ReportedPeriods(rows, "annual"))

-----------------------------------------------------------------------------
\* _ttm_periods

TrailingMetric(m, window) ==
    LET four == [i \in 1 .. 4 |-> window[i].metrics[m]]
        known == {i \in 1 .. 4 : four[i].value # None}
    IN  CASE Definitions[m].behavior = "flow" ->
                [value   |-> IF Complete(four) THEN Sum(four) ELSE None,
                 filings |-> Sources(four)]
          [] Definitions[m].behavior = "average" ->
                IF known = {} THEN NoMetric ELSE four[Max(known)]
          [] Definitions[m].behavior = "instant" -> four[4]

\* The trailing years of every four quarters in a row
TrailingOf(quarters) ==
    LET Window(i) == SubSeq(quarters, i - 3, i)
    IN  InOrderOfEnd({[start |-> Window(i)[1].start, end |-> Window(i)[4].end,
                       metrics |-> ForEachMetric(LAMBDA m : TrailingMetric(m, Window(i)))] :
                         i \in {n \in 4 .. Len(quarters) : Successive(Window(n))}})

TrailingPeriods(rows) == TrailingOf(QuarterlyPeriods(rows))

=============================================================================
