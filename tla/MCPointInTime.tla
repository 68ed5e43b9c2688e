---------------------------- MODULE MCPointInTime ----------------------------
(***************************************************************************)
(* Instances of PointInTime for TLC: a fiscal year of four quarters and    *)
(* the first quarter of the next, six filings, five sessions with a        *)
(* holiday among them.                                                     *)
(***************************************************************************)
EXTENDS PointInTime

MCDefinition(concepts, unit, behavior, absolute) ==
    [concepts |-> concepts, unit |-> unit, behavior |-> behavior, absolute |-> absolute]

MCDefinitions ==
    [revenue |-> MCDefinition(<<"r1", "r2">>, "USD", "flow", FALSE),
     capex   |-> MCDefinition(<<"x">>, "USD", "flow", TRUE),
     shares  |-> MCDefinition(<<"s1", "s2">>, "shares", "average", FALSE),
     cash    |-> MCDefinition(<<"c">>, "USD", "instant", FALSE),
     debt    |-> MCDefinition(<<"l">>, "USD", "instant", FALSE)]
MCDebtGroups == <<<<"d1", "d2">>, <<"d3">>>>

MCFilings  == {"q1", "q2", "q3", "a2", "k4", "n1"}
MCMoments  == {9, 15, 20, 22}
MCSessions == {0, 2, 3, 4, 5}
MCPrice    == [d \in MCSessions |-> d + 2]
MCOffsets  == {0, 1}

-----------------------------------------------------------------------------
Says(concept, start, end, value, unit) ==
    [concept |-> concept, start |-> start, end |-> end, value |-> value, unit |-> unit]
About(form, fiscal, period, accepted, filed, said) ==
    [form |-> form, fiscal |-> fiscal, period |-> period, accepted |-> accepted,
     filed |-> filed, facts |-> said]

Total(s, first, last) == MapThenSumSet(LAMBDA q : s[q], first .. last)

\* What is said of the quarter q: revenue of the quarter, capital expenditure of
\* the year to date, shares, cash and debt
ToDate(b, q, first, r) ==
    {Says(r, q, q, b.revenue[q], "USD"),
     Says("x", first, q, Total(b.capex, first, q), "USD"),
     Says("s2", q, q, q, "shares"), Says("c", None, q, 10 * q, "USD"),
     Says("d2", None, q, q, "USDth"), Says("d3", None, q, 5, "EUR")}
Year(b) ==
    {Says("r1", 1, 4, Total(b.revenue, 1, 4), "USD"),
     Says("x", 1, 4, Total(b.capex, 1, 4), "USD"),
     Says("s1", 1, 4, 4, "shares"), Says("c", None, 4, 7, "USD"), Says("d1", None, 4, 1, "USD")}

Telling(first, second, third, amended, year, next) ==
    [n \in MCFilings |->
        CASE n = "q1" -> About("10-Q", "Q1", 1, 4, 1, first)
          [] n = "q2" -> About("10-Q", "Q2", 2, 9, 2, second)
          [] n = "a2" -> About("10-Q/A", "Q2", 2, 12, 3, amended)
          [] n = "q3" -> About("10-Q", "Q3", 3, 14, 3, third)
          [] n = "k4" -> About("10-K", "FY", 4, 19, 4, year)
          [] n = "n1" -> About("10-Q", "Q1", 5, 21, 5, next)]

Told    == [revenue |-> <<1, 2, 4, 8, 16>>, capex |-> <<3, 5, 6, 7, 9>>]
Retold  == [Told EXCEPT !.revenue[2] = 3, !.capex[2] = 4]

\* The next first quarter, with the quarter a year before beside it
Next1(b, before) == ToDate(b, 5, 5, "r1") \cup {Says("r1", 1, 1, before, "USD")}

\* Nothing amended
Plain == Telling(ToDate(Told, 1, 1, "r1"), ToDate(Told, 2, 1, "r2"), ToDate(Told, 3, 1, "r1"),
                 ToDate(Told, 2, 1, "r2"), Year(Told), Next1(Told, 1))
\* The second quarter restated, and the first one a year later
Restated == Telling(ToDate(Told, 1, 1, "r1"), ToDate(Told, 2, 1, "r1"), ToDate(Retold, 3, 1, "r1"),
                    ToDate(Retold, 2, 1, "r1"), Year(Retold), Next1(Retold, 7))
\* No second quarter, and the fourth in the annual report
Gap == Telling(ToDate(Told, 1, 1, "r1"), {}, ToDate(Told, 3, 1, "r1"), {},
               Year(Told) \cup {Says("r1", 4, 4, Told.revenue[4], "USD")}, Next1(Told, 1))

MCHistories == {Plain, Restated, Gap}
\* SettledPastStays says something of each of them.
ASSUME HistoriesAreUnambiguous == \A h \in MCHistories : Unambiguous(h)

MCBooks == [h \in MCHistories |-> IF h = Restated THEN Retold ELSE Told]

=============================================================================
