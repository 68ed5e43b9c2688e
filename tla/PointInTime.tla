----------------------------- MODULE PointInTime -----------------------------
(***************************************************************************)
(* What is read from the facts as of a time: normalized metrics, the       *)
(* valuation of every trading session (HistoricalValuationService) and the *)
(* earnings events with the sessions around them (EarningsIntelligence-    *)
(* Service, EarningsReactionEngine).  Facts, prices and requests come in   *)
(* any order; none of the answers may depend on what was not known yet.    *)
(***************************************************************************)
EXTENDS FactStore, PeriodMetrics

CONSTANTS
    Sessions,      \* trading days
    Price,         \* [Sessions -> Nat]: closing prices
    Offsets,       \* REACTION_OFFSETS: sessions after the anchor
    MaxRequests,   \* bound on the valuations and analyses asked for
    Books          \* [Histories -> [flow metric -> sequence]]: what the company
                   \* earned and spent in each quarter, as last told

ASSUME SessionsAssumption ==
    /\ Sessions \subseteq Nat
    /\ Price \in [Sessions -> Nat]
    /\ Offsets \subseteq Nat
    /\ MaxRequests \in Nat
    /\ DOMAIN Books = Histories
    /\ \A h \in Histories : \A m \in DOMAIN Books[h] :
          /\ m \in DOMAIN Definitions \ {"debt"} /\ Definitions[m].behavior = "flow"
          /\ \A q \in DOMAIN Books[h][m] : /\ q \in Int /\ Books[h][m][q] \in Int
                                           /\ Definitions[m].absolute => Books[h][m][q] >= 0

VARIABLES
    points,        \* valuation_series: by session, or None
    events,        \* earnings_events
    reactions,     \* earnings_reactions
    asked,         \* how many requests there were
    settled        \* history: times for which all that was accepted has been
                   \* stored with the time of its acceptance

answerVars == <<points, events, reactions>>
vars == <<factVars, answerVars, asked, settled>>

\* The provider has a price of the day once the exchange is open.
Priced(t) == {d \in Sessions : d <= Day(t) /\ 4 * d < t}

-----------------------------------------------------------------------------
\* HistoricalValuationService

\* _fundamental_snapshot: the metrics of the last trailing year, if any
LastOf(years)      == IF years = <<>> THEN None ELSE years[Len(years)]
Fundamentals(rows) == LastOf(TrailingPeriods(rows))

\* _snapshots: one for what was known at the first close, and one for each
\* time at which more became known
Snapshots(rows, first, last) ==
    LET known == {r.known : r \in KnownAt(rows, last)}
        base  == {t \in known : t <= first}
    IN  (IF base = {} THEN {} ELSE {Max(base)}) \cup {t \in known : t > first}

\* Mutated form: what is known on the day counts, also after the close.
SnapshotOfDay(times, close) == {t \in times : Day(t) <= Day(close)}

\* bisect_right: the snapshots a session may use
SnapshotAt(times, close) == {t \in times : t <= close}

\* _point: price to sales, and enterprise value to revenue
Point(d, time, year) ==
    LET metric(m) == IF year = None THEN NoMetric ELSE year.metrics[m]
        shares  == metric("shares").value
        revenue == metric("revenue").value
        cap     == IF shares = None \/ shares <= 0 THEN None ELSE Price[d] * shares
        value   == Plus(cap, Minus(metric("debt").value, metric("cash").value))
        Status(numerator) ==
            IF None \in {cap, revenue} THEN "unavailable"
            ELSE IF revenue <= 0 THEN "nm"
            ELSE IF numerator = None THEN "unavailable"
            ELSE "available"
    IN  [known |-> time, end |-> IF year = None THEN None ELSE year.end,
         filings |-> UNION {metric(m).filings : m \in {"shares", "revenue", "cash", "debt"}},
         cap |-> cap, enterprise |-> value, revenue |-> IF cap = None THEN None ELSE revenue,
         sales |-> Status(cap), ev |-> Status(value)]

NoPoint(d) == Point(d, None, None)

\* _prepare_prices: the sessions up to the day of the request
SessionsUntil(t) == {d \in Priced(now) : d <= Day(t)}

\* calculate, as of time t
Valuation(rows, t) ==
    LET days  == SessionsUntil(t)
        times == Snapshots(rows, Close(Min(days)), Close(Max(days)))
        At(d) == SnapshotAt(times, Close(d))
    IN  [d \in days |-> IF At(d) = {} THEN NoPoint(d)
                        ELSE Point(d, Max(At(d)), Fundamentals(KnownAt(rows, Max(At(d)))))]

\* save_points replaces the points of the sessions it was asked for.
Value(t) ==
    LET valuation == Valuation(facts, t)
    IN  /\ SessionsUntil(t) # {}
        /\ points' = [d \in Sessions |-> IF d \in DOMAIN valuation THEN valuation[d] ELSE points[d]]
        /\ UNCHANGED <<factVars, events, reactions>>

-----------------------------------------------------------------------------
\* EarningsIntelligenceService

EventConcepts == {"r1", "r2"}
OriginalForms == {"10-Q", "10-K"}

\* The concepts of the revenue are among them.
RevenueConcepts == {Definitions["revenue"].concepts[i] : i \in DOMAIN Definitions["revenue"].concepts}

ASSUME RevenueAssumption ==
    /\ Definitions["revenue"].behavior = "flow"
    /\ ~Definitions["revenue"].absolute
    /\ RevenueConcepts \subseteq EventConcepts

\* What an original report tells of events: of the quarter or the year it is
\* about, or of periods before.  A period has one report, filed after the days
\* of the reports about earlier ones.
Tells(f) == {o \in f.facts : o.concept \in EventConcepts}
IsReport(h, n) ==
    /\ h[n].period \in Int
    /\ \A o \in Tells(h[n]) : /\ o.end <= h[n].period
                             /\ \E p \in Tells(h[n]) : p.end = h[n].period
    /\ \A o \in Tells(h[n]) : o.end = h[n].period =>
          o.start = o.end \/ (h[n].form = "10-K" /\ o.start # None /\ Quarters(o) >= 3)
    /\ \A m \in Filings \ {n} : h[m].form \in OriginalForms =>
          /\ h[m].period # h[n].period
          /\ h[m].period > h[n].period => h[m].accepted > EndOf(h[n].filed)

ASSUME ReportsAssumption ==
    \A h \in Histories : \A n \in Filings : h[n].form \in OriginalForms => IsReport(h, n)

\* The original reports only
Filed(rows) == {r \in rows : r.form \in OriginalForms}

EarliestOf(rows) == CHOOSE r \in rows : \A q \in rows : r.known <= q.known

\* What a report says of the period it is about
Current(rows) == {r \in rows : \A q \in rows : q.end <= r.end}

\* discover_events: the candidate of a report
Candidate(rows, n) ==
    EarliestOf(Current({r \in rows : r.filing = n /\ r.concept \in EventConcepts}))

\* classify_session
SessionOf(t) ==
    CASE t % 4 = 0 -> "before_open"
      [] t % 4 = 1 -> "intraday"
      [] OTHER     -> "after_close"

\* Of the reports of one period the one known first
First(candidates, c) == \A o \in candidates : c.known <= o.known

\* Mutated form: an event tells what is known now.
KnownEver(rows, c) == rows

\* What was known when the report was
KnownThen(rows, c) == KnownAt(rows, c.known)

\* _event, with the metrics as they were known then
Event(rows, c) ==
    LET kind  == IF c.form = "10-K" THEN "annual" ELSE "quarterly"
        known == KnownThen(rows, c)
        said  == IF kind = "annual"
                 THEN {p \in ReportedPeriods(known, "annual") : p.end = c.end}
                 ELSE LET q == QuarterlyPeriods(known)
                      IN  {q[i] : i \in {n \in DOMAIN q : q[n].end = c.end}}
    IN  [period |-> <<c.end, c.fiscal>>, filing |-> c.filing, known |-> c.known,
         day |-> IF c.exact THEN Day(c.known) ELSE c.filed,
         session |-> IF c.exact THEN SessionOf(c.known) ELSE "unknown",
         revenue |-> {p.metrics["revenue"].value : p \in said}]

Events(stored, t) ==
    LET rows       == Filed(KnownAt(stored, t))
        reports    == {r.filing : r \in {x \in rows : x.concept \in EventConcepts}}
        candidates == {Candidate(rows, n) : n \in reports}
        Rivals(c)  == {o \in candidates : o.end = c.end /\ o.fiscal = c.fiscal}
    IN  {Event(rows, c) : c \in {x \in candidates : First(Rivals(x), x)}}

-----------------------------------------------------------------------------
\* EarningsReactionEngine

\* Mutated form: after the close still counts as the session of that day.
AnchorSame(e, days) == {d \in days : d >= e.day}

\* _anchor_index: sessions the reaction may begin with
AnchorFrom(e, days) ==
    {d \in days : IF e.session = "after_close" THEN d > e.day ELSE d >= e.day}

NoReaction == [exact |-> FALSE, anchor |-> None, prior |-> None, windows |-> {}]

\* calculate: the sessions of the windows that have enough data
Reaction(e, days) ==
    LET anchor == Min(AnchorFrom(e, days))
        after  == {d \in days : d >= anchor}
        Ahead(d) == Cardinality({x \in after : x < d})
    IN  IF AnchorFrom(e, days) = {} \/ {d \in days : d < anchor} = {} THEN NoReaction
        ELSE [exact |-> e.session # "unknown", anchor |-> anchor, prior |-> Max({d \in days : d < anchor}),
              windows |-> {<<Ahead(d), d>> : d \in {x \in after : Ahead(x) \in Offsets}}]

\* ON CONFLICT (event_id) DO NOTHING
StoredBefore(e) == {s \in events : s.period = e.period}

\* analyze, as of time t: save_events keeps what is there, save_reactions replaces.
Analyze(t) ==
    LET found == Events(facts, t)
        days  == SessionsUntil(t)
        new   == {e \in found : StoredBefore(e) = {}}
    IN  /\ days # {}
        /\ events' = events \cup new
        /\ reactions' = {<<e.period, Reaction(e, days)>> : e \in found}
                        \cup {r \in reactions : \A e \in found : e.period # r[1]}
        /\ UNCHANGED <<factVars, points>>

-----------------------------------------------------------------------------
Init ==
    /\ FactInit
    /\ points = [d \in Sessions |-> None]
    /\ events = {}
    /\ reactions = {}
    /\ asked = 0
    /\ settled = {}

Times == {t \in Moments : t <= now}

Settled(t) ==
    \A n \in Published(t) : \A o \in filing[n].facts :
        \E r \in facts : r.exact /\ <<r.filing, r.concept, r.start, r.end, r.unit>>
                                       = <<n, o.concept, o.start, o.end, o.unit>>

\* Questions are asked as of any time; nothing but their answers depends on them.
Next ==
    \/ /\ FactNext
       /\ settled' = settled \cup {t \in Times : Settled(t)'}
       /\ UNCHANGED <<answerVars, asked>>
    \/ /\ asked < MaxRequests
       /\ asked' = asked + 1
       /\ \E t \in Times : Value(t) \/ Analyze(t)
       /\ UNCHANGED settled

Spec == Init /\ [][Next]_vars

-----------------------------------------------------------------------------
\* One type invariant

\* Every stored row is an observation of a published filing, known no earlier
\* than the filing was accepted; answers are about sessions and periods there are.
TypeOK ==
    /\ filing \in Histories
    /\ now \in Moments \cup {0}
    /\ syncs \in 0 .. MaxSyncs
    /\ asked \in 0 .. MaxRequests
    /\ settled \subseteq Moments
    /\ payloads \in [{"facts", "submissions"} -> Moments \cup {0, None}]
    /\ \A r \in facts : r.filing \in Published(now) /\ r.known >= filing[r.filing].accepted
    /\ \A d \in Sessions : points[d] = None \/ points[d].known = None \/ points[d].known <= Close(d)
    /\ \A e \in events : e.filing \in Published(now)
    /\ \A x \in reactions : x[1] \in {e.period : e \in events}

-----------------------------------------------------------------------------
\* The valuation of a session has used nothing but filings the SEC had accepted
\* by its close, although facts arrive late, out of order and with fallback
\* times (valuation.py:137, fact_service.py:164).  And one valuation of many
\* sessions, made from a snapshot per arrival and a search among them, gives
\* each session what a calculation from the facts known at its close gives
\* (valuation.py:60).  Requests change no facts: what is said of the facts alone
\* is checked where nothing was asked yet.
ValuationIsPointInTime ==
    /\ \A d \in Sessions : points[d] # None =>
          \A n \in points[d].filings : filing[n].accepted <= Close(d)
    /\ asked = 0 => \A t \in Times : SessionsUntil(t) # {} =>
          LET valuation == Valuation(facts, t)
          IN  \A d \in DOMAIN valuation :
                  LET alone == Point(d, None, Fundamentals(KnownAt(facts, Close(d))))
                  IN  [valuation[d] EXCEPT !.known = None] = alone

\* Values of the quarters and trailing years that rows known by time t give
Values(periods) ==
    [i \in DOMAIN periods |-> <<periods[i].end, [m \in Metrics |-> periods[i].metrics[m].value]>>]
ValuesAsOf(rows, t) ==
    <<Values(QuarterlyPeriods(KnownAt(rows, t))), Values(TrailingPeriods(KnownAt(rows, t)))>>

\* The rows of a program that asked the SEC at time t and got all of it
RowsOf(t) ==
    {[Row(fact, None) EXCEPT !.known = filing[fact.filing].accepted, !.exact = TRUE] : fact \in Facts(t)}

\* Observations one of which is chosen as the latest: of one concept, up to the
\* same end, and both or neither about a single quarter
SameSubject(o, p) ==
    /\ o.concept = p.concept /\ o.end = p.end
    /\ None \notin {o.start, p.start} => ((o.start = o.end) = (p.start = p.end))

SamePeriod(o, p) == <<o.concept, o.start, o.end>> = <<p.concept, p.start, p.end>>

\* What is latest is never left to the hash of a fact or to the frame of a
\* period: a filing says one thing of a subject, of two filings about a subject
\* the first is known by the end of its day before the second is accepted, and
\* no filing tells a quarter again that an annual one has told alone.
Unambiguous(h) ==
    /\ \A n \in Filings : \A o, p \in h[n].facts : SameSubject(o, p) => o = p
    /\ \A n, m \in Filings :
          n # m /\ (\E o \in h[n].facts : \E p \in h[m].facts : SameSubject(o, p)) =>
              \/ EndOf(h[n].filed) < h[m].accepted
              \/ EndOf(h[m].filed) < h[n].accepted
    /\ \A n, m \in Filings :
          h[n].fiscal = "FY" /\ h[n].form \notin {"10-Q", "10-Q/A"} /\ h[n].accepted < h[m].accepted =>
              \A o \in h[n].facts : \A p \in h[m].facts : o.start = o.end => ~SamePeriod(o, p)

\* Once all that was accepted by a time was stored with its acceptance, a
\* calculation as of that time gives for ever what one at that time would have
\* given, whatever amendments, comparatives, moved frames, shorter lists of
\* acceptances and answers from the cache come later (fact_repository.py:62).
SettledPastStays ==
    asked = 0 /\ Unambiguous(filing) =>
        \A t \in settled : ValuesAsOf(facts, t) = ValuesAsOf(RowsOf(t), t)

\* What the books say of the quarters from first to last
Booked(book, first, last) == SumFunctionOnSet(book, first .. last)

\* Usable rows of the concepts of a metric
UsableFor(m, rows) ==
    {r \in rows : /\ Normalized(r, Definitions[m].unit) # None
                  /\ \E i \in DOMAIN Definitions[m].concepts : r.concept = Definitions[m].concepts[i]}

\* q tells the same as r, and counts wherever r does.
TellsAgain(q, r) ==
    /\ <<q.concept, q.start, q.end>> = <<r.concept, r.start, r.end>>
    /\ QuarterlyForm(r) => QuarterlyForm(q)
    /\ \A kind \in {"annual", "quarterly"} : FlowMatches(r, kind) => FlowMatches(q, kind)

Agrees(r, m, book) ==
    /\ r.start .. r.end \subseteq DOMAIN book
    /\ Normalized(r, Definitions[m].unit) = Booked(book, r.start, r.end)

\* What was last told of the flows agrees with the books, and the years that
\* end together have begun together.
FlowsAgree(rows) ==
    /\ \A r, q \in rows : FlowMatches(r, "annual") /\ FlowMatches(q, "annual") /\ r.end = q.end
                           => r.start = q.start
    /\ \A m \in DOMAIN Books[filing] : \A r \in UsableFor(m, rows) :
          /\ r.start # None
          /\ (\A q \in UsableFor(m, rows) : TellsAgain(q, r) => q.known <= r.known)
                => Agrees(r, m, Books[filing][m])

\* Where what is known agrees with the books, so does every quarter, reported,
\* derived from the year to date or inferred for the fourth, and every trailing
\* year is the sum of four quarters in a row (metrics.py:173, 357, 486).
PeriodsMatchTheBooks ==
    asked = 0 => \A t \in Times :
        LET rows     == KnownAt(facts, t)
            quarters == QuarterlyPeriods(rows)
            years    == TrailingPeriods(rows)
            Right(p, m, first) == p.metrics[m].value \in {None, Booked(Books[filing][m], first, p.end)}
        IN  FlowsAgree(rows) => \A m \in DOMAIN Books[filing] :
                /\ \A i \in DOMAIN quarters : Right(quarters[i], m, quarters[i].end)
                /\ \A i \in DOMAIN years : Right(years[i], m, years[i].end - 3)

\* The revenue a report tells for its period, if it does
RevenueTold(f) ==
    {o \in f.facts : /\ o.concept \in RevenueConcepts
                     /\ o.end = f.period
                     /\ (o.start = o.end) = (f.form = "10-Q")}
RevenueOf(f) ==
    IF RevenueTold(f) = {} THEN {None}
    ELSE {Normalized(o, Definitions["revenue"].unit) : o \in RevenueTold(f)}

\* An event belongs to the report of its period, is dated no earlier than the
\* report was accepted, and tells the revenue that report told, not the one of
\* an amendment or a later report (earnings.py:246, 347).
EventIsOfItsReport ==
    \A e \in events :
        LET f == filing[e.filing]
        IN  /\ f.period = e.period[1]
            /\ f.form \in OriginalForms
            /\ e.day >= Day(f.accepted)
            /\ e.session # "unknown" => e.known = f.accepted
            /\ e.revenue \subseteq RevenueOf(f)

\* The return of a reaction starts from a close that cannot have contained the
\* report, and with an exact time it begins with the first session that closes
\* after the report was accepted (earnings.py:110).
ReactionFollowsNews ==
    \A x \in reactions : \A n \in Published(now) :
        /\ filing[n].form \in OriginalForms /\ filing[n].period = x[1][1]
        /\ x[2].anchor # None
        => /\ Close(x[2].prior) <= filing[n].accepted
           /\ x[2].exact => x[2].anchor = Min({d \in Sessions : Close(d) > filing[n].accepted})

=============================================================================
