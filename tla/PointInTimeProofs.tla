--------------------------- MODULE PointInTimeProofs ---------------------------
(***************************************************************************)
(* Theorems about what is read from the facts as of a time, for any        *)
(* company, filings, requests and order of arrival: every valuation uses   *)
(* only what was known at the close of its session, events and reactions   *)
(* are dated by the report they are about, quarters and trailing years     *)
(* agree with the books, and a past that is settled stays as it is.        *)
(***************************************************************************)
EXTENDS PointInTime, FiniteSums, TLAPS

-----------------------------------------------------------------------------
\* Sets in order

LEMMA ImageIsFinite ==
    ASSUME NEW S, IsFiniteSet(S), NEW f, NEW T, \A y : y \in T <=> \E x \in S : y = f[x]
    PROVE  IsFiniteSet(T)
<1>. DEFINE g == [x \in S |-> f[x]]
<1>1. g \in Surjection(S, T)
  BY DEF Surjection
<1>. HIDE DEF g
<1>. QED  BY <1>1, FS_Surjection

\* Periods with ends of their own
Dated(S) ==
    /\ IsFiniteSet(S)
    /\ \A p \in S : p.end \in Int
    /\ \A p, q \in S : p.end = q.end => p = q

LEMMA SomeoneHasRank ==
    ASSUME NEW S, Dated(S), NEW i \in 1 .. Cardinality(S)
    PROVE  \E p \in S : Cardinality({q \in S : q.end < p.end}) = i - 1
<1>. DEFINE n == Cardinality(S)
            Below(p) == {q \in S : q.end < p.end}
            rank == [p \in S |-> Cardinality(Below(p))]
<1>1. IsFiniteSet(S) /\ n \in Nat
  BY FS_CardinalityType DEF Dated
<1>2. ASSUME NEW p \in S
      PROVE  IsFiniteSet(Below(p)) /\ Cardinality(Below(p)) \in 0 .. n - 1
  <2>1. Below(p) \in SUBSET S /\ Below(p) # S /\ p \notin Below(p)
    BY DEF Dated
  <2>. HIDE DEF Below
  <2>2. /\ IsFiniteSet(Below(p)) /\ Cardinality(Below(p)) <= n
        /\ n = Cardinality(Below(p)) => S = Below(p)
    BY <1>1, <2>1, FS_Subset
  <2>3. Cardinality(Below(p)) \in Nat
    BY <2>2, FS_CardinalityType
  <2>. QED  BY <1>1, <2>1, <2>2, <2>3
<1>3. ASSUME NEW p \in S, NEW q \in S, p.end < q.end
      PROVE  rank[p] < rank[q]
  <2>1. Below(p) \in SUBSET Below(q) /\ p \in Below(q) /\ p \notin Below(p)
    BY <1>3 DEF Dated
  <2>2. IsFiniteSet(Below(p)) /\ IsFiniteSet(Below(q))
        /\ Cardinality(Below(p)) \in Nat /\ Cardinality(Below(q)) \in Nat
    BY <1>1, <1>2
  <2>. HIDE DEF Below
  <2>3. /\ Cardinality(Below(p)) <= Cardinality(Below(q))
        /\ Cardinality(Below(q)) = Cardinality(Below(p)) => Below(q) = Below(p)
    BY <2>1, <2>2, FS_Subset
  <2>4. rank[p] = Cardinality(Below(p)) /\ rank[q] = Cardinality(Below(q))
    OBVIOUS
  <2>. QED  BY <2>1, <2>2, <2>3, <2>4
<1>4. rank \in [S -> 0 .. n - 1]
  <2>. HIDE DEF Below, n
  <2>. QED  BY <1>2
<1>5. ASSUME NEW p \in S, NEW q \in S, rank[p] = rank[q]
      PROVE  p = q
  <2>1. rank[p] \in Int /\ rank[q] \in Int
    BY <1>1, <1>4
  <2>2. ~(p.end < q.end) /\ ~(q.end < p.end)
    <3>. HIDE DEF rank
    <3>. QED  BY <1>3, <1>5, <2>1
  <2>. QED  BY <2>2 DEF Dated
<1>6. rank \in Injection(S, 0 .. n - 1)
  <2>. HIDE DEF rank, n
  <2>. QED  BY <1>4, <1>5 DEF Injection, IsInjective
<1>7. IsFiniteSet(0 .. n - 1) /\ Cardinality(0 .. n - 1) = n
  <2>. HIDE DEF n
  <2>. QED  BY <1>1, FS_Interval
<1>8. rank \in Surjection(S, 0 .. n - 1)
  <2>1. Cardinality(S) = Cardinality(0 .. n - 1)
    BY <1>7
  <2>. HIDE DEF rank, n
  <2>. QED  BY <1>6, <1>7, <2>1, FS_Injection
<1>9. i - 1 \in 0 .. n - 1
  BY <1>1
<1>10. \E p \in S : rank[p] = i - 1
  <2>. HIDE DEF rank, n
  <2>. QED  BY <1>8, <1>9 DEF Surjection
<1>. QED  BY <1>10

\* The k-th of the periods in the order of their ends
LEMMA InOrderFacts ==
    ASSUME NEW S, Dated(S)
    PROVE  /\ Cardinality(S) \in Nat
           /\ InOrderOfEnd(S) \in Seq(S)
           /\ Len(InOrderOfEnd(S)) = Cardinality(S)
           /\ \A i \in 1 .. Cardinality(S) :
                 Cardinality({q \in S : q.end < InOrderOfEnd(S)[i].end}) = i - 1
<1>1. Cardinality(S) \in Nat
  BY FS_CardinalityType DEF Dated
<1>2. ASSUME NEW i \in 1 .. Cardinality(S)
      PROVE  /\ InOrderOfEnd(S)[i] \in S
             /\ Cardinality({q \in S : q.end < InOrderOfEnd(S)[i].end}) = i - 1
  <2>1. \E p \in S : Cardinality({q \in S : q.end < p.end}) = i - 1
    BY SomeoneHasRank
  <2>2. InOrderOfEnd(S)[i] = CHOOSE p \in S : Cardinality({q \in S : q.end < p.end}) = i - 1
    BY DEF InOrderOfEnd
  <2>. QED  BY <2>1, <2>2, Zenon
<1>. DEFINE n == Cardinality(S)
            ranked(i) == CHOOSE p \in S : Cardinality({q \in S : q.end < p.end}) = i - 1
<1>3. InOrderOfEnd(S) = [i \in 1 .. n |-> ranked(i)]
  BY DEF InOrderOfEnd
<1>. HIDE DEF ranked, n
<1>4. InOrderOfEnd(S) \in Seq(S) /\ Len(InOrderOfEnd(S)) = n
  <2>1. n \in Nat
    BY <1>1 DEF n
  <2>2. \A i \in 1 .. n : ranked(i) \in S
    BY <1>2, <1>3 DEF n
  <2>. QED  BY <2>1, <2>2, <1>3
<1>5. n = Cardinality(S)
  BY DEF n
<1>. QED  BY <1>1, <1>2, <1>4, <1>5

\* ... all of them, one after the other.
LEMMA InOrderOfTheirEnds ==
    ASSUME NEW S, Dated(S)
    PROVE  /\ \A i, j \in 1 .. Cardinality(S) :
                 i < j => InOrderOfEnd(S)[i].end < InOrderOfEnd(S)[j].end
           /\ \A p \in S : \E i \in 1 .. Cardinality(S) : InOrderOfEnd(S)[i] = p
<1>. DEFINE n == Cardinality(S)
            s == InOrderOfEnd(S)
            Below(p) == {q \in S : q.end < p.end}
<1>1. n \in Nat /\ \A i \in 1 .. n : s[i] \in S /\ Cardinality(Below(s[i])) = i - 1
  <2>1. s \in Seq(S) /\ Len(s) = n
    BY InOrderFacts
  <2>. HIDE DEF s, n, Below
  <2>2. \A i \in 1 .. n : s[i] \in S
    BY <2>1
  <2>. QED  BY <2>2, InOrderFacts DEF s, n, Below
<1>2. ASSUME NEW p \in S, NEW q \in S, p.end <= q.end
      PROVE  Cardinality(Below(p)) <= Cardinality(Below(q))
  <2>1. Below(p) \in SUBSET Below(q) /\ Below(q) \in SUBSET S
    BY <1>2 DEF Dated
  <2>. HIDE DEF Below
  <2>. QED  BY <2>1, FS_Subset DEF Dated
<1>3. ASSUME NEW i \in 1 .. n, NEW j \in 1 .. n, i < j
      PROVE  s[i].end < s[j].end
  <2>1. s[i] \in S /\ s[j] \in S
    BY <1>1
  <2>2. s[i].end \in Int /\ s[j].end \in Int
    BY <2>1 DEF Dated
  <2>3. SUFFICES ASSUME s[j].end <= s[i].end PROVE FALSE
    BY <2>2
  <2>. HIDE DEF Below, s, n
  <2>4. Cardinality(Below(s[j])) <= Cardinality(Below(s[i]))
    BY <1>2, <2>1, <2>3
  <2>5. j - 1 <= i - 1
    BY <1>1, <2>4
  <2>. QED  BY <1>1, <1>3, <2>5
<1>4. ASSUME NEW p \in S
      PROVE  \E i \in 1 .. n : s[i] = p
  <2>. DEFINE i == Cardinality(Below(p)) + 1
  <2>1. Below(p) \in SUBSET S /\ p \notin Below(p) /\ IsFiniteSet(S)
    BY DEF Dated
  <2>2. i \in 1 .. n
    <3>. HIDE DEF Below
    <3>1. /\ IsFiniteSet(Below(p)) /\ Cardinality(Below(p)) <= n
          /\ n = Cardinality(Below(p)) => S = Below(p)
      BY <2>1, FS_Subset
    <3>2. Cardinality(Below(p)) \in Nat
      BY <3>1, FS_CardinalityType
    <3>. QED  BY <1>1, <2>1, <3>1, <3>2
  <2>3. s[i] \in S /\ Cardinality(Below(s[i])) = Cardinality(Below(p))
    <3>. HIDE DEF Below, s, n
    <3>1. IsFiniteSet(Below(p))
      BY <2>1, FS_Subset
    <3>2. Cardinality(Below(p)) \in Nat
      BY <3>1, FS_CardinalityType
    <3>3. Cardinality(Below(s[i])) = i - 1 /\ s[i] \in S
      BY <1>1, <2>2
    <3>. QED  BY <3>2, <3>3
  <2>4. ASSUME NEW a \in S, NEW b \in S, a.end < b.end
        PROVE  Cardinality(Below(a)) # Cardinality(Below(b))
    <3>1. Below(a) \in SUBSET Below(b) /\ a \in Below(b) /\ a \notin Below(a) /\ Below(b) \in SUBSET S
      BY <2>4 DEF Dated
    <3>. HIDE DEF Below
    <3>2. IsFiniteSet(Below(b))
      BY <2>1, <3>1, FS_Subset
    <3>. QED  BY <3>1, <3>2, FS_Subset
  <2>5. s[i].end = p.end
    <3>1. s[i].end \in Int /\ p.end \in Int
      BY <2>3 DEF Dated
    <3>. HIDE DEF Below, s, i
    <3>. QED  BY <2>3, <2>4, <3>1
  <2>6. s[i] = p
    BY <2>3, <2>5 DEF Dated
  <2>. QED  BY <2>2, <2>6
<1>. QED  BY <1>3, <1>4

-----------------------------------------------------------------------------
\* Metrics and the filings they come from

IsRow(r) ==
    /\ r.start \in Int \cup {None} /\ r.end \in Int /\ r.value \in Int
    /\ r.known \in Nat /\ r.filed \in Int
    /\ r # None

IsRows(rows) == IsFiniteSet(rows) /\ \A r \in rows : IsRow(r)

Behind(q, r) == q.known < r.known \/ (q.known = r.known /\ q.filed <= r.filed)

LEMMA LatestIsThere ==
    ASSUME NEW rows, IsRows(rows), rows # {}
    PROVE  Latest(rows) \in rows /\ \A q \in rows : Behind(q, Latest(rows))
<1>. DEFINE known == [r \in rows |-> r.known]
            filed == [r \in rows |-> r.filed]
<1>1. PICK a \in rows : \A q \in rows : q.known <= a.known
  <2>1. \A r \in rows : known[r] \in Int
    BY DEF IsRows, IsRow
  <2>. HIDE DEF known
  <2>2. \E a \in rows : \A q \in rows : known[a] >= known[q]
    BY <2>1, FunctionHasExtremes DEF IsRows
  <2>3. \A q \in rows : known[q] = q.known /\ q.known \in Int
    BY DEF known, IsRows, IsRow
  <2>. QED  BY <2>2, <2>3
<1>. DEFINE last == {r \in rows : r.known = a.known}
<1>2. PICK b \in last : \A q \in last : q.filed <= b.filed
  <2>1. last \in SUBSET rows /\ last # {}
    OBVIOUS
  <2>. HIDE DEF last
  <2>2. IsFiniteSet(last)
    BY <2>1, FS_Subset DEF IsRows
  <2>3. \A r \in last : filed[r] \in Int
    BY <2>1 DEF IsRows, IsRow
  <2>. HIDE DEF filed
  <2>4. \E b \in last : \A q \in last : filed[b] >= filed[q]
    BY <2>1, <2>2, <2>3, FunctionHasExtremes
  <2>5. \A q \in last : filed[q] = q.filed /\ q.filed \in Int
    BY <2>1 DEF filed, IsRows, IsRow
  <2>. QED  BY <2>4, <2>5
<1>3. b \in rows /\ b.known = a.known
  BY <1>2
<1>4. ASSUME NEW q \in rows
      PROVE  Behind(q, b)
  <2>1. q.known <= a.known /\ q.known \in Int /\ a.known \in Int
    BY <1>1 DEF IsRows, IsRow
  <2>2. q.known = a.known => q.filed <= b.filed
    BY <1>2
  <2>. QED  BY <1>3, <2>1, <2>2 DEF Behind
<1>5. \E r \in rows : \A q \in rows : Behind(q, r)
  BY <1>3, <1>4
<1>6. Latest(rows) = CHOOSE r \in rows : \A q \in rows : Behind(q, r)
  BY DEF Latest, Behind
<1>. QED  BY <1>5, <1>6, Zenon

\* The latest fact with a unit that can be used, if there is one
LEMMA UsableIsThere ==
    ASSUME NEW rows, IsRows(rows), NEW d
    PROVE  \/ LatestUsable(d, rows) = None
           \/ /\ LatestUsable(d, rows) \in rows
              /\ Normalized(LatestUsable(d, rows), d.unit) # None
              /\ \A q \in rows : Normalized(q, d.unit) # None => Behind(q, LatestUsable(d, rows))
<1>. DEFINE usable == {r \in rows : Normalized(r, d.unit) # None}
<1>1. usable \in SUBSET rows
  OBVIOUS
<1>2. LatestUsable(d, rows) = IF usable = {} THEN None ELSE Latest(usable)
  BY DEF LatestUsable
<1>3. IsRows(usable)
  <2>. HIDE DEF usable
  <2>. QED  BY <1>1, FS_Subset DEF IsRows
<1>4. usable # {} => /\ Latest(usable) \in usable
                     /\ \A q \in usable : Behind(q, Latest(usable))
  <2>. HIDE DEF usable
  <2>. QED  BY <1>3, LatestIsThere
<1>. QED  BY <1>2, <1>4

FilingsOf(rows) == {r.filing : r \in rows}

\* A metric comes from filings of these rows.
Sourced(metric, rows) == metric.filings \subseteq FilingsOf(rows)

LEMMA NothingIsSourced ==
    ASSUME NEW rows
    PROVE  Sourced(NoMetric, rows)
  BY DEF Sourced, NoMetric

LEMMA FirstIsFound ==
    ASSUME NEW n \in Nat, NEW metrics, DOMAIN metrics = 1 .. n
    PROVE  \/ FirstFound(metrics) = NoMetric /\ \A i \in 1 .. n : metrics[i] = NoMetric
           \/ \E i \in 1 .. n : FirstFound(metrics) = metrics[i] /\ metrics[i] # NoMetric
<1>. DEFINE found == {i \in DOMAIN metrics : metrics[i] # NoMetric}
<1>1. FirstFound(metrics) = IF found = {} THEN NoMetric ELSE metrics[Min(found)]
  BY DEF FirstFound
<1>2. found \in SUBSET (1 .. n)
  OBVIOUS
<1>3. found # {} => Min(found) \in found
  <2>1. IsFiniteSet(1 .. n)
    BY FS_Interval
  <2>. HIDE DEF found
  <2>2. IsFiniteSet(found)
    BY <1>2, <2>1, FS_Subset
  <2>3. found \in SUBSET Int
    BY <1>2
  <2>. QED  BY <2>2, <2>3, ExtremesOf
<1>. QED  BY <1>1, <1>2, <1>3

Definition(d) == d.concepts \in Seq(STRING)

Reported(d, period, concept) == MetricOf(d, LatestUsable(d, {r \in period : r.concept = concept}))

\* What is selected was reported under one of the concepts, or follows from what
\* was reported to date.
LEMMA SelectedFacts ==
    ASSUME NEW d, Definition(d), NEW kind, NEW period, NEW rows, NEW start, NEW end
    PROVE  \/ Selected(d, kind, period, rows, start, end) = NoMetric
           \/ \E i \in DOMAIN d.concepts :
                 \/ Selected(d, kind, period, rows, start, end) = Reported(d, period, d.concepts[i])
                 \/ /\ kind = "quarterly" /\ d.behavior = "flow"
                    /\ Selected(d, kind, period, rows, start, end)
                       = FromYearToDate(d, d.concepts[i], rows, start, end)
<1>. DEFINE derived(concept) ==
                IF kind = "quarterly" /\ d.behavior = "flow"
                THEN FromYearToDate(d, concept, rows, start, end) ELSE NoMetric
            metrics == [i \in DOMAIN d.concepts |->
                          Else(Reported(d, period, d.concepts[i]), derived(d.concepts[i]))]
<1>1. Selected(d, kind, period, rows, start, end) = FirstFound(metrics)
  BY DEF Selected, Reported
<1>2. Len(d.concepts) \in Nat /\ DOMAIN metrics = 1 .. Len(d.concepts)
  BY DEF Definition
<1>3. \A i \in DOMAIN d.concepts : \/ metrics[i] = Reported(d, period, d.concepts[i])
                                   \/ metrics[i] = derived(d.concepts[i])
  BY DEF Else
<1>4. \/ FirstFound(metrics) = NoMetric
      \/ \E i \in DOMAIN metrics : FirstFound(metrics) = metrics[i]
  <2>. HIDE DEF metrics
  <2>. QED  BY <1>2, FirstIsFound
<1>5. DOMAIN metrics = DOMAIN d.concepts
  OBVIOUS
<1>. HIDE DEF metrics
<1>. QED  BY <1>1, <1>3, <1>4, <1>5

LEMMA MetricIsSourced ==
    ASSUME NEW rows, IsRows(rows), NEW some \in SUBSET rows, NEW d
    PROVE  Sourced(MetricOf(d, LatestUsable(d, some)), rows)
<1>1. IsRows(some)
  BY FS_Subset DEF IsRows
<1>2. LatestUsable(d, some) = None \/ LatestUsable(d, some) \in some
  BY <1>1, UsableIsThere
<1>. QED  BY <1>2 DEF MetricOf, Sourced, FilingsOf, NoMetric

LEMMA DifferenceIsSourced ==
    ASSUME NEW rows, IsRows(rows), NEW d, NEW concept, NEW start, NEW end
    PROVE  Sourced(FromYearToDate(d, concept, rows, start, end), rows)
<1>. DEFINE flows == {r \in rows : r.concept = concept /\ r.start # None}
            current == LatestUsable(d, {r \in flows : r.end = end /\ r.start < start /\ QuarterlyForm(r)})
            prior == IF current = None THEN None ELSE LatestUsable(d, PriorToDate(current, flows))
<1>1. FromYearToDate(d, concept, rows, start, end) = Difference(d, current, prior)
  BY DEF FromYearToDate, Since
<1>2. \A some \in SUBSET rows : LatestUsable(d, some) \in rows \cup {None}
  <2>1. \A some \in SUBSET rows : IsRows(some)
    BY FS_Subset DEF IsRows
  <2>. QED  BY <2>1, UsableIsThere
<1>3. current \in rows \cup {None}
  <2>1. {r \in flows : r.end = end /\ r.start < start /\ QuarterlyForm(r)} \in SUBSET rows
    OBVIOUS
  <2>. QED  BY <1>2, <2>1
<1>4. prior \in rows \cup {None}
  <2>1. PriorToDate(current, flows) \in SUBSET rows
    BY DEF PriorToDate
  <2>. HIDE DEF flows, current
  <2>. QED  BY <1>2, <2>1
<1>. HIDE DEF current, prior
<1>. QED  BY <1>1, <1>3, <1>4 DEF Difference, Sourced, FilingsOf, NoMetric

LEMMA SelectedIsSourced ==
    ASSUME NEW rows, IsRows(rows), NEW d, Definition(d), NEW kind, NEW period \in SUBSET rows,
           NEW start, NEW end
    PROVE  Sourced(Selected(d, kind, period, rows, start, end), rows)
<1>1. ASSUME NEW concept
      PROVE  Sourced(Reported(d, period, concept), rows)
  <2>1. {r \in period : r.concept = concept} \in SUBSET rows
    OBVIOUS
  <2>. QED  BY <2>1, MetricIsSourced DEF Reported
<1>2. ASSUME NEW concept
      PROVE  Sourced(FromYearToDate(d, concept, rows, start, end), rows)
  BY DifferenceIsSourced
<1>. QED  BY <1>1, <1>2, SelectedFacts, NothingIsSourced

LEMMA DebtIsSourced ==
    ASSUME NEW rows, IsRows(rows), NEW period \in SUBSET rows
    PROVE  Sourced(Composed(period), rows)
<1>. DEFINE Of(concept) == {r \in period : r.concept = concept}
            Usable(concept) == Of(concept) # {} /\ Normalized(Latest(Of(concept)), "USD") # None
            found == {g \in DOMAIN DebtGroups : \E i \in DOMAIN DebtGroups[g] : Usable(DebtGroups[g][i])}
            first(g) == Min({n \in DOMAIN DebtGroups[g] : Usable(DebtGroups[g][n])})
            Fact(g) == Latest(Of(DebtGroups[g][first(g)]))
<1>1. Composed(period) = NoMetric \/ Composed(period).filings = {Fact(g).filing : g \in found}
  BY DEF Composed
<1>2. ASSUME NEW concept, Usable(concept)
      PROVE  Latest(Of(concept)) \in rows
  <2>1. Of(concept) \in SUBSET rows /\ Of(concept) # {}
    BY <1>2
  <2>. HIDE DEF Of
  <2>2. IsRows(Of(concept))
    BY <2>1, FS_Subset DEF IsRows
  <2>. QED  BY <2>1, <2>2, LatestIsThere
<1>3. ASSUME NEW g \in found
      PROVE  Fact(g) \in rows
  <2>. DEFINE N == {n \in DOMAIN DebtGroups[g] : Usable(DebtGroups[g][n])}
  <2>1. DebtGroups[g] \in Seq(STRING)
    BY DefinitionsAssumption
  <2>2. Len(DebtGroups[g]) \in Nat /\ DOMAIN DebtGroups[g] = 1 .. Len(DebtGroups[g])
    BY <2>1
  <2>3. N \in SUBSET (1 .. Len(DebtGroups[g])) /\ N # {}
    BY <1>3, <2>2
  <2>4. first(g) \in N
    <3>1. IsFiniteSet(1 .. Len(DebtGroups[g]))
      BY <2>2, FS_Interval
    <3>2. first(g) = Min(N)
      OBVIOUS
    <3>. HIDE DEF N, first
    <3>3. IsFiniteSet(N)
      BY <2>3, <3>1, FS_Subset
    <3>4. N \in SUBSET Int
      BY <2>3
    <3>. QED  BY <2>3, <3>2, <3>3, <3>4, ExtremesOf
  <2>5. Usable(DebtGroups[g][first(g)])
    BY <2>4
  <2>. HIDE DEF Usable, first, Of
  <2>. QED  BY <1>2, <2>5
<1>4. ASSUME NEW n \in {Fact(g).filing : g \in found}
      PROVE  n \in FilingsOf(rows)
  <2>1. PICK g \in found : n = Fact(g).filing
    BY <1>4
  <2>2. Fact(g) \in rows
    BY <1>3
  <2>. HIDE DEF Fact
  <2>. QED  BY <2>1, <2>2 DEF FilingsOf
<1>5. {Fact(g).filing : g \in found} \subseteq FilingsOf(rows)
  BY <1>4
<1>. QED  BY <1>1, <1>5, NothingIsSourced DEF Sourced

-----------------------------------------------------------------------------
\* Periods

LEMMA MetricNames == Metrics = {"revenue", "capex", "shares", "cash", "debt"}
  BY DefinitionsAssumption DEF Metrics

\* The facts a period is made of
InPeriod(rows, kind, end) == {r \in rows : r.end = end /\ FactMatches(r, kind)}

\* A period is one there is a flow for, from the earliest start of its facts.
LEMMA PeriodFacts ==
    ASSUME NEW rows, IsRows(rows), NEW kind, NEW end \in Int,
           \E r \in rows : r.end = end /\ FlowMatches(r, kind)
    PROVE  /\ Period(rows, kind, end).end = end /\ Period(rows, kind, end).start \in Int
           /\ \A r \in InPeriod(rows, kind, end) :
                 r.start # None => Period(rows, kind, end).start <= r.start
           /\ \E r \in InPeriod(rows, kind, end) :
                 r.start # None /\ Period(rows, kind, end).start = r.start
           /\ \A m \in Metrics \ {"debt"} :
                 Period(rows, kind, end).metrics[m] =
                    Selected(Definitions[m], kind, InPeriod(rows, kind, end), rows,
                             Period(rows, kind, end).start, end)
           /\ \/ Period(rows, kind, end).metrics["debt"] = Composed(InPeriod(rows, kind, end))
              \/ Period(rows, kind, end).metrics["debt"] =
                    Selected(Definitions["debt"], kind, InPeriod(rows, kind, end), rows,
                             Period(rows, kind, end).start, end)
<1>. DEFINE p == Period(rows, kind, end)
            period == {r \in rows : r.end = end /\ FactMatches(r, kind)}
            flows == {x \in period : x.start # None}
            starts == {r.start : r \in flows}
<1>1. p.end = end /\ p.start = Min(starts)
  BY DEF Period
<1>2. Min(starts) \in starts /\ \A x \in starts : Min(starts) <= x
  <2>. DEFINE start == [r \in flows |-> r.start]
  <2>1. IsFiniteSet(flows)
    <3>1. flows \in SUBSET rows
      OBVIOUS
    <3>. HIDE DEF flows
    <3>. QED  BY <3>1, FS_Subset DEF IsRows
  <2>2. IsFiniteSet(starts)
    <3>1. \A y : y \in starts <=> \E x \in flows : y = start[x]
      OBVIOUS
    <3>. HIDE DEF starts, start, flows
    <3>. QED  BY <2>1, <3>1, ImageIsFinite
  <2>3. starts \in SUBSET Int
    BY DEF IsRows, IsRow
  <2>4. starts # {}
    <3>1. PICK r \in rows : r.end = end /\ FlowMatches(r, kind)
      OBVIOUS
    <3>2. r \in flows
      BY <3>1 DEF FlowMatches, FactMatches
    <3>. QED  BY <3>2
  <2>. HIDE DEF starts
  <2>. QED  BY <2>2, <2>3, <2>4, ExtremesOf
<1>3. ASSUME NEW m \in Metrics \ {"debt"}
      PROVE  p.metrics[m] = Selected(Definitions[m], kind, period, rows, p.start, end)
  <2>1. m \in {"revenue", "capex", "shares", "cash"}
    BY MetricNames
  <2>. QED  BY <2>1 DEF Period, ForEachMetric
<1>4. \/ p.metrics["debt"] = Composed(period)
      \/ p.metrics["debt"] = Selected(Definitions["debt"], kind, period, rows, p.start, end)
  BY DEF Period, ForEachMetric
<1>5. p.start \in Int
  BY <1>1, <1>2 DEF IsRows, IsRow
<1>6. \A r \in period : r.start # None => p.start <= r.start
  BY <1>1, <1>2
<1>7. \E r \in period : r.start # None /\ p.start = r.start
  BY <1>1, <1>2
<1>8. p = Period(rows, kind, end) /\ period = InPeriod(rows, kind, end)
  BY DEF InPeriod
<1>. HIDE DEF p, period
<1>. QED  BY <1>1, <1>3, <1>4, <1>5, <1>6, <1>7, <1>8

\* A period of these rows
FromRows(p, rows) ==
    /\ p.start \in Int /\ p.end \in Int
    /\ \A m \in Metrics : Sourced(p.metrics[m], rows)

LEMMA MetricsAreDefined == \A m \in Metrics : Definition(Definitions[m])
  BY DefinitionsAssumption DEF Metrics, Definition

LEMMA PeriodIsFromRows ==
    ASSUME NEW rows, IsRows(rows), NEW kind, NEW end \in Int,
           \E r \in rows : r.end = end /\ FlowMatches(r, kind)
    PROVE  FromRows(Period(rows, kind, end), rows)
<1>. DEFINE p == Period(rows, kind, end)
            period == InPeriod(rows, kind, end)
<1>1. period \in SUBSET rows
  BY DEF InPeriod
<1>2. /\ p.end = end /\ p.start \in Int
      /\ \A m \in Metrics \ {"debt"} :
            p.metrics[m] = Selected(Definitions[m], kind, period, rows, p.start, end)
      /\ \/ p.metrics["debt"] = Composed(period)
         \/ p.metrics["debt"] = Selected(Definitions["debt"], kind, period, rows, p.start, end)
  BY PeriodFacts
<1>. HIDE DEF p, period
<1>3. \A m \in Metrics : Sourced(Selected(Definitions[m], kind, period, rows, p.start, end), rows)
  BY <1>1, SelectedIsSourced, MetricsAreDefined
<1>4. Sourced(Composed(period), rows)
  BY <1>1, DebtIsSourced
<1>5. "debt" \in Metrics
  BY MetricNames
<1>6. FromRows(p, rows)
  BY <1>2, <1>3, <1>4, <1>5 DEF FromRows
<1>. QED  BY <1>6 DEF p

LEMMA ReportedFacts ==
    ASSUME NEW rows, IsRows(rows), NEW kind
    PROVE  /\ Dated(ReportedPeriods(rows, kind))
           /\ \A p \in ReportedPeriods(rows, kind) :
                 /\ FromRows(p, rows)
                 /\ p = Period(rows, kind, p.end)
                 /\ \E r \in rows : r.end = p.end /\ FlowMatches(r, kind)
<1>. DEFINE flows == {x \in rows : FlowMatches(x, kind)}
            ends == {r.end : r \in flows}
            at == [r \in flows |-> r.end]
            period == [e \in ends |-> Period(rows, kind, e)]
            S == ReportedPeriods(rows, kind)
<1>1. S = {Period(rows, kind, e) : e \in ends}
  BY DEF ReportedPeriods
<1>2. ASSUME NEW e \in ends
      PROVE  /\ e \in Int /\ Period(rows, kind, e).end = e
             /\ FromRows(Period(rows, kind, e), rows)
             /\ \E r \in rows : r.end = e /\ FlowMatches(r, kind)
  <2>1. PICK r \in rows : r.end = e /\ FlowMatches(r, kind)
    OBVIOUS
  <2>2. e \in Int
    BY <2>1 DEF IsRows, IsRow
  <2>3. \E x \in rows : x.end = e /\ FlowMatches(x, kind)
    BY <2>1
  <2>. HIDE DEF ends
  <2>4. Period(rows, kind, e).end = e
    BY <2>2, <2>3, PeriodFacts
  <2>. QED  BY <2>2, <2>3, <2>4, PeriodIsFromRows
<1>3. IsFiniteSet(ends)
  <2>1. flows \in SUBSET rows
    OBVIOUS
  <2>2. \A y : y \in ends <=> \E x \in flows : y = at[x]
    OBVIOUS
  <2>. HIDE DEF flows, ends, at
  <2>3. IsFiniteSet(flows)
    BY <2>1, FS_Subset DEF IsRows
  <2>. QED  BY <2>2, <2>3, ImageIsFinite
<1>4. IsFiniteSet(S)
  <2>1. \A y : y \in S <=> \E e \in ends : y = period[e]
    BY <1>1
  <2>. HIDE DEF S, ends, period
  <2>. QED  BY <1>3, <2>1, ImageIsFinite
<1>. HIDE DEF ends, S
<1>5. \A p \in S : \E e \in ends : p = Period(rows, kind, e)
  BY <1>1
<1>6. ASSUME NEW p \in S
      PROVE  /\ p.end \in Int /\ FromRows(p, rows) /\ p = Period(rows, kind, p.end)
             /\ \E r \in rows : r.end = p.end /\ FlowMatches(r, kind)
  <2>1. PICK e \in ends : p = Period(rows, kind, e)
    BY <1>5
  <2>. QED  BY <1>2, <2>1
<1>7. Dated(S)
  BY <1>4, <1>6 DEF Dated
<1>. QED  BY <1>6, <1>7 DEF S

\* Periods one after the other, each later than the one before
InOrderOfTime(periods) ==
    \A i, j \in 1 .. Len(periods) : i < j => periods[i].end < periods[j].end

LEMMA SequenceOfDated ==
    ASSUME NEW S, Dated(S)
    PROVE  /\ InOrderOfEnd(S) \in Seq(S)
           /\ InOrderOfTime(InOrderOfEnd(S))
  BY InOrderFacts, InOrderOfTheirEnds DEF InOrderOfTime

\* A quarter that is inferred is the end of a year with three quarters before it.
Inferred(p, quarters, years) ==
    \E y \in years : \E prior \in Seq(quarters) :
        /\ Bridges(y, prior) /\ InOrderOfTime(prior)
        /\ \A q \in quarters : q.end # y.end
        /\ p.start = y.end /\ p.end = y.end
        /\ \A m \in Metrics : p.metrics[m] = FourthMetric(m, y, prior)

LEMMA FourthFacts ==
    ASSUME NEW quarters, Dated(quarters), NEW years, Dated(years)
    PROVE  /\ Dated(quarters \cup FourthQuarters(quarters, years))
           /\ \A p \in FourthQuarters(quarters, years) : Inferred(p, quarters, years)
<1>. DEFINE F == FourthQuarters(quarters, years)
            before(y) == {q \in quarters : y.start <= q.start /\ q.end < y.end}
            all(y) == InOrderOfEnd(before(y))
            prior(y) == SubSeq(all(y), IF Len(all(y)) > 3 THEN Len(all(y)) - 2 ELSE 1, Len(all(y)))
            missing == {y \in years : /\ \A q \in quarters : q.end # y.end
                                      /\ Bridges(y, prior(y))}
            fourth(y) == [start |-> y.end, end |-> y.end,
                          metrics |-> ForEachMetric(LAMBDA m : FourthMetric(m, y, prior(y)))]
            f == [y \in missing |-> fourth(y)]
<1>1. F = {fourth(y) : y \in missing}
  BY DEF FourthQuarters
<1>2. ASSUME NEW y \in years
      PROVE  prior(y) \in Seq(quarters) /\ InOrderOfTime(prior(y))
  <2>1. before(y) \in SUBSET quarters
    OBVIOUS
  <2>. HIDE DEF before
  <2>2. Dated(before(y))
    BY <2>1, FS_Subset DEF Dated
  <2>3. all(y) \in Seq(before(y)) /\ InOrderOfTime(all(y))
    BY <2>2, SequenceOfDated
  <2>. HIDE DEF all
  <2>4. all(y) \in Seq(quarters)
    BY <2>1, <2>3
  <2>. DEFINE s == all(y)
              first == IF Len(s) > 3 THEN Len(s) - 2 ELSE 1
  <2>51. s \in Seq(quarters) /\ InOrderOfTime(s)
    BY <2>3, <2>4
  <2>. HIDE DEF s
  <2>52. Len(s) \in Nat
    BY <2>51
  <2>53. first \in Nat \ {0}
    BY <2>52
  <2>5. s \in Seq(quarters) /\ InOrderOfTime(s) /\ Len(s) \in Nat /\ first \in Nat \ {0}
    BY <2>51, <2>52, <2>53
  <2>. HIDE DEF first
  <2>6. SubSeq(s, first, Len(s)) \in Seq(quarters)
    BY <2>5
  <2>7. \A i \in 1 .. Len(SubSeq(s, first, Len(s))) :
           SubSeq(s, first, Len(s))[i] = s[first + i - 1] /\ first + i - 1 \in 1 .. Len(s)
    BY <2>5
  <2>8. InOrderOfTime(SubSeq(s, first, Len(s)))
    <3>. DEFINE u == SubSeq(s, first, Len(s))
    <3>1. \A i \in 1 .. Len(u) : u[i] = s[first + i - 1] /\ first + i - 1 \in 1 .. Len(s)
      BY <2>7
    <3>. HIDE DEF u
    <3>2. \A i, j \in 1 .. Len(u) : i < j => first + i - 1 < first + j - 1
      BY <2>5
    <3>3. InOrderOfTime(u)
      BY <2>5, <3>1, <3>2 DEF InOrderOfTime
    <3>. QED  BY <3>3 DEF u
  <2>. QED  BY <2>6, <2>8 DEF s, first
<1>3. ASSUME NEW y \in missing
      PROVE  Inferred(fourth(y), quarters, years) /\ fourth(y).end = y.end
  <2>1. /\ y \in years /\ prior(y) \in Seq(quarters) /\ Bridges(y, prior(y))
        /\ InOrderOfTime(prior(y))
        /\ \A q \in quarters : q.end # y.end
    BY <1>2
  <2>. HIDE DEF prior, missing
  <2>2. fourth(y).start = y.end /\ fourth(y).end = y.end
    OBVIOUS
  <2>3. ASSUME NEW m \in Metrics
        PROVE  fourth(y).metrics[m] = FourthMetric(m, y, prior(y))
    BY MetricNames DEF ForEachMetric
  <2>. HIDE DEF fourth
  <2>. QED  BY <2>1, <2>2, <2>3 DEF Inferred
<1>4. IsFiniteSet(F)
  <2>1. missing \in SUBSET years
    OBVIOUS
  <2>2. \A x : x \in F <=> \E y \in missing : x = f[y]
    BY <1>1
  <2>. HIDE DEF missing, F, f
  <2>3. IsFiniteSet(missing)
    BY <2>1, FS_Subset DEF Dated
  <2>. QED  BY <2>2, <2>3, ImageIsFinite
<1>5. \A y \in missing : y \in years /\ \A q \in quarters : q.end # y.end
  OBVIOUS
<1>. HIDE DEF missing, fourth, F
<1>6. \A x \in F : \E y \in missing : x = fourth(y)
  BY <1>1
<1>7. \A x \in F : /\ x.end \in Int /\ Inferred(x, quarters, years)
                   /\ \A q \in quarters : q.end # x.end
  BY <1>3, <1>5, <1>6 DEF Dated
<1>8. \A x, z \in F : x.end = z.end => x = z
  <2>1. ASSUME NEW x \in F, NEW z \in F, x.end = z.end
        PROVE  x = z
    <3>1. PICK y \in missing : x = fourth(y)
      BY <1>6
    <3>2. PICK u \in missing : z = fourth(u)
      BY <1>6
    <3>3. y.end = u.end
      BY <1>3, <2>1, <3>1, <3>2
    <3>4. y = u
      BY <1>5, <3>3 DEF Dated
    <3>. QED  BY <3>1, <3>2, <3>4
  <2>. QED  BY <2>1
<1>9. IsFiniteSet(quarters \cup F)
  BY <1>4, FS_Union DEF Dated
<1>10. Dated(quarters \cup F)
  BY <1>7, <1>8, <1>9 DEF Dated
<1>. QED  BY <1>7, <1>10 DEF F

LEMMA InferredIsFromRows ==
    ASSUME NEW rows, NEW quarters, \A q \in quarters : FromRows(q, rows),
           NEW years, \A y \in years : FromRows(y, rows),
           NEW p, Inferred(p, quarters, years)
    PROVE  FromRows(p, rows)
<1>1. PICK y \in years : \E prior \in Seq(quarters) :
         /\ p.start = y.end /\ p.end = y.end
         /\ \A m \in Metrics : p.metrics[m] = FourthMetric(m, y, prior)
  BY DEF Inferred
<1>2. PICK prior \in Seq(quarters) :
         /\ p.start = y.end /\ p.end = y.end
         /\ \A m \in Metrics : p.metrics[m] = FourthMetric(m, y, prior)
  BY <1>1
<1>3. ASSUME NEW m \in Metrics
      PROVE  Sourced(p.metrics[m], rows)
  <2>. DEFINE first == [i \in DOMAIN prior |-> prior[i].metrics[m]]
  <2>1. p.metrics[m].filings = y.metrics[m].filings \cup Sources(first)
    <3>1. FourthMetric(m, y, prior).filings = y.metrics[m].filings \cup Sources(first)
      BY DEF FourthMetric
    <3>2. p.metrics[m] = FourthMetric(m, y, prior)
      BY <1>2, <1>3
    <3>. QED  BY <3>1, <3>2
  <2>2. \A i \in DOMAIN prior : Sourced(first[i], rows)
    <3>1. \A i \in DOMAIN prior : prior[i] \in quarters
      OBVIOUS
    <3>. QED  BY <1>3, <3>1 DEF FromRows
  <2>3. Sources(first) \subseteq FilingsOf(rows)
    <3>1. DOMAIN first = DOMAIN prior
      OBVIOUS
    <3>. HIDE DEF first
    <3>. QED  BY <2>2, <3>1 DEF Sources, Sourced
  <2>4. Sourced(y.metrics[m], rows)
    BY <1>3 DEF FromRows
  <2>. QED  BY <2>1, <2>3, <2>4 DEF Sourced
<1>4. y.end \in Int
  BY DEF FromRows
<1>. QED  BY <1>2, <1>3, <1>4 DEF FromRows

\* The quarters as they are reported, and those that are inferred
LEMMA QuarterlyFacts ==
    ASSUME NEW rows, IsRows(rows)
    PROVE  /\ QuarterlyPeriods(rows) \in
                 Seq(ReportedPeriods(rows, "quarterly")
                     \cup FourthQuarters(ReportedPeriods(rows, "quarterly"),
                                         ReportedPeriods(rows, "annual")))
           /\ InOrderOfTime(QuarterlyPeriods(rows))
           /\ \A p \in FourthQuarters(ReportedPeriods(rows, "quarterly"), ReportedPeriods(rows, "annual")) :
                 Inferred(p, ReportedPeriods(rows, "quarterly"), ReportedPeriods(rows, "annual"))
<1>. DEFINE quarters == ReportedPeriods(rows, "quarterly")
            years == ReportedPeriods(rows, "annual")
            all == quarters \cup FourthQuarters(quarters, years)
<1>1. Dated(quarters) /\ Dated(years)
  BY ReportedFacts
<1>2. QuarterlyPeriods(rows) = InOrderOfEnd(all)
  BY DEF QuarterlyPeriods, WithFourth
<1>. HIDE DEF quarters, years
<1>3. Dated(all) /\ \A p \in FourthQuarters(quarters, years) : Inferred(p, quarters, years)
  BY <1>1, FourthFacts
<1>. HIDE DEF all
<1>4. QuarterlyPeriods(rows) \in Seq(all) /\ InOrderOfTime(QuarterlyPeriods(rows))
  BY <1>2, <1>3, SequenceOfDated
<1>. QED  BY <1>3, <1>4 DEF all, quarters, years

LEMMA QuartersAreFromRows ==
    ASSUME NEW rows, IsRows(rows)
    PROVE  /\ QuarterlyPeriods(rows) \in Seq({QuarterlyPeriods(rows)[i] : i \in DOMAIN QuarterlyPeriods(rows)})
           /\ \A i \in DOMAIN QuarterlyPeriods(rows) : FromRows(QuarterlyPeriods(rows)[i], rows)
<1>. DEFINE quarters == ReportedPeriods(rows, "quarterly")
            years == ReportedPeriods(rows, "annual")
            F == FourthQuarters(quarters, years)
            s == QuarterlyPeriods(rows)
<1>1. s \in Seq(quarters \cup F) /\ \A p \in F : Inferred(p, quarters, years)
  BY QuarterlyFacts
<1>2. (\A p \in quarters : FromRows(p, rows)) /\ \A p \in years : FromRows(p, rows)
  BY ReportedFacts
<1>. HIDE DEF quarters, years, F, s
<1>3. \A p \in F : FromRows(p, rows)
  BY <1>1, <1>2, InferredIsFromRows
<1>4. \A i \in DOMAIN s : s[i] \in quarters \cup F
  BY <1>1
<1>5. s \in Seq({s[i] : i \in DOMAIN s})
  BY <1>1
<1>. QED  BY <1>2, <1>3, <1>4, <1>5 DEF s

\* A trailing year has the metrics of four quarters in a row.
Trailing(p, quarters) ==
    \E i \in 4 .. Len(quarters) :
        LET window == SubSeq(quarters, i - 3, i)
        IN  /\ Successive(window)
            /\ p.start = window[1].start /\ p.end = window[4].end
            /\ \A m \in Metrics : p.metrics[m] = TrailingMetric(m, window)

LEMMA TrailingFacts ==
    ASSUME NEW T, NEW quarters \in Seq(T), \A p \in T : p.end \in Int /\ p.start \in Int,
           InOrderOfTime(quarters)
    PROVE  /\ TrailingOf(quarters) \in Seq({TrailingOf(quarters)[i] : i \in DOMAIN TrailingOf(quarters)})
           /\ \A i \in DOMAIN TrailingOf(quarters) :
                 Trailing(TrailingOf(quarters)[i], quarters) /\ TrailingOf(quarters)[i].end \in Int
           /\ InOrderOfTime(TrailingOf(quarters))
<1>. DEFINE window(i) == SubSeq(quarters, i - 3, i)
            some == {n \in 4 .. Len(quarters) : Successive(window(n))}
            year(i) == [start |-> window(i)[1].start, end |-> window(i)[4].end,
                        metrics |-> ForEachMetric(LAMBDA m : TrailingMetric(m, window(i)))]
            y == [i \in some |-> year(i)]
            S == {year(i) : i \in some}
            s == TrailingOf(quarters)
<1>1. s = InOrderOfEnd(S)
  BY DEF TrailingOf
<1>2. Len(quarters) \in Nat
  OBVIOUS
<1>3. IsFiniteSet(S)
  <2>1. some \in SUBSET (4 .. Len(quarters))
    OBVIOUS
  <2>2. IsFiniteSet(4 .. Len(quarters))
    BY <1>2, FS_Interval
  <2>3. \A x : x \in S <=> \E i \in some : x = y[i]
    OBVIOUS
  <2>. HIDE DEF some, S, y
  <2>4. IsFiniteSet(some)
    BY <2>1, <2>2, FS_Subset
  <2>. QED  BY <2>3, <2>4, ImageIsFinite
<1>4. ASSUME NEW i \in some
      PROVE  year(i).end = quarters[i].end /\ year(i).end \in Int /\ Trailing(year(i), quarters)
  <2>1. i \in 4 .. Len(quarters) /\ Successive(window(i))
    OBVIOUS
  <2>2. window(i)[4] = quarters[i] /\ quarters[i] \in T
    BY <1>2, <2>1
  <2>3. ASSUME NEW m \in Metrics
        PROVE  year(i).metrics[m] = TrailingMetric(m, window(i))
    BY MetricNames DEF ForEachMetric
  <2>4. year(i).start = window(i)[1].start /\ year(i).end = window(i)[4].end
    OBVIOUS
  <2>. HIDE DEF year
  <2>. QED  BY <2>1, <2>2, <2>3, <2>4 DEF Trailing
<1>5. \A x \in S : \E i \in some : x = year(i)
  OBVIOUS
<1>6. some \subseteq 4 .. Len(quarters)
  OBVIOUS
<1>. HIDE DEF S, year, some
<1>7. ASSUME NEW x \in S, NEW z \in S, x.end = z.end
      PROVE  x = z
  <2>1. PICK i \in some : x = year(i)
    BY <1>5
  <2>2. PICK j \in some : z = year(j)
    BY <1>5
  <2>3. quarters[i].end = quarters[j].end /\ i \in 1 .. Len(quarters) /\ j \in 1 .. Len(quarters)
    BY <1>2, <1>4, <1>6, <1>7, <2>1, <2>2
  <2>4. quarters[i].end \in Int
    BY <2>3
  <2>5. ~(i < j) /\ ~(j < i)
    BY <2>3, <2>4 DEF InOrderOfTime
  <2>6. i = j
    BY <2>3, <2>5
  <2>. QED  BY <2>1, <2>2, <2>6
<1>8. Dated(S)
  BY <1>3, <1>4, <1>5, <1>7 DEF Dated
<1>9. s \in Seq(S) /\ InOrderOfTime(s)
  BY <1>1, <1>8, SequenceOfDated
<1>10. \A x \in S : Trailing(x, quarters) /\ x.end \in Int
  BY <1>4, <1>5
<1>. HIDE DEF s
<1>11. \A i \in DOMAIN s : Trailing(s[i], quarters) /\ s[i].end \in Int
  BY <1>9, <1>10
<1>12. s \in Seq({s[i] : i \in DOMAIN s})
  BY <1>9
<1>. QED  BY <1>9, <1>11, <1>12 DEF s

\* The filings of the last trailing year are filings of the rows it is made of.
LEMMA FundamentalsAreFromRows ==
    ASSUME NEW rows, IsRows(rows)
    PROVE  \/ Fundamentals(rows) = None
           \/ \A m \in Metrics : Sourced(Fundamentals(rows).metrics[m], rows)
<1>. DEFINE quarters == QuarterlyPeriods(rows)
            T == {quarters[i] : i \in DOMAIN quarters}
            years == TrailingOf(quarters)
<1>1. quarters \in Seq(T) /\ \A i \in DOMAIN quarters : FromRows(quarters[i], rows)
  BY QuartersAreFromRows
<1>2. \A p \in T : FromRows(p, rows)
  BY <1>1
<1>3. InOrderOfTime(quarters)
  BY QuarterlyFacts
<1>. HIDE DEF T
<1>4. /\ years \in Seq({years[i] : i \in DOMAIN years})
      /\ \A i \in DOMAIN years : Trailing(years[i], quarters)
  <2>1. \A p \in T : p.end \in Int /\ p.start \in Int
    BY <1>2 DEF FromRows
  <2>. HIDE DEF quarters
  <2>. QED  BY <1>1, <1>3, <2>1, TrailingFacts
<1>5. Fundamentals(rows) = IF years = << >> THEN None ELSE years[Len(years)]
  BY DEF Fundamentals, LastOf, TrailingPeriods
<1>. HIDE DEF quarters, years
<1>6. years # << >> => Len(years) \in DOMAIN years
  BY <1>4
<1>7. ASSUME NEW p, Trailing(p, quarters), NEW m \in Metrics
      PROVE  Sourced(p.metrics[m], rows)
  <2>1. PICK i \in 4 .. Len(quarters) : p.metrics[m] = TrailingMetric(m, SubSeq(quarters, i - 3, i))
    BY <1>7 DEF Trailing
  <2>. DEFINE window == SubSeq(quarters, i - 3, i)
              four == [k \in 1 .. 4 |-> window[k].metrics[m]]
              known == {k \in 1 .. 4 : four[k].value # None}
  <2>2. \A k \in 1 .. 4 : window[k] \in T
    BY <1>1
  <2>3. \A k \in 1 .. 4 : Sourced(four[k], rows)
    BY <1>2, <1>7, <2>2 DEF FromRows
  <2>4. Sources(four) \subseteq FilingsOf(rows)
    <3>1. DOMAIN four = 1 .. 4
      OBVIOUS
    <3>. HIDE DEF four
    <3>. QED  BY <2>3, <3>1 DEF Sources, Sourced
  <2>5. known # {} => Max(known) \in 1 .. 4
    <3>1. known \in SUBSET (1 .. 4)
      OBVIOUS
    <3>2. IsFiniteSet(1 .. 4)
      <4>1. 1 \in Int /\ 4 \in Int
        OBVIOUS
      <4>. QED  BY ONLY <4>1, FS_Interval
    <3>. HIDE DEF known
    <3>3. IsFiniteSet(known)
      BY <3>1, <3>2, FS_Subset
    <3>4. known \in SUBSET Int
      BY <3>1
    <3>. QED  BY <3>1, <3>3, <3>4, ExtremesOf
  <2>6. Definitions[m].behavior \in Behaviors
    BY <1>7, DefinitionsAssumption DEF Metrics
  <2>7. TrailingMetric(m, window) =
            CASE Definitions[m].behavior = "flow" ->
                    [value |-> IF Complete(four) THEN Sum(four) ELSE None, filings |-> Sources(four)]
              [] Definitions[m].behavior = "average" ->
                    IF known = {} THEN NoMetric ELSE four[Max(known)]
              [] Definitions[m].behavior = "instant" -> four[4]
    BY DEF TrailingMetric
  <2>8. p.metrics[m] = TrailingMetric(m, window)
    BY <2>1
  <2>. HIDE DEF four, known, window
  <2>9. CASE Definitions[m].behavior = "flow"
    BY <2>4, <2>7, <2>8, <2>9 DEF Sourced
  <2>10. CASE Definitions[m].behavior = "average"
    BY <2>3, <2>5, <2>7, <2>8, <2>10, NothingIsSourced
  <2>11. CASE Definitions[m].behavior = "instant"
    BY <2>3, <2>7, <2>8, <2>11
  <2>. QED  BY <2>6, <2>9, <2>10, <2>11 DEF Behaviors
<1>. QED  BY <1>4, <1>5, <1>6, <1>7

-----------------------------------------------------------------------------
\* The facts that are stored

\* A row for the observation o of filing n
Record(n, o, framed, exact) ==
    [filing |-> n, form |-> filing[n].form, fiscal |-> filing[n].fiscal,
     filed |-> filing[n].filed, concept |-> o.concept, start |-> o.start, end |-> o.end,
     value |-> o.value, unit |-> o.unit, framed |-> framed,
     known |-> IF exact THEN filing[n].accepted ELSE Fallback(n), exact |-> exact]

Stored(r) ==
    \E n \in Published(now) : \E o \in filing[n].facts : \E framed, exact \in BOOLEAN :
        r = Record(n, o, framed, exact)

\* What is said of a filing is said of all its observations: once one row of it
\* has an exact time, every observation has a row that has.
ToldWhole(rows) ==
    \A r \in rows : \A o \in filing[r.filing].facts : \E q \in rows :
        /\ q.filing = r.filing
        /\ <<q.concept, q.start, q.end, q.unit>> = <<o.concept, o.start, o.end, o.unit>>
        /\ r.exact => q.exact

StoreInv ==
    /\ filing \in Histories
    /\ now \in Nat
    /\ DOMAIN payloads = {"facts", "submissions"}
    /\ \A p \in DOMAIN payloads : payloads[p] = None \/ (payloads[p] \in Nat /\ payloads[p] <= now)
    /\ \A r \in facts : Stored(r)
    /\ ToldWhole(facts)

LEMMA FilingType ==
    ASSUME filing \in Histories, NEW n \in Filings
    PROVE  /\ IsFiling(filing[n])
           /\ filing[n].form \in Forms /\ filing[n].fiscal \in STRING
           /\ filing[n].accepted \in Nat /\ filing[n].filed \in Int
           /\ filing[n].accepted <= Fallback(n) /\ Fallback(n) \in Nat
           /\ Day(filing[n].accepted) <= filing[n].filed
           /\ filing[n].filed <= Day(filing[n].accepted) + 1
           /\ filing[n].filed > Day(filing[n].accepted) =>
                 filing[n].accepted > Close(Day(filing[n].accepted))
<1>1. IsFiling(filing[n])
  BY FactAssumption
<1>. DEFINE a == filing[n].accepted
            d == filing[n].filed
<1>2. a \in Nat /\ d \in (a \div 4) .. (a \div 4) + (IF a > 4 * (a \div 4) + 2 THEN 1 ELSE 0)
  BY <1>1 DEF IsFiling, Day, Close
<1>. HIDE DEF a, d
<1>3. a \in Nat /\ d \in Int /\ a \div 4 <= d /\ d <= (a \div 4) + 1
      /\ (d > a \div 4 => a > 4 * (a \div 4) + 2) /\ a <= 4 * d + 3 /\ 4 * d + 3 \in Nat
  BY <1>2
<1>4. filing[n].form \in Forms /\ filing[n].fiscal \in STRING
  BY <1>1 DEF IsFiling
<1>. QED  BY <1>1, <1>3, <1>4 DEF a, d, Fallback, EndOf, Day, Close

LEMMA StoredFacts ==
    ASSUME filing \in Histories, NEW r, Stored(r)
    PROVE  /\ IsRow(r) /\ r.filing \in Filings /\ r.filing \in Published(now)
           /\ filing[r.filing].accepted <= r.known
           /\ r.form = filing[r.filing].form /\ r.fiscal = filing[r.filing].fiscal
           /\ r.filed = filing[r.filing].filed
           /\ r.exact \in BOOLEAN
           /\ r.exact => r.known = filing[r.filing].accepted
           /\ ~r.exact => r.known = Fallback(r.filing)
           /\ \E o \in filing[r.filing].facts :
                 <<o.concept, o.start, o.end, o.value, o.unit>> = <<r.concept, r.start, r.end, r.value, r.unit>>
<1>0. PICK n \in Published(now) :
         \E o \in filing[n].facts : \E framed, exact \in BOOLEAN : r = Record(n, o, framed, exact)
  BY DEF Stored
<1>1. PICK o \in filing[n].facts : \E framed, exact \in BOOLEAN : r = Record(n, o, framed, exact)
  BY <1>0
<1>11. PICK framed \in BOOLEAN : \E exact \in BOOLEAN : r = Record(n, o, framed, exact)
  BY <1>1
<1>12. PICK exact \in BOOLEAN : r = Record(n, o, framed, exact)
  BY <1>11
<1>2. n \in Filings
  BY DEF Published
<1>3. o \in Observation
  BY <1>2, FilingType DEF IsFiling
<1>4. /\ r.filing = n /\ r.form = filing[n].form /\ r.fiscal = filing[n].fiscal
      /\ r.filed = filing[n].filed /\ r.exact = exact
      /\ r.concept = o.concept /\ r.start = o.start /\ r.end = o.end
      /\ r.value = o.value /\ r.unit = o.unit
      /\ r.known = IF exact THEN filing[n].accepted ELSE Fallback(n)
  BY <1>12 DEF Record
<1>5. /\ o.start \in Int \cup {None} /\ o.end \in Int /\ o.value \in Int
  BY <1>3 DEF Observation
<1>6. /\ filing[n].accepted \in Nat /\ filing[n].filed \in Int
      /\ filing[n].accepted <= Fallback(n) /\ Fallback(n) \in Nat
  BY <1>2, FilingType
<1>8. r \in Rows
  <2>1. filing[n].form \in Forms /\ filing[n].fiscal \in STRING
    BY <1>2, FilingType
  <2>2. o.concept \in STRING /\ o.unit \in STRING
    BY <1>3 DEF Observation
  <2>3. (IF exact THEN filing[n].accepted ELSE Fallback(n)) \in Nat
    BY <1>6
  <2>. QED  BY <1>2, <1>5, <1>6, <1>12, <2>1, <2>2, <2>3 DEF Record, Rows
<1>7. IsRow(r)
  BY <1>4, <1>5, <1>6, <1>8, RowsAssumption DEF IsRow
<1>. QED  BY <1>2, <1>4, <1>6, <1>7

LEMMA StoreIsFinite ==
    ASSUME filing \in Histories, NEW rows, \A r \in rows : Stored(r)
    PROVE  IsRows(rows)
<1>. DEFINE said == {filing[n].facts : n \in Filings}
            P == UNION said
            W == (Filings \X P) \X (BOOLEAN \X BOOLEAN)
            rec == [x \in W |-> Record(x[1][1], x[1][2], x[2][1], x[2][2])]
            All == {rec[x] : x \in W}
            of == [n \in Filings |-> filing[n].facts]
<1>1. IsFiniteSet(said)
  <2>1. IsFiniteSet(Filings)
    BY FactAssumption
  <2>2. \A y : y \in said <=> \E n \in Filings : y = of[n]
    OBVIOUS
  <2>. HIDE DEF said, of
  <2>. QED  BY <2>1, <2>2, ImageIsFinite
<1>2. \A T \in said : IsFiniteSet(T)
  BY FilingType DEF IsFiling
<1>3. IsFiniteSet(P)
  <2>. HIDE DEF said
  <2>. QED  BY <1>1, <1>2, FS_UNION
<1>4. IsFiniteSet(W)
  <2>1. IsFiniteSet(Filings)
    BY FactAssumption
  <2>. HIDE DEF P
  <2>2. IsFiniteSet(Filings \X P)
    BY <1>3, <2>1, FS_Product
  <2>3. IsFiniteSet(BOOLEAN)
    <3>1. IsFiniteSet({TRUE}) /\ IsFiniteSet({FALSE})
      BY FS_Singleton
    <3>2. BOOLEAN = {TRUE} \cup {FALSE}
      OBVIOUS
    <3>3. IsFiniteSet({TRUE} \cup {FALSE})
      BY <3>1, FS_Union
    <3>. QED  BY <3>2, <3>3
  <2>4. IsFiniteSet(BOOLEAN \X BOOLEAN)
    BY <2>3, FS_Product
  <2>. QED  BY <2>2, <2>4, FS_Product
<1>5. IsFiniteSet(All)
  <2>1. \A y : y \in All <=> \E x \in W : y = rec[x]
    OBVIOUS
  <2>. HIDE DEF All, W, rec
  <2>. QED  BY <1>4, <2>1, ImageIsFinite
<1>6. ASSUME NEW r \in rows
      PROVE  r \in All
  <2>10. PICK n \in Published(now) :
           \E o \in filing[n].facts : \E framed, exact \in BOOLEAN : r = Record(n, o, framed, exact)
    BY DEF Stored
  <2>11. PICK o \in filing[n].facts : \E framed, exact \in BOOLEAN : r = Record(n, o, framed, exact)
    BY <2>10
  <2>12. PICK framed \in BOOLEAN : \E exact \in BOOLEAN : r = Record(n, o, framed, exact)
    BY <2>11
  <2>1. PICK exact \in BOOLEAN : r = Record(n, o, framed, exact)
    BY <2>12
  <2>2. n \in Filings /\ o \in P
    BY DEF Published
  <2>. DEFINE x == <<<<n, o>>, <<framed, exact>>>>
  <2>3. x \in W
    BY <2>2
  <2>4. rec[x] = Record(n, o, framed, exact)
    BY <2>3
  <2>. HIDE DEF rec, W, x
  <2>. QED  BY <2>1, <2>3, <2>4
<1>7. IsFiniteSet(rows)
  <2>1. rows \in SUBSET All
    BY <1>6
  <2>. HIDE DEF All
  <2>. QED  BY <1>5, <2>1, FS_Subset
<1>. QED  BY <1>7, StoredFacts DEF IsRows

-----------------------------------------------------------------------------
\* What saving does

\* What a row is about
Key(r) == <<r.filing, r.concept, r.start, r.end, r.unit>>

LEMMA SameRecord ==
    ASSUME NEW n, NEW o, NEW f, NEW e, NEW m, NEW p, NEW g, NEW d,
           SameFact(Record(n, o, f, e), Record(m, p, g, d))
    PROVE  /\ n = m /\ f = g
           /\ o.concept = p.concept /\ o.start = p.start /\ o.end = p.end /\ o.unit = p.unit
           /\ [Record(m, p, g, d) EXCEPT !.value = Record(n, o, f, e).value] = Record(n, o, f, d)
<1>1. [Record(n, o, f, e) EXCEPT !.value = Record(m, p, g, d).value,
                                 !.known = Record(m, p, g, d).known,
                                 !.exact = Record(m, p, g, d).exact] = Record(m, p, g, d)
  BY DEF SameFact
<1>. DEFINE k(i, x) == IF x THEN filing[i].accepted ELSE Fallback(i)
<1>2. Record(n, o, f, e) =
    [filing |-> n, form |-> filing[n].form, fiscal |-> filing[n].fiscal,
     filed |-> filing[n].filed, concept |-> o.concept, start |-> o.start, end |-> o.end,
     value |-> o.value, unit |-> o.unit, framed |-> f, known |-> k(n, e), exact |-> e]
  BY DEF Record
<1>3. Record(m, p, g, d) =
    [filing |-> m, form |-> filing[m].form, fiscal |-> filing[m].fiscal,
     filed |-> filing[m].filed, concept |-> p.concept, start |-> p.start, end |-> p.end,
     value |-> p.value, unit |-> p.unit, framed |-> g, known |-> k(m, d), exact |-> d]
  BY DEF Record
<1>4. Record(n, o, f, d) =
    [filing |-> n, form |-> filing[n].form, fiscal |-> filing[n].fiscal,
     filed |-> filing[n].filed, concept |-> o.concept, start |-> o.start, end |-> o.end,
     value |-> o.value, unit |-> o.unit, framed |-> f, known |-> k(n, d), exact |-> d]
  BY DEF Record
<1>. HIDE DEF k
<1>. DEFINE R == Record(n, o, f, e)
            Q == Record(m, p, g, d)
<1>5. /\ n = m /\ f = g
      /\ o.concept = p.concept /\ o.start = p.start /\ o.end = p.end /\ o.unit = p.unit
  <2>1. /\ R.filing = n /\ R.framed = f /\ R.concept = o.concept /\ R.start = o.start
        /\ R.end = o.end /\ R.unit = o.unit
    BY <1>2
  <2>2. /\ Q.filing = m /\ Q.framed = g /\ Q.concept = p.concept /\ Q.start = p.start
        /\ Q.end = p.end /\ Q.unit = p.unit
    BY <1>3
  <2>3. DOMAIN R = {"filing", "form", "fiscal", "filed", "concept", "start", "end", "value",
                    "unit", "framed", "known", "exact"}
    BY <1>2
  <2>4. [R EXCEPT !.value = Q.value, !.known = Q.known, !.exact = Q.exact] = Q
    BY <1>1
  <2>. HIDE DEF R, Q
  <2>5. /\ R.filing = Q.filing /\ R.framed = Q.framed /\ R.concept = Q.concept
        /\ R.start = Q.start /\ R.end = Q.end /\ R.unit = Q.unit
    BY <2>3, <2>4
  <2>. QED  BY <2>1, <2>2, <2>5
<1>. QED  BY <1>2, <1>3, <1>4, <1>5

\* A stored row is a record of something published.
LEMMA StoredIsRecord ==
    ASSUME NEW r, Stored(r)
    PROVE  \E o \in filing[r.filing].facts :
              /\ r.filing \in Published(now)
              /\ r.concept = o.concept /\ r.start = o.start /\ r.end = o.end /\ r.unit = o.unit
              /\ r.framed \in BOOLEAN /\ r.exact \in BOOLEAN
              /\ r = Record(r.filing, o, r.framed, r.exact)
<1>0. PICK n \in Published(now) :
         \E o \in filing[n].facts : \E framed, exact \in BOOLEAN : r = Record(n, o, framed, exact)
  BY DEF Stored
<1>1. PICK o \in filing[n].facts : \E framed, exact \in BOOLEAN : r = Record(n, o, framed, exact)
  BY <1>0
<1>2. PICK framed \in BOOLEAN : \E exact \in BOOLEAN : r = Record(n, o, framed, exact)
  BY <1>1
<1>3. PICK exact \in BOOLEAN : r = Record(n, o, framed, exact)
  BY <1>2
<1>4. r.filing = n /\ r.framed = framed /\ r.exact = exact
      /\ r.concept = o.concept /\ r.start = o.start /\ r.end = o.end /\ r.unit = o.unit
  BY <1>3 DEF Record
<1>. QED  BY <1>3, <1>4

LEMMA RecordIsStored ==
    ASSUME NEW n \in Published(now), NEW o \in filing[n].facts,
           NEW framed \in BOOLEAN, NEW exact \in BOOLEAN
    PROVE  Stored(Record(n, o, framed, exact))
  BY DEF Stored

LEMMA SavedFacts ==
    ASSUME NEW stored, \A r \in stored : Stored(r),
           NEW incoming, \A r \in incoming : Stored(r)
    PROVE  /\ \A r \in Saved(stored, incoming) :
                 /\ Stored(r)
                 /\ \E y \in stored \cup incoming :
                       Key(y) = Key(r) /\ y.framed = r.framed /\ (r.exact => y.exact)
           /\ \A y \in stored \cup incoming : \E r \in Saved(stored, incoming) :
                 Key(r) = Key(y) /\ (y.exact => r.exact)
<1>. DEFINE kept == {r \in stored : \A q \in incoming : ~Improves(r, q)}
            better(s, q) == [q EXCEPT !.value = s.value]
            improved == {better(p[1], p[2]) : p \in {p \in stored \X incoming : Improves(p[1], p[2])}}
            new == {q \in incoming : \A r \in stored : ~SameFact(r, q)}
<1>1. Saved(stored, incoming) = (kept \cup improved) \cup new
  BY DEF Saved
<1>2. ASSUME NEW s \in stored, NEW q \in incoming, SameFact(s, q)
      PROVE  /\ Stored(better(s, q))
             /\ Key(better(s, q)) = Key(q) /\ Key(q) = Key(s)
             /\ better(s, q).framed = q.framed /\ better(s, q).exact = q.exact
  <2>1. PICK o \in filing[s.filing].facts :
              /\ s.filing \in Published(now)
              /\ s.concept = o.concept /\ s.start = o.start /\ s.end = o.end /\ s.unit = o.unit
              /\ s.framed \in BOOLEAN /\ s.exact \in BOOLEAN
              /\ s = Record(s.filing, o, s.framed, s.exact)
    BY StoredIsRecord
  <2>2. PICK p \in filing[q.filing].facts :
              /\ q.filing \in Published(now)
              /\ q.concept = p.concept /\ q.start = p.start /\ q.end = p.end /\ q.unit = p.unit
              /\ q.framed \in BOOLEAN /\ q.exact \in BOOLEAN
              /\ q = Record(q.filing, p, q.framed, q.exact)
    BY StoredIsRecord
  <2>3. SameFact(Record(s.filing, o, s.framed, s.exact), Record(q.filing, p, q.framed, q.exact))
    BY <1>2, <2>1, <2>2
  <2>4. /\ s.filing = q.filing /\ s.framed = q.framed
        /\ o.concept = p.concept /\ o.start = p.start /\ o.end = p.end /\ o.unit = p.unit
        /\ [Record(q.filing, p, q.framed, q.exact) EXCEPT !.value = Record(s.filing, o, s.framed, s.exact).value]
              = Record(s.filing, o, s.framed, q.exact)
    BY <2>3, SameRecord
  <2>5. better(s, q) = Record(s.filing, o, s.framed, q.exact)
    BY <2>1, <2>2, <2>4
  <2>6. Stored(Record(s.filing, o, s.framed, q.exact))
    BY <2>1, <2>2, RecordIsStored
  <2>7. /\ better(s, q).filing = s.filing /\ better(s, q).framed = s.framed
        /\ better(s, q).exact = q.exact
        /\ better(s, q).concept = o.concept /\ better(s, q).start = o.start
        /\ better(s, q).end = o.end /\ better(s, q).unit = o.unit
    BY <2>5 DEF Record
  <2>. HIDE DEF better
  <2>. QED  BY <2>1, <2>2, <2>4, <2>5, <2>6, <2>7 DEF Key
<1>3. ASSUME NEW s \in stored, NEW q \in incoming, Improves(s, q)
      PROVE  better(s, q) \in improved
  <2>1. <<s, q>> \in {p \in stored \X incoming : Improves(p[1], p[2])}
    BY <1>3
  <2>. HIDE DEF better
  <2>. QED  BY <2>1
<1>4. ASSUME NEW r \in improved
      PROVE  \E s \in stored : \E q \in incoming : Improves(s, q) /\ r = better(s, q)
  <2>. HIDE DEF better
  <2>. QED  OBVIOUS
<1>. HIDE DEF better, improved
<1>5. ASSUME NEW r \in Saved(stored, incoming)
      PROVE  /\ Stored(r)
             /\ \E y \in stored \cup incoming :
                   Key(y) = Key(r) /\ y.framed = r.framed /\ (r.exact => y.exact)
  <2>1. CASE r \in improved
    <3>1. PICK s \in stored : \E q \in incoming : Improves(s, q) /\ r = better(s, q)
      BY <1>4, <2>1
    <3>2. PICK q \in incoming : Improves(s, q) /\ r = better(s, q)
      BY <3>1
    <3>3. SameFact(s, q)
      BY <3>2 DEF Improves
    <3>4. /\ Stored(better(s, q)) /\ Key(better(s, q)) = Key(q)
          /\ better(s, q).framed = q.framed /\ better(s, q).exact = q.exact
      BY <1>2, <3>3
    <3>. QED  BY <3>2, <3>4
  <2>2. CASE r \in kept \cup new
    BY <2>2
  <2>. QED  BY <1>1, <2>1, <2>2
<1>6. ASSUME NEW s \in stored
      PROVE  \E r \in Saved(stored, incoming) : Key(r) = Key(s) /\ (s.exact => r.exact)
  <2>1. CASE \E q \in incoming : Improves(s, q)
    <3>1. PICK q \in incoming : Improves(s, q)
      BY <2>1
    <3>2. SameFact(s, q) /\ q.exact
      BY <3>1 DEF Improves
    <3>3. Key(better(s, q)) = Key(q) /\ Key(q) = Key(s) /\ better(s, q).exact = q.exact
      BY <1>2, <3>2
    <3>4. better(s, q) \in Saved(stored, incoming)
      BY <1>1, <1>3, <3>1
    <3>. QED  BY <3>2, <3>3, <3>4
  <2>2. CASE \A q \in incoming : ~Improves(s, q)
    BY <1>1, <2>2
  <2>. QED  BY <2>1, <2>2
<1>7. ASSUME NEW q \in incoming
      PROVE  \E r \in Saved(stored, incoming) : Key(r) = Key(q) /\ (q.exact => r.exact)
  <2>1. CASE \E s \in stored : SameFact(s, q)
    <3>1. PICK s \in stored : SameFact(s, q)
      BY <2>1
    <3>2. Key(better(s, q)) = Key(q) /\ Key(q) = Key(s) /\ better(s, q).exact = q.exact
      BY <1>2, <3>1
    <3>3. CASE Improves(s, q)
      <4>1. better(s, q) \in Saved(stored, incoming)
        BY <1>1, <1>3, <3>3
      <4>. QED  BY <3>2, <4>1
    <3>4. CASE ~Improves(s, q)
      <4>1. q.exact => s.exact
        BY <3>1, <3>4 DEF Improves
      <4>2. PICK r \in Saved(stored, incoming) : Key(r) = Key(s) /\ (s.exact => r.exact)
        BY <1>6
      <4>. QED  BY <3>2, <4>1, <4>2
    <3>. QED  BY <3>3, <3>4
  <2>2. CASE \A s \in stored : ~SameFact(s, q)
    BY <1>1, <2>2
  <2>. QED  BY <2>1, <2>2
<1>. QED  BY <1>5, <1>6, <1>7

LEMMA KeyParts ==
    ASSUME NEW r, NEW q
    PROVE  Key(r) = Key(q) <=>
             /\ r.filing = q.filing /\ r.concept = q.concept
             /\ r.start = q.start /\ r.end = q.end /\ r.unit = q.unit
  BY DEF Key

LEMMA SavedIsToldWhole ==
    ASSUME NEW stored, \A r \in stored : Stored(r), ToldWhole(stored),
           NEW incoming, \A r \in incoming : Stored(r), ToldWhole(incoming)
    PROVE  ToldWhole(Saved(stored, incoming))
<1>. DEFINE Is(q, n, o) == q.filing = n /\ q.concept = o.concept /\ q.start = o.start
                           /\ q.end = o.end /\ q.unit = o.unit
<1>1. ASSUME NEW rows PROVE ToldWhole(rows) <=>
        \A r \in rows : \A o \in filing[r.filing].facts : \E q \in rows :
           Is(q, r.filing, o) /\ (r.exact => q.exact)
  BY DEF ToldWhole
<1>2. ASSUME NEW r \in Saved(stored, incoming), NEW o \in filing[r.filing].facts
      PROVE  \E q \in Saved(stored, incoming) : Is(q, r.filing, o) /\ (r.exact => q.exact)
  <2>1. PICK y \in stored \cup incoming : y.filing = r.filing /\ (r.exact => y.exact)
    BY SavedFacts, KeyParts
  <2>2. \E x \in stored \cup incoming : Is(x, y.filing, o) /\ (y.exact => x.exact)
    <3>. HIDE DEF Is
    <3>1. CASE y \in stored
      BY <1>1, <2>1, <3>1
    <3>2. CASE y \in incoming
      BY <1>1, <2>1, <3>2
    <3>. QED  BY <3>1, <3>2
  <2>3. PICK x \in stored \cup incoming : Is(x, y.filing, o) /\ (y.exact => x.exact)
    BY <2>2
  <2>4. PICK q \in Saved(stored, incoming) : Key(q) = Key(x) /\ (x.exact => q.exact)
    BY SavedFacts
  <2>5. Is(q, r.filing, o)
    BY <2>1, <2>3, <2>4, KeyParts
  <2>. QED  BY <2>1, <2>3, <2>4, <2>5
<1>. HIDE DEF Is
<1>. QED  BY <1>1, <1>2

\* The rows of one answer of the SEC
Answer(t, s) == {Row(fact, s) : fact \in Facts(t)}

LEMMA AnswerFacts ==
    ASSUME filing \in Histories, now \in Nat, NEW t \in Nat, t <= now, NEW s
    PROVE  (\A r \in Answer(t, s) : Stored(r)) /\ ToldWhole(Answer(t, s))
<1>. DEFINE Exact(n) == s # None /\ n \in Listed(s)
            framed(n, o) == {p \in Published(t) : /\ filing[p].accepted > filing[n].accepted
                                                  /\ \E q \in filing[p].facts :
                                                        <<q.concept, q.start, q.end>> = <<o.concept, o.start, o.end>>} = {}
            fact(n, o) == [filing |-> n, observation |-> o, framed |-> framed(n, o)]
<1>1. Facts(t) = UNION {{fact(n, o) : o \in filing[n].facts} : n \in Published(t)}
  BY DEF Facts
<1>2. ASSUME NEW n, NEW o PROVE Row(fact(n, o), s) = Record(n, o, framed(n, o), Exact(n))
  <2>1. fact(n, o).filing = n /\ fact(n, o).observation = o /\ fact(n, o).framed = framed(n, o)
    OBVIOUS
  <2>. HIDE DEF fact, framed
  <2>. QED  BY <2>1 DEF Row, Record
<1>3. ASSUME NEW n, NEW o PROVE framed(n, o) \in BOOLEAN /\ Exact(n) \in BOOLEAN
  OBVIOUS
<1>. HIDE DEF framed, fact, Exact
<1>4. ASSUME NEW n \in Published(t), NEW o \in filing[n].facts
      PROVE  Record(n, o, framed(n, o), Exact(n)) \in Answer(t, s)
  <2>1. fact(n, o) \in Facts(t)
    BY <1>1
  <2>. QED  BY <1>2, <2>1 DEF Answer
<1>5. ASSUME NEW r \in Answer(t, s)
      PROVE  \E n \in Published(t) : \E o \in filing[n].facts : r = Record(n, o, framed(n, o), Exact(n))
  <2>1. PICK x \in Facts(t) : r = Row(x, s)
    BY DEF Answer
  <2>2. PICK n \in Published(t) : x \in {fact(n, o) : o \in filing[n].facts}
    BY <1>1
  <2>3. PICK o \in filing[n].facts : x = fact(n, o)
    BY <2>2
  <2>. QED  BY <1>2, <2>1, <2>3
<1>6. Published(t) \subseteq Published(now)
  BY FilingType DEF Published
<1>7. ASSUME NEW r \in Answer(t, s) PROVE Stored(r)
  <2>1. PICK n \in Published(t) : \E o \in filing[n].facts : r = Record(n, o, framed(n, o), Exact(n))
    BY <1>5
  <2>2. PICK o \in filing[n].facts : r = Record(n, o, framed(n, o), Exact(n))
    BY <2>1
  <2>. QED  BY <1>3, <1>6, <2>2, RecordIsStored
<1>8. ASSUME NEW r \in Answer(t, s), NEW o \in filing[r.filing].facts
      PROVE  \E q \in Answer(t, s) :
                /\ q.filing = r.filing
                /\ <<q.concept, q.start, q.end, q.unit>> = <<o.concept, o.start, o.end, o.unit>>
                /\ r.exact => q.exact
  <2>1. PICK n \in Published(t) : \E p \in filing[n].facts : r = Record(n, p, framed(n, p), Exact(n))
    BY <1>5
  <2>2. r.filing = n /\ r.exact = Exact(n)
    BY <2>1 DEF Record
  <2>. DEFINE q == Record(n, o, framed(n, o), Exact(n))
  <2>3. q \in Answer(t, s)
    BY <1>4, <2>2
  <2>4. /\ q.filing = n /\ q.exact = Exact(n)
        /\ q.concept = o.concept /\ q.start = o.start /\ q.end = o.end /\ q.unit = o.unit
    BY DEF Record
  <2>. HIDE DEF q
  <2>. QED  BY <2>2, <2>3, <2>4
<1>. QED  BY <1>7, <1>8 DEF ToldWhole

LEMMA StoredLater ==
    ASSUME filing \in Histories, filing' = filing, now \in Nat, now' \in Nat, now <= now',
           NEW r, Stored(r)
    PROVE  Stored(r)'
<1>1. Published(now) \subseteq Published(now)'
  BY FilingType DEF Published
<1>2. PICK o \in filing[r.filing].facts :
           /\ r.filing \in Published(now)
           /\ r.framed \in BOOLEAN /\ r.exact \in BOOLEAN
           /\ r = Record(r.filing, o, r.framed, r.exact)
  BY StoredIsRecord
<1>3. Record(r.filing, o, r.framed, r.exact) = Record(r.filing, o, r.framed, r.exact)'
  BY DEF Record, Fallback
<1>. QED  BY <1>1, <1>2, <1>3 DEF Stored

LEMMA StoreInit == FactInit => StoreInv
<1>. SUFFICES ASSUME FactInit PROVE StoreInv
  OBVIOUS
<1>1. payloads = [facts |-> None, submissions |-> None]
  BY DEF FactInit
<1>. QED  BY <1>1 DEF FactInit, StoreInv, ToldWhole

\* The store keeps its invariant, and what was published stays as it is.
LEMMA StoreStep ==
    ASSUME StoreInv, FactNext
    PROVE  StoreInv' /\ filing' = filing /\ now' \in Nat /\ now <= now'
<1>1. CASE Pass
  <2>1. /\ filing' = filing /\ payloads' = payloads /\ facts' = facts
        /\ now' \in Nat /\ now <= now' /\ now \in Nat
    BY <1>1, FactAssumption DEF Pass, StoreInv
  <2>2. \A r \in facts' : Stored(r)'
    BY <2>1, StoredLater DEF StoreInv
  <2>3. ToldWhole(facts)'
    BY <2>1 DEF StoreInv, ToldWhole
  <2>4. \A p \in DOMAIN payloads : payloads[p] = None \/ (payloads[p] \in Nat /\ payloads[p] <= now')
    BY <2>1 DEF StoreInv
  <2>. QED  BY <2>1, <2>2, <2>3, <2>4 DEF StoreInv
<1>2. CASE \E answered \in SUBSET DOMAIN payloads : Sync(answered)
  <2>1. PICK answered \in SUBSET DOMAIN payloads : Sync(answered)
    BY <1>2
  <2>. DEFINE kept == [p \in DOMAIN payloads |-> IF p \in answered THEN now ELSE payloads[p]]
  <2>2. /\ filing' = filing /\ now' = now /\ payloads' = kept
        /\ facts' = IF kept.facts = None THEN facts ELSE Saved(facts, Answer(kept.facts, kept.submissions))
    BY <2>1 DEF Sync, Answer
  <2>3. /\ DOMAIN kept = {"facts", "submissions"}
        /\ \A p \in DOMAIN kept : kept[p] = None \/ (kept[p] \in Nat /\ kept[p] <= now)
    BY DEF StoreInv
  <2>. HIDE DEF kept
  <2>4. (\A r \in facts' : Stored(r)) /\ ToldWhole(facts')
    <3>1. CASE kept.facts = None
      BY <2>2, <3>1 DEF StoreInv
    <3>2. CASE kept.facts # None
      <4>1. kept.facts \in Nat /\ kept.facts <= now
        BY <2>3, <3>2
      <4>. DEFINE incoming == Answer(kept.facts, kept.submissions)
      <4>2. (\A r \in incoming : Stored(r)) /\ ToldWhole(incoming)
        BY <4>1, AnswerFacts DEF StoreInv
      <4>3. (\A r \in facts : Stored(r)) /\ ToldWhole(facts)
        BY DEF StoreInv
      <4>. HIDE DEF incoming
      <4>4. (\A r \in Saved(facts, incoming) : Stored(r)) /\ ToldWhole(Saved(facts, incoming))
        BY <4>2, <4>3, SavedFacts, SavedIsToldWhole
      <4>. QED  BY <2>2, <3>2, <4>4 DEF incoming
    <3>. QED  BY <3>1, <3>2
  <2>5. \A r \in facts' : Stored(r)'
    BY <2>2, <2>4, StoredLater DEF StoreInv
  <2>6. ToldWhole(facts)'
    BY <2>2, <2>4 DEF ToldWhole
  <2>. QED  BY <2>2, <2>3, <2>5, <2>6 DEF StoreInv
<1>. QED  BY <1>1, <1>2 DEF FactNext

-----------------------------------------------------------------------------
\* The valuation of many sessions

LEMMA DayFacts ==
    ASSUME NEW t \in Nat
    PROVE  /\ Day(t) \in Nat /\ 4 * Day(t) <= t /\ t <= 4 * Day(t) + 3
           /\ \A d \in Int : Close(d) \in Int /\ Close(d) = 4 * d + 2
<1>1. t \div 4 \in Nat /\ 4 * (t \div 4) <= t /\ t <= 4 * (t \div 4) + 3
  OBVIOUS
<1>. QED  BY <1>1 DEF Day, Close

LEMMA SessionsFacts ==
    ASSUME NEW t \in Nat, now \in Nat
    PROVE  /\ IsFiniteSet(SessionsUntil(t))
           /\ SessionsUntil(t) \subseteq Nat /\ SessionsUntil(t) \subseteq Int
           /\ SessionsUntil(t) \subseteq Sessions
           /\ \A d \in SessionsUntil(t) : \A x \in Sessions : x < d => x \in SessionsUntil(t)
<1>1. SessionsUntil(t) = {d \in Sessions : d <= Day(now) /\ 4 * d < now /\ d <= Day(t)}
  BY DEF SessionsUntil, Priced
<1>2. Day(t) \in Nat /\ Day(now) \in Nat
  BY DayFacts
<1>3. \A d \in Sessions : d \in Nat
  BY SessionsAssumption
<1>. DEFINE D == Day(t)
            N == Day(now)
<1>10. D \in Nat /\ N \in Nat /\ now \in Nat
  BY <1>2
<1>11. \A d : d \in SessionsUntil(t) <=> d \in Sessions /\ d <= N /\ 4 * d < now /\ d <= D
  BY <1>1
<1>. HIDE DEF D, N
<1>12. \A d \in SessionsUntil(t) : d \in 0 .. D
  BY <1>3, <1>10, <1>11
<1>4. SessionsUntil(t) \in SUBSET (0 .. Day(t))
  BY <1>12 DEF D
<1>5. IsFiniteSet(0 .. Day(t))
  <2>1. 0 \in Int /\ D \in Int
    BY <1>10
  <2>2. IsFiniteSet(0 .. D)
    BY ONLY <2>1, FS_Interval
  <2>. QED  BY <2>2 DEF D
<1>6. IsFiniteSet(SessionsUntil(t))
  BY <1>4, <1>5, FS_Subset
<1>7. ASSUME NEW d \in SessionsUntil(t), NEW x \in Sessions, x < d
      PROVE  x \in SessionsUntil(t)
  <2>1. d \in Nat /\ x \in Nat /\ d <= N /\ 4 * d < now /\ d <= D
    BY <1>3, <1>11
  <2>2. x <= N /\ 4 * x < now /\ x <= D
    BY <1>7, <1>10, <2>1
  <2>. QED  BY <1>11, <2>2
<1>8. \A d \in SessionsUntil(t) : d \in Nat /\ d \in Int /\ d \in Sessions
  BY <1>3, <1>11
<1>. QED  BY <1>6, <1>7, <1>8

\* The snapshot a session uses
Snapshot(rows, t, d) ==
    SnapshotAt(Snapshots(rows, Close(Min(SessionsUntil(t))), Close(Max(SessionsUntil(t)))), Close(d))

\* What is known at the snapshot of a session is what is known at its close.
LEMMA SnapshotFacts ==
    ASSUME NEW rows, IsRows(rows), NEW t \in Nat, now \in Nat, NEW d \in SessionsUntil(t)
    PROVE  /\ Snapshot(rows, t, d) = {} => KnownAt(rows, Close(d)) = {}
           /\ Snapshot(rows, t, d) # {} =>
                 /\ Max(Snapshot(rows, t, d)) \in Nat
                 /\ Max(Snapshot(rows, t, d)) <= Close(d)
                 /\ KnownAt(rows, Max(Snapshot(rows, t, d))) = KnownAt(rows, Close(d))
<1>. DEFINE days == SessionsUntil(t)
            first == Close(Min(days))
            last == Close(Max(days))
            close == Close(d)
            known == {r.known : r \in KnownAt(rows, last)}
            base == {x \in known : x <= first}
            top == IF base = {} THEN {} ELSE {Max(base)}
            At == {x \in top \cup {y \in known : y > first} : x <= close}
<1>1. Snapshot(rows, t, d) = At
  BY DEF Snapshot, SnapshotAt, Snapshots
<1>2. first \in Int /\ last \in Int /\ close \in Int /\ first <= close /\ close <= last
  <2>1. IsFiniteSet(days) /\ days \in SUBSET Int /\ d \in days
    BY SessionsFacts
  <2>. HIDE DEF days
  <2>2. Min(days) \in Int /\ Max(days) \in Int /\ Min(days) <= d /\ d <= Max(days) /\ d \in Int
    BY <2>1, ExtremesOf
  <2>. QED  BY <2>2 DEF Close
<1>. HIDE DEF first, last, close, days
<1>3. \A r \in rows : r.known \in Nat
  BY DEF IsRows, IsRow
<1>4. /\ \A x \in known : x \in Nat /\ x \in Int
      /\ \A r \in rows : r.known <= last => r.known \in known
      /\ \A x \in known : x <= last
  BY <1>3 DEF KnownAt
<1>5. IsFiniteSet(known)
  <2>. DEFINE f == [r \in KnownAt(rows, last) |-> r.known]
  <2>1. KnownAt(rows, last) \in SUBSET rows
    BY DEF KnownAt
  <2>2. IsFiniteSet(KnownAt(rows, last))
    BY <2>1, FS_Subset DEF IsRows
  <2>3. \A y : y \in known <=> \E r \in KnownAt(rows, last) : y = f[r]
    OBVIOUS
  <2>. HIDE DEF known, f
  <2>. QED  BY <2>2, <2>3, ImageIsFinite
<1>. HIDE DEF known
<1>6. base # {} => Max(base) \in base /\ \A x \in base : x <= Max(base)
  <2>1. base \in SUBSET known
    OBVIOUS
  <2>2. base \in SUBSET Int
    BY <1>4, <2>1
  <2>. HIDE DEF base
  <2>3. IsFiniteSet(base)
    BY <1>5, <2>1, FS_Subset
  <2>. QED  BY <2>2, <2>3, ExtremesOf
<1>7. At \in SUBSET known
  BY <1>6
<1>8. At # {} => Max(At) \in At /\ \A x \in At : x <= Max(At)
  <2>1. At \in SUBSET Int
    BY <1>4, <1>7
  <2>. HIDE DEF At
  <2>2. IsFiniteSet(At)
    BY <1>5, <1>7, FS_Subset
  <2>. QED  BY <2>1, <2>2, ExtremesOf
<1>9. ASSUME NEW r \in rows, r.known <= close
      PROVE  \E x \in At : r.known <= x
  <2>1. r.known \in known /\ r.known \in Nat
    BY <1>2, <1>3, <1>4, <1>9
  <2>2. CASE r.known > first
    BY <1>9, <2>1, <2>2
  <2>3. CASE r.known <= first
    <3>1. r.known \in base
      BY <2>1, <2>3
    <3>2. Max(base) \in base /\ r.known <= Max(base)
      BY <1>6, <3>1
    <3>5. Max(base) \in known /\ Max(base) <= first
      BY <3>2
    <3>3. Max(base) <= close
      <4>1. \A x \in known : x <= first => x <= close
        BY <1>2, <1>4
      <4>. HIDE DEF base
      <4>. QED  BY <3>5, <4>1
    <3>4. Max(base) \in top
      BY <3>1
    <3>. QED  BY <3>2, <3>3, <3>4
  <2>. QED  BY <1>2, <2>1, <2>2, <2>3
<1>10. ASSUME At = {} PROVE KnownAt(rows, close) = {}
  BY <1>9, <1>10 DEF KnownAt
<1>11. ASSUME At # {}
       PROVE  Max(At) \in Nat /\ Max(At) <= close /\ KnownAt(rows, Max(At)) = KnownAt(rows, close)
  <2>1. Max(At) \in At /\ \A x \in At : x <= Max(At)
    BY <1>8, <1>11
  <2>2. Max(At) \in Nat /\ Max(At) <= close
    BY <1>4, <1>7, <2>1
  <2>. DEFINE top2 == Max(At)
  <2>3. \A x \in At : x \in Nat
    BY <1>4, <1>7
  <2>4. \A x \in At : x <= top2
    BY <2>1
  <2>5. top2 \in Nat /\ top2 <= close
    BY <2>2
  <2>. HIDE DEF top2, At
  <2>6. ASSUME NEW r \in rows PROVE r.known <= top2 <=> r.known <= close
    <3>1. r.known \in Nat
      BY <1>3
    <3>2. r.known <= close => r.known <= top2
      BY <1>9, <2>3, <2>4, <2>5, <3>1
    <3>. QED  BY <1>2, <2>5, <3>1, <3>2
  <2>7. KnownAt(rows, top2) = KnownAt(rows, close)
    BY <2>6 DEF KnownAt
  <2>. QED  BY <2>5, <2>7 DEF top2
<1>. HIDE DEF At
<1>. QED  BY <1>1, <1>10, <1>11 DEF close

\* Where nothing is known there is no trailing year.
LEMMA NothingIsKnown == Fundamentals({}) = None
<1>1. InOrderOfEnd({}) = << >>
  <2>1. Cardinality({}) = 0
    BY FS_EmptySet
  <2>2. InOrderOfEnd({}) =
          [i \in 1 .. 0 |-> CHOOSE p \in {} : Cardinality({q \in {} : q.end < p.end}) = i - 1]
    BY <2>1 DEF InOrderOfEnd
  <2>. QED  BY <2>2
<1>2. ReportedPeriods({}, "quarterly") = {} /\ ReportedPeriods({}, "annual") = {}
  BY DEF ReportedPeriods
<1>3. FourthQuarters({}, {}) = {}
  BY DEF FourthQuarters
<1>4. QuarterlyPeriods({}) = << >>
  <2>1. {} \cup {} = {}
    OBVIOUS
  <2>. QED  BY <1>1, <1>2, <1>3, <2>1 DEF QuarterlyPeriods, WithFourth
<1>5. TrailingOf(<< >>) = << >>
  <2>1. \A n : n \in 4 .. Len(<< >>) => FALSE
    OBVIOUS
  <2>2. TrailingOf(<< >>) = InOrderOfEnd({})
    BY <2>1 DEF TrailingOf
  <2>. QED  BY <1>1, <2>2
<1>. QED  BY <1>4, <1>5 DEF Fundamentals, LastOf, TrailingPeriods

LEMMA PointFacts ==
    ASSUME NEW d, NEW time, NEW year
    PROVE  /\ [Point(d, time, year) EXCEPT !.known = None] = Point(d, None, year)
           /\ Point(d, time, year).filings =
                 UNION {(IF year = None THEN NoMetric ELSE year.metrics[m]).filings :
                          m \in {"shares", "revenue", "cash", "debt"}}
<1>. DEFINE metric(m) == IF year = None THEN NoMetric ELSE year.metrics[m]
            shares  == metric("shares").value
            revenue == metric("revenue").value
            cap     == IF shares = None \/ shares <= 0 THEN None ELSE Price[d] * shares
            value   == Plus(cap, Minus(metric("debt").value, metric("cash").value))
            Status(numerator) ==
                IF None \in {cap, revenue} THEN "unavailable"
                ELSE IF revenue <= 0 THEN "nm"
                ELSE IF numerator = None THEN "unavailable"
                ELSE "available"
            end == IF year = None THEN None ELSE year.end
            sources == UNION {metric(m).filings : m \in {"shares", "revenue", "cash", "debt"}}
            told == IF cap = None THEN None ELSE revenue
            sales == Status(cap)
            ev == Status(value)
<1>1. ASSUME NEW x
      PROVE  Point(d, x, year) = [known |-> x, end |-> end, filings |-> sources, cap |-> cap,
                                  enterprise |-> value, revenue |-> told, sales |-> sales, ev |-> ev]
  BY DEF Point
<1>. HIDE DEF end, cap, value, told, sales, ev, sources
<1>2. Point(d, time, year).filings = sources
  BY <1>1
<1>3. [Point(d, time, year) EXCEPT !.known = None] = Point(d, None, year)
  BY <1>1
<1>. QED  BY <1>2, <1>3 DEF sources

LEMMA StoredRows ==
    ASSUME StoreInv, NEW rows \in SUBSET facts
    PROVE  IsRows(rows)
<1>1. filing \in Histories /\ \A r \in rows : Stored(r)
  BY DEF StoreInv
<1>. QED  BY <1>1, StoreIsFinite

\* A session uses filings accepted by its close only, and all that was known then.
LEMMA ValuationFacts ==
    ASSUME StoreInv, NEW t \in Nat
    PROVE  /\ DOMAIN Valuation(facts, t) = SessionsUntil(t)
           /\ \A d \in SessionsUntil(t) :
                 /\ \A n \in Valuation(facts, t)[d].filings : n \in Filings /\ filing[n].accepted <= Close(d)
                 /\ [Valuation(facts, t)[d] EXCEPT !.known = None]
                       = Point(d, None, Fundamentals(KnownAt(facts, Close(d))))
<1>. DEFINE At(d) == Snapshot(facts, t, d)
            years(d) == Fundamentals(KnownAt(facts, Max(At(d))))
<1>1. Valuation(facts, t) = [d \in SessionsUntil(t) |-> IF At(d) = {} THEN NoPoint(d)
                                                        ELSE Point(d, Max(At(d)), years(d))]
  BY DEF Valuation, Snapshot
<1>. HIDE DEF At, years
<1>2. ASSUME NEW d \in SessionsUntil(t)
      PROVE  /\ \A n \in Valuation(facts, t)[d].filings : n \in Filings /\ filing[n].accepted <= Close(d)
             /\ [Valuation(facts, t)[d] EXCEPT !.known = None]
                   = Point(d, None, Fundamentals(KnownAt(facts, Close(d))))
  <2>1. IsRows(facts) /\ now \in Nat
    BY StoredRows DEF StoreInv
  <2>2. /\ At(d) = {} => KnownAt(facts, Close(d)) = {}
        /\ At(d) # {} => /\ Max(At(d)) \in Nat
                         /\ Max(At(d)) <= Close(d)
                         /\ KnownAt(facts, Max(At(d))) = KnownAt(facts, Close(d))
    BY <2>1, SnapshotFacts DEF At
  <2>3. CASE At(d) = {}
    <3>1. Valuation(facts, t)[d] = Point(d, None, None)
      BY <1>1, <2>3 DEF NoPoint
    <3>2. Fundamentals(KnownAt(facts, Close(d))) = None
      BY <2>2, <2>3, NothingIsKnown
    <3>3. Point(d, None, None).filings = {}
      <4>1. Point(d, None, None).filings =
              UNION {NoMetric.filings : m \in {"shares", "revenue", "cash", "debt"}}
        BY PointFacts
      <4>. QED  BY <4>1 DEF NoMetric
    <3>. QED  BY <3>1, <3>2, <3>3, PointFacts
  <2>4. CASE At(d) # {}
    <3>. DEFINE rows == KnownAt(facts, Close(d))
                year == Fundamentals(rows)
    <3>1. Valuation(facts, t)[d] = Point(d, Max(At(d)), year)
      BY <1>1, <2>2, <2>4 DEF years
    <3>2. rows \in SUBSET facts /\ \A r \in rows : r.known <= Close(d)
      BY DEF KnownAt
    <3>. HIDE DEF rows
    <3>3. IsRows(rows)
      BY <3>2, StoredRows
    <3>4. year = None \/ \A m \in Metrics : Sourced(year.metrics[m], rows)
      BY <3>3, FundamentalsAreFromRows
    <3>. HIDE DEF year
    <3>5. ASSUME NEW n \in FilingsOf(rows)
          PROVE  n \in Filings /\ filing[n].accepted <= Close(d)
      <4>1. PICK r \in rows : n = r.filing
        BY DEF FilingsOf
      <4>2. Stored(r) /\ filing \in Histories
        BY <3>2 DEF StoreInv
      <4>3. /\ r.filing \in Filings /\ filing[r.filing].accepted <= r.known /\ r.known \in Nat
        BY <4>2, StoredFacts DEF IsRow
      <4>4. filing[r.filing].accepted \in Nat
        BY <4>2, <4>3, FilingType
      <4>5. Close(d) \in Int /\ r.known <= Close(d)
        BY <2>1, <3>2, SessionsFacts, DayFacts
      <4>. QED  BY <4>1, <4>3, <4>4, <4>5
    <3>6. ASSUME NEW n \in Point(d, Max(At(d)), year).filings
          PROVE  n \in FilingsOf(rows)
      <4>. DEFINE metric(m) == IF year = None THEN NoMetric ELSE year.metrics[m]
      <4>1. Point(d, Max(At(d)), year).filings =
              UNION {metric(m).filings : m \in {"shares", "revenue", "cash", "debt"}}
        BY PointFacts
      <4>2. PICK m \in {"shares", "revenue", "cash", "debt"} : n \in metric(m).filings
        BY <4>1
      <4>3. m \in Metrics
        BY MetricNames
      <4>4. Sourced(metric(m), rows)
        BY <3>4, <4>3, NothingIsSourced
      <4>. QED  BY <4>2, <4>4 DEF Sourced
    <3>7. [Point(d, Max(At(d)), year) EXCEPT !.known = None] = Point(d, None, year)
      BY PointFacts
    <3>8. [Valuation(facts, t)[d] EXCEPT !.known = None]
             = Point(d, None, Fundamentals(KnownAt(facts, Close(d))))
      BY <3>1, <3>7 DEF year, rows
    <3>. QED  BY <3>1, <3>5, <3>6, <3>8
  <2>. QED  BY <2>3, <2>4
<1>. QED  BY <1>1, <1>2

-----------------------------------------------------------------------------
\* Every valuation is point in time.

\* The points that are stored used what the SEC had accepted by the close.
PointsInv ==
    \A d \in Sessions : points[d] # None =>
        \A n \in points[d].filings : n \in Filings /\ filing[n].accepted <= Close(d)

LEMMA PointsStep ==
    ASSUME StoreInv, PointsInv, [Next]_vars
    PROVE  StoreInv' /\ PointsInv' /\ filing' = filing
<1>1. CASE FactNext /\ UNCHANGED <<answerVars, asked>>
  <2>1. StoreInv' /\ filing' = filing /\ points' = points
    BY <1>1, StoreStep DEF answerVars
  <2>. QED  BY <2>1 DEF PointsInv
<1>2. ASSUME UNCHANGED factVars PROVE StoreInv' /\ filing' = filing
  <2>1. filing' = filing /\ now' = now /\ payloads' = payloads /\ facts' = facts
    BY <1>2 DEF factVars
  <2>2. \A r \in facts' : Stored(r)'
    BY <2>1, StoredLater DEF StoreInv
  <2>. QED  BY <2>1, <2>2 DEF StoreInv, ToldWhole
<1>3. ASSUME NEW t \in Times, Value(t) PROVE StoreInv' /\ PointsInv' /\ filing' = filing
  <2>1. t \in Nat
    BY FactAssumption DEF Times
  <2>2. StoreInv' /\ filing' = filing
    BY <1>2, <1>3 DEF Value
  <2>. DEFINE valuation == Valuation(facts, t)
  <2>3. points' = [d \in Sessions |-> IF d \in DOMAIN valuation THEN valuation[d] ELSE points[d]]
    BY <1>3 DEF Value
  <2>4. \A d \in DOMAIN valuation : \A n \in valuation[d].filings :
           n \in Filings /\ filing[n].accepted <= Close(d)
    BY <2>1, ValuationFacts
  <2>. HIDE DEF valuation
  <2>. QED  BY <2>2, <2>3, <2>4 DEF PointsInv
<1>4. ASSUME NEW t \in Times, Analyze(t) PROVE StoreInv' /\ PointsInv' /\ filing' = filing
  <2>1. StoreInv' /\ filing' = filing /\ points' = points
    BY <1>2, <1>4 DEF Analyze
  <2>. QED  BY <2>1 DEF PointsInv
<1>5. CASE UNCHANGED vars
  <2>1. StoreInv' /\ filing' = filing /\ points' = points
    BY <1>2, <1>5 DEF vars, answerVars
  <2>. QED  BY <2>1 DEF PointsInv
<1>. QED  BY <1>1, <1>3, <1>4, <1>5 DEF Next

LEMMA PointsInit == Init => StoreInv /\ PointsInv
<1>. SUFFICES ASSUME Init PROVE StoreInv /\ PointsInv
  OBVIOUS
<1>1. StoreInv
  BY StoreInit DEF Init
<1>2. PointsInv
  BY DEF Init, PointsInv
<1>. QED  BY <1>1, <1>2

\* Whatever a company files, whenever and in whatever order its facts arrive,
\* and whatever is asked: a stored row is an observation of a filing the SEC has
\* published, with the time of its acceptance or with the end of its day, and
\* what is stored of a filing is all it says (fact_repository.py:62).
THEOREM FactsAreOfFilings == Spec => []StoreInv
<1>1. StoreInv /\ PointsInv /\ [Next]_vars => StoreInv' /\ PointsInv'
  BY PointsStep
<1>. QED  BY <1>1, PointsInit, PTL DEF Spec

\* No valuation of a session used a filing the SEC accepted after its close, and
\* the valuation made from snapshots is the one made from all that was known.
THEOREM ValuationsArePointInTime == Spec => []ValuationIsPointInTime
<1>1. StoreInv /\ PointsInv /\ [Next]_vars => StoreInv' /\ PointsInv'
  BY PointsStep
<1>2. StoreInv /\ PointsInv => ValuationIsPointInTime
  <2>. SUFFICES ASSUME StoreInv, PointsInv PROVE ValuationIsPointInTime
    OBVIOUS
  <2>1. \A d \in Sessions : points[d] # None =>
           \A n \in points[d].filings : filing[n].accepted <= Close(d)
    BY DEF PointsInv
  <2>2. ASSUME NEW t \in Times, NEW d \in DOMAIN Valuation(facts, t)
        PROVE  [Valuation(facts, t)[d] EXCEPT !.known = None]
                  = Point(d, None, Fundamentals(KnownAt(facts, Close(d))))
    <3>1. t \in Nat
      BY FactAssumption DEF Times
    <3>. QED  BY <3>1, ValuationFacts
  <2>. QED  BY <2>1, <2>2 DEF ValuationIsPointInTime
<1>. QED  BY <1>1, <1>2, PointsInit, PTL DEF Spec

-----------------------------------------------------------------------------
\* The report of an event

\* The original reports that are known at a time
ReportRows(t) == Filed(KnownAt(facts, t))

LEMMA ReportRowFacts ==
    ASSUME StoreInv, NEW t, NEW r \in ReportRows(t)
    PROVE  /\ r \in facts /\ r.known <= t /\ IsRow(r)
           /\ r.filing \in Filings /\ filing[r.filing].form \in OriginalForms
           /\ r.form = filing[r.filing].form /\ r.filed = filing[r.filing].filed
           /\ filing[r.filing].accepted \in Nat /\ filing[r.filing].accepted <= r.known
           /\ r.known <= Fallback(r.filing) /\ Fallback(r.filing) \in Nat
           /\ r.exact \in BOOLEAN
           /\ r.exact => r.known = filing[r.filing].accepted
           /\ ~r.exact => r.known = Fallback(r.filing)
           /\ IsReport(filing, r.filing)
           /\ \E o \in filing[r.filing].facts :
                 <<o.concept, o.start, o.end, o.value, o.unit>> = <<r.concept, r.start, r.end, r.value, r.unit>>
<1>1. r \in facts /\ r.known <= t /\ r.form \in OriginalForms
  BY DEF ReportRows, Filed, KnownAt
<1>2. filing \in Histories /\ Stored(r)
  BY <1>1 DEF StoreInv
<1>3. /\ IsRow(r) /\ r.filing \in Filings
      /\ filing[r.filing].accepted <= r.known
      /\ r.form = filing[r.filing].form /\ r.filed = filing[r.filing].filed
      /\ r.exact \in BOOLEAN
      /\ r.exact => r.known = filing[r.filing].accepted
      /\ ~r.exact => r.known = Fallback(r.filing)
      /\ \E o \in filing[r.filing].facts :
            <<o.concept, o.start, o.end, o.value, o.unit>> = <<r.concept, r.start, r.end, r.value, r.unit>>
  BY <1>2, StoredFacts
<1>4. /\ filing[r.filing].accepted \in Nat /\ Fallback(r.filing) \in Nat
      /\ filing[r.filing].accepted <= Fallback(r.filing)
  BY <1>2, <1>3, FilingType
<1>5. r.known <= Fallback(r.filing)
  BY <1>3, <1>4
<1>6. IsReport(filing, r.filing)
  BY <1>1, <1>2, <1>3, ReportsAssumption
<1>. QED  BY <1>1, <1>3, <1>4, <1>5, <1>6

\* Every observation of a report is known when one of them is.
LEMMA ReportIsKnownWhole ==
    ASSUME StoreInv, NEW t \in Int, NEW r \in ReportRows(t), NEW o \in filing[r.filing].facts
    PROVE  \E q \in ReportRows(t) :
              /\ q.filing = r.filing /\ q.known <= r.known
              /\ q.concept = o.concept /\ q.start = o.start /\ q.end = o.end /\ q.unit = o.unit
<1>1. r \in facts /\ r.form \in OriginalForms
  BY DEF ReportRows, Filed, KnownAt
<1>2. PICK q \in facts :
        /\ q.filing = r.filing
        /\ <<q.concept, q.start, q.end, q.unit>> = <<o.concept, o.start, o.end, o.unit>>
        /\ r.exact => q.exact
  BY <1>1 DEF StoreInv, ToldWhole
<1>3. Stored(q) /\ Stored(r) /\ filing \in Histories
  BY <1>1 DEF StoreInv
<1>4. /\ q.form = filing[q.filing].form /\ IsRow(q)
      /\ q.exact => q.known = filing[q.filing].accepted
      /\ ~q.exact => q.known = Fallback(q.filing)
      /\ q.filing \in Filings /\ q.exact \in BOOLEAN
  BY <1>3, StoredFacts
<1>5. /\ r.known <= t /\ r.form = filing[r.filing].form
      /\ filing[r.filing].accepted <= r.known
      /\ filing[r.filing].accepted \in Nat /\ Fallback(r.filing) \in Nat
      /\ ~r.exact => r.known = Fallback(r.filing)
      /\ filing[r.filing].accepted <= Fallback(r.filing)
      /\ r.exact \in BOOLEAN /\ IsRow(r)
  BY ReportRowFacts, <1>3, <1>4, <1>2, FilingType
<1>6. q.known <= r.known
  BY <1>2, <1>4, <1>5
<1>7. q.known <= t
  BY <1>4, <1>5, <1>6 DEF IsRow
<1>8. q \in ReportRows(t)
  BY <1>1, <1>2, <1>4, <1>5, <1>7 DEF ReportRows, Filed, KnownAt
<1>. QED  BY <1>2, <1>6, <1>8

LEMMA ReportRowsAreRows ==
    ASSUME StoreInv, NEW t, NEW rows \in SUBSET ReportRows(t)
    PROVE  IsRows(rows)
<1>1. rows \in SUBSET facts
  BY DEF ReportRows, Filed, KnownAt
<1>. QED  BY <1>1, StoredRows

\* What speaks for a report is a row of it, about the period it is about.
LEMMA CandidateFacts ==
    ASSUME StoreInv, NEW t \in Int, NEW x \in ReportRows(t), x.concept \in EventConcepts
    PROVE  /\ Candidate(ReportRows(t), x.filing) \in ReportRows(t)
           /\ Candidate(ReportRows(t), x.filing).filing = x.filing
           /\ Candidate(ReportRows(t), x.filing).concept \in EventConcepts
           /\ Candidate(ReportRows(t), x.filing).end = filing[x.filing].period
<1>. DEFINE rows == ReportRows(t)
            n == x.filing
            said == {r \in rows : r.filing = n /\ r.concept \in EventConcepts}
            now2 == Current(said)
            ends == [r \in said |-> r.end]
            times == [r \in now2 |-> r.known]
<1>1. said \in SUBSET rows /\ x \in said /\ now2 \in SUBSET said
  BY DEF Current
<1>2. IsRows(said) /\ IsRows(now2)
  <2>1. said \in SUBSET ReportRows(t) /\ now2 \in SUBSET ReportRows(t)
    BY <1>1
  <2>. HIDE DEF said, now2
  <2>. QED  BY <2>1, ReportRowsAreRows
<1>3. \E r \in said : \A q \in said : ends[q] <= ends[r]
  <2>1. \A r \in said : ends[r] \in Int
    BY <1>2 DEF IsRows, IsRow
  <2>2. IsFiniteSet(said) /\ said # {}
    BY <1>1, <1>2 DEF IsRows
  <2>. HIDE DEF said, ends
  <2>3. \E r \in said : \A q \in said : ends[r] >= ends[q]
    BY <2>1, <2>2, FunctionHasExtremes
  <2>. QED  BY <2>1, <2>3
<1>4. now2 # {}
  BY <1>3 DEF Current
<1>5. \E r \in now2 : \A q \in now2 : r.known <= q.known
  <2>1. \A r \in now2 : times[r] \in Int /\ times[r] = r.known
    BY <1>2 DEF IsRows, IsRow
  <2>2. IsFiniteSet(now2)
    BY <1>2 DEF IsRows
  <2>. HIDE DEF now2, times
  <2>3. \E r \in now2 : \A q \in now2 : times[r] <= times[q]
    BY <1>4, <2>1, <2>2, FunctionHasExtremes
  <2>. QED  BY <2>1, <2>3
<1>. DEFINE c == Candidate(rows, n)
<1>6. c = EarliestOf(now2)
  BY DEF Candidate
<1>7. c \in now2
  <2>. HIDE DEF now2, c
  <2>. QED  BY <1>5, <1>6, Zenon DEF EarliestOf
<1>8. c \in said /\ \A q \in said : q.end <= c.end
  BY <1>7 DEF Current
<1>9. c \in rows /\ c.filing = n /\ c.concept \in EventConcepts
  BY <1>8
<1>. HIDE DEF now2, c
<1>10. /\ IsReport(filing, n) /\ IsRow(c)
       /\ \E o \in filing[n].facts : o.concept = c.concept /\ o.end = c.end
  BY <1>9, ReportRowFacts
<1>11. PICK o \in Tells(filing[n]) : o.end = c.end
  BY <1>9, <1>10 DEF Tells
<1>12. PICK p \in Tells(filing[n]) : p.end = filing[n].period
  BY <1>10, <1>11 DEF IsReport
<1>13. PICK q \in ReportRows(t) : q.filing = n /\ q.concept = p.concept /\ q.end = p.end
  BY <1>12, ReportIsKnownWhole DEF Tells
<1>14. q \in said
  BY <1>12, <1>13 DEF Tells
<1>15. filing[n].period <= c.end /\ c.end <= filing[n].period
  BY <1>8, <1>10, <1>11, <1>12, <1>13, <1>14 DEF IsReport
<1>16. c.end = filing[n].period
  BY <1>10, <1>15 DEF IsReport, IsRow
<1>. QED  BY <1>9, <1>16 DEF c

-----------------------------------------------------------------------------
\* The revenue of an event

\* A metric that is not derived is the first of its concepts that is reported.
LEMMA SelectedIsReported ==
    ASSUME NEW d, Definition(d), NEW kind, NEW period, NEW rows, NEW start, NEW end,
           kind = "quarterly" /\ d.behavior = "flow" =>
              \A i \in DOMAIN d.concepts :
                 FromYearToDate(d, d.concepts[i], rows, start, end) = NoMetric
    PROVE  \/ /\ Selected(d, kind, period, rows, start, end) = NoMetric
              /\ \A i \in DOMAIN d.concepts : Reported(d, period, d.concepts[i]) = NoMetric
           \/ \E i \in DOMAIN d.concepts :
                 /\ Selected(d, kind, period, rows, start, end) = Reported(d, period, d.concepts[i])
                 /\ Reported(d, period, d.concepts[i]) # NoMetric
<1>. DEFINE derived(concept) ==
                IF kind = "quarterly" /\ d.behavior = "flow"
                THEN FromYearToDate(d, concept, rows, start, end) ELSE NoMetric
            metrics == [i \in DOMAIN d.concepts |->
                          Else(Reported(d, period, d.concepts[i]), derived(d.concepts[i]))]
<1>1. Selected(d, kind, period, rows, start, end) = FirstFound(metrics)
  BY DEF Selected, Reported
<1>2. Len(d.concepts) \in Nat /\ DOMAIN d.concepts = 1 .. Len(d.concepts) /\ DOMAIN metrics = DOMAIN d.concepts
  BY DEF Definition
<1>3. \A i \in DOMAIN d.concepts : derived(d.concepts[i]) = NoMetric
  OBVIOUS
<1>4. \A i \in DOMAIN d.concepts : metrics[i] = Reported(d, period, d.concepts[i])
  <2>. HIDE DEF derived
  <2>. QED  BY <1>3 DEF Else
<1>5. \/ FirstFound(metrics) = NoMetric /\ \A i \in DOMAIN metrics : metrics[i] = NoMetric
      \/ \E i \in DOMAIN metrics : FirstFound(metrics) = metrics[i] /\ metrics[i] # NoMetric
  <2>. HIDE DEF metrics
  <2>. QED  BY <1>2, FirstIsFound
<1>. HIDE DEF metrics
<1>. QED  BY <1>1, <1>2, <1>4, <1>5

\* What is reported is told by a row with a unit that can be used, if one does.
LEMMA ReportedValue ==
    ASSUME NEW rows, IsRows(rows), NEW d, ~d.absolute, NEW concept
    PROVE  /\ Reported(d, rows, concept) = NoMetric =>
                 \A r \in rows : r.concept = concept => Normalized(r, d.unit) = None
           /\ Reported(d, rows, concept) # NoMetric =>
                 \E r \in rows : r.concept = concept /\ Reported(d, rows, concept).value = Normalized(r, d.unit)
<1>. DEFINE some == {r \in rows : r.concept = concept}
            usable == {r \in some : Normalized(r, d.unit) # None}
            last == LatestUsable(d, some)
<1>1. Reported(d, rows, concept) = MetricOf(d, last)
  BY DEF Reported
<1>2. some \in SUBSET rows /\ usable \in SUBSET rows
  OBVIOUS
<1>3. IsRows(some) /\ IsRows(usable)
  <2>. HIDE DEF some, usable
  <2>. QED  BY <1>2, FS_Subset DEF IsRows
<1>4. last = IF usable = {} THEN None ELSE Latest(usable)
  BY DEF LatestUsable
<1>5. usable # {} => Latest(usable) \in usable /\ Latest(usable) # None
  <2>. HIDE DEF usable
  <2>. QED  BY <1>3, LatestIsThere DEF IsRows, IsRow
<1>. HIDE DEF last
<1>6. CASE usable = {}
  <2>1. MetricOf(d, last) = NoMetric
    BY <1>4, <1>6 DEF MetricOf
  <2>. QED  BY <1>1, <1>6, <2>1
<1>7. CASE usable # {}
  <2>1. last \in usable /\ last # None
    BY <1>4, <1>5, <1>7
  <2>2. MetricOf(d, last) = [value |-> Normalized(last, d.unit), filings |-> {last.filing}]
    BY <2>1 DEF MetricOf, Signed
  <2>. HIDE DEF usable
  <2>3. MetricOf(d, last) # NoMetric /\ MetricOf(d, last).value = Normalized(last, d.unit)
    <3>1. MetricOf(d, last).filings = {last.filing} /\ MetricOf(d, last).value = Normalized(last, d.unit)
      BY <2>2
    <3>2. NoMetric.filings = {}
      BY DEF NoMetric
    <3>. QED  BY <3>1, <3>2
  <2>4. last \in rows /\ last.concept = concept
    BY <2>1 DEF usable
  <2>. QED  BY <1>1, <2>3, <2>4
<1>. QED  BY <1>6, <1>7

\* When a report became known, no other one has told its period.
LEMMA OwnPeriod ==
    ASSUME StoreInv, NEW k \in Int, NEW c \in ReportRows(k), c.known = k,
           c.concept \in EventConcepts, c.end = filing[c.filing].period,
           NEW r \in ReportRows(k), r.concept \in EventConcepts, r.end = c.end
    PROVE  r.filing = c.filing
<1>. DEFINE n == c.filing
            m == r.filing
<1>1. SUFFICES ASSUME m # n PROVE FALSE
  OBVIOUS
<1>2. /\ n \in Filings /\ IsReport(filing, n) /\ k <= Fallback(n) /\ Fallback(n) \in Nat
      /\ filing[n].form \in OriginalForms
  BY ReportRowFacts
<1>3. /\ m \in Filings /\ IsReport(filing, m) /\ r.known <= k /\ r.known \in Nat
      /\ filing[m].accepted \in Nat /\ filing[m].accepted <= r.known
      /\ filing[m].form \in OriginalForms
      /\ \E o \in filing[m].facts : o.concept = r.concept /\ o.end = r.end
  BY ReportRowFacts DEF IsRow
<1>4. r.end <= filing[m].period /\ filing[m].period \in Int
  BY <1>3 DEF IsReport, Tells
<1>5. filing[m].period # filing[n].period
      /\ (filing[m].period > filing[n].period => filing[m].accepted > EndOf(filing[n].filed))
  BY <1>1, <1>2, <1>3 DEF IsReport
<1>6. filing[m].accepted > Fallback(n)
  BY <1>2, <1>4, <1>5 DEF Fallback, IsReport
<1>. QED  BY <1>2, <1>3, <1>6

\* What is known of the period of c when c became known is told by its report.
LEMMA OwnRow ==
    ASSUME StoreInv, NEW k \in Int, NEW c \in ReportRows(k), c.known = k,
           c.concept \in EventConcepts, c.end = filing[c.filing].period,
           NEW r \in ReportRows(k), r.concept \in RevenueConcepts, r.end = c.end
    PROVE  /\ r.form = filing[c.filing].form
           /\ \E o \in Tells(filing[c.filing]) :
                 /\ o.concept = r.concept /\ o.end = filing[c.filing].period /\ o.start = r.start
                 /\ \A u : Normalized(o, u) = Normalized(r, u)
<1>1. r.concept \in EventConcepts
  BY RevenueAssumption
<1>2. r.filing = c.filing
  BY <1>1, OwnPeriod
<1>3. r.form = filing[c.filing].form /\ \E o \in filing[c.filing].facts :
                 <<o.concept, o.start, o.end, o.value, o.unit>> = <<r.concept, r.start, r.end, r.value, r.unit>>
  BY <1>2, ReportRowFacts
<1>4. PICK o \in filing[c.filing].facts :
                 <<o.concept, o.start, o.end, o.value, o.unit>> = <<r.concept, r.start, r.end, r.value, r.unit>>
  BY <1>3
<1>5. \A u : Normalized(o, u) = Normalized(r, u)
  BY <1>4 DEF Normalized
<1>6. o \in Tells(filing[c.filing])
  BY <1>1, <1>4 DEF Tells
<1>. QED  BY <1>3, <1>4, <1>5, <1>6

KindOf(form) == IF form = "10-K" THEN "annual" ELSE "quarterly"

\* The observations of a report that are about its period
LEMMA OwnObservation ==
    ASSUME NEW f, NEW n, f = filing[n], IsReport(filing, n), f.form \in OriginalForms,
           NEW o \in Tells(f), o.end = f.period, NEW r, r.start = o.start, r.end = o.end,
           r.form = f.form
    PROVE  /\ f.form = "10-Q" => o.start = o.end /\ FlowMatches(r, "quarterly") /\ Quarters(r) = 1
           /\ FactMatches(r, KindOf(f.form)) <=> (o.start = o.end) = (f.form = "10-Q")
<1>1. o.end \in Int /\ (o.start = o.end \/ (f.form = "10-K" /\ o.start # None /\ Quarters(o) >= 3))
  BY DEF IsReport
<1>2. f.form = "10-Q" \/ f.form = "10-K"
  BY DEF OriginalForms
<1>3. CASE o.start = o.end
  <2>1. r.start \in Int /\ r.start = r.end /\ r.start # None /\ Quarters(r) = 1
    BY <1>1, <1>3, NoneAssumption DEF Quarters
  <2>2. f.form = "10-Q" => FlowMatches(r, "quarterly")
    BY <2>1 DEF FlowMatches, QuarterlyForm
  <2>3. ~FactMatches(r, "annual")
    BY <2>1 DEF FactMatches, FlowMatches
  <2>4. FactMatches(r, KindOf(f.form)) <=> f.form = "10-Q"
    BY <1>2, <2>2, <2>3 DEF KindOf, FactMatches
  <2>. QED  BY <1>3, <2>1, <2>2, <2>4
<1>4. CASE o.start # o.end
  <2>1. f.form = "10-K" /\ o.start # None /\ Quarters(o) >= 3
    BY <1>1, <1>4
  <2>2. Quarters(r) >= 3
    BY <2>1 DEF Quarters
  <2>3. FactMatches(r, "annual")
    BY <2>1, <2>2 DEF FactMatches, FlowMatches, AnnualForm
  <2>. QED  BY <1>4, <2>1, <2>3 DEF KindOf
<1>. QED  BY <1>3, <1>4

LEMMA EventRevenue ==
    ASSUME StoreInv, NEW k \in Int, NEW c \in ReportRows(k), c.known = k,
           c.concept \in EventConcepts, c.end = filing[c.filing].period,
           NEW kind, kind = KindOf(filing[c.filing].form),
           NEW start, kind = "quarterly" => start = c.end
    PROVE  Selected(Definitions["revenue"], kind, InPeriod(ReportRows(k), kind, c.end),
                    ReportRows(k), start, c.end).value \in RevenueOf(filing[c.filing])
<1>. DEFINE f == filing[c.filing]
            d == Definitions["revenue"]
            rows == ReportRows(k)
            period == InPeriod(rows, kind, c.end)
            metric == Selected(d, kind, period, rows, start, c.end)
<1>1. d.behavior = "flow" /\ ~d.absolute /\ Definition(d)
      /\ \A i \in DOMAIN d.concepts : d.concepts[i] \in RevenueConcepts
  BY RevenueAssumption, MetricsAreDefined, MetricNames DEF RevenueConcepts
<1>2. \A concept \in RevenueConcepts : \E i \in DOMAIN d.concepts : d.concepts[i] = concept
  BY DEF RevenueConcepts
<1>3. IsReport(filing, c.filing) /\ f.form \in OriginalForms /\ c.end \in Int
      /\ (f.form = "10-K" \/ f.form = "10-Q")
  BY ReportRowFacts DEF IsRow, OriginalForms
<1>4. IsRows(period)
  <2>1. period \in SUBSET ReportRows(k)
    BY DEF InPeriod
  <2>. HIDE DEF period
  <2>. QED  BY <2>1, ReportRowsAreRows
<1>5. ASSUME NEW r \in rows, r.concept \in RevenueConcepts, r.end = c.end
      PROVE  /\ f.form = "10-Q" => r.start = c.end
             /\ \E o \in Tells(f) : /\ o.concept = r.concept /\ o.end = f.period
                                    /\ \A u : Normalized(o, u) = Normalized(r, u)
                                    /\ (r \in period <=> o \in RevenueTold(f))
  <2>1. PICK o \in Tells(f) : /\ o.concept = r.concept /\ o.end = f.period /\ o.start = r.start
                              /\ \A u : Normalized(o, u) = Normalized(r, u)
    BY <1>5, OwnRow
  <2>2. r.form = f.form
    BY <1>5, OwnRow
  <2>. HIDE DEF f
  <2>3. /\ f.form = "10-Q" => o.start = o.end
        /\ FactMatches(r, KindOf(f.form)) <=> (o.start = o.end) = (f.form = "10-Q")
    BY <1>3, <1>5, <2>1, <2>2, OwnObservation DEF f
  <2>4. r \in period <=> FactMatches(r, KindOf(f.form))
    BY <1>5 DEF InPeriod, f
  <2>5. o \in RevenueTold(f) <=> (o.start = o.end) = (f.form = "10-Q")
    BY <1>5, <2>1 DEF RevenueTold, Tells
  <2>6. f.form = "10-Q" => r.start = c.end
    BY <1>5, <2>1, <2>3 DEF f
  <2>. QED  BY <2>1, <2>3, <2>4, <2>5, <2>6
<1>6. ASSUME kind = "quarterly", NEW i \in DOMAIN d.concepts
      PROVE  FromYearToDate(d, d.concepts[i], rows, start, c.end) = NoMetric
  <2>. DEFINE flows == {r \in rows : r.concept = d.concepts[i] /\ r.start # None}
              longer == {r \in flows : r.end = c.end /\ r.start < start /\ QuarterlyForm(r)}
  <2>1. f.form = "10-Q" /\ start = c.end
    BY <1>3, <1>6 DEF KindOf
  <2>2. longer = {}
    <3>1. \A r \in rows : r.concept = d.concepts[i] /\ r.end = c.end => r.start = c.end
      BY <1>1, <1>5, <2>1
    <3>2. ~(c.end < c.end)
      BY <1>3
    <3>. QED  BY <2>1, <3>1, <3>2
  <2>3. FromYearToDate(d, d.concepts[i], rows, start, c.end) = Since(d, LatestUsable(d, longer), flows)
    BY DEF FromYearToDate
  <2>. HIDE DEF longer, flows
  <2>4. LatestUsable(d, {}) = None
    BY DEF LatestUsable
  <2>. QED  BY <2>2, <2>3, <2>4 DEF Since, Difference
<1>7. \/ metric = NoMetric /\ \A i \in DOMAIN d.concepts : Reported(d, period, d.concepts[i]) = NoMetric
      \/ \E i \in DOMAIN d.concepts : metric = Reported(d, period, d.concepts[i])
                                      /\ Reported(d, period, d.concepts[i]) # NoMetric
  <2>. HIDE DEF d, period, rows
  <2>. QED  BY <1>1, <1>6, SelectedIsReported
<1>8. \A r \in period : r \in rows /\ r.end = c.end
  BY DEF InPeriod
<1>. HIDE DEF metric
<1>9. CASE \E i \in DOMAIN d.concepts : metric = Reported(d, period, d.concepts[i])
                                        /\ Reported(d, period, d.concepts[i]) # NoMetric
  <2>1. PICK i \in DOMAIN d.concepts : metric = Reported(d, period, d.concepts[i])
                                       /\ Reported(d, period, d.concepts[i]) # NoMetric
    BY <1>9
  <2>2. PICK r \in period : r.concept = d.concepts[i] /\ metric.value = Normalized(r, d.unit)
    <3>. HIDE DEF d, period
    <3>. QED  BY <1>1, <1>4, <2>1, ReportedValue
  <2>3. r.concept \in RevenueConcepts
    BY <1>1, <2>2
  <2>4. PICK o \in Tells(f) : /\ \A u : Normalized(o, u) = Normalized(r, u)
                              /\ (r \in period <=> o \in RevenueTold(f))
    <3>. HIDE DEF f, period, rows
    <3>. QED  BY <1>5, <1>8, <2>2, <2>3
  <2>5. o \in RevenueTold(f) /\ metric.value = Normalized(o, d.unit)
    BY <2>2, <2>4
  <2>. HIDE DEF f
  <2>. QED  BY <2>5 DEF RevenueOf, metric, f
<1>10. CASE metric = NoMetric /\ \A i \in DOMAIN d.concepts : Reported(d, period, d.concepts[i]) = NoMetric
  <2>1. \A i \in DOMAIN d.concepts : \A r \in period : r.concept = d.concepts[i] => Normalized(r, d.unit) = None
    <3>. HIDE DEF d, period
    <3>. QED  BY <1>1, <1>4, <1>10, ReportedValue
  <2>2. metric.value = None
    BY <1>10 DEF NoMetric
  <2>3. ASSUME NEW o \in RevenueTold(f)
        PROVE  \E p \in RevenueTold(f) : Normalized(p, d.unit) = None
    <3>1. /\ o \in filing[c.filing].facts /\ o.concept \in RevenueConcepts /\ o.end = f.period
      BY DEF RevenueTold
    <3>2. PICK q \in ReportRows(k) : q.concept = o.concept /\ q.start = o.start /\ q.end = o.end
                                     /\ q.filing = c.filing
      BY <3>1, ReportIsKnownWhole
    <3>3. q.end = c.end /\ q.concept \in RevenueConcepts
      BY <3>1, <3>2
    <3>4. PICK p \in Tells(f) : /\ p.concept = q.concept /\ p.end = f.period
                                /\ \A u : Normalized(p, u) = Normalized(q, u)
                                /\ (q \in period <=> p \in RevenueTold(f))
      <4>. HIDE DEF f, period
      <4>. QED  BY <1>5, <3>2, <3>3
    <3>5. q \in period
      <4>1. o \in Tells(f)
        BY <3>1, RevenueAssumption DEF Tells
      <4>2. q.form = f.form
        BY <3>2, ReportRowFacts
      <4>3. (o.start = o.end) = (f.form = "10-Q")
        BY DEF RevenueTold
      <4>4. FactMatches(q, KindOf(f.form))
        <5>. HIDE DEF f
        <5>. QED  BY <1>3, <3>1, <3>2, <4>1, <4>2, <4>3, OwnObservation DEF f
      <4>. QED  BY <3>2, <3>3, <4>4 DEF InPeriod
    <3>6. \E i \in DOMAIN d.concepts : d.concepts[i] = q.concept
      BY <1>2, <3>3
    <3>7. Normalized(q, d.unit) = None
      <4>. HIDE DEF d, period
      <4>. QED  BY <2>1, <3>5, <3>6
    <3>. QED  BY <3>4, <3>5, <3>7
  <2>4. metric.value \in RevenueOf(f)
    <3>1. CASE RevenueTold(f) = {}
      BY <2>2, <3>1 DEF RevenueOf
    <3>2. CASE RevenueTold(f) # {}
      <4>1. PICK p \in RevenueTold(f) : Normalized(p, d.unit) = None
        BY <2>3, <3>2
      <4>. QED  BY <2>2, <3>2, <4>1 DEF RevenueOf
    <3>. QED  BY <3>1, <3>2
  <2>. QED  BY <2>4 DEF metric
<1>. QED  BY <1>7, <1>9, <1>10

\* An event belongs to the report it names and is dated by its acceptance.
DatedBy(e, n) ==
    /\ filing[n].form \in OriginalForms
    /\ filing[n].period = e.period[1]
    /\ \/ /\ e.session = SessionOf(filing[n].accepted)
          /\ e.known = filing[n].accepted
          /\ e.day = Day(filing[n].accepted)
       \/ /\ e.session = "unknown"
          /\ e.day = filing[n].filed

LEMMA EventFacts ==
    ASSUME StoreInv, NEW t \in Nat, NEW e \in Events(facts, t)
    PROVE  e.filing \in Filings /\ DatedBy(e, e.filing) /\ e.revenue \subseteq RevenueOf(filing[e.filing])
<1>. DEFINE rows == ReportRows(t)
            reports == {r.filing : r \in {x \in rows : x.concept \in EventConcepts}}
            candidates == {Candidate(rows, n) : n \in reports}
<1>1. PICK c \in candidates : e = Event(rows, c)
  BY DEF Events, ReportRows
<1>2. PICK n \in reports : c = Candidate(rows, n)
  BY <1>1
<1>3. PICK x \in rows : x.concept \in EventConcepts /\ n = x.filing
  BY <1>2
<1>4. c \in rows /\ c.filing = n /\ c.concept \in EventConcepts /\ c.end = filing[n].period
  BY <1>2, <1>3, CandidateFacts
<1>. HIDE DEF candidates, reports
<1>. DEFINE k == c.known
            kind == KindOf(c.form)
            said == IF kind = "annual"
                    THEN {p \in ReportedPeriods(ReportRows(k), "annual") : p.end = c.end}
                    ELSE {QuarterlyPeriods(ReportRows(k))[i] :
                            i \in {j \in DOMAIN QuarterlyPeriods(ReportRows(k)) :
                                     QuarterlyPeriods(ReportRows(k))[j].end = c.end}}
<1>5. /\ c.form = filing[n].form /\ c.filed = filing[n].filed /\ n \in Filings
      /\ c.exact \in BOOLEAN /\ c.exact => k = filing[n].accepted
      /\ filing[n].form \in OriginalForms /\ k \in Nat /\ k <= t /\ c.end \in Int
      /\ IsReport(filing, n)
  BY <1>4, ReportRowFacts DEF IsRow
<1>6. KnownThen(rows, c) = ReportRows(k)
  <2>1. \A r \in facts : r.known <= k => r.known <= t
    <3>1. \A r \in facts : r.known \in Nat
      BY StoredRows DEF IsRows, IsRow
    <3>2. k <= t /\ k \in Nat
      BY <1>5
    <3>. HIDE DEF k
    <3>. QED  BY <3>1, <3>2
  <2>. HIDE DEF k
  <2>2. KnownAt(Filed(KnownAt(facts, t)), k) = Filed(KnownAt(facts, k))
    BY <2>1 DEF KnownAt, Filed
  <2>. QED  BY <2>2 DEF KnownThen, ReportRows, k
<1>7. Event(rows, c) =
        [period |-> <<c.end, c.fiscal>>, filing |-> c.filing, known |-> c.known,
         day |-> IF c.exact THEN Day(c.known) ELSE c.filed,
         session |-> IF c.exact THEN SessionOf(c.known) ELSE "unknown",
         revenue |-> {p.metrics["revenue"].value : p \in said}]
  BY <1>6 DEF Event, KindOf
<1>8. c \in ReportRows(k)
  BY <1>4, <1>5 DEF ReportRows, Filed, KnownAt
<1>9. IsRows(ReportRows(k))
  BY ReportRowsAreRows
<1>. DEFINE p0 == Period(ReportRows(k), kind, c.end)
<1>10. ASSUME \E r \in ReportRows(k) : r.end = c.end /\ FlowMatches(r, kind)
       PROVE  p0.end = c.end /\ p0.metrics["revenue"].value \in RevenueOf(filing[n])
  <2>1. /\ p0.end = c.end
        /\ \E r \in InPeriod(ReportRows(k), kind, c.end) : r.start # None /\ p0.start = r.start
        /\ p0.metrics["revenue"] = Selected(Definitions["revenue"], kind,
                                            InPeriod(ReportRows(k), kind, c.end), ReportRows(k), p0.start, c.end)
    BY <1>5, <1>9, <1>10, PeriodFacts, MetricNames
  <2>2. kind = "quarterly" => p0.start = c.end
    <3>1. PICK r \in InPeriod(ReportRows(k), kind, c.end) : r.start # None /\ p0.start = r.start
      BY <2>1
    <3>2. r \in ReportRows(k) /\ r.end = c.end /\ FactMatches(r, kind)
      BY DEF InPeriod
    <3>3. r.start \in Int
      BY <3>1, <3>2, ReportRowFacts DEF IsRow
    <3>4. kind = "quarterly" => r.end - r.start + 1 = 1
      BY <3>1, <3>2 DEF FactMatches, FlowMatches, Quarters
    <3>. HIDE DEF kind, p0
    <3>. QED  BY <1>5, <3>1, <3>2, <3>3, <3>4
  <2>3. c.end = filing[c.filing].period /\ kind = KindOf(filing[c.filing].form)
    BY <1>4, <1>5
  <2>4. k \in Int /\ c.known = k
    BY <1>5
  <2>. DEFINE start == p0.start
  <2>5. kind = "quarterly" => start = c.end
    BY <2>2
  <2>. HIDE DEF p0, kind, start, k
  <2>6. Selected(Definitions["revenue"], kind, InPeriod(ReportRows(k), kind, c.end), ReportRows(k), start, c.end).value
           \in RevenueOf(filing[c.filing])
    BY <1>4, <1>8, <2>3, <2>4, <2>5, EventRevenue
  <2>. QED  BY <1>4, <2>1, <2>6 DEF start
<1>11. ASSUME NEW p \in said
       PROVE  p = p0 /\ \E r \in ReportRows(k) : r.end = c.end /\ FlowMatches(r, kind)
  <2>1. CASE kind = "annual"
    <3>1. p \in ReportedPeriods(ReportRows(k), "annual") /\ p.end = c.end
      BY <2>1
    <3>. QED  BY <1>9, <2>1, <3>1, ReportedFacts
  <2>2. CASE kind # "annual"
    <3>1. kind = "quarterly" /\ filing[n].form = "10-Q"
      BY <1>5, <2>2 DEF KindOf, OriginalForms
    <3>. DEFINE quarters == ReportedPeriods(ReportRows(k), "quarterly")
                years == ReportedPeriods(ReportRows(k), "annual")
                all == QuarterlyPeriods(ReportRows(k))
    <3>2. PICK i \in DOMAIN all : p = all[i] /\ all[i].end = c.end
      BY <2>2
    <3>3. /\ all \in Seq(quarters \cup FourthQuarters(quarters, years))
          /\ \A q \in FourthQuarters(quarters, years) : Inferred(q, quarters, years)
      BY <1>9, QuarterlyFacts
    <3>4. p \in quarters \/ Inferred(p, quarters, years)
      <4>. HIDE DEF all, quarters, years
      <4>. QED  BY <3>2, <3>3
    <3>5. FlowMatches(c, "quarterly")
      <4>1. PICK o \in filing[n].facts :
                 <<o.concept, o.start, o.end, o.value, o.unit>> = <<c.concept, c.start, c.end, c.value, c.unit>>
        BY <1>4, ReportRowFacts
      <4>2. o \in Tells(filing[n]) /\ o.end = filing[n].period /\ c.start = o.start /\ c.end = o.end
        BY <1>4, <4>1 DEF Tells
      <4>. DEFINE f == filing[n]
      <4>3. /\ f = filing[n] /\ IsReport(filing, n) /\ f.form \in OriginalForms /\ c.form = f.form
            /\ o \in Tells(f) /\ o.end = f.period /\ f.form = "10-Q"
        BY <1>5, <3>1, <4>2
      <4>. HIDE DEF f
      <4>. QED  BY <4>2, <4>3, OwnObservation
    <3>6. \E q \in quarters : q.end = c.end
      <4>1. \E r \in ReportRows(k) : r.end = c.end /\ FlowMatches(r, "quarterly")
        BY <1>8, <3>5
      <4>2. Period(ReportRows(k), "quarterly", c.end) \in quarters
        BY <4>1 DEF ReportedPeriods
      <4>3. Period(ReportRows(k), "quarterly", c.end).end = c.end
        BY <1>5, <1>9, <4>1, PeriodFacts
      <4>. QED  BY <4>2, <4>3
    <3>7. p \in quarters
      <4>. HIDE DEF quarters, years
      <4>. QED  BY <3>2, <3>4, <3>6 DEF Inferred
    <3>. QED  BY <1>9, <3>1, <3>2, <3>7, ReportedFacts
  <2>. QED  BY <2>1, <2>2
<1>. DEFINE values == {p.metrics["revenue"].value : p \in said}
<1>12. values \subseteq RevenueOf(filing[n])
  <2>. HIDE DEF said, p0, kind, k
  <2>. QED  BY <1>10, <1>11
<1>. HIDE DEF said, p0
<1>13. /\ e.revenue = values /\ e.filing = c.filing /\ e.known = c.known /\ e.period[1] = c.end
       /\ e.day = (IF c.exact THEN Day(c.known) ELSE c.filed)
       /\ e.session = (IF c.exact THEN SessionOf(c.known) ELSE "unknown")
  BY <1>1, <1>7
<1>. HIDE DEF values
<1>14. DatedBy(e, n)
  BY <1>4, <1>5, <1>13 DEF DatedBy
<1>. QED  BY <1>4, <1>5, <1>12, <1>13, <1>14

-----------------------------------------------------------------------------
\* Events and reactions

LEMMA SessionOfFacts ==
    ASSUME NEW a \in Nat
    PROVE  /\ SessionOf(a) # "unknown"
           /\ SessionOf(a) = "after_close" <=> a >= Close(Day(a))
<1>1. a = 4 * (a \div 4) + (a % 4) /\ (a % 4) \in 0 .. 3
  OBVIOUS
<1>2. a % 4 = 0 \/ a % 4 = 1 \/ a % 4 = 2 \/ a % 4 = 3
  BY <1>1
<1>3. /\ SessionOf(a) = (IF a % 4 = 0 THEN "before_open" ELSE IF a % 4 = 1 THEN "intraday" ELSE "after_close")
  BY DEF SessionOf
<1>4. Close(Day(a)) = 4 * (a \div 4) + 2 /\ (a \div 4) \in Nat
  BY DEF Close, Day
<1>. QED  BY <1>1, <1>2, <1>3, <1>4

\* The reaction x follows the report n.
Follows(x, n) ==
    /\ Close(x.prior) <= filing[n].accepted
    /\ x.exact => x.anchor = Min({d \in Sessions : Close(d) > filing[n].accepted})

LEMMA ReactionFacts ==
    ASSUME StoreInv, NEW t \in Nat, NEW n \in Filings, NEW e, DatedBy(e, n),
           Reaction(e, SessionsUntil(t)).anchor # None
    PROVE  Follows(Reaction(e, SessionsUntil(t)), n)
<1>. DEFINE days == SessionsUntil(t)
            from == AnchorFrom(e, days)
            a == filing[n].accepted
            anchor == Min(from)
            before == {d \in days : d < anchor}
            x == Reaction(e, days)
<1>1. /\ a \in Nat /\ filing[n].filed \in Int /\ Day(a) <= filing[n].filed /\ filing[n].filed <= Day(a) + 1
      /\ (filing[n].filed > Day(a) => a > Close(Day(a)))
  BY FilingType DEF StoreInv
<1>2. /\ Day(a) \in Nat /\ 4 * Day(a) <= a /\ a <= 4 * Day(a) + 3
      /\ \A d \in Int : Close(d) = 4 * d + 2
  BY <1>1, DayFacts
<1>3. /\ IsFiniteSet(days) /\ days \in SUBSET Int /\ days \in SUBSET Sessions
      /\ \A d \in days : \A y \in Sessions : y < d => y \in days
  BY SessionsFacts DEF StoreInv
<1>4. /\ from # {} /\ before # {}
      /\ x.exact = (e.session # "unknown") /\ x.anchor = anchor /\ x.prior = Max(before)
  <2>1. ~(from = {} \/ before = {})
    <3>1. from = {} \/ before = {} => Reaction(e, days) = NoReaction
      BY DEF Reaction
    <3>. QED  BY <3>1 DEF NoReaction
  <2>. DEFINE after == {d \in days : d >= anchor}
              ahead(d) == Cardinality({y \in after : y < d})
              windows == {<<ahead(d), d>> : d \in {y \in after : ahead(y) \in Offsets}}
  <2>2. x = [exact |-> e.session # "unknown", anchor |-> anchor, prior |-> Max(before), windows |-> windows]
    BY <2>1 DEF Reaction
  <2>. HIDE DEF windows, x, before, from, anchor
  <2>. QED  BY <2>1, <2>2
<1>5. from = {d \in days : IF e.session = "after_close" THEN d > e.day ELSE d >= e.day}
  BY DEF AnchorFrom
<1>6. /\ from \in SUBSET days /\ before \in SUBSET days
  BY <1>5
<1>7. /\ IsFiniteSet(from) /\ IsFiniteSet(before) /\ from \in SUBSET Int /\ before \in SUBSET Int
  <2>. HIDE DEF from, before, days
  <2>1. IsFiniteSet(from) /\ IsFiniteSet(before)
    BY <1>3, <1>6, FS_Subset
  <2>2. \A d \in days : d \in Int
    BY <1>3
  <2>. QED  BY <1>6, <2>1, <2>2
<1>8. /\ anchor \in from /\ \A d \in from : anchor <= d
      /\ Max(before) \in before
  <2>. HIDE DEF from, before
  <2>. QED  BY <1>4, <1>7, ExtremesOf
<1>. DEFINE prior == Max(before)
<1>9. prior \in days /\ prior < anchor /\ prior \notin from /\ prior \in Int /\ anchor \in days /\ anchor \in Int
  <2>1. prior \in days /\ prior < anchor /\ anchor \in days
    BY <1>6, <1>8
  <2>2. prior \in Int /\ anchor \in Int
    BY <1>3, <2>1
  <2>. HIDE DEF prior, anchor, from
  <2>3. prior \notin from
    BY <1>8, <2>1, <2>2
  <2>. QED  BY <2>1, <2>2, <2>3
<1>. HIDE DEF before, anchor, prior, x
<1>10. \A d \in Int : d \in days => (d \in from <=>
                         IF e.session = "after_close" THEN d > e.day ELSE d >= e.day)
  BY <1>5
<1>. HIDE DEF from, days
<1>11. CASE e.session = SessionOf(a) /\ e.day = Day(a)
  <2>1. \A d \in Int : d \in days => (d \in from <=> Close(d) > a)
    <3>1. e.session = "after_close" <=> a >= 4 * Day(a) + 2
      BY <1>1, <1>2, <1>11, SessionOfFacts
    <3>. DEFINE D == Day(a)
    <3>2. D \in Nat /\ e.day = D /\ 4 * D <= a /\ a <= 4 * D + 3 /\ a \in Nat
      BY <1>1, <1>2, <1>11
    <3>3. e.session = "after_close" <=> a >= 4 * D + 2
      BY <3>1
    <3>. HIDE DEF D, a
    <3>4. ASSUME NEW d \in Int, d \in days
          PROVE  d \in from <=> 4 * d + 2 > a
      <4>1. CASE a >= 4 * D + 2
        <5>1. d \in from <=> d > D
          BY <1>10, <3>2, <3>3, <3>4, <4>1
        <5>2. d > D <=> 4 * d + 2 > a
          BY <3>2, <4>1
        <5>. QED  BY <5>1, <5>2
      <4>2. CASE a < 4 * D + 2
        <5>1. ~(a >= 4 * D + 2)
          BY <3>2, <4>2
        <5>2. d \in from <=> d >= D
          BY <1>10, <3>2, <3>3, <3>4, <5>1
        <5>3. d >= D <=> 4 * d + 2 > a
          BY <3>2, <4>2
        <5>. QED  BY <5>2, <5>3
      <4>. QED  BY <3>2, <4>1, <4>2
    <3>. QED  BY <1>2, <3>4
  <2>2. Close(prior) <= a
    BY <1>1, <1>2, <1>9, <2>1
  <2>. DEFINE later == {d \in Sessions : Close(d) > a}
  <2>3. anchor \in later
    BY <1>3, <1>8, <1>9, <2>1
  <2>4. ASSUME NEW d \in later
        PROVE  d \in Int /\ anchor <= d
    <3>1. d \in Sessions /\ Close(d) > a /\ d \in Int
      BY SessionsAssumption
    <3>2. d < anchor => d \in days
      BY <1>3, <1>9, <3>1
    <3>3. d < anchor => d \in from
      BY <2>1, <3>1, <3>2
    <3>. QED  BY <1>8, <1>9, <3>1, <3>3
  <2>5. \A y \in later : (\A d \in later : y <= d) => y = anchor
    BY <1>9, <2>3, <2>4
  <2>6. Min(later) = anchor
    <3>. HIDE DEF later
    <3>1. \E y \in later : \A d \in later : y <= d
      BY <2>3, <2>4
    <3>2. Min(later) \in later /\ \A d \in later : Min(later) <= d
      BY <3>1, Zenon DEF Min
    <3>. QED  BY <2>5, <3>2
  <2>. QED  BY <1>4, <2>2, <2>6 DEF Follows, x, days, prior, a
<1>12. CASE e.session = "unknown" /\ e.day = filing[n].filed
  <2>1. ~x.exact
    BY <1>4, <1>12
  <2>2. ~(prior >= filing[n].filed)
    BY <1>9, <1>10, <1>12
  <2>3. Close(prior) <= a
    <3>. DEFINE D == Day(a)
                f == filing[n].filed
    <3>1. D \in Nat /\ f \in Int /\ D <= f /\ f <= D + 1 /\ (f > D => a > 4 * D + 2) /\ 4 * D <= a
          /\ a \in Nat /\ Close(prior) = 4 * prior + 2 /\ prior \in Int /\ ~(prior >= f)
      BY <1>1, <1>2, <1>9, <2>2
    <3>. HIDE DEF D, f, a
    <3>2. 4 * prior + 2 <= a
      <4>1. CASE f > D
        BY <3>1, <4>1
      <4>2. CASE f = D
        BY <3>1, <4>2
      <4>. QED  BY <3>1, <4>1, <4>2
    <3>. QED  BY <3>1, <3>2
  <2>. QED  BY <1>4, <2>1, <2>3 DEF Follows, x, days, prior, a
<1>. QED  BY <1>11, <1>12 DEF DatedBy

\* Only one report is about a period.
LEMMA OneReport ==
    ASSUME StoreInv, NEW n \in Filings, NEW m \in Filings,
           filing[n].form \in OriginalForms, filing[m].form \in OriginalForms,
           filing[n].period = filing[m].period
    PROVE  n = m
  BY ReportsAssumption DEF StoreInv, IsReport

\* Reactions follow the report of their period, also where it is not known yet.
ReactionsInv ==
    \A x \in reactions : \A n \in Filings :
        filing[n].form \in OriginalForms /\ filing[n].period = x[1][1] /\ x[2].anchor # None
        => Follows(x[2], n)

LEMMA EventsStep ==
    ASSUME StoreInv, EventIsOfItsReport, ReactionsInv, [Next]_vars
    PROVE  EventIsOfItsReport' /\ ReactionsInv'
<1>1. filing' = filing
  <2>1. CASE FactNext
    BY <2>1, StoreStep
  <2>. QED  BY <2>1 DEF Next, Value, Analyze, vars, factVars
<1>2. ASSUME UNCHANGED <<events, reactions>>
      PROVE  EventIsOfItsReport' /\ ReactionsInv'
  BY <1>1, <1>2 DEF EventIsOfItsReport, ReactionsInv, Follows
<1>3. ASSUME NEW t \in Times, Analyze(t)
      PROVE  EventIsOfItsReport' /\ ReactionsInv'
  <2>1. t \in Nat
    BY FactAssumption DEF Times
  <2>. DEFINE found == Events(facts, t)
              days == SessionsUntil(t)
  <2>2. /\ events' = events \cup {e \in found : StoredBefore(e) = {}}
        /\ reactions' = {<<e.period, Reaction(e, days)>> : e \in found}
                        \cup {r \in reactions : \A e \in found : e.period # r[1]}
    BY <1>3 DEF Analyze
  <2>. HIDE DEF found
  <2>3. ASSUME NEW e \in found
        PROVE  e.filing \in Filings /\ DatedBy(e, e.filing) /\ e.revenue \subseteq RevenueOf(filing[e.filing])
    BY <2>1, EventFacts DEF found
  <2>4. ASSUME NEW e \in found
        PROVE  /\ filing[e.filing].period = e.period[1]
               /\ filing[e.filing].form \in OriginalForms
               /\ e.day >= Day(filing[e.filing].accepted)
               /\ e.session # "unknown" => e.known = filing[e.filing].accepted
               /\ e.revenue \subseteq RevenueOf(filing[e.filing])
    <3>1. Day(filing[e.filing].accepted) <= filing[e.filing].filed
          /\ filing[e.filing].filed \in Int /\ filing[e.filing].accepted \in Nat
      BY <2>3, FilingType DEF StoreInv
    <3>2. Day(filing[e.filing].accepted) \in Nat
      BY <3>1, DayFacts
    <3>. QED  BY <2>3, <3>1, <3>2 DEF DatedBy
  <2>5. EventIsOfItsReport'
    <3>1. \A e \in events' : e \in events \/ e \in found
      BY <2>2
    <3>2. \A f : RevenueOf(f)' = RevenueOf(f)
      BY DEF RevenueOf, RevenueTold
    <3>. QED  BY <1>1, <2>4, <3>1 DEF EventIsOfItsReport
  <2>6. ASSUME NEW x \in reactions', NEW n \in Filings,
               filing[n].form \in OriginalForms, filing[n].period = x[1][1], x[2].anchor # None
        PROVE  Follows(x[2], n)
    <3>1. CASE x \in reactions
      BY <2>6, <3>1 DEF ReactionsInv
    <3>2. CASE x \notin reactions
      <4>1. PICK e \in found : x = <<e.period, Reaction(e, days)>>
        BY <2>2, <3>2
      <4>2. x[1] = e.period /\ x[2] = Reaction(e, days)
        BY <4>1
      <4>3. e.filing \in Filings /\ DatedBy(e, e.filing)
        BY <2>3
      <4>4. n = e.filing
        BY <2>6, <4>2, <4>3, OneReport DEF DatedBy
      <4>. QED  BY <2>1, <2>6, <4>2, <4>3, <4>4, ReactionFacts
    <3>. QED  BY <3>1, <3>2
  <2>7. ReactionsInv'
    BY <1>1, <2>6 DEF ReactionsInv, Follows
  <2>. QED  BY <2>5, <2>7
<1>4. CASE UNCHANGED vars
  BY <1>2, <1>4 DEF vars, answerVars
<1>5. CASE FactNext /\ UNCHANGED <<answerVars, asked>>
  BY <1>2, <1>5 DEF answerVars
<1>6. ASSUME NEW t \in Times, Value(t) PROVE EventIsOfItsReport' /\ ReactionsInv'
  BY <1>2, <1>6 DEF Value
<1>. QED  BY <1>3, <1>4, <1>5, <1>6 DEF Next

\* What an event says is what its report said, dated by the report's acceptance,
\* and no reaction starts from a close that could have contained the report.
EventsInv == StoreInv /\ PointsInv /\ EventIsOfItsReport /\ ReactionsInv

LEMMA EventsInvariant == Spec => []EventsInv
<1>1. Init => EventsInv
  <2>1. Init => EventIsOfItsReport /\ ReactionsInv
    BY DEF Init, EventIsOfItsReport, ReactionsInv
  <2>. QED  BY <2>1, PointsInit DEF EventsInv
<1>2. EventsInv /\ [Next]_vars => EventsInv'
  BY PointsStep, EventsStep DEF EventsInv
<1>. QED  BY <1>1, <1>2, PTL DEF Spec

\* Whatever is analysed when, and whatever becomes known later: an event belongs
\* to the original report of its period, is dated no earlier than the report was
\* accepted and tells the revenue of that report.
THEOREM EventsAreOfTheirReports == Spec => []EventIsOfItsReport
<1>1. EventsInv => EventIsOfItsReport
  BY DEF EventsInv
<1>. QED  BY <1>1, EventsInvariant, PTL

\* A reaction starts from a close before the report was accepted, and with an
\* exact time it begins with the first session that closes after it.
THEOREM ReactionsFollowTheNews == Spec => []ReactionFollowsNews
<1>1. EventsInv => ReactionFollowsNews
  BY DEF EventsInv, ReactionsInv, ReactionFollowsNews, Follows, Published
<1>. QED  BY <1>1, EventsInvariant, PTL

-----------------------------------------------------------------------------
\* The sums of the books

LEMMA IntervalIsFinite ==
    ASSUME NEW a \in Int, NEW b \in Int
    PROVE  IsFiniteSet(a .. b)
  BY FS_Interval

LEMMA BookedGrows ==
    ASSUME NEW book, NEW a \in Int, NEW e \in Int, a <= e,
           \A q \in a .. e : book[q] \in Int
    PROVE  /\ Booked(book, a, e) = Booked(book, a, e - 1) + book[e]
           /\ Booked(book, a, e) \in Int /\ Booked(book, a, e - 1) \in Int
<1>1. e - 1 \in Int /\ e \notin a .. (e - 1) /\ e \in a .. e
  OBVIOUS
<1>2. (a .. e) \ {e} = a .. (e - 1)
  <2>1. \A q : q \in (a .. e) \ {e} <=> q \in a .. (e - 1)
    OBVIOUS
  <2>. QED  BY <2>1
<1>3. IsFiniteSet(a .. e) /\ IsFiniteSet(a .. (e - 1))
  BY <1>1, IntervalIsFinite
<1>4. SumFunctionOnSet(book, a .. e) = book[e] + SumFunctionOnSet(book, (a .. e) \ {e})
  BY <1>1, <1>3, SumTakesOut
<1>5. SumFunctionOnSet(book, a .. e) \in Int
  BY <1>3, SumInteger
<1>6. \A q \in a .. (e - 1) : book[q] \in Int
  OBVIOUS
<1>7. SumFunctionOnSet(book, a .. (e - 1)) \in Int
  BY <1>3, <1>6, SumInteger
<1>8. book[e] \in Int
  OBVIOUS
<1>9. Booked(book, a, e) = SumFunctionOnSet(book, a .. e)
      /\ Booked(book, a, e - 1) = SumFunctionOnSet(book, a .. (e - 1))
  BY DEF Booked
<1>10. Booked(book, a, e) = book[e] + Booked(book, a, e - 1)
  BY <1>2, <1>4, <1>9, Zenon
<1>11. Booked(book, a, e) \in Int /\ Booked(book, a, e - 1) \in Int
  BY <1>5, <1>7, <1>9
<1>. QED  BY <1>8, <1>10, <1>11

LEMMA BookedOnce ==
    ASSUME NEW book, NEW e \in Int, book[e] \in Int
    PROVE  Booked(book, e, e) = book[e]
<1>1. e .. e = {e}
  OBVIOUS
<1>. QED  BY <1>1, SumOfOne DEF Booked

LEMMA BookedFour ==
    ASSUME NEW book, NEW a \in Int, \A q \in a .. a + 3 : book[q] \in Int
    PROVE  /\ Booked(book, a, a + 3) = ((book[a] + book[a + 1]) + book[a + 2]) + book[a + 3]
           /\ Booked(book, a, a + 2) = (book[a] + book[a + 1]) + book[a + 2]
<1>1. /\ a + 1 \in Int /\ a + 2 \in Int /\ a + 3 \in Int
      /\ (a + 1) - 1 = a /\ (a + 2) - 1 = a + 1 /\ (a + 3) - 1 = a + 2
      /\ a <= a + 1 /\ a <= a + 2 /\ a <= a + 3
  OBVIOUS
<1>2. /\ \A q \in a .. a + 1 : book[q] \in Int
      /\ \A q \in a .. a + 2 : book[q] \in Int
      /\ book[a] \in Int
  OBVIOUS
<1>3. Booked(book, a, a) = book[a]
  BY <1>2, BookedOnce
<1>4. Booked(book, a, a + 1) = Booked(book, a, a) + book[a + 1]
  BY <1>1, <1>2, BookedGrows
<1>5. Booked(book, a, a + 2) = Booked(book, a, a + 1) + book[a + 2]
  BY <1>1, <1>2, BookedGrows
<1>6. Booked(book, a, a + 3) = Booked(book, a, a + 2) + book[a + 3]
  BY <1>1, <1>2, BookedGrows
<1>. QED  BY <1>3, <1>4, <1>5, <1>6

LEMMA BookedNatural ==
    ASSUME NEW book, NEW a \in Int, NEW e \in Int, \A q \in a .. e : book[q] \in Nat
    PROVE  Booked(book, a, e) \in Nat
  BY IntervalIsFinite, SumNatural DEF Booked

\* The sum of three and of four amounts, one after the other
LEMMA SumOfFirst ==
    ASSUME NEW n \in Nat, NEW f, \A i \in 1 .. n + 1 : f[i] \in Int
    PROVE  /\ SumFunctionOnSet(f, 1 .. n + 1) = SumFunctionOnSet(f, 1 .. n) + f[n + 1]
           /\ SumFunctionOnSet(f, 1 .. n) \in Int
<1>1. 1 \in Int /\ n + 1 \in Int /\ 1 <= n + 1 /\ (n + 1) - 1 = n
  OBVIOUS
<1>. QED  BY <1>1, BookedGrows DEF Booked

LEMMA SumOfFour ==
    ASSUME NEW f, \A i \in 1 .. 3 : f[i] \in Int
    PROVE  /\ SumFunctionOnSet(f, 1 .. 3) = (f[1] + f[2]) + f[3]
           /\ f[4] \in Int => SumFunctionOnSet(f, 1 .. 4) = ((f[1] + f[2]) + f[3]) + f[4]
<1>1. SumFunctionOnSet(f, 1 .. 3) = (f[1] + f[2]) + f[3]
  <2>1. 1 .. 0 = {} /\ 0 \in Nat /\ 1 \in Nat /\ 2 \in Nat /\ 0 + 1 = 1 /\ 1 + 1 = 2 /\ 2 + 1 = 3
    OBVIOUS
  <2>2. /\ \A i \in 1 .. 1 : f[i] \in Int
        /\ \A i \in 1 .. 2 : f[i] \in Int
        /\ f[1] \in Int /\ f[2] \in Int /\ f[3] \in Int
    OBVIOUS
  <2>3. SumFunctionOnSet(f, 1 .. 0) = 0
    BY <2>1, SumOfNone
  <2>4. SumFunctionOnSet(f, 1 .. 1) = SumFunctionOnSet(f, 1 .. 0) + f[1]
    BY <2>1, <2>2, SumOfFirst
  <2>5. SumFunctionOnSet(f, 1 .. 2) = SumFunctionOnSet(f, 1 .. 1) + f[2]
    BY <2>1, <2>2, SumOfFirst
  <2>6. SumFunctionOnSet(f, 1 .. 3) = SumFunctionOnSet(f, 1 .. 2) + f[3]
    BY <2>1, <2>2, SumOfFirst
  <2>. QED  BY <2>2, <2>3, <2>4, <2>5, <2>6
<1>2. ASSUME f[4] \in Int
      PROVE  SumFunctionOnSet(f, 1 .. 4) = SumFunctionOnSet(f, 1 .. 3) + f[4]
  <2>1. \A i \in 1 .. 4 : f[i] \in Int
    BY <1>2
  <2>2. 3 \in Nat /\ 3 + 1 = 4
    OBVIOUS
  <2>. QED  BY <2>1, <2>2, SumOfFirst
<1>. QED  BY <1>1, <1>2

-----------------------------------------------------------------------------
\* Quarters and years agree with the books.

\* What the proofs use of a flow metric and its book
BookOf(m, book) ==
    /\ m \in Metrics \ {"debt"} /\ Definitions[m].behavior = "flow"
    /\ Definition(Definitions[m])
    /\ \A q \in DOMAIN book : /\ q \in Int /\ book[q] \in Int
                              /\ Definitions[m].absolute => book[q] >= 0

\* The rows agree with one book.
BookAgrees(rows, m, book) ==
    /\ \A r, q \in rows : FlowMatches(r, "annual") /\ FlowMatches(q, "annual") /\ r.end = q.end
                           => r.start = q.start
    /\ \A r \in UsableFor(m, rows) :
          /\ r.start # None
          /\ (\A q \in UsableFor(m, rows) : TellsAgain(q, r) => q.known <= r.known)
                => Agrees(r, m, book)

LEMMA BooksFacts ==
    ASSUME filing \in Histories, NEW rows, FlowsAgree(rows), NEW m \in DOMAIN Books[filing]
    PROVE  BookOf(m, Books[filing][m]) /\ BookAgrees(rows, m, Books[filing][m])
<1>1. BookAgrees(rows, m, Books[filing][m])
  BY DEF FlowsAgree, BookAgrees
<1>2. BookOf(m, Books[filing][m])
  BY SessionsAssumption, MetricsAreDefined DEF BookOf, Metrics
<1>. QED  BY <1>1, <1>2

\* The latest of a set of facts agrees, if what tells a fact of it again is in it.
LEMMA LatestAgrees ==
    ASSUME NEW rows, IsRows(rows), NEW m, NEW book, BookAgrees(rows, m, book),
           NEW i \in DOMAIN Definitions[m].concepts,
           NEW some \in SUBSET rows, \A r \in some : r.concept = Definitions[m].concepts[i],
           \A r \in some : \A q \in UsableFor(m, rows) :
              r \in UsableFor(m, rows) /\ TellsAgain(q, r) => q \in some,
           NEW r, r = LatestUsable(Definitions[m], some), r # None
    PROVE  /\ r \in some /\ r.start \in Int /\ r.end \in Int /\ Agrees(r, m, book)
           /\ Normalized(r, Definitions[m].unit) # None
<1>. DEFINE u == Definitions[m].unit
<1>1. IsRows(some)
  BY FS_Subset DEF IsRows
<1>2. /\ r \in some /\ Normalized(r, u) # None
      /\ \A q \in some : Normalized(q, u) # None => Behind(q, r)
  BY <1>1, UsableIsThere
<1>3. r \in UsableFor(m, rows)
  BY <1>2 DEF UsableFor
<1>4. \A q \in UsableFor(m, rows) : TellsAgain(q, r) => q.known <= r.known
  <2>1. ASSUME NEW q \in UsableFor(m, rows), TellsAgain(q, r) PROVE q.known <= r.known
    <3>1. q \in some /\ Normalized(q, u) # None
      BY <1>2, <1>3, <2>1 DEF UsableFor
    <3>2. Behind(q, r)
      BY <1>2, <3>1
    <3>3. q.known \in Nat /\ r.known \in Nat
      BY <1>1, <1>2, <3>1 DEF IsRows, IsRow
    <3>. QED  BY <3>2, <3>3 DEF Behind
  <2>. QED  BY <2>1
<1>5. r.start # None /\ Agrees(r, m, book)
  BY <1>3, <1>4 DEF BookAgrees
<1>6. r.start \in Int /\ r.end \in Int
  BY <1>1, <1>2, <1>5 DEF IsRows, IsRow
<1>. QED  BY <1>2, <1>5, <1>6

LEMMA NormalizedIsInt ==
    ASSUME NEW r, r.value \in Int, NEW u, Normalized(r, u) # None
    PROVE  Normalized(r, u) \in Int
  BY DEF Normalized, Units

\* What the books say of a period is what a metric says if it says anything.
SaysBook(value, book, first, last) ==
    value # None => /\ first .. last \subseteq DOMAIN book
                    /\ value = Booked(book, first, last)

LEMMA AgreedValue ==
    ASSUME NEW m, NEW book, BookOf(m, book), NEW r, r.start \in Int, r.end \in Int,
           r # None, Agrees(r, m, book)
    PROVE  SaysBook(MetricOf(Definitions[m], r).value, book, r.start, r.end)
<1>. DEFINE d == Definitions[m]
            v == Booked(book, r.start, r.end)
<1>1. r.start .. r.end \subseteq DOMAIN book /\ Normalized(r, d.unit) = v
  BY DEF Agrees
<1>2. MetricOf(d, r).value = Signed(d, v)
  BY <1>1 DEF MetricOf
<1>3. d.absolute => v \in Nat
  <2>1. ASSUME d.absolute PROVE \A q \in r.start .. r.end : book[q] \in Nat
    BY <1>1, <2>1 DEF BookOf
  <2>. QED  BY <2>1, BookedNatural
<1>4. Signed(d, v) = v
  <2>. HIDE DEF v
  <2>. QED  BY <1>3 DEF Signed, Magnitude
<1>. QED  BY <1>1, <1>2, <1>4 DEF SaysBook

\* A metric that is reported tells what the books say of the flow it is read from.
LEMMA ReportedAgrees ==
    ASSUME NEW rows, IsRows(rows), NEW m, NEW book, BookOf(m, book), BookAgrees(rows, m, book),
           NEW kind \in {"annual", "quarterly"}, NEW end \in Int,
           NEW i \in DOMAIN Definitions[m].concepts
    PROVE  \/ Reported(Definitions[m], InPeriod(rows, kind, end), Definitions[m].concepts[i]).value = None
           \/ \E r \in rows :
                 /\ r.end = end /\ FlowMatches(r, kind) /\ r.start \in Int
                 /\ SaysBook(Reported(Definitions[m], InPeriod(rows, kind, end), Definitions[m].concepts[i]).value,
                           book, r.start, end)
<1>. DEFINE d == Definitions[m]
            some == {r \in InPeriod(rows, kind, end) : r.concept = d.concepts[i]}
            r == LatestUsable(d, some)
<1>1. Reported(d, InPeriod(rows, kind, end), d.concepts[i]) = MetricOf(d, r)
  BY DEF Reported
<1>2. CASE r = None
  BY <1>1, <1>2 DEF MetricOf, NoMetric
<1>3. CASE r # None
  <2>1. some \in SUBSET rows /\ \A x \in some : x.concept = d.concepts[i]
    BY DEF InPeriod
  <2>2. ASSUME NEW x \in some, x \in UsableFor(m, rows)
        PROVE  x.end = end /\ FlowMatches(x, kind)
    <3>1. x.start # None
      BY <2>2 DEF BookAgrees
    <3>. QED  BY <3>1 DEF InPeriod, FactMatches
  <2>3. ASSUME NEW x \in some, NEW q \in UsableFor(m, rows), x \in UsableFor(m, rows), TellsAgain(q, x)
        PROVE  q \in some
    <3>1. q.concept = x.concept /\ q.end = x.end /\ q \in rows
      BY <2>3 DEF TellsAgain, UsableFor
    <3>2. FlowMatches(q, kind)
      BY <2>2, <2>3 DEF TellsAgain
    <3>. QED  BY <2>1, <2>2, <2>3, <3>1, <3>2 DEF InPeriod, FactMatches
  <2>. HIDE DEF some
  <2>4. /\ r \in some /\ r.start \in Int /\ r.end \in Int /\ Agrees(r, m, book)
        /\ Normalized(r, d.unit) # None
    <3>. HIDE DEF r
    <3>1. r = LatestUsable(Definitions[m], some)
      BY DEF r
    <3>. QED  BY <1>3, <2>1, <2>3, <3>1, LatestAgrees
  <2>. HIDE DEF r
  <2>5. r \in UsableFor(m, rows)
    BY <2>1, <2>4 DEF UsableFor
  <2>6. r.end = end /\ FlowMatches(r, kind) /\ r \in rows
    BY <2>1, <2>2, <2>4, <2>5
  <2>7. SaysBook(MetricOf(d, r).value, book, r.start, r.end)
    BY <1>3, <2>4, AgreedValue
  <2>. QED  BY <1>1, <2>4, <2>6, <2>7
<1>. QED  BY <1>2, <1>3

\* A quarter derived from two years to date tells what the books say of it.
LEMMA DerivedAgrees ==
    ASSUME NEW rows, IsRows(rows), NEW m, NEW book, BookOf(m, book), BookAgrees(rows, m, book),
           NEW end \in Int, NEW i \in DOMAIN Definitions[m].concepts
    PROVE  SaysBook(FromYearToDate(Definitions[m], Definitions[m].concepts[i], rows, end, end).value,
                  book, end, end)
<1>. DEFINE d == Definitions[m]
            flows == {r \in rows : r.concept = d.concepts[i] /\ r.start # None}
            long == {r \in flows : r.end = end /\ r.start < end /\ QuarterlyForm(r)}
            c == LatestUsable(d, long)
            before == PriorToDate(c, flows)
            p == IF c = None THEN None ELSE LatestUsable(d, before)
            derived == FromYearToDate(d, d.concepts[i], rows, end, end)
<1>1. derived = Difference(d, c, p)
  BY DEF FromYearToDate, Since
<1>2. CASE c = None \/ p = None
  <2>. HIDE DEF c, p, derived
  <2>1. derived = NoMetric
    BY <1>1, <1>2 DEF Difference
  <2>. QED  BY <2>1 DEF NoMetric, SaysBook, derived
<1>3. CASE c # None /\ p # None
  <2>1. /\ long \in SUBSET rows /\ \A r \in long : r.concept = d.concepts[i]
        /\ before \in SUBSET rows /\ \A r \in before : r.concept = d.concepts[i]
        /\ \A r \in long : r.end = end /\ r.start < end
        /\ \A r \in before : r.start = c.start /\ r.end = c.end - 1
    BY DEF PriorToDate
  <2>2. ASSUME NEW x \in long, NEW q \in UsableFor(m, rows), TellsAgain(q, x) PROVE q \in long
    BY <2>2 DEF TellsAgain, UsableFor
  <2>3. ASSUME NEW x \in before, NEW q \in UsableFor(m, rows), TellsAgain(q, x) PROVE q \in before
    BY <2>3 DEF TellsAgain, UsableFor, PriorToDate
  <2>4. c = LatestUsable(Definitions[m], long) /\ p = LatestUsable(Definitions[m], before)
    BY <1>3
  <2>. HIDE DEF long, before, c, p
  <2>5. /\ c \in long /\ c.start \in Int /\ c.end \in Int /\ Agrees(c, m, book)
        /\ Normalized(c, d.unit) # None
    BY <1>3, <2>1, <2>2, <2>4, LatestAgrees
  <2>6. /\ p \in before /\ p.start \in Int /\ p.end \in Int /\ Agrees(p, m, book)
        /\ Normalized(p, d.unit) # None
    BY <1>3, <2>1, <2>3, <2>4, LatestAgrees
  <2>7. c.end = end /\ c.start < end /\ p.start = c.start /\ p.end = end - 1
    BY <2>1, <2>5, <2>6
  <2>. DEFINE s == c.start
              vc == Normalized(c, d.unit)
              vp == Normalized(p, d.unit)
  <2>8. /\ s \in Int /\ s <= end /\ s .. end \subseteq DOMAIN book
        /\ vc = Booked(book, s, end) /\ vp = Booked(book, s, end - 1)
    BY <2>5, <2>6, <2>7 DEF Agrees
  <2>9. derived.value = Signed(d, vc - vp)
    BY <1>1, <1>3 DEF Difference
  <2>. HIDE DEF s, vc, vp, derived
  <2>10. \A q \in s .. end : book[q] \in Int /\ (d.absolute => book[q] >= 0)
    BY <2>8 DEF BookOf
  <2>11. /\ vc = vp + book[end] /\ vc \in Int /\ vp \in Int
    BY <2>8, <2>10, BookedGrows
  <2>12. end \in s .. end
    BY <2>8
  <2>13. book[end] \in Int /\ (d.absolute => book[end] >= 0)
    BY <2>10, <2>12
  <2>14. vc - vp = book[end]
    BY <2>11, <2>13
  <2>15. Signed(d, vc - vp) = book[end]
    BY <2>13, <2>14 DEF Signed, Magnitude
  <2>16. Booked(book, end, end) = book[end] /\ end .. end \subseteq DOMAIN book
    BY <2>8, <2>12, <2>13, BookedOnce
  <2>. QED  BY <2>9, <2>15, <2>16 DEF SaysBook, derived
<1>. QED  BY <1>2, <1>3

\* A quarter that is reported or derived tells what the books say of it.
LEMMA QuarterAgrees ==
    ASSUME NEW rows, IsRows(rows), NEW m, NEW book, BookOf(m, book), BookAgrees(rows, m, book),
           NEW p \in ReportedPeriods(rows, "quarterly")
    PROVE  p.start = p.end /\ p.end \in Int /\ SaysBook(p.metrics[m].value, book, p.end, p.end)
<1>. DEFINE d == Definitions[m]
            kind == "quarterly"
            end == p.end
            period == InPeriod(rows, kind, end)
<1>1. /\ p = Period(rows, kind, end) /\ end \in Int
      /\ \E r \in rows : r.end = end /\ FlowMatches(r, kind)
  BY ReportedFacts DEF FromRows
<1>2. /\ \E r \in period : r.start # None /\ p.start = r.start
      /\ p.metrics[m] = Selected(d, kind, period, rows, p.start, end)
  BY <1>1, PeriodFacts DEF BookOf
<1>3. ASSUME NEW r \in rows, FlowMatches(r, kind), r.end = end
      PROVE  r.start = end
  <2>1. r.start # None /\ Quarters(r) = 1
    BY <1>3 DEF FlowMatches
  <2>2. r.start \in Int /\ r.end \in Int
    BY <2>1 DEF IsRows, IsRow
  <2>. HIDE DEF end
  <2>3. r.start = r.end
    BY <2>1, <2>2 DEF Quarters
  <2>. QED  BY <1>3, <2>3
<1>4. p.start = end
  <2>1. PICK r \in period : r.start # None /\ p.start = r.start
    BY <1>2
  <2>2. r \in rows /\ r.end = end /\ FlowMatches(r, kind)
    BY <2>1 DEF InPeriod, FactMatches
  <2>. QED  BY <1>3, <2>1, <2>2
<1>5. \A i \in DOMAIN d.concepts : SaysBook(Reported(d, period, d.concepts[i]).value, book, end, end)
  <2>1. ASSUME NEW i \in DOMAIN d.concepts
        PROVE  SaysBook(Reported(d, period, d.concepts[i]).value, book, end, end)
    <3>. DEFINE v == Reported(d, period, d.concepts[i]).value
    <3>1. \/ v = None
          \/ \E r \in rows : /\ r.end = end /\ FlowMatches(r, kind) /\ r.start \in Int
                             /\ SaysBook(v, book, r.start, end)
      BY <1>1, ReportedAgrees
    <3>. HIDE DEF v
    <3>2. SaysBook(v, book, end, end)
      BY <1>3, <3>1 DEF SaysBook
    <3>. QED  BY <3>2 DEF v
  <2>. QED  BY <2>1
<1>6. \A i \in DOMAIN d.concepts : SaysBook(FromYearToDate(d, d.concepts[i], rows, end, end).value, book, end, end)
  <2>. HIDE DEF end
  <2>. QED  BY <1>1, DerivedAgrees
<1>7. \/ p.metrics[m] = NoMetric
      \/ \E i \in DOMAIN d.concepts :
            \/ p.metrics[m] = Reported(d, period, d.concepts[i])
            \/ p.metrics[m] = FromYearToDate(d, d.concepts[i], rows, end, end)
  <2>1. Definition(d)
    BY DEF BookOf
  <2>. HIDE DEF d, period, end
  <2>. QED  BY <1>2, <1>4, <2>1, SelectedFacts
<1>8. NoMetric.value = None
  BY DEF NoMetric
<1>9. SaysBook(p.metrics[m].value, book, end, end)
  <2>. HIDE DEF d, period, end
  <2>1. CASE p.metrics[m] = NoMetric
    BY <1>8, <2>1 DEF SaysBook
  <2>2. CASE \E i \in DOMAIN d.concepts :
            \/ p.metrics[m] = Reported(d, period, d.concepts[i])
            \/ p.metrics[m] = FromYearToDate(d, d.concepts[i], rows, end, end)
    BY <1>5, <1>6, <2>2
  <2>. QED  BY <1>7, <2>1, <2>2
<1>. QED  BY <1>1, <1>4, <1>9

\* A year that is reported tells what the books say of it.
LEMMA YearAgrees ==
    ASSUME NEW rows, IsRows(rows), NEW m, NEW book, BookOf(m, book), BookAgrees(rows, m, book),
           NEW p \in ReportedPeriods(rows, "annual")
    PROVE  p.start \in Int /\ p.end \in Int /\ SaysBook(p.metrics[m].value, book, p.start, p.end)
<1>. DEFINE d == Definitions[m]
            kind == "annual"
            end == p.end
            start == p.start
            period == InPeriod(rows, kind, end)
<1>1. /\ p = Period(rows, kind, end) /\ end \in Int
      /\ \E r \in rows : r.end = end /\ FlowMatches(r, kind)
  BY ReportedFacts DEF FromRows
<1>2. /\ \E r \in period : r.start # None /\ start = r.start
      /\ p.metrics[m] = Selected(d, kind, period, rows, start, end)
      /\ start \in Int
  BY <1>1, PeriodFacts DEF BookOf
<1>3. ASSUME NEW r \in rows, FlowMatches(r, kind), r.end = end
      PROVE  r.start = start
  <2>1. PICK x \in period : x.start # None /\ start = x.start
    BY <1>2
  <2>2. x \in rows /\ x.end = end /\ FlowMatches(x, kind)
    BY <2>1 DEF InPeriod, FactMatches
  <2>. QED  BY <1>3, <2>1, <2>2 DEF BookAgrees
<1>5. \A i \in DOMAIN d.concepts : SaysBook(Reported(d, period, d.concepts[i]).value, book, start, end)
  <2>1. ASSUME NEW i \in DOMAIN d.concepts
        PROVE  SaysBook(Reported(d, period, d.concepts[i]).value, book, start, end)
    <3>. DEFINE v == Reported(d, period, d.concepts[i]).value
    <3>1. \/ v = None
          \/ \E r \in rows : /\ r.end = end /\ FlowMatches(r, kind) /\ r.start \in Int
                             /\ SaysBook(v, book, r.start, end)
      BY <1>1, ReportedAgrees
    <3>. HIDE DEF v
    <3>2. SaysBook(v, book, start, end)
      BY <1>3, <3>1 DEF SaysBook
    <3>. QED  BY <3>2 DEF v
  <2>. QED  BY <2>1
<1>7. \/ p.metrics[m] = NoMetric
      \/ \E i \in DOMAIN d.concepts : p.metrics[m] = Reported(d, period, d.concepts[i])
  <2>1. Definition(d) /\ kind # "quarterly"
    BY DEF BookOf
  <2>. HIDE DEF d, period, end, start, kind
  <2>. QED  BY <1>2, <2>1, SelectedFacts
<1>8. NoMetric.value = None
  BY DEF NoMetric
<1>9. SaysBook(p.metrics[m].value, book, start, end)
  <2>. HIDE DEF d, period, end, start
  <2>1. CASE p.metrics[m] = NoMetric
    BY <1>8, <2>1 DEF SaysBook
  <2>2. CASE \E i \in DOMAIN d.concepts : p.metrics[m] = Reported(d, period, d.concepts[i])
    BY <1>5, <2>2
  <2>. QED  BY <1>7, <2>1, <2>2
<1>. QED  BY <1>1, <1>2, <1>9

\* A fourth quarter that is inferred is what the year has left for it.
LEMMA FourthAgrees ==
    ASSUME NEW rows, IsRows(rows), NEW m, NEW book, BookOf(m, book), BookAgrees(rows, m, book),
           NEW p, Inferred(p, ReportedPeriods(rows, "quarterly"), ReportedPeriods(rows, "annual"))
    PROVE  p.end \in Int /\ SaysBook(p.metrics[m].value, book, p.end, p.end)
<1>. DEFINE quarters == ReportedPeriods(rows, "quarterly")
            years == ReportedPeriods(rows, "annual")
<1>1. PICK y \in years : \E prior \in Seq(quarters) :
        /\ Bridges(y, prior) /\ InOrderOfTime(prior)
        /\ p.end = y.end /\ p.metrics[m] = FourthMetric(m, y, prior)
  BY DEF Inferred, BookOf
<1>2. PICK prior \in Seq(quarters) :
        /\ Bridges(y, prior) /\ InOrderOfTime(prior)
        /\ p.end = y.end /\ p.metrics[m] = FourthMetric(m, y, prior)
  BY <1>1
<1>3. y.start \in Int /\ y.end \in Int /\ SaysBook(y.metrics[m].value, book, y.start, y.end)
  BY YearAgrees
<1>4. \A q \in quarters : q.start = q.end /\ q.end \in Int /\ SaysBook(q.metrics[m].value, book, q.end, q.end)
  BY QuarterAgrees
<1>. HIDE DEF quarters, years
<1>. DEFINE a == y.start
            first == [i \in DOMAIN prior |-> prior[i].metrics[m]]
            v == y.metrics[m].value
<1>5. /\ Len(prior) = 3 /\ DOMAIN prior = 1 .. 3
      /\ prior[1] \in quarters /\ prior[2] \in quarters /\ prior[3] \in quarters
  <2>1. Len(prior) = 3
    BY <1>2 DEF Bridges
  <2>2. prior \in Seq(quarters)
    OBVIOUS
  <2>3. DOMAIN prior = 1 .. 3
    BY ONLY <2>1, <2>2
  <2>4. ASSUME NEW i \in 1 .. 3
        PROVE  prior[i] \in quarters
    <3>1. i \in 1 .. Len(prior)
      BY <2>1
    <3>2. prior \in [1 .. Len(prior) -> quarters]
      BY ONLY <2>2
    <3>. QED  BY ONLY <3>1, <3>2
  <2>5. 1 \in 1 .. 3 /\ 2 \in 1 .. 3 /\ 3 \in 1 .. 3
    OBVIOUS
  <2>. QED  BY ONLY <2>1, <2>3, <2>4, <2>5
<1>6. prior[1].end = a /\ prior[2].end = a + 1 /\ prior[3].end = a + 2 /\ y.end = a + 3
  <2>. DEFINE e1 == prior[1].end
              e2 == prior[2].end
              e3 == prior[3].end
  <2>1. e1 \in Int /\ e2 \in Int /\ e3 \in Int /\ e1 = a
    BY <1>2, <1>4, <1>5 DEF Bridges
  <2>2. e1 < e2 /\ e2 < e3
    BY <1>2, <1>5 DEF InOrderOfTime
  <2>3. e2 - e1 <= 1 /\ e3 - e2 <= 1
    <3>1. 2 \in 2 .. 3 /\ 3 \in 2 .. 3 /\ 2 - 1 = 1 /\ 3 - 1 = 2
      OBVIOUS
    <3>2. \A i \in 2 .. 3 : prior[i].end - prior[i - 1].end <= 1
      BY <1>2, <1>5 DEF Bridges, Successive
    <3>3. prior[2].end - prior[2 - 1].end <= 1 /\ prior[3].end - prior[3 - 1].end <= 1
      BY <3>1, <3>2
    <3>. QED  BY <3>1, <3>3
  <2>4. y.end = e3 + 1
    BY <1>2 DEF Bridges
  <2>5. a \in Int
    BY <1>3
  <2>. HIDE DEF e1, e2, e3, a
  <2>6. e1 = a /\ e2 = a + 1 /\ e3 = a + 2 /\ y.end = a + 3
    BY <2>1, <2>2, <2>3, <2>4, <2>5
  <2>. QED  BY <2>6 DEF e1, e2, e3
<1>7. p.metrics[m].value = IF v # None /\ Complete(first) THEN v - Sum(first) ELSE None
  BY <1>2 DEF FourthMetric, BookOf
<1>8. CASE ~(v # None /\ Complete(first))
  <2>1. p.metrics[m].value = None
    <3>. HIDE DEF v, first
    <3>. QED  BY <1>7, <1>8
  <2>. QED  BY <1>2, <1>3, <2>1 DEF SaysBook
<1>9. CASE v # None /\ Complete(first)
  <2>1. /\ a \in Int /\ a .. a + 3 \subseteq DOMAIN book /\ v = Booked(book, a, a + 3)
    BY <1>3, <1>6, <1>9 DEF SaysBook
  <2>. HIDE DEF v
  <2>2. /\ DOMAIN first = 1 .. 3
        /\ first[1].value # None /\ first[2].value # None /\ first[3].value # None
    <3>1. DOMAIN first = 1 .. 3
      BY <1>5
    <3>. HIDE DEF first
    <3>2. \A i \in DOMAIN first : first[i].value # None
      BY <1>9 DEF Complete
    <3>3. 1 \in 1 .. 3 /\ 2 \in 1 .. 3 /\ 3 \in 1 .. 3
      OBVIOUS
    <3>. QED  BY ONLY <3>1, <3>2, <3>3
  <2>. DEFINE f == [i \in DOMAIN first |-> first[i].value]
  <2>3. Sum(first) = SumFunctionOnSet(f, 1 .. 3)
    BY <2>2 DEF Sum
  <2>4. ASSUME NEW i \in 1 .. 3
        PROVE  f[i] = Booked(book, prior[i].end, prior[i].end) /\ prior[i].end \in DOMAIN book
    <3>1. prior[i] \in quarters /\ f[i] = prior[i].metrics[m].value /\ f[i] # None
      BY <1>5, <1>9, <2>2 DEF Complete
    <3>2. prior[i].end \in Int /\ prior[i].end \in prior[i].end .. prior[i].end
      BY <1>4, <3>1
    <3>. HIDE DEF f
    <3>3. SaysBook(prior[i].metrics[m].value, book, prior[i].end, prior[i].end)
      BY <1>4, <3>1
    <3>. QED  BY <3>1, <3>2, <3>3 DEF SaysBook
  <2>5. \A q \in DOMAIN book : q \in Int /\ book[q] \in Int
    BY DEF BookOf
  <2>6. \A i \in 1 .. 3 : f[i] = book[prior[i].end] /\ f[i] \in Int
    <3>. HIDE DEF f
    <3>. QED  BY <2>4, <2>5, BookedOnce
  <2>. HIDE DEF f, first, a
  <2>7. f[1] = book[a] /\ f[2] = book[a + 1] /\ f[3] = book[a + 2]
    <3>1. 1 \in 1 .. 3 /\ 2 \in 1 .. 3 /\ 3 \in 1 .. 3
      OBVIOUS
    <3>. QED  BY <1>6, <2>6, <3>1
  <2>8. SumFunctionOnSet(f, 1 .. 3) = (book[a] + book[a + 1]) + book[a + 2]
    BY <2>6, <2>7, SumOfFour
  <2>9. \A q \in a .. a + 3 : book[q] \in Int
    BY <2>1, <2>5
  <2>10. v = ((book[a] + book[a + 1]) + book[a + 2]) + book[a + 3]
    BY <2>1, <2>9, BookedFour
  <2>11. book[a] \in Int /\ book[a + 1] \in Int /\ book[a + 2] \in Int /\ book[a + 3] \in Int
         /\ a + 3 \in DOMAIN book /\ a + 3 \in Int
    BY <2>1, <2>9
  <2>12. v - Sum(first) = book[a + 3]
    BY <2>3, <2>8, <2>10, <2>11
  <2>13. p.metrics[m].value = book[a + 3]
    BY <1>7, <1>9, <2>12 DEF first
  <2>14. Booked(book, a + 3, a + 3) = book[a + 3] /\ (a + 3) .. (a + 3) \subseteq DOMAIN book
    BY <2>11, BookedOnce
  <2>15. p.end = a + 3
    BY <1>2, <1>6
  <2>. QED  BY <2>11, <2>13, <2>14, <2>15 DEF SaysBook
<1>. QED  BY <1>8, <1>9

\* Every quarter tells what the books say of it.
LEMMA QuartersAgree ==
    ASSUME NEW rows, IsRows(rows), NEW m, NEW book, BookOf(m, book), BookAgrees(rows, m, book),
           NEW i \in DOMAIN QuarterlyPeriods(rows)
    PROVE  /\ QuarterlyPeriods(rows)[i].end \in Int
           /\ SaysBook(QuarterlyPeriods(rows)[i].metrics[m].value, book,
                       QuarterlyPeriods(rows)[i].end, QuarterlyPeriods(rows)[i].end)
<1>. DEFINE quarters == ReportedPeriods(rows, "quarterly")
            years == ReportedPeriods(rows, "annual")
            all == QuarterlyPeriods(rows)
            p == all[i]
<1>1. /\ all \in Seq(quarters \cup FourthQuarters(quarters, years))
      /\ \A q \in FourthQuarters(quarters, years) : Inferred(q, quarters, years)
  BY QuarterlyFacts
<1>2. p \in quarters \/ Inferred(p, quarters, years)
  <2>. HIDE DEF all, quarters, years
  <2>1. i \in DOMAIN all
    BY DEF all
  <2>. QED  BY <1>1, <2>1
<1>. HIDE DEF p, all
<1>3. CASE p \in quarters
  BY <1>3, QuarterAgrees DEF p, all
<1>4. CASE Inferred(p, quarters, years)
  BY <1>4, FourthAgrees DEF p, all
<1>. QED  BY <1>2, <1>3, <1>4

\* Every trailing year is the sum of four quarters of the books.
LEMMA YearsAgree ==
    ASSUME NEW rows, IsRows(rows), NEW m, NEW book, BookOf(m, book), BookAgrees(rows, m, book),
           NEW i \in DOMAIN TrailingPeriods(rows)
    PROVE  SaysBook(TrailingPeriods(rows)[i].metrics[m].value, book,
                    TrailingPeriods(rows)[i].end - 3, TrailingPeriods(rows)[i].end)
<1>. DEFINE quarters == QuarterlyPeriods(rows)
            T == {quarters[j] : j \in DOMAIN quarters}
            p == TrailingPeriods(rows)[i]
<1>1. quarters \in Seq(T) /\ \A j \in DOMAIN quarters : FromRows(quarters[j], rows)
  BY QuartersAreFromRows
<1>2. \A q \in T : q.end \in Int /\ q.start \in Int
  BY <1>1 DEF FromRows
<1>3. InOrderOfTime(quarters)
  BY QuarterlyFacts
<1>4. \A j \in DOMAIN quarters : SaysBook(quarters[j].metrics[m].value, book, quarters[j].end, quarters[j].end)
                                 /\ quarters[j].end \in Int
  BY QuartersAgree
<1>. HIDE DEF T
<1>5. Trailing(p, quarters)
  <2>1. \A j \in DOMAIN TrailingOf(quarters) : Trailing(TrailingOf(quarters)[j], quarters)
    <3>. HIDE DEF quarters
    <3>. QED  BY <1>1, <1>2, <1>3, TrailingFacts
  <2>. QED  BY <2>1 DEF TrailingPeriods
<1>. HIDE DEF quarters, p
<1>6. PICK k \in 4 .. Len(quarters) :
        /\ Successive(SubSeq(quarters, k - 3, k))
        /\ p.end = SubSeq(quarters, k - 3, k)[4].end
        /\ p.metrics[m] = TrailingMetric(m, SubSeq(quarters, k - 3, k))
  BY <1>5 DEF Trailing, BookOf
<1>. DEFINE window == SubSeq(quarters, k - 3, k)
            four == [j \in 1 .. 4 |-> window[j].metrics[m]]
            a == window[1].end
<1>7. Len(quarters) \in Nat /\ DOMAIN quarters = 1 .. Len(quarters) /\ k \in Nat
  BY <1>1
<1>8. /\ Len(window) = 4
      /\ window[1] = quarters[k - 3] /\ window[2] = quarters[k - 2]
      /\ window[3] = quarters[k - 1] /\ window[4] = quarters[k]
      /\ k - 3 \in DOMAIN quarters /\ k - 2 \in DOMAIN quarters
      /\ k - 1 \in DOMAIN quarters /\ k \in DOMAIN quarters
  BY <1>1, <1>7
<1>9. Successive(window) /\ p.end = window[4].end /\ p.metrics[m] = TrailingMetric(m, window)
  BY <1>6
<1>. HIDE DEF window
<1>10. window[1].end = a /\ window[2].end = a + 1 /\ window[3].end = a + 2 /\ window[4].end = a + 3 /\ a \in Int
  <2>. DEFINE e1 == window[1].end
              e2 == window[2].end
              e3 == window[3].end
              e4 == window[4].end
  <2>1. e1 \in Int /\ e2 \in Int /\ e3 \in Int /\ e4 \in Int
    BY <1>4, <1>8
  <2>2. e1 < e2 /\ e2 < e3 /\ e3 < e4
    <3>1. k - 3 < k - 2 /\ k - 2 < k - 1 /\ k - 1 < k
      BY <1>7
    <3>. QED  BY <1>3, <1>7, <1>8, <3>1 DEF InOrderOfTime
  <2>3. e2 - e1 <= 1 /\ e3 - e2 <= 1 /\ e4 - e3 <= 1
    <3>1. 2 \in 2 .. 4 /\ 3 \in 2 .. 4 /\ 4 \in 2 .. 4 /\ 2 - 1 = 1 /\ 3 - 1 = 2 /\ 4 - 1 = 3
      OBVIOUS
    <3>2. \A j \in 2 .. 4 : window[j].end - window[j - 1].end <= 1
      BY <1>8, <1>9 DEF Successive
    <3>3. /\ window[2].end - window[2 - 1].end <= 1 /\ window[3].end - window[3 - 1].end <= 1
          /\ window[4].end - window[4 - 1].end <= 1
      BY <3>1, <3>2
    <3>. QED  BY <3>1, <3>3
  <2>. HIDE DEF e1, e2, e3, e4
  <2>4. e2 = e1 + 1 /\ e3 = e1 + 2 /\ e4 = e1 + 3
    BY <2>1, <2>2, <2>3
  <2>. QED  BY <2>1, <2>4 DEF e1, e2, e3, e4
<1>11. p.metrics[m].value = IF Complete(four) THEN Sum(four) ELSE None
  BY <1>9 DEF TrailingMetric, BookOf
<1>12. CASE ~Complete(four)
  <2>1. p.metrics[m].value = None
    <3>. HIDE DEF four
    <3>. QED  BY <1>11, <1>12
  <2>. QED  BY <2>1 DEF SaysBook, p
<1>13. CASE Complete(four)
  <2>. DEFINE f == [j \in DOMAIN four |-> four[j].value]
  <2>1. DOMAIN four = 1 .. 4
    OBVIOUS
  <2>2. \A j \in 1 .. 4 : f[j] = window[j].metrics[m].value /\ f[j] # None
    BY <1>13 DEF Complete
  <2>3. Sum(four) = SumFunctionOnSet(f, 1 .. 4)
    BY <2>1 DEF Sum
  <2>4. \A q \in DOMAIN book : q \in Int /\ book[q] \in Int
    BY DEF BookOf
  <2>. HIDE DEF f, four
  <2>5. ASSUME NEW j \in 1 .. 4
        PROVE  f[j] = book[window[j].end] /\ window[j].end \in DOMAIN book /\ f[j] \in Int
    <3>1. SaysBook(window[j].metrics[m].value, book, window[j].end, window[j].end) /\ window[j].end \in Int
      <4>1. j = 1 \/ j = 2 \/ j = 3 \/ j = 4
        OBVIOUS
      <4>. QED  BY <1>4, <1>8, <4>1
    <3>2. window[j].end \in DOMAIN book /\ f[j] = Booked(book, window[j].end, window[j].end)
      <4>1. window[j].end \in window[j].end .. window[j].end
        BY <3>1
      <4>. QED  BY <2>2, <3>1, <4>1 DEF SaysBook
    <3>. QED  BY <2>4, <3>1, <3>2, BookedOnce
  <2>. HIDE DEF a
  <2>6. 1 \in 1 .. 4 /\ 2 \in 1 .. 4 /\ 3 \in 1 .. 4 /\ 4 \in 1 .. 4
    OBVIOUS
  <2>7. /\ f[1] = book[a] /\ f[2] = book[a + 1] /\ f[3] = book[a + 2] /\ f[4] = book[a + 3]
        /\ a \in DOMAIN book /\ a + 1 \in DOMAIN book /\ a + 2 \in DOMAIN book /\ a + 3 \in DOMAIN book
    BY <1>10, <2>5, <2>6
  <2>8. a .. a + 3 \subseteq DOMAIN book
    <3>1. \A q \in a .. a + 3 : q = a \/ q = a + 1 \/ q = a + 2 \/ q = a + 3
      BY <1>10
    <3>. QED  BY <2>7, <3>1
  <2>9. \A q \in a .. a + 3 : book[q] \in Int
    BY <2>4, <2>8
  <2>10. Booked(book, a, a + 3) = ((book[a] + book[a + 1]) + book[a + 2]) + book[a + 3]
    BY <1>10, <2>9, BookedFour
  <2>11. SumFunctionOnSet(f, 1 .. 4) = ((f[1] + f[2]) + f[3]) + f[4]
    <3>1. f[4] \in Int /\ \A j \in 1 .. 3 : f[j] \in Int
      BY <2>5
    <3>. QED  BY <3>1, SumOfFour
  <2>12. p.metrics[m].value = Booked(book, a, a + 3)
    BY <1>11, <1>13, <2>3, <2>7, <2>10, <2>11
  <2>13. p.end = a + 3 /\ p.end - 3 = a
    BY <1>9, <1>10
  <2>. QED  BY <2>8, <2>12, <2>13 DEF SaysBook, p
<1>. QED  BY <1>12, <1>13

\* Whatever was told, restated, retold and fetched in whatever order: where what
\* was last told of the flows agrees with the books, every quarter that is
\* reported, derived from the year to date or inferred for the fourth and every
\* trailing year agree with them too, or have no value.
THEOREM PeriodsMatch == Spec => []PeriodsMatchTheBooks
<1>1. EventsInv => PeriodsMatchTheBooks
  <2>. SUFFICES ASSUME EventsInv, NEW t \in Times, FlowsAgree(KnownAt(facts, t)),
                       NEW m \in DOMAIN Books[filing]
       PROVE  LET rows     == KnownAt(facts, t)
                  quarters == QuarterlyPeriods(rows)
                  years    == TrailingPeriods(rows)
                  Right(p, first) == p.metrics[m].value \in {None, Booked(Books[filing][m], first, p.end)}
              IN  /\ \A i \in DOMAIN quarters : Right(quarters[i], quarters[i].end)
                  /\ \A i \in DOMAIN years : Right(years[i], years[i].end - 3)
    BY DEF PeriodsMatchTheBooks
  <2>. DEFINE rows == KnownAt(facts, t)
              book == Books[filing][m]
  <2>1. IsRows(rows)
    <3>1. rows \in SUBSET facts /\ StoreInv
      BY DEF KnownAt, EventsInv
    <3>. HIDE DEF rows
    <3>. QED  BY <3>1, StoredRows
  <2>2. BookOf(m, book) /\ BookAgrees(rows, m, book)
    BY BooksFacts DEF EventsInv, StoreInv
  <2>. HIDE DEF rows, book
  <2>3. \A i \in DOMAIN QuarterlyPeriods(rows) :
           QuarterlyPeriods(rows)[i].metrics[m].value
              \in {None, Booked(book, QuarterlyPeriods(rows)[i].end, QuarterlyPeriods(rows)[i].end)}
    BY <2>1, <2>2, QuartersAgree DEF SaysBook
  <2>4. \A i \in DOMAIN TrailingPeriods(rows) :
           TrailingPeriods(rows)[i].metrics[m].value
              \in {None, Booked(book, TrailingPeriods(rows)[i].end - 3, TrailingPeriods(rows)[i].end)}
    BY <2>1, <2>2, YearsAgree DEF SaysBook
  <2>. QED  BY <2>3, <2>4 DEF rows, book
<1>. QED  BY <1>1, EventsInvariant, PTL

-----------------------------------------------------------------------------
\* Rows that tell the same

\* Rows of the same observation, which count alike
Alike(r, q) ==
    /\ r.filing = q.filing /\ r.form = q.form /\ r.fiscal = q.fiscal /\ r.form \in Forms
    /\ r.concept = q.concept /\ r.start = q.start /\ r.end = q.end
    /\ r.value = q.value /\ r.unit = q.unit
    /\ r.framed = q.framed \/ QuarterlyForm(r) \/ r.fiscal # "FY" \/ r.start # r.end

\* What one set tells the other tells too.
Mirrors(S, T) ==
    /\ \A r \in S : \E q \in T : Alike(r, q)
    /\ \A q \in T : \E r \in S : Alike(r, q)

\* Of two rows about a subject, if they are not the same, one is known first,
\* the one whose filing was accepted first.
Precedes(r, q) ==
    filing[r.filing].accepted < filing[q.filing].accepted /\ r.known < q.known
Clear(rows) ==
    \A r, q \in rows : SameSubject(r, q) => Alike(r, q) \/ Precedes(r, q) \/ Precedes(q, r)

OneSubject(rows) == \A r, q \in rows : SameSubject(r, q)

\* Two sets of rows that answer every question alike
Twins(S, T) == IsRows(S) /\ IsRows(T) /\ Mirrors(S, T) /\ Clear(S \cup T)

FilingsInOrder == \A n \in Filings : filing[n].accepted \in Int
OfFilings(rows) == \A r \in rows : r.filing \in Filings

LEMMA AlikeMatches ==
    ASSUME NEW r, IsRow(r), NEW q, IsRow(q), Alike(r, q), NEW kind
    PROVE  /\ FlowMatches(r, kind) <=> FlowMatches(q, kind)
           /\ FactMatches(r, kind) <=> FactMatches(q, kind)
           /\ QuarterlyForm(r) <=> QuarterlyForm(q)
           /\ \A unit : Normalized(r, unit) = Normalized(q, unit)
           /\ \A d : MetricOf(d, r) = MetricOf(d, q)
<1>1. QuarterlyForm(r) <=> QuarterlyForm(q)
  BY DEF Alike, QuarterlyForm
<1>2. AnnualForm(r) <=> AnnualForm(q)
  BY DEF Alike, AnnualForm
<1>3. QuarterlyForm(r) \/ AnnualForm(r)
  BY DEF Alike, QuarterlyForm, AnnualForm, Forms
<1>4. FlowMatches(r, kind) <=> FlowMatches(q, kind)
  <2>1. CASE r.start = None
    BY <2>1 DEF FlowMatches, Alike
  <2>2. CASE kind = "annual"
    BY <1>2, <2>2 DEF FlowMatches, Alike, Quarters
  <2>3. CASE r.start # None /\ kind # "annual" /\ r.start # r.end
    <3>1. Quarters(r) = Quarters(q)
      BY DEF Alike, Quarters
    <3>2. Quarters(r) # 1
      BY <2>3 DEF IsRow, Quarters
    <3>. QED  BY <2>3, <3>1, <3>2 DEF FlowMatches
  <2>4. CASE r.start # None /\ kind # "annual" /\ r.start = r.end
    <3>1. Quarters(r) = Quarters(q)
      BY DEF Alike, Quarters
    <3>. QED  BY <1>1, <2>4, <3>1 DEF FlowMatches, Alike
  <2>. QED  BY <2>1, <2>2, <2>3, <2>4
<1>5. FactMatches(r, kind) <=> FactMatches(q, kind)
  BY <1>1, <1>2, <1>3, <1>4 DEF FactMatches, Alike
<1>6. \A unit : Normalized(r, unit) = Normalized(q, unit)
  BY DEF Alike, Normalized
<1>7. \A d : MetricOf(d, r) = MetricOf(d, q)
  <2>1. r # None /\ q # None /\ r.filing = q.filing
    BY DEF IsRow, Alike
  <2>. QED  BY <1>6, <2>1 DEF MetricOf
<1>. QED  BY <1>1, <1>4, <1>5, <1>6, <1>7

LEMMA AlikeSwaps ==
    ASSUME NEW r, NEW q, Alike(r, q)
    PROVE  Alike(q, r)
  BY DEF Alike, QuarterlyForm

LEMMA AlikeChains ==
    ASSUME NEW r, NEW q, NEW s, Alike(r, q), Alike(q, s)
    PROVE  Alike(r, s)
  BY DEF Alike, QuarterlyForm

\* Parts that were chosen by what the rows tell
LEMMA PartsMirror ==
    ASSUME NEW S, NEW T, Mirrors(S, T), NEW X \in SUBSET S, NEW Y \in SUBSET T,
           \A r \in S : \A q \in T : Alike(r, q) => (r \in X <=> q \in Y)
    PROVE  Mirrors(X, Y)
<1>1. ASSUME NEW r \in X PROVE \E q \in Y : Alike(r, q)
  BY DEF Mirrors
<1>2. ASSUME NEW q \in Y PROVE \E r \in X : Alike(r, q)
  BY DEF Mirrors
<1>. QED  BY <1>1, <1>2 DEF Mirrors

LEMMA PartsAreTwins ==
    ASSUME NEW S, NEW T, Twins(S, T), NEW X \in SUBSET S, NEW Y \in SUBSET T,
           \A r \in S : \A q \in T : Alike(r, q) => (r \in X <=> q \in Y)
    PROVE  Twins(X, Y)
<1>1. Mirrors(X, Y)
  BY PartsMirror DEF Twins
<1>2. IsRows(X) /\ IsRows(Y)
  BY FS_Subset DEF Twins, IsRows
<1>3. Clear(X \cup Y)
  BY DEF Twins, Clear
<1>. QED  BY <1>1, <1>2, <1>3 DEF Twins

LEMMA LatestAlike ==
    ASSUME FilingsInOrder, NEW S, NEW T, Twins(S, T), OneSubject(S \cup T), S # {}, OfFilings(S \cup T)
    PROVE  /\ T # {} /\ Latest(S) \in S /\ Latest(T) \in T
           /\ Alike(Latest(S), Latest(T))
<1>. DEFINE s == Latest(S)
            u == Latest(T)
<1>1. T # {}
  BY DEF Twins, Mirrors
<1>2. /\ s \in S /\ \A q \in S : Behind(q, s)
      /\ u \in T /\ \A q \in T : Behind(q, u)
  BY <1>1, LatestIsThere DEF Twins
<1>. HIDE DEF s, u
<1>3. PICK x \in S : Alike(x, u)
  BY <1>2 DEF Twins, Mirrors
<1>4. PICK y \in T : Alike(s, y)
  BY <1>2 DEF Twins, Mirrors
<1>5. Behind(x, s) /\ Behind(y, u)
  BY <1>2
<1>6. s.known \in Int /\ x.known \in Int /\ y.known \in Int /\ u.known \in Int
  BY <1>2 DEF Twins, IsRows, IsRow
<1>7. /\ Alike(s, x) \/ Precedes(s, x) \/ Precedes(x, s)
      /\ Alike(y, u) \/ Precedes(y, u) \/ Precedes(u, y)
  BY <1>2 DEF Twins, Clear, OneSubject
<1>8. x.filing = u.filing /\ s.filing = y.filing
  BY <1>3, <1>4 DEF Alike
<1>9. ~Precedes(s, x) /\ ~Precedes(u, y)
  BY <1>5, <1>6 DEF Precedes, Behind
<1>10. Alike(s, u)
  <2>1. CASE Alike(s, x)
    BY <1>3, <2>1, AlikeChains
  <2>2. CASE Alike(y, u)
    BY <1>4, <2>2, AlikeChains
  <2>3. CASE Precedes(x, s) /\ Precedes(y, u)
    <3>1. filing[s.filing].accepted \in Int /\ filing[u.filing].accepted \in Int
      BY <1>2 DEF FilingsInOrder, OfFilings
    <3>. QED  BY <1>8, <2>3, <3>1 DEF Precedes
  <2>. QED  BY <1>7, <1>9, <2>1, <2>2, <2>3
<1>. QED  BY <1>1, <1>2, <1>10 DEF s, u

LEMMA UsableAlike ==
    ASSUME FilingsInOrder, NEW S, NEW T, Twins(S, T), OneSubject(S \cup T), OfFilings(S \cup T), NEW d
    PROVE  \/ LatestUsable(d, S) = None /\ LatestUsable(d, T) = None
           \/ /\ LatestUsable(d, S) \in S /\ LatestUsable(d, T) \in T
              /\ Alike(LatestUsable(d, S), LatestUsable(d, T))
<1>. DEFINE X == {r \in S : Normalized(r, d.unit) # None}
            Y == {r \in T : Normalized(r, d.unit) # None}
<1>1. /\ LatestUsable(d, S) = IF X = {} THEN None ELSE Latest(X)
      /\ LatestUsable(d, T) = IF Y = {} THEN None ELSE Latest(Y)
  BY DEF LatestUsable
<1>2. X \in SUBSET S /\ Y \in SUBSET T
  OBVIOUS
<1>3. \A r \in S : \A q \in T : Alike(r, q) => (r \in X <=> q \in Y)
  BY AlikeMatches DEF Twins, IsRows
<1>. HIDE DEF X, Y
<1>4. Twins(X, Y)
  BY <1>2, <1>3, PartsAreTwins
<1>5. OneSubject(X \cup Y) /\ OfFilings(X \cup Y)
  BY <1>2 DEF OneSubject, OfFilings
<1>6. X = {} => Y = {}
  BY <1>4 DEF Twins, Mirrors
<1>7. X # {} => Y # {} /\ Latest(X) \in X /\ Latest(Y) \in Y /\ Alike(Latest(X), Latest(Y))
  BY <1>4, <1>5, LatestAlike
<1>. QED  BY <1>1, <1>2, <1>6, <1>7

LEMMA MetricAlike ==
    ASSUME FilingsInOrder, NEW S, NEW T, Twins(S, T), OneSubject(S \cup T), OfFilings(S \cup T), NEW d
    PROVE  MetricOf(d, LatestUsable(d, S)) = MetricOf(d, LatestUsable(d, T))
<1>. DEFINE s == LatestUsable(d, S)
            u == LatestUsable(d, T)
<1>1. s = u \/ (s \in S /\ u \in T /\ Alike(s, u))
  BY UsableAlike
<1>. HIDE DEF s, u
<1>2. CASE s \in S /\ u \in T /\ Alike(s, u)
  <2>1. IsRow(s) /\ IsRow(u)
    BY <1>2 DEF Twins, IsRows
  <2>2. MetricOf(d, s) = MetricOf(d, u)
    BY <1>2, <2>1, AlikeMatches
  <2>. QED  BY <2>2 DEF s, u
<1>3. CASE s = u
  BY <1>3 DEF s, u
<1>. QED  BY <1>1, <1>2, <1>3

-----------------------------------------------------------------------------
\* Periods of rows that tell the same

\* The rows of what is known, whose filings have an order
Accounts(S, T) == FilingsInOrder /\ Twins(S, T) /\ OfFilings(S \cup T)

LEMMA PeriodsMirror ==
    ASSUME NEW S, NEW T, Accounts(S, T), NEW kind, NEW end
    PROVE  /\ InPeriod(S, kind, end) \in SUBSET S /\ InPeriod(T, kind, end) \in SUBSET T
           /\ \A r \in S : \A q \in T :
                 Alike(r, q) => (r \in InPeriod(S, kind, end) <=> q \in InPeriod(T, kind, end))
           /\ Mirrors(InPeriod(S, kind, end), InPeriod(T, kind, end))
<1>1. InPeriod(S, kind, end) \in SUBSET S /\ InPeriod(T, kind, end) \in SUBSET T
  BY DEF InPeriod
<1>2. ASSUME NEW r \in S, NEW q \in T, Alike(r, q)
      PROVE  r \in InPeriod(S, kind, end) <=> q \in InPeriod(T, kind, end)
  <2>1. IsRow(r) /\ IsRow(q)
    BY DEF Accounts, Twins, IsRows
  <2>2. FactMatches(r, kind) <=> FactMatches(q, kind)
    BY <1>2, <2>1, AlikeMatches
  <2>3. r.end = q.end
    BY <1>2 DEF Alike
  <2>. QED  BY <2>2, <2>3 DEF InPeriod
<1>3. Mirrors(S, T)
  BY DEF Accounts, Twins
<1>. QED  BY <1>1, <1>2, <1>3, PartsMirror

\* The facts of a concept in a period are about one subject.
LEMMA PeriodHasOneSubject ==
    ASSUME NEW rows, NEW kind, NEW end, NEW concept,
           \A r \in rows : IsRow(r) /\ r.end = end /\ FactMatches(r, kind) /\ r.concept = concept
    PROVE  OneSubject(rows)
<1>. SUFFICES ASSUME NEW r \in rows, NEW q \in rows,
                     r.start # None, q.start # None
              PROVE  (r.start = r.end) = (q.start = q.end)
  BY DEF OneSubject, SameSubject
<1>1. r.start \in Int /\ r.end \in Int /\ q.start \in Int /\ q.end \in Int
  BY DEF IsRow
<1>2. FlowMatches(r, kind) /\ FlowMatches(q, kind)
  BY DEF FactMatches
<1>3. CASE kind = "annual"
  BY <1>1, <1>2, <1>3 DEF FlowMatches, Quarters
<1>4. CASE kind # "annual"
  BY <1>1, <1>2, <1>4 DEF FlowMatches, Quarters
<1>. QED  BY <1>3, <1>4

LEMMA PartsAreAccounts ==
    ASSUME NEW S, NEW T, Accounts(S, T), NEW X \in SUBSET S, NEW Y \in SUBSET T,
           \A r \in S : \A q \in T : Alike(r, q) => (r \in X <=> q \in Y)
    PROVE  Accounts(X, Y)
<1>1. Twins(X, Y)
  BY PartsAreTwins DEF Accounts
<1>. QED  BY <1>1 DEF Accounts, OfFilings

\* Nothing usable, or what counts alike
Same(r, q) ==
    \/ r = None /\ q = None
    \/ IsRow(r) /\ IsRow(q) /\ Alike(r, q)

LEMMA UsableSame ==
    ASSUME NEW S, NEW T, Accounts(S, T), OneSubject(S \cup T), NEW d
    PROVE  Same(LatestUsable(d, S), LatestUsable(d, T))
<1>. DEFINE s == LatestUsable(d, S)
            u == LatestUsable(d, T)
<1>1. \/ s = None /\ u = None
      \/ s \in S /\ u \in T /\ Alike(s, u)
  BY UsableAlike DEF Accounts
<1>2. \A r \in S \cup T : IsRow(r)
  BY DEF Accounts, Twins, IsRows
<1>. QED  BY <1>1, <1>2 DEF Same

LEMMA DifferenceSame ==
    ASSUME NEW current, NEW prior, NEW current2, NEW prior2, NEW d,
           Same(current, current2), Same(prior, prior2)
    PROVE  Difference(d, current, prior) = Difference(d, current2, prior2)
<1>1. CASE None \in {current, prior}
  <2>1. None \in {current2, prior2}
    BY <1>1 DEF Same, IsRow
  <2>. QED  BY <1>1, <2>1 DEF Difference
<1>2. CASE None \notin {current, prior}
  <2>1. None \notin {current2, prior2}
    BY <1>2 DEF Same, IsRow
  <2>2. /\ IsRow(current) /\ IsRow(current2) /\ Alike(current, current2)
        /\ IsRow(prior) /\ IsRow(prior2) /\ Alike(prior, prior2)
    BY <1>2 DEF Same
  <2>3. /\ Normalized(current, d.unit) = Normalized(current2, d.unit)
        /\ Normalized(prior, d.unit) = Normalized(prior2, d.unit)
    BY <2>2, AlikeMatches
  <2>4. current.filing = current2.filing /\ prior.filing = prior2.filing
    BY <2>2 DEF Alike
  <2>. QED  BY <1>2, <2>1, <2>3, <2>4 DEF Difference
<1>. QED  BY <1>1, <1>2

LEMMA DerivedAlike ==
    ASSUME NEW S, NEW T, Accounts(S, T), NEW d, NEW concept, NEW start \in Int, NEW end \in Int,
           start <= end
    PROVE  FromYearToDate(d, concept, S, start, end) = FromYearToDate(d, concept, T, start, end)
<1>. DEFINE flows(rows) == {r \in rows : r.concept = concept /\ r.start # None}
            ToDate(rows) == {r \in flows(rows) : r.end = end /\ r.start < start /\ QuarterlyForm(r)}
            current(rows) == LatestUsable(d, ToDate(rows))
            prior(rows) == IF current(rows) = None THEN None
                           ELSE LatestUsable(d, PriorToDate(current(rows), flows(rows)))
<1>1. \A rows : FromYearToDate(d, concept, rows, start, end) = Difference(d, current(rows), prior(rows))
  BY DEF FromYearToDate, Since
<1>2. /\ flows(S) \in SUBSET S /\ flows(T) \in SUBSET T
      /\ \A r \in S : \A q \in T : Alike(r, q) => (r \in flows(S) <=> q \in flows(T))
  BY DEF Alike
<1>3. \A r \in S \cup T : IsRow(r)
  BY DEF Accounts, Twins, IsRows
<1>4. Same(current(S), current(T))
  <2>1. /\ ToDate(S) \in SUBSET S /\ ToDate(T) \in SUBSET T
        /\ \A r \in S : \A q \in T : Alike(r, q) => (r \in ToDate(S) <=> q \in ToDate(T))
    <3>1. \A r, q : Alike(r, q) => (QuarterlyForm(r) <=> QuarterlyForm(q))
      BY DEF Alike, QuarterlyForm
    <3>. QED  BY <3>1 DEF Alike
  <2>2. OneSubject(ToDate(S) \cup ToDate(T))
    <3>. SUFFICES ASSUME NEW r \in ToDate(S) \cup ToDate(T), NEW q \in ToDate(S) \cup ToDate(T)
                  PROVE  SameSubject(r, q)
      BY DEF OneSubject
    <3>1. /\ r.concept = q.concept /\ r.end = end /\ q.end = end
          /\ r.start < start /\ q.start < start /\ r.start # None /\ q.start # None
      OBVIOUS
    <3>2. r.start \in Int /\ q.start \in Int
      BY <1>3, <3>1 DEF IsRow
    <3>. QED  BY <3>1, <3>2 DEF SameSubject
  <2>. HIDE DEF ToDate
  <2>3. Accounts(ToDate(S), ToDate(T))
    BY <2>1, PartsAreAccounts
  <2>. QED  BY <2>2, <2>3, UsableSame
<1>5. ASSUME current(S) # None
      PROVE  Same(LatestUsable(d, PriorToDate(current(S), flows(S))),
                  LatestUsable(d, PriorToDate(current(T), flows(T))))
  <2>. DEFINE s == current(S)
              u == current(T)
              X == PriorToDate(s, flows(S))
              Y == PriorToDate(u, flows(T))
  <2>1. s.start = u.start /\ s.end = u.end /\ u # None
    BY <1>4, <1>5 DEF Same, Alike, IsRow
  <2>. HIDE DEF s, u, flows
  <2>2. X \in SUBSET S /\ Y \in SUBSET T
    BY <1>2 DEF PriorToDate
  <2>3. \A r \in S : \A q \in T : Alike(r, q) => (r \in X <=> q \in Y)
    BY <1>2, <2>1 DEF PriorToDate, Alike
  <2>4. OneSubject(X \cup Y)
    <3>1. \A r \in X \cup Y : r.concept = concept /\ r.start = s.start /\ r.end = s.end - 1
      BY <2>1 DEF PriorToDate, flows
    <3>. QED  BY <3>1 DEF OneSubject, SameSubject
  <2>. HIDE DEF X, Y
  <2>5. Accounts(X, Y)
    BY <2>2, <2>3, PartsAreAccounts
  <2>6. Same(LatestUsable(d, X), LatestUsable(d, Y))
    BY <2>4, <2>5, UsableSame
  <2>. QED  BY <2>6 DEF X, Y, s, u
<1>6. Same(prior(S), prior(T))
  <2>. HIDE DEF current, flows
  <2>. QED  BY <1>4, <1>5 DEF Same, IsRow
<1>. HIDE DEF current, prior
<1>7. Difference(d, current(S), prior(S)) = Difference(d, current(T), prior(T))
  BY <1>4, <1>6, DifferenceSame
<1>. QED  BY <1>1, <1>7

\* The facts of a concept in a period
OfConcept(rows, kind, end, concept) == {r \in InPeriod(rows, kind, end) : r.concept = concept}

LEMMA ConceptAlike ==
    ASSUME NEW S, NEW T, Accounts(S, T), NEW kind, NEW end, NEW concept
    PROVE  /\ Accounts(OfConcept(S, kind, end, concept), OfConcept(T, kind, end, concept))
           /\ OneSubject(OfConcept(S, kind, end, concept) \cup OfConcept(T, kind, end, concept))
<1>. DEFINE X == OfConcept(S, kind, end, concept)
            Y == OfConcept(T, kind, end, concept)
<1>1. /\ X \in SUBSET S /\ Y \in SUBSET T
      /\ \A r \in S : \A q \in T : Alike(r, q) => (r \in X <=> q \in Y)
  <2>1. /\ InPeriod(S, kind, end) \in SUBSET S /\ InPeriod(T, kind, end) \in SUBSET T
        /\ \A r \in S : \A q \in T :
              Alike(r, q) => (r \in InPeriod(S, kind, end) <=> q \in InPeriod(T, kind, end))
    BY PeriodsMirror
  <2>2. \A r, q : Alike(r, q) => r.concept = q.concept
    BY DEF Alike
  <2>. QED  BY <2>1, <2>2 DEF OfConcept
<1>2. \A r \in X \cup Y : IsRow(r) /\ r.end = end /\ FactMatches(r, kind) /\ r.concept = concept
  BY DEF OfConcept, InPeriod, Accounts, Twins, IsRows
<1>. HIDE DEF X, Y
<1>3. OneSubject(X \cup Y)
  BY <1>2, PeriodHasOneSubject
<1>4. Accounts(X, Y)
  BY <1>1, PartsAreAccounts
<1>. QED  BY <1>3, <1>4 DEF X, Y

LEMMA ReportedAlike ==
    ASSUME NEW S, NEW T, Accounts(S, T), NEW kind, NEW end, NEW d, NEW concept
    PROVE  Reported(d, InPeriod(S, kind, end), concept) = Reported(d, InPeriod(T, kind, end), concept)
<1>. DEFINE X == OfConcept(S, kind, end, concept)
            Y == OfConcept(T, kind, end, concept)
<1>1. Accounts(X, Y) /\ OneSubject(X \cup Y)
  BY ConceptAlike
<1>2. /\ Reported(d, InPeriod(S, kind, end), concept) = MetricOf(d, LatestUsable(d, X))
      /\ Reported(d, InPeriod(T, kind, end), concept) = MetricOf(d, LatestUsable(d, Y))
  BY DEF Reported, OfConcept
<1>. HIDE DEF X, Y
<1>. QED  BY <1>1, <1>2, MetricAlike DEF Accounts

LEMMA LatestOfConceptAlike ==
    ASSUME NEW S, NEW T, Accounts(S, T), NEW kind, NEW end, NEW concept
    PROVE  /\ OfConcept(S, kind, end, concept) = {} <=> OfConcept(T, kind, end, concept) = {}
           /\ OfConcept(S, kind, end, concept) # {} =>
                 LET r == Latest(OfConcept(S, kind, end, concept))
                     q == Latest(OfConcept(T, kind, end, concept))
                 IN  r.filing = q.filing /\ \A unit : Normalized(r, unit) = Normalized(q, unit)
<1>. DEFINE X == OfConcept(S, kind, end, concept)
            Y == OfConcept(T, kind, end, concept)
            r == Latest(X)
            q == Latest(Y)
<1>1. Accounts(X, Y) /\ OneSubject(X \cup Y)
  BY ConceptAlike
<1>2. X = {} <=> Y = {}
  BY <1>1 DEF Accounts, Twins, Mirrors
<1>3. ASSUME X # {}
      PROVE  r.filing = q.filing /\ \A unit : Normalized(r, unit) = Normalized(q, unit)
  <2>. HIDE DEF X, Y
  <2>1. r \in X /\ q \in Y /\ Alike(r, q)
    BY <1>1, <1>3, LatestAlike DEF Accounts
  <2>. HIDE DEF r, q
  <2>2. IsRow(r) /\ IsRow(q)
    BY <1>1, <2>1 DEF Accounts, Twins, IsRows
  <2>3. \A unit : Normalized(r, unit) = Normalized(q, unit)
    BY <2>1, <2>2, AlikeMatches
  <2>. QED  BY <2>1, <2>3 DEF Alike
<1>. QED  BY <1>2, <1>3

LEMMA ComposedAlike ==
    ASSUME NEW S, NEW T, Accounts(S, T), NEW kind, NEW end
    PROVE  Composed(InPeriod(S, kind, end)) = Composed(InPeriod(T, kind, end))
<1>. DEFINE last(rows, concept) == Latest(OfConcept(rows, kind, end, concept))
            Usable(rows, concept) == /\ OfConcept(rows, kind, end, concept) # {}
                                     /\ Normalized(last(rows, concept), "USD") # None
            found(rows) == {g \in DOMAIN DebtGroups :
                              \E i \in DOMAIN DebtGroups[g] : Usable(rows, DebtGroups[g][i])}
            places(rows, g) == {n \in DOMAIN DebtGroups[g] : Usable(rows, DebtGroups[g][n])}
            Fact(rows, g) == last(rows, DebtGroups[g][Min(places(rows, g))])
            amounts(rows) == [g \in found(rows) |-> Normalized(Fact(rows, g), "USD")]
            filings(rows) == {Fact(rows, g).filing : g \in found(rows)}
<1>1. \A rows : Composed(InPeriod(rows, kind, end)) =
                  IF found(rows) = {} THEN NoMetric
                  ELSE [value |-> SumFunctionOnSet(amounts(rows), found(rows)), filings |-> filings(rows)]
  BY DEF Composed, OfConcept
<1>2. ASSUME NEW concept
      PROVE  /\ Usable(S, concept) <=> Usable(T, concept)
             /\ Usable(S, concept) => /\ last(S, concept).filing = last(T, concept).filing
                                      /\ Normalized(last(S, concept), "USD")
                                         = Normalized(last(T, concept), "USD")
  BY LatestOfConceptAlike
<1>. HIDE DEF Usable, last
<1>3. found(S) = found(T) /\ \A g : places(S, g) = places(T, g)
  BY <1>2
<1>4. ASSUME NEW g \in found(S)
      PROVE  /\ Fact(S, g).filing = Fact(T, g).filing
             /\ Normalized(Fact(S, g), "USD") = Normalized(Fact(T, g), "USD")
  <2>. DEFINE N == places(S, g)
              i == Min(N)
  <2>1. DebtGroups[g] \in Seq(STRING)
    BY DefinitionsAssumption
  <2>2. Len(DebtGroups[g]) \in Nat /\ DOMAIN DebtGroups[g] = 1 .. Len(DebtGroups[g])
    BY <2>1
  <2>3. N \in SUBSET (1 .. Len(DebtGroups[g])) /\ N # {}
    BY <1>4, <2>2
  <2>4. i \in N
    <3>1. IsFiniteSet(1 .. Len(DebtGroups[g]))
      BY <2>2, FS_Interval
    <3>. HIDE DEF N
    <3>2. IsFiniteSet(N)
      BY <2>3, <3>1, FS_Subset
    <3>3. N \in SUBSET Int
      BY <2>3
    <3>. QED  BY <2>3, <3>2, <3>3, ExtremesOf
  <2>5. Usable(S, DebtGroups[g][i])
    BY <2>4
  <2>6. Fact(S, g) = last(S, DebtGroups[g][i]) /\ Fact(T, g) = last(T, DebtGroups[g][i])
    BY <1>3
  <2>. HIDE DEF Fact, i
  <2>. QED  BY <1>2, <2>5, <2>6
<1>. HIDE DEF found, Fact
<1>5. amounts(S) = amounts(T)
  BY <1>3, <1>4
<1>6. filings(S) = filings(T)
  BY <1>3, <1>4
<1>. QED  BY <1>1, <1>3, <1>5, <1>6

LEMMA SelectedAlike ==
    ASSUME NEW S, NEW T, Accounts(S, T), NEW d, NEW kind, NEW start \in Int, NEW end \in Int,
           kind = "quarterly" => start <= end
    PROVE  Selected(d, kind, InPeriod(S, kind, end), S, start, end)
           = Selected(d, kind, InPeriod(T, kind, end), T, start, end)
<1>. DEFINE derived(rows, concept) ==
                IF kind = "quarterly" /\ d.behavior = "flow"
                THEN FromYearToDate(d, concept, rows, start, end) ELSE NoMetric
            metric(rows, concept) == Else(Reported(d, InPeriod(rows, kind, end), concept),
                                          derived(rows, concept))
<1>1. \A rows : Selected(d, kind, InPeriod(rows, kind, end), rows, start, end)
                = FirstFound([i \in DOMAIN d.concepts |-> metric(rows, d.concepts[i])])
  BY DEF Selected, Reported
<1>2. ASSUME NEW concept
      PROVE  metric(S, concept) = metric(T, concept)
  <2>1. Reported(d, InPeriod(S, kind, end), concept) = Reported(d, InPeriod(T, kind, end), concept)
    BY ReportedAlike
  <2>2. kind = "quarterly" => FromYearToDate(d, concept, S, start, end)
                              = FromYearToDate(d, concept, T, start, end)
    BY DerivedAlike
  <2>. QED  BY <2>1, <2>2
<1>. HIDE DEF metric
<1>3. [i \in DOMAIN d.concepts |-> metric(S, d.concepts[i])]
      = [i \in DOMAIN d.concepts |-> metric(T, d.concepts[i])]
  BY <1>2
<1>. QED  BY <1>1, <1>3

\* A quarter that is reported begins where it ends.
LEMMA QuarterStarts ==
    ASSUME NEW rows, IsRows(rows), NEW end \in Int,
           \E r \in rows : r.end = end /\ FlowMatches(r, "quarterly")
    PROVE  Period(rows, "quarterly", end).start = end
<1>1. PICK r \in InPeriod(rows, "quarterly", end) :
          r.start # None /\ Period(rows, "quarterly", end).start = r.start
  BY PeriodFacts
<1>2. r \in rows /\ r.end = end /\ FactMatches(r, "quarterly")
  BY DEF InPeriod
<1>3. Quarters(r) = 1
  BY <1>1, <1>2 DEF FactMatches, FlowMatches
<1>4. r.start \in Int
  BY <1>1, <1>2 DEF IsRows, IsRow
<1>. QED  BY <1>1, <1>2, <1>3, <1>4 DEF Quarters

LEMMA PeriodAlike ==
    ASSUME NEW S, NEW T, Accounts(S, T), NEW kind \in {"annual", "quarterly"}, NEW end \in Int,
           \E r \in S : r.end = end /\ FlowMatches(r, kind)
    PROVE  Period(S, kind, end) = Period(T, kind, end)
<1>. DEFINE flows(rows) == {x \in InPeriod(rows, kind, end) : x.start # None}
            starts(rows) == {r.start : r \in flows(rows)}
            start == Min(starts(S))
            selected(rows, m) == Selected(Definitions[m], kind, InPeriod(rows, kind, end), rows, start, end)
            metric(rows) == ForEachMetric(LAMBDA m : selected(rows, m))
            composed(rows) == Composed(InPeriod(rows, kind, end))
<1>1. starts(S) = starts(T)
  <2>1. /\ \A r \in InPeriod(S, kind, end) : \E q \in InPeriod(T, kind, end) : Alike(r, q)
        /\ \A q \in InPeriod(T, kind, end) : \E r \in InPeriod(S, kind, end) : Alike(r, q)
    BY PeriodsMirror DEF Mirrors
  <2>2. ASSUME NEW r \in flows(S) PROVE r.start \in starts(T)
    <3>1. PICK q \in InPeriod(T, kind, end) : Alike(r, q)
      BY <2>1
    <3>. QED  BY <3>1 DEF Alike
  <2>3. ASSUME NEW q \in flows(T) PROVE q.start \in starts(S)
    <3>1. PICK r \in InPeriod(S, kind, end) : Alike(r, q)
      BY <2>1
    <3>. QED  BY <3>1 DEF Alike
  <2>. HIDE DEF flows
  <2>. QED  BY <2>2, <2>3
<1>2. Period(S, kind, end) = [start |-> start, end |-> end,
            metrics |-> [metric(S) EXCEPT !["debt"] = IF @.value = None THEN composed(S) ELSE @]]
  BY DEF Period, InPeriod, ForEachMetric
<1>. HIDE DEF starts
<1>3. Period(T, kind, end) = [start |-> start, end |-> end,
            metrics |-> [metric(T) EXCEPT !["debt"] = IF @.value = None THEN composed(T) ELSE @]]
  <2>. DEFINE begin == Min(starts(T))
              some == ForEachMetric(LAMBDA m : Selected(Definitions[m], kind, InPeriod(T, kind, end), T, begin, end))
  <2>1. Period(T, kind, end) = [start |-> begin, end |-> end,
            metrics |-> [some EXCEPT !["debt"] = IF @.value = None THEN composed(T) ELSE @]]
    BY DEF Period, InPeriod, ForEachMetric, starts
  <2>2. begin = start
    BY <1>1
  <2>. HIDE DEF begin, start
  <2>3. some = metric(T)
    BY <2>2 DEF ForEachMetric
  <2>. HIDE DEF some, metric, composed
  <2>. QED  BY <2>1, <2>2, <2>3
<1>. HIDE DEF start
<1>4. IsRows(S) /\ Period(S, kind, end).start = start
  BY <1>2 DEF Accounts, Twins
<1>5. start \in Int
  BY <1>4, PeriodFacts
<1>6. kind = "quarterly" => start = end
  BY <1>4, QuarterStarts
<1>7. \A m : selected(S, m) = selected(T, m)
  BY <1>5, <1>6, SelectedAlike
<1>8. composed(S) = composed(T)
  BY ComposedAlike
<1>. HIDE DEF selected
<1>9. metric(S) = metric(T)
  BY <1>7 DEF ForEachMetric
<1>. HIDE DEF metric, composed
<1>. QED  BY <1>2, <1>3, <1>8, <1>9

LEMMA PeriodsAlike ==
    ASSUME NEW S, NEW T, Accounts(S, T), NEW kind \in {"annual", "quarterly"}
    PROVE  ReportedPeriods(S, kind) = ReportedPeriods(T, kind)
<1>. DEFINE ends(rows) == {r.end : r \in {x \in rows : FlowMatches(x, kind)}}
<1>1. \A r \in S \cup T : IsRow(r)
  BY DEF Accounts, Twins, IsRows
<1>2. ends(S) = ends(T)
  <2>1. /\ \A r \in S : \E q \in T : Alike(r, q)
        /\ \A q \in T : \E r \in S : Alike(r, q)
    BY DEF Accounts, Twins, Mirrors
  <2>2. \A r \in S : \A q \in T : Alike(r, q) => r.end = q.end /\ (FlowMatches(r, kind) <=> FlowMatches(q, kind))
    <3>1. ASSUME NEW r \in S, NEW q \in T, Alike(r, q)
          PROVE  r.end = q.end /\ (FlowMatches(r, kind) <=> FlowMatches(q, kind))
      <4>1. IsRow(r) /\ IsRow(q)
        BY <1>1
      <4>2. FlowMatches(r, kind) <=> FlowMatches(q, kind)
        BY <3>1, <4>1, AlikeMatches
      <4>. QED  BY <3>1, <4>2 DEF Alike
    <3>. QED  BY <3>1
  <2>3. ASSUME NEW r \in S, FlowMatches(r, kind) PROVE r.end \in ends(T)
    BY <2>1, <2>2, <2>3
  <2>4. ASSUME NEW q \in T, FlowMatches(q, kind) PROVE q.end \in ends(S)
    BY <2>1, <2>2, <2>4
  <2>. QED  BY <2>3, <2>4
<1>3. ASSUME NEW e \in ends(S)
      PROVE  Period(S, kind, e) = Period(T, kind, e)
  <2>1. PICK r \in S : r.end = e /\ FlowMatches(r, kind)
    OBVIOUS
  <2>2. e \in Int
    BY <1>1, <2>1 DEF IsRow
  <2>3. \E x \in S : x.end = e /\ FlowMatches(x, kind)
    BY <2>1
  <2>. QED  BY <2>2, <2>3, PeriodAlike
<1>. HIDE DEF ends
<1>4. {Period(S, kind, e) : e \in ends(S)} = {Period(T, kind, e) : e \in ends(T)}
  BY <1>2, <1>3
<1>. QED  BY <1>4 DEF ReportedPeriods, ends

LEMMA ValuesAlike ==
    ASSUME NEW S, NEW T, Accounts(S, T)
    PROVE  QuarterlyPeriods(S) = QuarterlyPeriods(T) /\ TrailingPeriods(S) = TrailingPeriods(T)
<1>1. /\ ReportedPeriods(S, "annual") = ReportedPeriods(T, "annual")
      /\ ReportedPeriods(S, "quarterly") = ReportedPeriods(T, "quarterly")
  BY PeriodsAlike
<1>2. QuarterlyPeriods(S) = QuarterlyPeriods(T)
  BY <1>1 DEF QuarterlyPeriods
<1>. QED  BY <1>2 DEF TrailingPeriods

-----------------------------------------------------------------------------
\* The past that is settled

\* A row has the frame of its period if no later filing tells that period again.
FramedRight(r) ==
    (\A m \in Filings : filing[m].accepted > filing[r.filing].accepted =>
        \A p \in filing[m].facts : ~SamePeriod(r, p)) => r.framed

FramedInv == \A r \in facts : FramedRight(r)

LEMMA FactsOfFilings ==
    ASSUME NEW t
    PROVE  /\ \A x \in Facts(t) :
                 /\ x.filing \in Published(t) /\ x.observation \in filing[x.filing].facts
                 /\ x.framed \in BOOLEAN
                 /\ (\A m \in Filings : filing[m].accepted > filing[x.filing].accepted =>
                       \A p \in filing[m].facts : ~SamePeriod(x.observation, p)) => x.framed
           /\ \A n \in Published(t) : \A o \in filing[n].facts :
                 \E x \in Facts(t) : x.filing = n /\ x.observation = o
<1>. DEFINE Later(n, o) == {p \in Published(t) : /\ filing[p].accepted > filing[n].accepted
                                                 /\ \E q \in filing[p].facts :
                                                       <<q.concept, q.start, q.end>> = <<o.concept, o.start, o.end>>}
            fact(n, o) == [filing |-> n, observation |-> o, framed |-> Later(n, o) = {}]
<1>1. Facts(t) = UNION {{fact(n, o) : o \in filing[n].facts} : n \in Published(t)}
  BY DEF Facts
<1>2. ASSUME NEW n, NEW o,
             \A m \in Filings : filing[m].accepted > filing[n].accepted =>
                \A p \in filing[m].facts : ~SamePeriod(o, p)
      PROVE  Later(n, o) = {}
  BY <1>2 DEF SamePeriod, Published
<1>3. \A n, o : /\ fact(n, o).filing = n /\ fact(n, o).observation = o
                /\ fact(n, o).framed = (Later(n, o) = {})
  OBVIOUS
<1>. HIDE DEF Later, fact
<1>4. ASSUME NEW x \in Facts(t)
      PROVE  \E n \in Published(t) : \E o \in filing[n].facts : x = fact(n, o)
  <2>1. PICK n \in Published(t) : x \in {fact(n, o) : o \in filing[n].facts}
    BY <1>1
  <2>. QED  BY <2>1
<1>5. ASSUME NEW x \in Facts(t)
      PROVE  /\ x.filing \in Published(t) /\ x.observation \in filing[x.filing].facts
             /\ x.framed \in BOOLEAN
             /\ (\A m \in Filings : filing[m].accepted > filing[x.filing].accepted =>
                   \A p \in filing[m].facts : ~SamePeriod(x.observation, p)) => x.framed
  <2>1. PICK n \in Published(t) : \E o \in filing[n].facts : x = fact(n, o)
    BY <1>4
  <2>2. PICK o \in filing[n].facts : x = fact(n, o)
    BY <2>1
  <2>3. x.filing = n /\ x.observation = o /\ x.framed = (Later(n, o) = {})
    BY <1>3, <2>2
  <2>. QED  BY <1>2, <2>3
<1>6. ASSUME NEW n \in Published(t), NEW o \in filing[n].facts
      PROVE  fact(n, o) \in Facts(t)
  BY <1>1
<1>. QED  BY <1>3, <1>5, <1>6

LEMMA AnswerIsFramed ==
    ASSUME NEW t, NEW s
    PROVE  \A r \in Answer(t, s) : FramedRight(r)
<1>. SUFFICES ASSUME NEW r \in Answer(t, s)
              PROVE  FramedRight(r)
  OBVIOUS
<1>1. PICK x \in Facts(t) : r = Row(x, s)
  BY DEF Answer
<1>2. /\ r.filing = x.filing /\ r.framed = x.framed /\ r.concept = x.observation.concept
      /\ r.start = x.observation.start /\ r.end = x.observation.end
  BY <1>1 DEF Row
<1>3. (\A m \in Filings : filing[m].accepted > filing[x.filing].accepted =>
          \A p \in filing[m].facts : ~SamePeriod(x.observation, p)) => x.framed
  BY FactsOfFilings
<1>. QED  BY <1>2, <1>3 DEF FramedRight, SamePeriod

LEMMA SavedIsFramed ==
    ASSUME NEW stored, \A r \in stored : Stored(r) /\ FramedRight(r),
           NEW incoming, \A r \in incoming : Stored(r) /\ FramedRight(r)
    PROVE  \A r \in Saved(stored, incoming) : FramedRight(r)
<1>. SUFFICES ASSUME NEW r \in Saved(stored, incoming)
              PROVE  FramedRight(r)
  OBVIOUS
<1>1. PICK y \in stored \cup incoming : Key(y) = Key(r) /\ y.framed = r.framed
  BY SavedFacts
<1>2. /\ y.filing = r.filing /\ y.concept = r.concept /\ y.start = r.start /\ y.end = r.end
  BY <1>1, KeyParts
<1>3. FramedRight(y)
  OBVIOUS
<1>. QED  BY <1>1, <1>2, <1>3 DEF FramedRight, SamePeriod

\* The times that are settled are past, and stay settled.
SettledInv ==
    /\ StoreInv
    /\ FramedInv
    /\ \A t \in settled : t \in Nat /\ t <= now /\ Settled(t)

\* A step of the store keeps the frames, and every exact row has one after it.
LEMMA StoreGrows ==
    ASSUME StoreInv, FramedInv, FactNext
    PROVE  /\ FramedInv'
           /\ \A y \in facts : y.exact => \E r \in facts' : Key(r) = Key(y) /\ r.exact
<1>. DEFINE Grown(rows) == /\ \A r \in rows : FramedRight(r)
                           /\ \A y \in facts : y.exact => \E r \in rows : Key(r) = Key(y) /\ r.exact
<1>1. Grown(facts)
  BY DEF FramedInv
<1>2. Grown(facts')
  <2>1. CASE Pass
    BY <1>1, <2>1 DEF Pass
  <2>2. ASSUME NEW answered \in SUBSET DOMAIN payloads, Sync(answered) PROVE Grown(facts')
    <3>. DEFINE kept == [p \in DOMAIN payloads |-> IF p \in answered THEN now ELSE payloads[p]]
                incoming == Answer(kept.facts, kept.submissions)
    <3>1. facts' = IF kept.facts = None THEN facts ELSE Saved(facts, incoming)
      BY <2>2 DEF Sync, Answer
    <3>2. kept.facts = None \/ (kept.facts \in Nat /\ kept.facts <= now)
      BY DEF StoreInv
    <3>. HIDE DEF kept
    <3>3. CASE kept.facts = None
      BY <1>1, <3>1, <3>3
    <3>4. CASE kept.facts # None
      <4>1. \A r \in incoming : Stored(r) /\ FramedRight(r)
        BY <3>2, <3>4, AnswerFacts, AnswerIsFramed DEF StoreInv
      <4>2. \A r \in facts : Stored(r) /\ FramedRight(r)
        BY DEF StoreInv, FramedInv
      <4>. HIDE DEF incoming
      <4>3. \A r \in Saved(facts, incoming) : FramedRight(r)
        BY <4>1, <4>2, SavedIsFramed
      <4>4. \A y \in facts : \E r \in Saved(facts, incoming) : Key(r) = Key(y) /\ (y.exact => r.exact)
        BY <4>1, <4>2, SavedFacts
      <4>5. Grown(Saved(facts, incoming))
        BY <4>3, <4>4
      <4>. QED  BY <3>1, <3>4, <4>5
    <3>. QED  BY <3>3, <3>4
  <2>. QED  BY <2>1, <2>2 DEF FactNext
<1>3. filing' = filing
  BY StoreStep
<1>4. FramedInv'
  BY <1>2, <1>3 DEF FramedInv, FramedRight
<1>. QED  BY <1>2, <1>4

LEMMA SettledStep ==
    ASSUME SettledInv, [Next]_vars
    PROVE  SettledInv'
<1>1. CASE FactNext /\ settled' = settled \cup {t \in Times : Settled(t)'}
  <2>1. StoreInv' /\ filing' = filing /\ now' \in Nat /\ now \in Nat /\ now <= now'
    BY <1>1, StoreStep DEF SettledInv, StoreInv
  <2>2. /\ FramedInv'
        /\ \A y \in facts : y.exact => \E r \in facts' : Key(r) = Key(y) /\ r.exact
    BY <1>1, StoreGrows DEF SettledInv
  <2>3. ASSUME NEW t \in settled PROVE t \in Nat /\ t <= now' /\ Settled(t)'
    <3>1. t \in Nat /\ t <= now /\ Settled(t)
      BY DEF SettledInv
    <3>2. Published(t)' = Published(t)
      BY <2>1 DEF Published
    <3>3. ASSUME NEW n \in Published(t), NEW o \in filing[n].facts
          PROVE  \E r \in facts' : /\ r.exact
                                   /\ <<r.filing, r.concept, r.start, r.end, r.unit>>
                                         = <<n, o.concept, o.start, o.end, o.unit>>
      <4>1. PICK y \in facts : /\ y.exact
                               /\ <<y.filing, y.concept, y.start, y.end, y.unit>>
                                     = <<n, o.concept, o.start, o.end, o.unit>>
        BY <3>1 DEF Settled
      <4>2. PICK r \in facts' : Key(r) = Key(y) /\ r.exact
        BY <2>2, <4>1
      <4>. QED  BY <4>1, <4>2 DEF Key
    <3>4. Settled(t)'
      BY <2>1, <3>2, <3>3 DEF Settled
    <3>. QED  BY <2>1, <3>1, <3>4
  <2>4. ASSUME NEW t \in Times, Settled(t)' PROVE t \in Nat /\ t <= now' /\ Settled(t)'
    BY <2>1, <2>4, FactAssumption DEF Times
  <2>5. \A t \in settled' : t \in Nat /\ t <= now' /\ Settled(t)'
    BY <1>1, <2>3, <2>4
  <2>. QED  BY <2>1, <2>2, <2>5 DEF SettledInv
<1>2. CASE UNCHANGED <<factVars, settled>>
  <2>1. filing' = filing /\ now' = now /\ payloads' = payloads /\ facts' = facts /\ settled' = settled
    BY <1>2 DEF factVars
  <2>2. \A r \in facts' : Stored(r)'
    BY <2>1, StoredLater DEF SettledInv, StoreInv
  <2>3. StoreInv'
    BY <2>1, <2>2 DEF SettledInv, StoreInv, ToldWhole
  <2>4. FramedInv'
    BY <2>1 DEF SettledInv, FramedInv, FramedRight
  <2>5. \A t \in settled : Settled(t)'
    BY <2>1 DEF SettledInv, Settled, Published
  <2>. QED  BY <2>1, <2>3, <2>4, <2>5 DEF SettledInv
<1>3. CASE UNCHANGED vars
  BY <1>2, <1>3 DEF vars
<1>4. ASSUME NEW t \in Times, Value(t) \/ Analyze(t), UNCHANGED settled PROVE SettledInv'
  BY <1>2, <1>4 DEF Value, Analyze
<1>. QED  BY <1>1, <1>3, <1>4 DEF Next

LEMMA SettledInit == Init => SettledInv
<1>. SUFFICES ASSUME Init PROVE SettledInv
  OBVIOUS
<1>1. StoreInv
  BY StoreInit DEF Init
<1>. QED  BY <1>1 DEF Init, FactInit, SettledInv, FramedInv

\* A row that is stored and rightly framed
Told(r) == Stored(r) /\ FramedRight(r)

\* Two rows of one observation count alike.
LEMMA ToldAlike ==
    ASSUME filing \in Histories, Unambiguous(filing),
           NEW r, Told(r), NEW q, Told(q), r.filing = q.filing, SameSubject(r, q)
    PROVE  Alike(r, q)
<1>. DEFINE n == r.filing
<1>1. PICK o \in filing[n].facts :
          <<o.concept, o.start, o.end, o.value, o.unit>> = <<r.concept, r.start, r.end, r.value, r.unit>>
  BY StoredFacts DEF Told
<1>2. PICK p \in filing[n].facts :
          <<p.concept, p.start, p.end, p.value, p.unit>> = <<q.concept, q.start, q.end, q.value, q.unit>>
  BY StoredFacts DEF Told
<1>3. n \in Filings
  BY StoredFacts DEF Told
<1>4. SameSubject(o, p)
  BY <1>1, <1>2 DEF SameSubject
<1>5. o = p
  BY <1>3, <1>4 DEF Unambiguous
<1>6. /\ r.concept = q.concept /\ r.start = q.start /\ r.end = q.end
      /\ r.value = q.value /\ r.unit = q.unit
  BY <1>1, <1>2, <1>5
<1>7. /\ r.form = filing[n].form /\ r.fiscal = filing[n].fiscal
      /\ q.form = filing[n].form /\ q.fiscal = filing[n].fiscal /\ r.form \in Forms
  BY <1>3, StoredFacts, FilingType DEF Told
<1>8. ASSUME ~QuarterlyForm(r), r.fiscal = "FY", r.start = r.end
      PROVE  r.framed = q.framed
  <2>1. ASSUME NEW m \in Filings, filing[m].accepted > filing[n].accepted, NEW x \in filing[m].facts
        PROVE  ~SamePeriod(r, x)
    <3>1. filing[n].accepted < filing[m].accepted
      BY <1>3, <2>1, FilingType
    <3>2. filing[n].fiscal = "FY" /\ filing[n].form \notin {"10-Q", "10-Q/A"}
      BY <1>7, <1>8 DEF QuarterlyForm
    <3>3. o.start = o.end
      BY <1>1, <1>8
    <3>4. ~SamePeriod(o, x)
      BY <1>3, <3>1, <3>2, <3>3 DEF Unambiguous
    <3>. QED  BY <1>1, <3>4 DEF SamePeriod
  <2>2. r.framed
    BY <2>1 DEF Told, FramedRight
  <2>3. q.framed
    BY <1>6, <2>1 DEF Told, FramedRight, SamePeriod
  <2>4. r.framed \in BOOLEAN /\ q.framed \in BOOLEAN
    BY StoredIsRecord DEF Told
  <2>. QED  BY <2>2, <2>3, <2>4
<1>. QED  BY <1>6, <1>7, <1>8 DEF Alike

LEMMA ToldIsClear ==
    ASSUME filing \in Histories, Unambiguous(filing), NEW rows, \A r \in rows : Told(r)
    PROVE  Clear(rows)
<1>. SUFFICES ASSUME NEW r \in rows, NEW q \in rows, SameSubject(r, q)
              PROVE  Alike(r, q) \/ Precedes(r, q) \/ Precedes(q, r)
  BY DEF Clear
<1>1. CASE r.filing = q.filing
  BY <1>1, ToldAlike
<1>2. CASE r.filing # q.filing
  <2>1. PICK o \in filing[r.filing].facts :
          <<o.concept, o.start, o.end, o.value, o.unit>> = <<r.concept, r.start, r.end, r.value, r.unit>>
    BY StoredFacts DEF Told
  <2>2. PICK p \in filing[q.filing].facts :
          <<p.concept, p.start, p.end, p.value, p.unit>> = <<q.concept, q.start, q.end, q.value, q.unit>>
    BY StoredFacts DEF Told
  <2>3. SameSubject(o, p)
    BY <2>1, <2>2 DEF SameSubject
  <2>4. r.filing \in Filings /\ q.filing \in Filings
    BY StoredFacts DEF Told
  <2>5. \/ EndOf(filing[r.filing].filed) < filing[q.filing].accepted
        \/ EndOf(filing[q.filing].filed) < filing[r.filing].accepted
    BY <1>2, <2>3, <2>4 DEF Unambiguous
  <2>6. ASSUME NEW s \in rows, NEW u \in rows, EndOf(filing[s.filing].filed) < filing[u.filing].accepted
        PROVE  Precedes(s, u)
    <3>1. /\ filing[s.filing].accepted <= Fallback(s.filing) /\ s.known <= Fallback(s.filing)
          /\ filing[u.filing].accepted <= u.known
          /\ filing[s.filing].accepted \in Nat /\ Fallback(s.filing) \in Nat
          /\ filing[u.filing].accepted \in Nat
          /\ s.known \in Nat /\ u.known \in Nat
      BY StoredFacts, FilingType DEF Told, IsRow
    <3>2. Fallback(s.filing) = EndOf(filing[s.filing].filed)
      BY DEF Fallback
    <3>. HIDE DEF Fallback
    <3>. QED  BY <2>6, <3>1, <3>2 DEF Precedes
  <2>. QED  BY <2>5, <2>6
<1>. QED  BY <1>1, <1>2

\* The rows of a program that asked at time t and got all of it are stored rows.
LEMMA RowsOfFacts ==
    ASSUME StoreInv, NEW t \in Nat, t <= now
    PROVE  /\ \A q \in RowsOf(t) :
                 /\ Told(q) /\ q.known <= t
                 /\ q.exact /\ q.filing \in Published(t)
           /\ \A n \in Published(t) : \A o \in filing[n].facts :
                 \E q \in RowsOf(t) : q.filing = n /\ SameSubject(q, o)
<1>. DEFINE row(x) == [Row(x, None) EXCEPT !.known = filing[x.filing].accepted, !.exact = TRUE]
<1>1. RowsOf(t) = {row(x) : x \in Facts(t)}
  BY DEF RowsOf
<1>2. ASSUME NEW x PROVE row(x) = Record(x.filing, x.observation, x.framed, TRUE)
  <2>1. Row(x, None) = Record(x.filing, x.observation, x.framed, FALSE)
    BY DEF Row, Record
  <2>. DEFINE n == x.filing
              o == x.observation
              f == x.framed
              late == Fallback(n)
              accepted == filing[n].accepted
              no == FALSE
              yes == TRUE
              Of(known, exact) ==
                [filing |-> n, form |-> filing[n].form, fiscal |-> filing[n].fiscal,
                 filed |-> filing[n].filed, concept |-> o.concept, start |-> o.start, end |-> o.end,
                 value |-> o.value, unit |-> o.unit, framed |-> f, known |-> known, exact |-> exact]
  <2>2. Record(n, o, f, FALSE) = Of(late, no) /\ Record(n, o, f, TRUE) = Of(accepted, yes)
    BY DEF Record
  <2>. DEFINE r == Of(late, no)
              q == [r EXCEPT !.known = accepted]
  <2>3. row(x) = [r EXCEPT !.known = accepted, !.exact = yes]
    BY <2>1, <2>2
  <2>. HIDE DEF n, o, f, late, accepted, no, yes
  <2>4. q = Of(accepted, no)
    OBVIOUS
  <2>. HIDE DEF r
  <2>5. [r EXCEPT !.known = accepted, !.exact = yes] = [q EXCEPT !.exact = yes]
    OBVIOUS
  <2>. HIDE DEF q
  <2>6. [q EXCEPT !.exact = yes] = Of(accepted, yes)
    BY <2>4
  <2>. QED  BY <2>2, <2>3, <2>5, <2>6 DEF n, o, f
<1>. HIDE DEF row
<1>3. ASSUME NEW q \in RowsOf(t)
      PROVE  /\ Told(q) /\ q.known <= t
             /\ q.exact /\ q.filing \in Published(t)
  <2>1. PICK x \in Facts(t) : q = Record(x.filing, x.observation, x.framed, TRUE)
    BY <1>1, <1>2
  <2>2. /\ x.filing \in Published(t) /\ x.observation \in filing[x.filing].facts
        /\ x.framed \in BOOLEAN
        /\ (\A m \in Filings : filing[m].accepted > filing[x.filing].accepted =>
              \A p \in filing[m].facts : ~SamePeriod(x.observation, p)) => x.framed
    BY FactsOfFilings
  <2>3. /\ q.filing = x.filing /\ q.framed = x.framed /\ q.exact
        /\ q.known = filing[x.filing].accepted
        /\ q.concept = x.observation.concept /\ q.start = x.observation.start
        /\ q.end = x.observation.end
    BY <2>1 DEF Record
  <2>4. FramedRight(q)
    BY <2>2, <2>3 DEF FramedRight, SamePeriod
  <2>5. x.filing \in Published(now)
    BY <2>2, FilingType DEF Published, StoreInv
  <2>6. Stored(q)
    BY <2>1, <2>2, <2>5, RecordIsStored
  <2>. QED  BY <2>2, <2>3, <2>4, <2>6 DEF Told, Published
<1>4. ASSUME NEW n \in Published(t), NEW o \in filing[n].facts
      PROVE  \E q \in RowsOf(t) : q.filing = n /\ SameSubject(q, o)
  <2>1. PICK x \in Facts(t) : x.filing = n /\ x.observation = o
    BY FactsOfFilings
  <2>2. row(x) \in RowsOf(t)
    BY <1>1
  <2>3. /\ row(x).filing = n /\ row(x).concept = o.concept
        /\ row(x).start = o.start /\ row(x).end = o.end
    BY <1>2, <2>1 DEF Record
  <2>. QED  BY <2>2, <2>3 DEF SameSubject
<1>. QED  BY <1>3, <1>4

\* What is known of a settled time tells what the program would have known then.
LEMMA SettledAccounts ==
    ASSUME SettledInv, Unambiguous(filing), NEW t \in settled
    PROVE  Accounts(KnownAt(facts, t), RowsOf(t))
<1>. DEFINE S == KnownAt(facts, t)
            T == RowsOf(t)
<1>1. t \in Nat /\ t <= now /\ Settled(t) /\ StoreInv /\ filing \in Histories
  BY DEF SettledInv, StoreInv
<1>2. \A r \in S : Told(r) /\ r \in facts /\ r.known <= t
  BY DEF KnownAt, SettledInv, StoreInv, FramedInv, Told
<1>3. /\ \A q \in T : Told(q) /\ q.known <= t /\ q.exact /\ q.filing \in Published(t)
      /\ \A n \in Published(t) : \A o \in filing[n].facts :
            \E q \in T : q.filing = n /\ SameSubject(q, o)
  BY <1>1, RowsOfFacts
<1>4. \A r \in facts : r.known <= t => r \in S
  BY DEF KnownAt
<1>. HIDE DEF S, T
<1>5. ASSUME NEW r \in S PROVE \E q \in T : Alike(r, q)
  <2>1. /\ r.filing \in Filings /\ filing[r.filing].accepted <= r.known
        /\ filing[r.filing].accepted \in Nat /\ r.known \in Nat /\ r.known <= t
    BY <1>1, <1>2, StoredFacts, FilingType DEF Told, IsRow
  <2>2. r.filing \in Published(t)
    BY <1>1, <2>1 DEF Published
  <2>3. PICK o \in filing[r.filing].facts :
          <<o.concept, o.start, o.end, o.value, o.unit>> = <<r.concept, r.start, r.end, r.value, r.unit>>
    BY <1>1, <1>2, StoredFacts DEF Told
  <2>4. PICK q \in T : q.filing = r.filing /\ SameSubject(q, o)
    BY <1>3, <2>2
  <2>5. SameSubject(r, q)
    BY <2>3, <2>4 DEF SameSubject
  <2>. QED  BY <1>1, <1>2, <1>3, <2>4, <2>5, ToldAlike
<1>6. ASSUME NEW q \in T PROVE \E r \in S : Alike(r, q)
  <2>1. q.filing \in Published(t) /\ q.filing \in Filings /\ Told(q)
    BY <1>3 DEF Published
  <2>2. PICK o \in filing[q.filing].facts :
          <<o.concept, o.start, o.end, o.value, o.unit>> = <<q.concept, q.start, q.end, q.value, q.unit>>
    BY <1>1, <2>1, StoredFacts DEF Told
  <2>3. PICK r \in facts : r.exact /\ <<r.filing, r.concept, r.start, r.end, r.unit>>
                                         = <<q.filing, o.concept, o.start, o.end, o.unit>>
    BY <1>1, <2>1 DEF Settled
  <2>4. Told(r)
    BY DEF SettledInv, StoreInv, FramedInv, Told
  <2>5. r.known = filing[q.filing].accepted /\ r.filing = q.filing
    BY <1>1, <2>3, <2>4, StoredFacts DEF Told
  <2>6. r \in S
    BY <1>4, <2>1, <2>5 DEF Published
  <2>7. SameSubject(r, q)
    BY <2>2, <2>3 DEF SameSubject
  <2>. QED  BY <1>1, <2>1, <2>4, <2>5, <2>6, <2>7, ToldAlike
<1>7. Mirrors(S, T)
  BY <1>5, <1>6 DEF Mirrors
<1>8. \A r \in S \cup T : Told(r) /\ Stored(r)
  BY <1>2, <1>3 DEF Told
<1>9. IsRows(S) /\ IsRows(T)
  BY <1>1, <1>8, StoreIsFinite
<1>10. Clear(S \cup T)
  <2>. DEFINE rows == S \cup T
  <2>1. \A r \in rows : Told(r)
    BY <1>8
  <2>. HIDE DEF rows
  <2>2. Clear(rows)
    BY <1>1, <2>1, ToldIsClear
  <2>. QED  BY <2>2 DEF rows
<1>11. FilingsInOrder
  BY <1>1, FilingType DEF FilingsInOrder
<1>12. OfFilings(S \cup T)
  BY <1>1, <1>8, StoredFacts DEF OfFilings
<1>. QED  BY <1>7, <1>9, <1>10, <1>11, <1>12 DEF Accounts, Twins, S, T

\* Where nothing is left to the hash of a fact or to a frame that moves: once all
\* that was accepted by a time is stored with its acceptance, a calculation as of
\* that time gives for ever what one at that time would have given.
THEOREM SettledPast == Spec => []SettledPastStays
<1>1. SettledInv /\ [Next]_vars => SettledInv'
  BY SettledStep
<1>2. SettledInv => SettledPastStays
  <2>. SUFFICES ASSUME SettledInv, Unambiguous(filing), NEW t \in settled
                PROVE  ValuesAsOf(facts, t) = ValuesAsOf(RowsOf(t), t)
    BY DEF SettledPastStays
  <2>1. Accounts(KnownAt(facts, t), RowsOf(t))
    BY SettledAccounts
  <2>2. KnownAt(RowsOf(t), t) = RowsOf(t)
    <3>1. \A q \in RowsOf(t) : q.known <= t
      BY RowsOfFacts DEF SettledInv
    <3>. QED  BY <3>1 DEF KnownAt
  <2>. DEFINE S == KnownAt(facts, t)
              T == RowsOf(t)
  <2>. HIDE DEF S, T
  <2>3. QuarterlyPeriods(S) = QuarterlyPeriods(T) /\ TrailingPeriods(S) = TrailingPeriods(T)
    BY <2>1, ValuesAlike DEF S, T
  <2>. QED  BY <2>2, <2>3 DEF ValuesAsOf, S, T
<1>. QED  BY <1>1, <1>2, SettledInit, PTL DEF Spec

=============================================================================
