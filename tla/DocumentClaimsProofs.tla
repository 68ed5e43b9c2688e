-------------------------- MODULE DocumentClaimsProofs --------------------------
(***************************************************************************)
(* Theorems about DocumentClaims, for every set of documents, claims and   *)
(* times and every number of refreshes, failures and requests.             *)
(***************************************************************************)
EXTENDS DocumentClaims, FiniteSetTheorems, WellFoundedInduction, TLAPS

-----------------------------------------------------------------------------
\* Rows in an order

LEMMA LeastNumber ==
    ASSUME NEW T \in SUBSET Nat, T # {}
    PROVE  \E m \in T : \A k \in T : m <= k
<1>. DEFINE Less == OpToRel(<, Nat)
<1>1. PICK m \in T : \A k \in T : ~(<<k, m>> \in Less)
  BY NatLessThanWellFounded, WFMin, Zenon
<1>2. Less = {ss \in Nat \X Nat : ss[1] < ss[2]}
  BY Zenon DEF OpToRel
<1>. HIDE DEF Less
<1>3. ASSUME NEW k \in T PROVE m <= k
  <2>1. <<k, m>> \notin Less /\ k \in Nat /\ m \in Nat
    BY <1>1
  <2>. QED  BY <1>2, <2>1
<1>. QED  BY <1>3

\* R compares the numbers up to n.
Ranks(R, n) ==
    /\ \A i, j \in 1 .. n : i # j => <<i, j>> \in R \/ <<j, i>> \in R
    /\ \A i, j, k \in 1 .. n : <<i, j>> \in R /\ <<j, k>> \in R => <<i, k>> \in R

\* Numbers that are compared have a greatest one.
LEMMA GreatestUnder ==
    ASSUME NEW n \in Nat, NEW R, Ranks(R, n),
           NEW S \in SUBSET (1 .. n), S # {}
    PROVE  \E i \in S : \A j \in S \ {i} : <<i, j>> \in R
<1>. DEFINE Greatest(U, i) == \A j \in U \ {i} : <<i, j>> \in R
            Bad == {m \in 0 .. n : \E U \in SUBSET (1 .. m) :
                        U # {} /\ \A i \in U : ~Greatest(U, i)}
<1>. HIDE DEF Greatest
<1>1. SUFFICES Bad = {}
  <2>1. n \in 0 .. n
    OBVIOUS
  <2>. QED  BY <1>1, <2>1 DEF Greatest
<1>2. SUFFICES ASSUME Bad # {} PROVE FALSE
  OBVIOUS
<1>3. PICK m \in Bad : \A k \in Bad : m <= k
  <2>1. Bad \in SUBSET Nat
    OBVIOUS
  <2>. HIDE DEF Bad
  <2>. QED  BY <1>2, <2>1, LeastNumber
<1>4. PICK U \in SUBSET (1 .. m) : U # {} /\ \A i \in U : ~Greatest(U, i)
  OBVIOUS
<1>5. m \in 1 .. n
  <2>1. PICK u \in U : TRUE
    BY <1>4
  <2>2. m \in 0 .. n /\ u \in 1 .. m
    OBVIOUS
  <2>. QED  BY <2>2
<1>6. \A V \in SUBSET (1 .. (m - 1)) : V # {} => \E i \in V : Greatest(V, i)
  <2>1. m - 1 \in 0 .. n /\ m - 1 \notin Bad
    BY <1>3, <1>5
  <2>. QED  BY <2>1
<1>7. m \in U
  <2>1. SUFFICES ASSUME m \notin U PROVE FALSE
    OBVIOUS
  <2>2. U \in SUBSET (1 .. (m - 1))
    BY <1>5, <2>1
  <2>. QED  BY <1>4, <1>6, <2>2
<1>8. CASE U = {m}
  BY <1>4, <1>8 DEF Greatest
<1>9. CASE U # {m}
  <2>. DEFINE V == U \ {m}
  <2>1. V \in SUBSET (1 .. (m - 1)) /\ V # {}
    BY <1>5, <1>7, <1>9
  <2>2. PICK i \in V : Greatest(V, i)
    BY <1>6, <2>1
  <2>3. i \in 1 .. n /\ m \in 1 .. n /\ i # m /\ \A j \in V : j \in 1 .. n
    BY <1>5, <2>1
  <2>4. CASE <<i, m>> \in R
    BY <1>4, <2>2, <2>3, <2>4 DEF Greatest, Ranks
  <2>5. CASE <<m, i>> \in R
    <3>1. Greatest(U, m)
      BY <2>2, <2>3, <2>5 DEF Greatest, Ranks
    <3>. QED  BY <1>4, <1>7, <3>1
  <2>. QED  BY <2>3, <2>4, <2>5 DEF Ranks
<1>. QED  BY <1>8, <1>9

\* ORDER BY known_at, created_at has a last row whenever it has a row.
LEMMA LastOfType ==
    ASSUME NEW n \in Nat, NEW rows, DOMAIN rows = 1 .. n,
           \A i \in 1 .. n : rows[i].known \in Nat,
           NEW S \in SUBSET (1 .. n)
    PROVE  /\ LastOf(rows, S) \in S \cup {0}
           /\ S = {} => LastOf(rows, S) = 0
           /\ S # {} => /\ LastOf(rows, S) \in S
                        /\ \A j \in S \ {LastOf(rows, S)} : Behind(rows, LastOf(rows, S), j)
<1>1. CASE S = {}
  BY <1>1 DEF LastOf
<1>2. CASE S # {}
  <2>. DEFINE R == {p \in (1 .. n) \X (1 .. n) : Behind(rows, p[1], p[2])}
  <2>1. \A i, j \in 1 .. n : <<i, j>> \in R <=> Behind(rows, i, j)
    OBVIOUS
  <2>. HIDE DEF R
  <2>2. \A i, j \in 1 .. n : i # j => <<i, j>> \in R \/ <<j, i>> \in R
    BY <2>1 DEF Behind
  <2>3. Ranks(R, n)
    <3>1. ASSUME NEW i \in 1 .. n, NEW j \in 1 .. n, NEW k \in 1 .. n,
                 <<i, j>> \in R, <<j, k>> \in R
          PROVE  <<i, k>> \in R
      <4>1. rows[i].known \in Nat /\ rows[j].known \in Nat /\ rows[k].known \in Nat
        OBVIOUS
      <4>2. Behind(rows, i, j) /\ Behind(rows, j, k)
        BY <2>1, <3>1
      <4>3. Behind(rows, i, k)
        BY <4>1, <4>2 DEF Behind
      <4>. QED  BY <2>1, <4>3
    <3>. QED  BY <2>2, <3>1 DEF Ranks
  <2>4. \E i \in S : \A j \in S \ {i} : Behind(rows, i, j)
    <3>1. \E i \in S : \A j \in S \ {i} : <<i, j>> \in R
      BY <1>2, <2>3, GreatestUnder
    <3>. QED  BY <2>1, <3>1
  <2>5. LastOf(rows, S) = CHOOSE i \in S : \A j \in S \ {i} : Behind(rows, i, j)
    BY <1>2 DEF LastOf
  <2>6. /\ LastOf(rows, S) \in S
        /\ \A j \in S \ {LastOf(rows, S)} : Behind(rows, LastOf(rows, S), j)
    BY <2>4, <2>5, Zenon
  <2>. QED  BY <1>2, <2>6
<1>. QED  BY <1>1, <1>2

-----------------------------------------------------------------------------
\* Relationships

Candidate == [edge : Edges, exposure : Exposures, resolved : BOOLEAN,
              valid : SUBSET Times, known : Times, kind : Kinds]

Observation == [edge : Edges, exposure : Exposures, resolved : BOOLEAN, valid : SUBSET Times,
                known : Times, kind : Kinds, supersedes : Nat]

\* An observation has evidence from before it was known, and what it supersedes was
\* written before it, of its edge, and known no later.
ObservationHolds(i) ==
    /\ \E d \in Documents : <<i, d>> \in cited /\ KnownAt[d] <= observations[i].known
    /\ observations[i].supersedes # 0 =>
          /\ observations[i].supersedes \in 1 .. (i - 1)
          /\ observations[observations[i].supersedes].edge = observations[i].edge
          /\ observations[observations[i].supersedes].known <= observations[i].known

RelationshipsHold ==
    /\ RelationshipsTypeOK
    /\ \A i \in DOMAIN observations : ObservationHolds(i)

LEMMA ObservationsType ==
    ASSUME RelationshipsTypeOK
    PROVE  /\ observations \in Seq(Observation) /\ Len(observations) \in Nat
           /\ DOMAIN observations = 1 .. Len(observations)
           /\ \A i \in 1 .. Len(observations) :
                  /\ observations[i] \in Observation
                  /\ observations[i].known \in Times /\ observations[i].known \in Nat
           /\ cited \subseteq (1 .. Len(observations)) \X Documents
<1>1. observations \in Seq(Observation)
  BY DEF RelationshipsTypeOK, Observation
<1>2. /\ Len(observations) \in Nat /\ DOMAIN observations = 1 .. Len(observations)
      /\ \A i \in 1 .. Len(observations) : observations[i] \in Observation
  BY <1>1
<1>3. \A i \in 1 .. Len(observations) :
          observations[i].known \in Times /\ observations[i].known \in Nat
  BY <1>2, DocumentAssumption DEF Observation
<1>4. cited \subseteq (1 .. Len(observations)) \X Documents
  BY <1>2 DEF RelationshipsTypeOK
<1>. QED  BY <1>1, <1>2, <1>3, <1>4

\* The observations of an edge that are seen as of a time
SeenOf(e, t) == ObservationsOf(e) \cap KnownRows(observations, t)

\* What an as-of reader takes for current is the last of them.
LEMMA LatestObservationType ==
    ASSUME RelationshipsTypeOK, NEW e, NEW t
    PROVE  /\ SeenOf(e, t) \in SUBSET (1 .. Len(observations))
           /\ LatestObservation(e, t) \in SeenOf(e, t) \cup {0}
           /\ SeenOf(e, t) # {} =>
                 /\ LatestObservation(e, t) \in SeenOf(e, t)
                 /\ \A j \in SeenOf(e, t) \ {LatestObservation(e, t)} :
                        Behind(observations, LatestObservation(e, t), j)
<1>. DEFINE S == SeenOf(e, t)
            n == Len(observations)
<1>1. S \in SUBSET (1 .. n)
  BY ObservationsType DEF SeenOf, ObservationsOf
<1>2. LatestObservation(e, t) = LastOf(observations, S)
  BY DEF LatestObservation, SeenOf
<1>3. /\ n \in Nat /\ DOMAIN observations = 1 .. n
      /\ \A i \in 1 .. n : observations[i].known \in Nat
  BY ObservationsType
<1>. HIDE DEF n, S
<1>4. /\ LastOf(observations, S) \in S \cup {0}
      /\ S # {} => /\ LastOf(observations, S) \in S
                   /\ \A j \in S \ {LastOf(observations, S)} :
                          Behind(observations, LastOf(observations, S), j)
  BY <1>1, <1>3, LastOfType
<1>. QED  BY <1>1, <1>2, <1>4 DEF S, n

\* What a save leaves as it was: the rows of before, and the evidence of those that
\* were known before.
RelationshipsKept(known) ==
    /\ \A i \in DOMAIN observations :
           i \in DOMAIN observations' /\ observations'[i] = observations[i]
    /\ \A i \in DOMAIN observations' \ DOMAIN observations : observations'[i].known = known
    /\ \A i \in DOMAIN observations, d \in Documents :
           observations[i].known < known => (<<i, d>> \in cited' <=> <<i, d>> \in cited)

LEMMA SaveCandidateHolds ==
    ASSUME RelationshipsHold, NEW c \in Candidate, NEW docs \in SUBSET Documents,
           SaveCandidate(c, docs)
    PROVE  RelationshipsHold' /\ RelationshipsKept(c.known)
<1>. DEFINE n == Len(observations)
<1>0. /\ RelationshipsTypeOK /\ observations \in Seq(Observation) /\ n \in Nat
      /\ DOMAIN observations = 1 .. n
      /\ \A i \in 1 .. n : /\ observations[i] \in Observation
                           /\ observations[i].known \in Times /\ observations[i].known \in Nat
                           /\ ObservationHolds(i)
      /\ cited \subseteq (1 .. n) \X Documents
      /\ c.known \in Times /\ c.known \in Nat
  BY ObservationsType, DocumentAssumption DEF RelationshipsHold, Candidate
<1>1. CASE UNCHANGED <<observations, cited>>
  <2>1. RelationshipsHold'
    BY <1>0, <1>1 DEF RelationshipsHold, RelationshipsTypeOK, ObservationHolds
  <2>. QED  BY <1>1, <2>1 DEF RelationshipsKept
<1>2. CASE /\ EvidenceKnown(docs, c.known) /\ SaysTheSame(c) # {}
           /\ cited' = cited \cup (SaysTheSame(c) \X docs) /\ observations' = observations
  <2>1. SaysTheSame(c) \subseteq 1 .. n
    BY <1>0 DEF SaysTheSame
  <2>2. RelationshipsTypeOK'
    <3>1. cited' \subseteq (1 .. n) \X Documents
      BY <1>0, <1>2, <2>1
    <3>. QED  BY <1>0, <1>2, <3>1 DEF RelationshipsTypeOK
  <2>3. ASSUME NEW i \in 1 .. n PROVE ObservationHolds(i)'
    BY <1>0, <1>2, <2>3 DEF ObservationHolds
  <2>4. ASSUME NEW i \in SaysTheSame(c) PROVE observations[i].known = c.known
    <3>1. "known" \in DOMAIN c
      BY DEF Candidate
    <3>2. observations[i]["known"] = c["known"]
      BY <3>1, <2>4 DEF SaysTheSame
    <3>. QED  BY <3>2
  <2>5. ASSUME NEW i \in DOMAIN observations, NEW d \in Documents,
               observations[i].known < c.known
        PROVE  <<i, d>> \in cited' <=> <<i, d>> \in cited
    <3>1. i \notin SaysTheSame(c)
      BY <1>0, <2>4, <2>5
    <3>. QED  BY <1>2, <3>1
  <2>. QED  BY <1>0, <1>2, <2>2, <2>3, <2>5 DEF RelationshipsHold, RelationshipsKept
<1>3. CASE /\ EvidenceKnown(docs, c.known)
           /\ observations' = Append(observations,
                 [edge |-> c.edge, exposure |-> c.exposure, resolved |-> c.resolved,
                  valid |-> c.valid, known |-> c.known, kind |-> c.kind,
                  supersedes |-> LatestObservation(c.edge, c.known)])
           /\ cited' = cited \cup ({Len(observations) + 1} \X docs)
  <2>. DEFINE latest == LatestObservation(c.edge, c.known)
              row == [edge |-> c.edge, exposure |-> c.exposure, resolved |-> c.resolved,
                      valid |-> c.valid, known |-> c.known, kind |-> c.kind,
                      supersedes |-> latest]
  <2>1. /\ latest \in SeenOf(c.edge, c.known) \cup {0}
        /\ SeenOf(c.edge, c.known) \in SUBSET (1 .. n)
    BY <1>0, LatestObservationType
  <2>2. latest # 0 => /\ latest \in 1 .. n /\ observations[latest].edge = c.edge
                      /\ observations[latest].known <= c.known
    BY <2>1 DEF SeenOf, ObservationsOf, KnownRows
  <2>. HIDE DEF latest
  <2>3. row \in Observation
    <3>1. latest \in Nat
      BY <2>2
    <3>. QED  BY <3>1 DEF Candidate, Observation
  <2>4. /\ row.edge = c.edge /\ row.known = c.known /\ row.supersedes = latest
    OBVIOUS
  <2>. HIDE DEF row
  <2>5. /\ observations' \in Seq(Observation) /\ Len(observations') = n + 1
        /\ DOMAIN observations' = 1 .. (n + 1)
        /\ \A i \in 1 .. n : observations'[i] = observations[i]
        /\ observations'[n + 1] = row
    <3>1. observations' = Append(observations, row)
      BY <1>3 DEF row, latest
    <3>. QED  BY <1>0, <2>3, <3>1
  <2>6. RelationshipsTypeOK'
    <3>1. cited' \subseteq (1 .. (n + 1)) \X Documents
      BY <1>0, <1>3
    <3>. QED  BY <2>5, <3>1 DEF RelationshipsTypeOK, Observation
  <2>7. ASSUME NEW i \in 1 .. n PROVE ObservationHolds(i)'
    <3>1. /\ ObservationHolds(i) /\ i \in 1 .. (n + 1)
          /\ \A k \in 1 .. (i - 1) : k \in 1 .. n
      BY <1>0
    <3>. QED  BY <1>3, <2>5, <3>1 DEF ObservationHolds
  <2>8. ASSUME NEW k, k = n + 1 PROVE ObservationHolds(k)'
    <3>1. PICK d \in docs : KnownAt[d] <= c.known
      BY <1>3 DEF EvidenceKnown
    <3>2. <<k, d>> \in cited'
      BY <1>3, <2>8
    <3>3. k - 1 = n
      BY <1>0, <2>8
    <3>4. d \in Documents /\ KnownAt[d] <= observations'[k].known
      BY <2>4, <2>5, <2>8, <3>1
    <3>5. latest # 0 => /\ latest \in 1 .. (k - 1)
                        /\ observations'[latest].edge = observations'[k].edge
                        /\ observations'[latest].known <= observations'[k].known
      BY <2>2, <2>4, <2>5, <2>8, <3>3
    <3>6. observations'[k].supersedes = latest
      BY <2>4, <2>5, <2>8
    <3>. QED  BY <3>2, <3>4, <3>5, <3>6 DEF ObservationHolds
  <2>9. \A i \in 1 .. (n + 1) : i \in 1 .. n \/ i = n + 1
    BY <1>0
  <2>10. ASSUME NEW i \in 1 .. n, NEW d \in Documents
         PROVE  <<i, d>> \in cited' <=> <<i, d>> \in cited
    <3>1. i # n + 1
      BY <1>0
    <3>. QED  BY <1>3, <3>1
  <2>11. ASSUME NEW i \in DOMAIN observations' PROVE ObservationHolds(i)'
    <3>1. CASE i \in 1 .. n
      BY <2>7, <3>1
    <3>2. CASE i = n + 1
      BY <2>8, <3>2
    <3>. QED  BY <2>5, <2>9, <3>1, <3>2
  <2>. QED  BY <1>0, <2>4, <2>5, <2>6, <2>9, <2>10, <2>11
          DEF RelationshipsHold, RelationshipsKept
<1>. QED
  BY <1>1, <1>2, <1>3 DEF SaveCandidate, relationshipVars

-----------------------------------------------------------------------------
\* Guidance

Statement == [thread : Threads, text : Texts, known : Times, revision : Nat, supersedes : Nat]

EvaluationOf(S) == [statement : S, status : Statuses, known : Times, result : Nat]

\* A statement has evidence from before it was known, and it is the first of its
\* thread or the revision after the one it supersedes.
StatementHolds(i) ==
    /\ \E d \in Documents : <<i, d>> \in quoted /\ KnownAt[d] <= statements[i].known
    /\ statements[i].revision >= 1
    /\ statements[i].supersedes = 0 => statements[i].revision = 1
    /\ statements[i].supersedes # 0 =>
          /\ statements[i].supersedes \in DOMAIN statements
          /\ statements[statements[i].supersedes].thread = statements[i].thread
          /\ statements[i].revision = statements[statements[i].supersedes].revision + 1

\* No two statements of a thread are the same revision but the first.
OneRevision ==
    \A i, j \in DOMAIN statements :
        /\ statements[i].thread = statements[j].thread
        /\ statements[i].revision = statements[j].revision
        /\ statements[i].revision > 1
        => i = j

GuidanceHolds ==
    /\ GuidanceTypeOK
    /\ \A i \in DOMAIN statements : StatementHolds(i)
    /\ OneRevision

LEMMA StatementsType ==
    ASSUME GuidanceTypeOK
    PROVE  /\ statements \in Seq(Statement) /\ Len(statements) \in Nat
           /\ DOMAIN statements = 1 .. Len(statements)
           /\ \A i \in 1 .. Len(statements) :
                  /\ statements[i] \in Statement
                  /\ statements[i].known \in Times /\ statements[i].known \in Nat
                  /\ statements[i].revision \in Nat
           /\ quoted \subseteq (1 .. Len(statements)) \X Documents
           /\ evaluations \in Seq(EvaluationOf(DOMAIN statements)) /\ Len(evaluations) \in Nat
           /\ DOMAIN evaluations = 1 .. Len(evaluations)
           /\ \A i \in 1 .. Len(evaluations) :
                  /\ evaluations[i] \in EvaluationOf(DOMAIN statements)
                  /\ evaluations[i].known \in Times /\ evaluations[i].known \in Nat
                  /\ evaluations[i].statement \in DOMAIN statements
<1>1. /\ statements \in Seq(Statement)
      /\ evaluations \in Seq(EvaluationOf(DOMAIN statements))
  BY DEF GuidanceTypeOK, Statement, EvaluationOf
<1>2. /\ Len(statements) \in Nat /\ DOMAIN statements = 1 .. Len(statements)
      /\ \A i \in 1 .. Len(statements) : statements[i] \in Statement
  BY <1>1
<1>3. \A i \in 1 .. Len(statements) :
          /\ statements[i].known \in Times /\ statements[i].known \in Nat
          /\ statements[i].revision \in Nat
  BY <1>2, DocumentAssumption DEF Statement
<1>4. quoted \subseteq (1 .. Len(statements)) \X Documents
  BY <1>2 DEF GuidanceTypeOK
<1>5. /\ Len(evaluations) \in Nat /\ DOMAIN evaluations = 1 .. Len(evaluations)
      /\ \A i \in 1 .. Len(evaluations) :
             evaluations[i] \in EvaluationOf(DOMAIN statements)
  BY <1>1
<1>6. \A i \in 1 .. Len(evaluations) :
          /\ evaluations[i].known \in Times /\ evaluations[i].known \in Nat
          /\ evaluations[i].statement \in DOMAIN statements
  BY <1>5, DocumentAssumption DEF EvaluationOf
<1>. QED  BY <1>1, <1>2, <1>3, <1>4, <1>5, <1>6

\* The order of Leads, for the rows of any table
LeadsIn(rows, i, j) ==
    \/ rows[j].revision < rows[i].revision
    \/ /\ rows[j].revision = rows[i].revision
       /\ \/ rows[j].known < rows[i].known
          \/ rows[j].known = rows[i].known /\ i < j

LEMMA LeadingStatement ==
    ASSUME NEW n \in Nat, NEW rows,
           \A i \in 1 .. n : rows[i].known \in Nat /\ rows[i].revision \in Nat,
           NEW S \in SUBSET (1 .. n), S # {}
    PROVE  \E i \in S : \A j \in S \ {i} : LeadsIn(rows, i, j)
<1>. DEFINE R == {p \in (1 .. n) \X (1 .. n) : LeadsIn(rows, p[1], p[2])}
<1>1. \A i, j \in 1 .. n : <<i, j>> \in R <=> LeadsIn(rows, i, j)
  OBVIOUS
<1>. HIDE DEF R
<1>2. \A i, j \in 1 .. n : i # j => <<i, j>> \in R \/ <<j, i>> \in R
  BY <1>1 DEF LeadsIn
<1>3. Ranks(R, n)
  <2>1. \A i, j, k \in 1 .. n : <<i, j>> \in R /\ <<j, k>> \in R => <<i, k>> \in R
    BY <1>1 DEF LeadsIn
  <2>. QED  BY <1>2, <2>1 DEF Ranks
<1>4. \E i \in S : \A j \in S \ {i} : <<i, j>> \in R
  BY <1>3, GreatestUnder
<1>. QED  BY <1>1, <1>4

\* latest_comparable_statement is one of the thread with the greatest revision.
LEMMA LatestComparableType ==
    ASSUME GuidanceTypeOK, NEW th
    PROVE  /\ InThread(th) = {} => LatestComparable(th) = 0
           /\ InThread(th) # {} =>
                 /\ LatestComparable(th) \in InThread(th)
                 /\ \A j \in InThread(th) :
                        statements[j].revision <= statements[LatestComparable(th)].revision
<1>. DEFINE n == Len(statements)
            S == InThread(th)
            l == LatestComparable(th)
<1>1. /\ n \in Nat
      /\ \A i \in 1 .. n : statements[i].known \in Nat /\ statements[i].revision \in Nat
      /\ S \in SUBSET (1 .. n)
  BY StatementsType DEF InThread
<1>2. l = IF S = {} THEN 0 ELSE CHOOSE i \in S : \A j \in S \ {i} : Leads(i, j)
  BY DEF LatestComparable
<1>. HIDE DEF n, S, l
<1>3. ASSUME S # {}
      PROVE  l \in S /\ \A j \in S : statements[j].revision <= statements[l].revision
  <2>1. \E i \in S : \A j \in S \ {i} : Leads(i, j)
    <3>1. \E i \in S : \A j \in S \ {i} : LeadsIn(statements, i, j)
      BY <1>1, <1>3, LeadingStatement
    <3>. QED  BY <3>1 DEF Leads, LeadsIn
  <2>2. l \in S /\ \A j \in S \ {l} : Leads(l, j)
    BY <1>2, <1>3, <2>1, Zenon
  <2>3. ASSUME NEW j \in S
        PROVE  statements[j].revision <= statements[l].revision
    <3>1. statements[j].revision \in Nat /\ statements[l].revision \in Nat
      BY <1>1, <2>2
    <3>2. CASE j = l
      BY <3>1, <3>2
    <3>3. CASE Leads(l, j)
      BY <3>1, <3>3 DEF Leads
    <3>. QED  BY <2>2, <3>2, <3>3
  <2>. QED  BY <2>2, <2>3
<1>. QED  BY <1>2, <1>3 DEF S, l

GuidanceKept(known) ==
    /\ \A i \in DOMAIN statements : i \in DOMAIN statements' /\ statements'[i] = statements[i]
    /\ \A i \in DOMAIN statements' \ DOMAIN statements : statements'[i].known = known
    /\ \A i \in DOMAIN evaluations :
           i \in DOMAIN evaluations' /\ evaluations'[i] = evaluations[i]
    /\ \A i \in DOMAIN evaluations' \ DOMAIN evaluations : evaluations'[i].known = known
    /\ \A i \in DOMAIN statements, d \in Documents :
           statements[i].known < known => (<<i, d>> \in quoted' <=> <<i, d>> \in quoted)

LEMMA GuideHolds ==
    ASSUME GuidanceHolds, NEW doc \in Documents, NEW th \in Threads, NEW text \in Texts,
           Guide(doc, th, text)
    PROVE  GuidanceHolds' /\ GuidanceKept(KnownAt[doc])
<1>. DEFINE n == Len(statements)
            known == KnownAt[doc]
            latest == LatestComparable(th)
            prior == IF latest # 0 /\ statements[latest].text # text THEN latest ELSE 0
            row == [thread |-> th, text |-> text, known |-> known, supersedes |-> prior,
                    revision |-> IF prior = 0 THEN 1 ELSE statements[prior].revision + 1]
<1>0. /\ GuidanceTypeOK /\ statements \in Seq(Statement) /\ n \in Nat
      /\ DOMAIN statements = 1 .. n
      /\ \A i \in 1 .. n : /\ statements[i] \in Statement
                           /\ statements[i].known \in Times /\ statements[i].known \in Nat
                           /\ statements[i].revision \in Nat
                           /\ StatementHolds(i)
      /\ quoted \subseteq (1 .. n) \X Documents
      /\ evaluations \in Seq(EvaluationOf(1 .. n))
      /\ known \in Times /\ known \in Nat
  BY StatementsType, DocumentAssumption DEF GuidanceHolds
<1>1. /\ prior # 0 => /\ prior \in 1 .. n /\ statements[prior].thread = th
                      /\ \A j \in 1 .. n : statements[j].thread = th =>
                             statements[j].revision <= statements[prior].revision
  BY <1>0, LatestComparableType DEF InThread
<1>2. \/ /\ Same(statements, row) # {}
         /\ quoted' = quoted \cup (Same(statements, row) \X {doc})
         /\ UNCHANGED <<statements, evaluations>>
      \/ /\ statements' = Append(statements, row)
         /\ quoted' = quoted \cup ({n + 1} \X {doc})
         /\ evaluations' = IF prior = 0 THEN evaluations
                           ELSE Append(evaluations, Superseded(prior, known))
  BY Zenon DEF Guide, SaveStatement
<1>. HIDE DEF prior, latest
<1>3. /\ row \in Statement /\ row.thread = th /\ row.known = known /\ row.supersedes = prior
      /\ row.revision = IF prior = 0 THEN 1 ELSE statements[prior].revision + 1
  <2>1. prior \in Nat /\ (prior # 0 => statements[prior].revision \in Nat)
    BY <1>0, <1>1
  <2>. QED  BY <1>0, <2>1 DEF Statement
<1>. HIDE DEF row
<1>4. CASE /\ quoted' = quoted \cup (Same(statements, row) \X {doc})
           /\ UNCHANGED <<statements, evaluations>>
  <2>1. \A i \in Same(statements, row) : i \in 1 .. n /\ statements[i].known = known
    BY <1>0, <1>3 DEF Same
  <2>2. quoted' \subseteq (1 .. n) \X Documents
    BY <1>0, <1>4, <2>1
  <2>3. GuidanceTypeOK'
    BY <1>0, <1>4, <2>2 DEF GuidanceTypeOK
  <2>4. ASSUME NEW i \in 1 .. n PROVE StatementHolds(i)'
    BY <1>0, <1>4, <2>4 DEF StatementHolds
  <2>5. OneRevision'
    BY <1>4 DEF GuidanceHolds, OneRevision
  <2>6. ASSUME NEW i \in 1 .. n, NEW d \in Documents, statements[i].known < known
        PROVE  <<i, d>> \in quoted' <=> <<i, d>> \in quoted
    <3>1. i \notin Same(statements, row)
      BY <1>0, <2>1, <2>6
    <3>. QED  BY <1>4, <3>1
  <2>. QED  BY <1>0, <1>4, <2>3, <2>4, <2>5, <2>6 DEF GuidanceHolds, GuidanceKept
<1>5. CASE /\ statements' = Append(statements, row)
           /\ quoted' = quoted \cup ({n + 1} \X {doc})
           /\ evaluations' = IF prior = 0 THEN evaluations
                             ELSE Append(evaluations, Superseded(prior, known))
  <2>1. /\ statements' \in Seq(Statement) /\ DOMAIN statements' = 1 .. (n + 1)
        /\ \A i \in 1 .. n : statements'[i] = statements[i]
        /\ statements'[n + 1] = row
    BY <1>0, <1>3, <1>5
  <2>2. \A i \in 1 .. (n + 1) : i \in 1 .. n \/ i = n + 1
    BY <1>0
  <2>3. /\ evaluations' \in Seq(EvaluationOf(1 .. (n + 1)))
        /\ \A i \in DOMAIN evaluations :
               i \in DOMAIN evaluations' /\ evaluations'[i] = evaluations[i]
        /\ \A i \in DOMAIN evaluations' \ DOMAIN evaluations : evaluations'[i].known = known
    <3>1. evaluations \in Seq(EvaluationOf(1 .. (n + 1)))
      <4>1. \A e \in EvaluationOf(1 .. n) : e \in EvaluationOf(1 .. (n + 1))
        BY <1>0 DEF EvaluationOf
      <4>. QED  BY <1>0, <4>1
    <3>2. CASE prior = 0
      BY <1>5, <3>1, <3>2
    <3>3. CASE prior # 0
      <4>. DEFINE e == Superseded(prior, known)
      <4>1. e \in EvaluationOf(1 .. (n + 1)) /\ e.known = known
        BY <1>0, <1>1, <3>3 DEF Superseded, EvaluationOf, Statuses
      <4>. HIDE DEF e
      <4>2. evaluations' = Append(evaluations, e)
        BY <1>5, <3>3 DEF e
      <4>. QED  BY <3>1, <4>1, <4>2
    <3>. QED  BY <3>2, <3>3
  <2>4. GuidanceTypeOK'
    <3>1. quoted' \subseteq (1 .. (n + 1)) \X Documents
      BY <1>0, <1>5
    <3>. QED  BY <2>1, <2>3, <3>1 DEF GuidanceTypeOK, Statement, EvaluationOf
  <2>5. ASSUME NEW i \in 1 .. n PROVE StatementHolds(i)'
    <3>1. StatementHolds(i) /\ statements'[i] = statements[i]
      BY <1>0, <2>1, <2>5
    <3>2. \A k \in DOMAIN statements : k \in DOMAIN statements' /\ statements'[k] = statements[k]
      BY <1>0, <2>1
    <3>3. quoted \subseteq quoted'
      BY <1>5
    <3>. QED  BY <3>1, <3>2, <3>3 DEF StatementHolds
  <2>6. ASSUME NEW k, k = n + 1 PROVE StatementHolds(k)'
    <3>1. <<k, doc>> \in quoted' /\ KnownAt[doc] <= statements'[k].known
      BY <1>0, <1>3, <1>5, <2>1, <2>6
    <3>2. /\ statements'[k].supersedes = prior /\ statements'[k].thread = th
          /\ statements'[k].revision = row.revision
      BY <1>3, <2>1, <2>6
    <3>3. prior # 0 => /\ prior \in DOMAIN statements' /\ statements'[prior].thread = th
                       /\ row.revision = statements'[prior].revision + 1
                       /\ statements'[prior].revision \in Nat
      BY <1>0, <1>1, <1>3, <2>1
    <3>4. prior = 0 => row.revision = 1
      BY <1>3
    <3>5. row.revision >= 1
      BY <3>3, <3>4
    <3>. QED  BY <3>1, <3>2, <3>3, <3>4, <3>5 DEF StatementHolds
  <2>7. OneRevision'
    <3>1. ASSUME NEW i \in 1 .. n, statements[i].thread = th, row.revision > 1
          PROVE  statements[i].revision # row.revision
      <4>1. prior # 0
        BY <1>3, <3>1
      <4>. QED  BY <1>0, <1>1, <1>3, <3>1, <4>1
    <3>2. ASSUME NEW i \in 1 .. (n + 1), NEW j \in 1 .. (n + 1),
                 statements'[i].thread = statements'[j].thread,
                 statements'[i].revision = statements'[j].revision,
                 statements'[i].revision > 1
          PROVE  i = j
      <4>1. CASE i \in 1 .. n /\ j \in 1 .. n
        BY <1>0, <2>1, <3>2, <4>1 DEF GuidanceHolds, OneRevision
      <4>2. CASE i \in 1 .. n /\ j = n + 1
        BY <1>3, <2>1, <3>1, <3>2, <4>2
      <4>3. CASE i = n + 1 /\ j \in 1 .. n
        BY <1>3, <2>1, <3>1, <3>2, <4>3
      <4>. QED  BY <2>2, <4>1, <4>2, <4>3
    <3>. QED  BY <2>1, <3>2 DEF OneRevision
  <2>8. ASSUME NEW i \in DOMAIN statements' PROVE StatementHolds(i)'
    <3>1. CASE i \in 1 .. n
      BY <2>5, <3>1
    <3>2. CASE i = n + 1
      BY <2>6, <3>2
    <3>. QED  BY <2>1, <2>2, <3>1, <3>2
  <2>9. ASSUME NEW i \in 1 .. n, NEW d \in Documents
        PROVE  <<i, d>> \in quoted' <=> <<i, d>> \in quoted
    <3>1. i # n + 1
      BY <1>0
    <3>. QED  BY <1>5, <3>1
  <2>10. GuidanceKept(known)
    BY <1>0, <1>3, <2>1, <2>2, <2>3, <2>9 DEF GuidanceKept
  <2>. QED  BY <2>4, <2>7, <2>8, <2>10 DEF GuidanceHolds
<1>. QED  BY <1>2, <1>4, <1>5

LEMMA AssessHolds ==
    ASSUME GuidanceHolds, NEW row \in EvaluationOf(DOMAIN statements), SaveEvaluation(row)
    PROVE  GuidanceHolds' /\ GuidanceKept(row.known)
<1>1. /\ statements' = statements /\ quoted' = quoted
      /\ evaluations \in Seq(EvaluationOf(DOMAIN statements))
  BY StatementsType DEF GuidanceHolds, SaveEvaluation
<1>2. /\ evaluations' \in Seq(EvaluationOf(DOMAIN statements))
      /\ \A i \in DOMAIN evaluations :
             i \in DOMAIN evaluations' /\ evaluations'[i] = evaluations[i]
      /\ \A i \in DOMAIN evaluations' \ DOMAIN evaluations : evaluations'[i].known = row.known
  <2>1. evaluations' = evaluations \/ evaluations' = Append(evaluations, row)
    BY DEF SaveEvaluation
  <2>. QED  BY <1>1, <2>1
<1>3. GuidanceTypeOK'
  BY <1>1, <1>2 DEF GuidanceHolds, GuidanceTypeOK, EvaluationOf
<1>4. OneRevision' /\ \A i \in DOMAIN statements' : StatementHolds(i)'
  BY <1>1 DEF GuidanceHolds, OneRevision, StatementHolds
<1>. QED  BY <1>1, <1>2, <1>3, <1>4 DEF GuidanceHolds, GuidanceKept

-----------------------------------------------------------------------------
\* Operating metrics

Definition == [key : Keys, basis : Bases, version : Nat, known : Times, supersedes : Nat]

FigureOf(S) == [definition : S, period : Periods, value : Amounts, known : Times]

\* A definition is the first of its key or the version after the one it supersedes.
Follows(i) ==
    \/ definitions[i].version = 1 /\ definitions[i].supersedes = 0
    \/ /\ definitions[i].supersedes \in OfKey(definitions[i].key)
       /\ definitions[i].version = definitions[definitions[i].supersedes].version + 1

DefinitionHolds(i) ==
    /\ \E d \in Documents : <<i, d>> \in defined /\ KnownAt[d] <= definitions[i].known
    /\ Follows(i)

FigureHolds(i) == \E d \in Documents : <<i, d>> \in reported /\ KnownAt[d] <= figures[i].known

VersionsCount(k) == {definitions[i].version : i \in OfKey(k)} = 1 .. Cardinality(OfKey(k))

OperatingHolds ==
    /\ OperatingTypeOK
    /\ \A i \in DOMAIN definitions : DefinitionHolds(i)
    /\ \A i \in DOMAIN figures : FigureHolds(i)
    /\ \A k \in Keys : VersionsCount(k)

LEMMA OperatingType ==
    ASSUME OperatingTypeOK
    PROVE  /\ definitions \in Seq(Definition) /\ Len(definitions) \in Nat
           /\ DOMAIN definitions = 1 .. Len(definitions)
           /\ \A i \in 1 .. Len(definitions) :
                  /\ definitions[i] \in Definition
                  /\ definitions[i].known \in Times /\ definitions[i].known \in Nat
                  /\ definitions[i].version \in Nat
           /\ defined \subseteq (1 .. Len(definitions)) \X Documents
           /\ figures \in Seq(FigureOf(DOMAIN definitions)) /\ Len(figures) \in Nat
           /\ DOMAIN figures = 1 .. Len(figures)
           /\ \A i \in 1 .. Len(figures) :
                  /\ figures[i] \in FigureOf(DOMAIN definitions)
                  /\ figures[i].known \in Times /\ figures[i].known \in Nat
           /\ reported \subseteq (1 .. Len(figures)) \X Documents
<1>1. /\ definitions \in Seq(Definition)
      /\ figures \in Seq(FigureOf(DOMAIN definitions))
  BY DEF OperatingTypeOK, Definition, FigureOf
<1>2. /\ Len(definitions) \in Nat /\ DOMAIN definitions = 1 .. Len(definitions)
      /\ \A i \in 1 .. Len(definitions) : definitions[i] \in Definition
  BY <1>1
<1>3. \A i \in 1 .. Len(definitions) :
          /\ definitions[i].known \in Times /\ definitions[i].known \in Nat
          /\ definitions[i].version \in Nat
  BY <1>2, DocumentAssumption DEF Definition
<1>4. /\ Len(figures) \in Nat /\ DOMAIN figures = 1 .. Len(figures)
      /\ \A i \in 1 .. Len(figures) : figures[i] \in FigureOf(DOMAIN definitions)
  BY <1>1
<1>5. \A i \in 1 .. Len(figures) : figures[i].known \in Times /\ figures[i].known \in Nat
  BY <1>4, DocumentAssumption DEF FigureOf
<1>6. /\ defined \subseteq (1 .. Len(definitions)) \X Documents
      /\ reported \subseteq (1 .. Len(figures)) \X Documents
  BY <1>2, <1>4 DEF OperatingTypeOK
<1>. QED  BY <1>1, <1>2, <1>3, <1>4, <1>5, <1>6

LEMMA HighestVersion ==
    ASSUME NEW n \in Nat, NEW rows,
           \A i \in 1 .. n : rows[i].known \in Nat /\ rows[i].version \in Nat,
           NEW S \in SUBSET (1 .. n), S # {}
    PROVE  \E i \in S : \A j \in S \ {i} :
              \/ rows[j].version < rows[i].version
              \/ rows[j].version = rows[i].version /\ rows[j].known <= rows[i].known
<1>. DEFINE Over(i, j) ==
                \/ rows[j].version < rows[i].version
                \/ rows[j].version = rows[i].version /\ rows[j].known <= rows[i].known
            R == {p \in (1 .. n) \X (1 .. n) : Over(p[1], p[2])}
<1>1. \A i, j \in 1 .. n : <<i, j>> \in R <=> Over(i, j)
  OBVIOUS
<1>. HIDE DEF R
<1>2. \A i, j \in 1 .. n : i # j => <<i, j>> \in R \/ <<j, i>> \in R
  BY <1>1
<1>3. Ranks(R, n)
  <2>1. \A i, j, k \in 1 .. n : <<i, j>> \in R /\ <<j, k>> \in R => <<i, k>> \in R
    BY <1>1
  <2>. QED  BY <1>2, <2>1 DEF Ranks
<1>. HIDE DEF Over
<1>4. \E i \in S : \A j \in S \ {i} : <<i, j>> \in R
  BY <1>3, GreatestUnder
<1>5. \E i \in S : \A j \in S \ {i} : Over(i, j)
  BY <1>1, <1>4
<1>. QED  BY <1>5 DEF Over

\* latest_definition is one of the key with the highest version.
LEMMA LatestDefinitionType ==
    ASSUME OperatingTypeOK, NEW k
    PROVE  /\ OfKey(k) \in SUBSET (1 .. Len(definitions))
           /\ OfKey(k) = {} => LatestDefinition(k) = 0
           /\ OfKey(k) # {} =>
                 /\ LatestDefinition(k) \in OfKey(k)
                 /\ \A j \in OfKey(k) :
                        definitions[j].version <= definitions[LatestDefinition(k)].version
<1>. DEFINE n == Len(definitions)
            S == OfKey(k)
            l == LatestDefinition(k)
<1>1. /\ n \in Nat
      /\ \A i \in 1 .. n : definitions[i].known \in Nat /\ definitions[i].version \in Nat
      /\ S \in SUBSET (1 .. n)
  BY OperatingType DEF OfKey
<1>2. l = IF S = {} THEN 0
          ELSE CHOOSE i \in S : \A j \in S \ {i} :
                  \/ definitions[j].version < definitions[i].version
                  \/ /\ definitions[j].version = definitions[i].version
                     /\ definitions[j].known <= definitions[i].known
  BY DEF LatestDefinition
<1>. HIDE DEF n, S, l
<1>3. ASSUME S # {}
      PROVE  l \in S /\ \A j \in S : definitions[j].version <= definitions[l].version
  <2>1. \E i \in S : \A j \in S \ {i} :
            \/ definitions[j].version < definitions[i].version
            \/ /\ definitions[j].version = definitions[i].version
               /\ definitions[j].known <= definitions[i].known
    BY <1>1, <1>3, HighestVersion
  <2>2. /\ l \in S
        /\ \A j \in S \ {l} :
               \/ definitions[j].version < definitions[l].version
               \/ /\ definitions[j].version = definitions[l].version
                  /\ definitions[j].known <= definitions[l].known
    BY <1>2, <1>3, <2>1, Zenon
  <2>3. ASSUME NEW j \in S
        PROVE  definitions[j].version <= definitions[l].version
    <3>1. definitions[j].version \in Nat /\ definitions[l].version \in Nat
      BY <1>1, <2>2
    <3>. QED  BY <2>2, <3>1
  <2>. QED  BY <2>2, <2>3
<1>. QED  BY <1>1, <1>2, <1>3 DEF S, l, n

OperatingKept(known) ==
    /\ \A i \in DOMAIN definitions :
           i \in DOMAIN definitions' /\ definitions'[i] = definitions[i]
    /\ \A i \in DOMAIN definitions' \ DOMAIN definitions : definitions'[i].known = known
    /\ \A i \in DOMAIN figures : i \in DOMAIN figures' /\ figures'[i] = figures[i]
    /\ \A i \in DOMAIN figures' \ DOMAIN figures : figures'[i].known = known
    /\ \A i \in DOMAIN definitions, d \in Documents :
           KnownAt[d] < known => (<<i, d>> \in defined' <=> <<i, d>> \in defined)
    /\ \A i \in DOMAIN figures, d \in Documents :
           KnownAt[d] < known => (<<i, d>> \in reported' <=> <<i, d>> \in reported)

LEMMA SameDefinitions ==
    ASSUME UNCHANGED definitions, defined \subseteq defined'
    PROVE  /\ \A i : DefinitionHolds(i) => DefinitionHolds(i)'
           /\ \A k : VersionsCount(k) => VersionsCount(k)'
<1>1. ASSUME NEW k PROVE OfKey(k)' = OfKey(k)
  BY DEF OfKey
<1>2. ASSUME NEW i, DefinitionHolds(i) PROVE DefinitionHolds(i)'
  <2>1. Follows(i)'
    BY <1>2 DEF DefinitionHolds, Follows, OfKey
  <2>. QED  BY <1>2, <2>1 DEF DefinitionHolds
<1>3. ASSUME NEW k, VersionsCount(k) PROVE VersionsCount(k)'
  <2>1. {definitions'[i].version : i \in OfKey(k)'} = {definitions[i].version : i \in OfKey(k)}
    BY <1>1
  <2>. QED  BY <1>1, <1>3, <2>1 DEF VersionsCount
<1>. QED  BY <1>2, <1>3

LEMMA FigureSaved ==
    ASSUME OperatingHolds, NEW doc \in Documents, NEW def \in DOMAIN definitions,
           NEW period \in Periods, NEW value \in Amounts, SaveFigure(doc, def, period, value),
           UNCHANGED <<definitions, defined>>
    PROVE  OperatingHolds' /\ OperatingKept(KnownAt[doc])
<1>. DEFINE n == Len(figures)
            known == KnownAt[doc]
            row == [definition |-> def, period |-> period, value |-> value, known |-> known]
            F == FigureOf(DOMAIN definitions)
<1>0. /\ OperatingTypeOK /\ figures \in Seq(F) /\ n \in Nat /\ DOMAIN figures = 1 .. n
      /\ \A i \in 1 .. n : /\ figures[i].known \in Times /\ figures[i].known \in Nat
                           /\ FigureHolds(i)
      /\ reported \subseteq (1 .. n) \X Documents
      /\ known \in Times /\ known \in Nat
  BY OperatingType, DocumentAssumption DEF OperatingHolds
<1>1. \/ /\ reported' = reported \cup (Same(figures, row) \X {doc})
         /\ UNCHANGED figures
      \/ /\ figures' = Append(figures, row)
         /\ reported' = reported \cup {<<n + 1, doc>>}
  BY Zenon DEF SaveFigure
<1>2. row \in F /\ row.known = known
  BY <1>0 DEF FigureOf
<1>. HIDE DEF row, F
<1>3. /\ \A i \in DOMAIN definitions' : DefinitionHolds(i)'
      /\ \A k \in Keys : VersionsCount(k)'
  BY SameDefinitions DEF OperatingHolds
<1>4. CASE reported' = reported \cup (Same(figures, row) \X {doc}) /\ figures' = figures
  <2>1. reported' \subseteq (1 .. n) \X Documents
    BY <1>0, <1>4 DEF Same
  <2>2. OperatingTypeOK'
    BY <1>0, <1>4, <2>1 DEF OperatingTypeOK
  <2>3. ASSUME NEW i \in 1 .. n PROVE FigureHolds(i)'
    BY <1>0, <1>4, <2>3 DEF FigureHolds
  <2>4. ASSUME NEW i, NEW d \in Documents, KnownAt[d] < known
        PROVE  <<i, d>> \in reported' <=> <<i, d>> \in reported
    <3>1. d # doc
      BY <1>0, <2>4
    <3>. QED  BY <1>4, <3>1
  <2>. QED  BY <1>0, <1>3, <1>4, <2>2, <2>3, <2>4 DEF OperatingHolds, OperatingKept
<1>5. CASE figures' = Append(figures, row) /\ reported' = reported \cup {<<n + 1, doc>>}
  <2>1. /\ figures' \in Seq(F) /\ DOMAIN figures' = 1 .. (n + 1)
        /\ \A i \in 1 .. n : figures'[i] = figures[i]
        /\ figures'[n + 1] = row
    BY <1>0, <1>2, <1>5
  <2>2. \A i \in 1 .. (n + 1) : i \in 1 .. n \/ i = n + 1
    BY <1>0
  <2>3. OperatingTypeOK'
    <3>1. reported' \subseteq (1 .. (n + 1)) \X Documents
      BY <1>0, <1>5
    <3>. QED  BY <1>0, <2>1, <3>1 DEF OperatingTypeOK, F, FigureOf
  <2>4. ASSUME NEW i \in DOMAIN figures' PROVE FigureHolds(i)'
    <3>1. CASE i \in 1 .. n
      BY <1>0, <1>5, <2>1, <3>1 DEF FigureHolds
    <3>2. CASE i = n + 1
      BY <1>0, <1>2, <1>5, <2>1, <3>2 DEF FigureHolds
    <3>. QED  BY <2>1, <2>2, <3>1, <3>2
  <2>5. ASSUME NEW i \in 1 .. n, NEW d \in Documents
        PROVE  <<i, d>> \in reported' <=> <<i, d>> \in reported
    <3>1. i # n + 1
      BY <1>0
    <3>. QED  BY <1>5, <3>1
  <2>. QED  BY <1>0, <1>2, <1>3, <2>1, <2>2, <2>3, <2>4, <2>5 DEF OperatingHolds, OperatingKept
<1>. QED  BY <1>1, <1>4, <1>5

LEMMA DefinitionSaved ==
    ASSUME OperatingHolds, NEW doc \in Documents, NEW k \in Keys, NEW basis \in Bases,
           SaveDefinition(doc, k, basis), UNCHANGED <<figures, reported>>
    PROVE  /\ OperatingHolds' /\ OperatingKept(KnownAt[doc])
           /\ Returned(k, basis) \in DOMAIN definitions'
<1>. DEFINE n == Len(definitions)
            known == KnownAt[doc]
            latest == LatestDefinition(k)
            reused == Reused(k, basis)
            row == [key |-> k, basis |-> basis, known |-> known, supersedes |-> latest,
                    version |-> IF latest = 0 THEN 1 ELSE definitions[latest].version + 1]
<1>0. /\ OperatingTypeOK /\ definitions \in Seq(Definition) /\ n \in Nat
      /\ DOMAIN definitions = 1 .. n
      /\ \A i \in 1 .. n : /\ definitions[i] \in Definition
                           /\ definitions[i].known \in Times /\ definitions[i].known \in Nat
                           /\ definitions[i].version \in Nat
                           /\ DefinitionHolds(i)
      /\ defined \subseteq (1 .. n) \X Documents
      /\ figures \in Seq(FigureOf(1 .. n)) /\ DOMAIN figures = 1 .. Len(figures)
      /\ known \in Times /\ known \in Nat
      /\ \A i \in DOMAIN figures : FigureHolds(i)
      /\ \A key \in Keys : VersionsCount(key)
  BY OperatingType, DocumentAssumption DEF OperatingHolds
<1>1. /\ OfKey(k) \in SUBSET (1 .. n)
      /\ OfKey(k) = {} => latest = 0
      /\ OfKey(k) # {} => /\ latest \in OfKey(k)
                          /\ \A j \in OfKey(k) :
                                 definitions[j].version <= definitions[latest].version
  BY <1>0, LatestDefinitionType
<1>2. reused = latest \/ reused = 0
  BY DEF Reused
<1>3. \/ /\ reused # 0
         /\ defined' = defined \cup {<<reused, doc>>}
         /\ UNCHANGED definitions
      \/ /\ reused = 0
         /\ definitions' = Append(definitions, row)
         /\ defined' = defined \cup {<<n + 1, doc>>}
  BY Zenon DEF SaveDefinition
<1>4. Returned(k, basis) = IF reused # 0 THEN reused ELSE n + 1
  BY DEF Returned
<1>. HIDE DEF latest, reused
<1>5. /\ row \in Definition /\ row.key = k /\ row.known = known /\ row.supersedes = latest
      /\ row.version = IF latest = 0 THEN 1 ELSE definitions[latest].version + 1
  <2>1. latest \in Nat /\ (latest # 0 => definitions[latest].version \in Nat)
    BY <1>0, <1>1
  <2>. QED  BY <1>0, <2>1 DEF Definition
<1>. HIDE DEF row
<1>6. \A i \in DOMAIN figures' : FigureHolds(i)'
  BY <1>0 DEF FigureHolds
<1>7. CASE /\ reused # 0 /\ defined' = defined \cup {<<reused, doc>>}
           /\ definitions' = definitions
  <2>1. reused \in 1 .. n
    BY <1>1, <1>2, <1>7
  <2>2. OperatingTypeOK'
    <3>1. defined' \subseteq (1 .. n) \X Documents
      BY <1>0, <1>7, <2>1
    <3>. QED  BY <1>0, <1>7, <3>1 DEF OperatingTypeOK
  <2>3. ASSUME NEW i \in 1 .. n PROVE DefinitionHolds(i)'
    BY <1>0, <1>7, SameDefinitions
  <2>4. \A key \in Keys : VersionsCount(key)'
    BY <1>0, <1>7, SameDefinitions
  <2>5. ASSUME NEW i, NEW d \in Documents, KnownAt[d] < known
        PROVE  <<i, d>> \in defined' <=> <<i, d>> \in defined
    <3>1. d # doc
      BY <1>0, <2>5
    <3>. QED  BY <1>7, <3>1
  <2>. QED
    BY <1>0, <1>4, <1>6, <1>7, <2>1, <2>2, <2>3, <2>4, <2>5 DEF OperatingHolds, OperatingKept
<1>8. CASE /\ reused = 0 /\ definitions' = Append(definitions, row)
           /\ defined' = defined \cup {<<n + 1, doc>>}
  <2>1. /\ definitions' \in Seq(Definition) /\ DOMAIN definitions' = 1 .. (n + 1)
        /\ \A i \in 1 .. n : definitions'[i] = definitions[i]
        /\ definitions'[n + 1] = row
    BY <1>0, <1>5, <1>8
  <2>2. \A i \in 1 .. (n + 1) : i \in 1 .. n \/ i = n + 1
    BY <1>0
  <2>3. OperatingTypeOK'
    <3>1. defined' \subseteq (1 .. (n + 1)) \X Documents
      BY <1>0, <1>8
    <3>2. figures' \in Seq(FigureOf(1 .. (n + 1)))
      <4>1. \A f \in FigureOf(1 .. n) : f \in FigureOf(1 .. (n + 1))
        BY <1>0 DEF FigureOf
      <4>. QED  BY <1>0, <4>1
    <3>3. reported' \subseteq (DOMAIN figures') \X Documents
      BY <1>0 DEF OperatingTypeOK
    <3>. QED  BY <2>1, <3>1, <3>2, <3>3 DEF OperatingTypeOK, FigureOf, Definition
  <2>4. \A key : OfKey(key)' = OfKey(key) \cup (IF key = k THEN {n + 1} ELSE {})
    BY <1>0, <1>5, <2>1, <2>2 DEF OfKey
  <2>5. ASSUME NEW i \in 1 .. n PROVE DefinitionHolds(i)'
    <3>1. DefinitionHolds(i) /\ definitions'[i] = definitions[i]
      BY <1>0, <2>1, <2>5
    <3>2. defined \subseteq defined'
      BY <1>8
    <3>3. Follows(i)'
      <4>1. \A s \in DOMAIN definitions :
                s \in DOMAIN definitions' /\ definitions'[s] = definitions[s]
        BY <1>0, <2>1
      <4>. QED  BY <1>0, <3>1, <4>1 DEF DefinitionHolds, Follows, OfKey
    <3>. QED  BY <3>1, <3>2, <3>3 DEF DefinitionHolds
  <2>6. ASSUME NEW i, i = n + 1 PROVE DefinitionHolds(i)'
    <3>1. <<i, doc>> \in defined' /\ KnownAt[doc] <= definitions'[i].known
      BY <1>0, <1>5, <1>8, <2>1, <2>6
    <3>2. Follows(i)'
      <4>1. definitions'[i] = row
        BY <2>1, <2>6
      <4>2. CASE latest = 0
        BY <1>5, <4>1, <4>2 DEF Follows
      <4>3. CASE latest # 0
        <5>1. latest \in OfKey(k) /\ latest \in 1 .. n
          BY <1>1, <4>3
        <5>2. latest \in DOMAIN definitions' /\ definitions'[latest] = definitions[latest]
          BY <2>1, <5>1
        <5>. QED  BY <1>5, <4>1, <4>3, <5>1, <5>2 DEF Follows, OfKey
      <4>. QED  BY <4>2, <4>3
    <3>. QED  BY <3>1, <3>2 DEF DefinitionHolds
  <2>7. ASSUME NEW i \in DOMAIN definitions' PROVE DefinitionHolds(i)'
    <3>1. CASE i \in 1 .. n
      BY <2>5, <3>1
    <3>2. CASE i = n + 1
      BY <2>6, <3>2
    <3>. QED  BY <2>1, <2>2, <3>1, <3>2
  <2>8. ASSUME NEW i \in 1 .. n, NEW d \in Documents
        PROVE  <<i, d>> \in defined' <=> <<i, d>> \in defined
    <3>1. i # n + 1
      BY <1>0
    <3>. QED  BY <1>8, <3>1
  <2>9. OperatingKept(known)
    BY <1>0, <1>5, <2>1, <2>2, <2>8 DEF OperatingKept
  <2>10. ASSUME NEW key \in Keys PROVE VersionsCount(key)'
    <3>. DEFINE before == {definitions[i].version : i \in OfKey(key)}
                count == Cardinality(OfKey(key))
    <3>1. before = 1 .. count
      BY <1>0 DEF VersionsCount
    <3>2. OfKey(key) \in SUBSET (1 .. n) /\ \A i \in OfKey(key) : definitions'[i] = definitions[i]
      BY <1>0, <2>1 DEF OfKey
    <3>3. CASE key # k
      <4>1. OfKey(key)' = OfKey(key)
        BY <2>4, <3>3
      <4>2. {definitions'[i].version : i \in OfKey(key)} = before
        BY <3>2
      <4>. QED  BY <3>1, <4>1, <4>2 DEF VersionsCount
    <3>4. CASE key = k
      <4>1. OfKey(key)' = OfKey(key) \cup {n + 1} /\ n + 1 \notin OfKey(key)
        BY <1>0, <2>4, <3>2, <3>4
      <4>2. /\ IsFiniteSet(OfKey(key)) /\ count \in Nat
            /\ Cardinality(OfKey(key)') = count + 1
        <5>1. IsFiniteSet(1 .. n)
          <6>1. 1 \in Int /\ n \in Int
            BY <1>0
          <6>. HIDE DEF n
          <6>. QED  BY <6>1, FS_Interval
        <5>2. IsFiniteSet(OfKey(key))
          BY <3>2, <5>1, FS_Subset
        <5>. QED  BY <4>1, <5>2, FS_CardinalityType, FS_AddElement
      <4>3. {definitions'[i].version : i \in OfKey(key)'} = before \cup {row.version}
        BY <2>1, <3>2, <4>1
      <4>4. row.version = count + 1
        <5>1. CASE OfKey(key) = {}
          BY <1>1, <1>5, <3>4, <5>1, FS_EmptySet
        <5>2. CASE OfKey(key) # {}
          <6>. DEFINE top == definitions[latest].version
          <6>1. /\ latest \in OfKey(key) /\ latest # 0
                /\ \A j \in OfKey(key) : definitions[j].version <= top
            BY <1>0, <1>1, <3>4, <5>2
          <6>2. top \in 1 .. count
            BY <3>1, <6>1
          <6>3. count \in before
            BY <3>1, <4>2, <6>2
          <6>4. count <= top
            BY <6>1, <6>3
          <6>. QED  BY <1>5, <4>2, <6>1, <6>2, <6>4
        <5>. QED  BY <5>1, <5>2
      <4>5. (1 .. count) \cup {count + 1} = 1 .. (count + 1)
        BY <4>2
      <4>. QED  BY <3>1, <4>2, <4>3, <4>4, <4>5 DEF VersionsCount
    <3>. QED  BY <3>3, <3>4
  <2>. QED
    BY <1>0, <1>4, <1>6, <1>8, <2>1, <2>3, <2>7, <2>9, <2>10 DEF OperatingHolds
<1>. QED  BY <1>3, <1>7, <1>8

-----------------------------------------------------------------------------
\* Steps

\* Inductive: what the tables hold, and the place of the refresh in a document
ClaimsInv ==
    /\ TypeOK
    /\ next \in Nat \ {0}
    /\ definition \in DOMAIN definitions \cup {0}
    /\ RelationshipsHold /\ GuidanceHolds /\ OperatingHolds

HistoriesKept(known) ==
    RelationshipsKept(known) /\ GuidanceKept(known) /\ OperatingKept(known)

LEMMA SameHistories ==
    ASSUME NEW known
    PROVE  /\ RelationshipsHold /\ UNCHANGED relationshipVars =>
                  RelationshipsHold' /\ RelationshipsKept(known)
           /\ GuidanceHolds /\ UNCHANGED guidanceVars => GuidanceHolds' /\ GuidanceKept(known)
           /\ OperatingHolds /\ UNCHANGED operatingVars =>
                  OperatingHolds' /\ OperatingKept(known)
<1>1. ASSUME RelationshipsHold, UNCHANGED relationshipVars
      PROVE  RelationshipsHold' /\ RelationshipsKept(known)
  BY <1>1 DEF relationshipVars, RelationshipsHold, RelationshipsTypeOK, ObservationHolds,
              RelationshipsKept
<1>2. ASSUME GuidanceHolds, UNCHANGED guidanceVars
      PROVE  GuidanceHolds' /\ GuidanceKept(known)
  BY <1>2 DEF guidanceVars, GuidanceHolds, GuidanceTypeOK, StatementHolds, OneRevision,
              GuidanceKept
<1>3. ASSUME OperatingHolds, UNCHANGED operatingVars
      PROVE  OperatingHolds' /\ OperatingKept(known)
  <2>1. UNCHANGED <<definitions, figures, defined, reported>>
    BY <1>3 DEF operatingVars
  <2>2. OperatingTypeOK' /\ \A i \in DOMAIN figures' : FigureHolds(i)'
    BY <1>3, <2>1 DEF OperatingHolds, OperatingTypeOK, FigureHolds
  <2>3. OperatingKept(known)
    BY <2>1 DEF OperatingKept
  <2>4. OperatingHolds'
    BY <1>3, <2>1, <2>2, SameDefinitions DEF OperatingHolds
  <2>. QED  BY <2>3, <2>4
<1>. QED  BY <1>1, <1>2, <1>3

\* The claim that is extracted is one of its document's.
LEMMA ClaimedType ==
    ASSUME ClaimsInv, NEW kind, Pending(kind)
    PROVE  /\ document \in Documents /\ Claimed \in Claim /\ Claimed.kind = kind
           /\ KnownAt[document] \in Times
<1>1. document \in Documents
  BY DEF ClaimsInv, TypeOK, Pending
<1>2. Claims[document] \in Seq(Claim) /\ KnownAt[document] \in Times
  BY <1>1, ClaimsAssumption, DocumentAssumption
<1>3. next \in 1 .. Len(Claims[document])
  BY <1>2 DEF ClaimsInv, Pending
<1>. QED  BY <1>1, <1>2, <1>3 DEF Claimed, Pending

LEMMA ExtractRelationshipHolds ==
    ASSUME ClaimsInv, ExtractRelationship
    PROVE  RelationshipsHold' /\ RelationshipsKept(dated')
<1>1. /\ document \in Documents /\ Claimed.edge \in Edges /\ Claimed.exposure \in Exposures
      /\ KnownAt[document] \in Times /\ dated' = KnownAt[document]
  BY ClaimedType DEF ExtractRelationship, Extracting, Claim
<1>2. (Claimed.edge \in registered) \in BOOLEAN
  OBVIOUS
<1>. DEFINE c == [edge |-> Claimed.edge, exposure |-> Claimed.exposure,
                  resolved |-> Claimed.edge \in registered, valid |-> Times,
                  known |-> KnownAt[document], kind |-> "extracted"]
<1>3. c \in Candidate /\ c.known = dated'
  BY <1>1, <1>2 DEF Candidate, Kinds
<1>4. SaveCandidate(c, {document}) /\ {document} \in SUBSET Documents
  BY <1>1 DEF ExtractRelationship, Disclose
<1>5. RelationshipsHold
  BY DEF ClaimsInv
<1>. HIDE DEF c
<1>. QED  BY <1>3, <1>4, <1>5, SaveCandidateHolds

LEMMA OverrideHolds ==
    ASSUME RelationshipsHold, NEW e \in Edges, NEW x \in Exposures, NEW resolved \in BOOLEAN,
           NEW valid \in Validities, NEW t \in Times, NEW d \in Documents,
           OverrideRelationship(e, x, resolved, valid, t, {d})
    PROVE  RelationshipsHold' /\ RelationshipsKept(t)
<1>. DEFINE c == [edge |-> e, exposure |-> x, resolved |-> resolved, valid |-> valid,
                  known |-> t, kind |-> "human_override"]
<1>1. c \in Candidate /\ c.known = t
  BY ValidityAssumption DEF Candidate, Kinds
<1>2. SaveCandidate(c, {d}) /\ {d} \in SUBSET Documents
  BY DEF OverrideRelationship
<1>. HIDE DEF c
<1>. QED  BY <1>1, <1>2, SaveCandidateHolds

LEMMA AssessmentHolds ==
    ASSUME GuidanceHolds, NEW s \in DOMAIN statements, NEW actual, NEW t \in Times, NEW d,
           Withdraw(s, d, t) \/ EvaluateNumeric(s, actual, t)
    PROVE  GuidanceHolds' /\ GuidanceKept(t)
<1>1. ASSUME NEW status \in Statuses,
             SaveEvaluation([statement |-> s, status |-> status, known |-> t, result |-> 0])
      PROVE  GuidanceHolds' /\ GuidanceKept(t)
  <2>. DEFINE row == [statement |-> s, status |-> status, known |-> t, result |-> 0]
  <2>1. row \in EvaluationOf(DOMAIN statements) /\ row.known = t
    BY DEF EvaluationOf
  <2>2. SaveEvaluation(row)
    BY <1>1
  <2>. HIDE DEF row
  <2>. QED  BY <2>1, <2>2, AssessHolds
<1>2. CASE Withdraw(s, d, t)
  BY <1>1, <1>2 DEF Withdraw, Statuses
<1>3. CASE EvaluateNumeric(s, actual, t)
  <2>. DEFINE status == IF actual \in Bounds[statements[s].text].low ..
                                         Bounds[statements[s].text].high
                        THEN "delivered" ELSE "missed"
  <2>1. status \in Statuses
    BY DEF Statuses
  <2>2. SaveEvaluation([statement |-> s, status |-> status, known |-> t, result |-> 0])
    BY <1>3, Zenon DEF EvaluateNumeric
  <2>. HIDE DEF status
  <2>. QED  BY <1>1, <2>1, <2>2
<1>. QED  BY <1>2, <1>3

\* Every step of the refresh and of the routes keeps the tables, and is dated like what
\* it adds to them.
LEMMA StepHolds ==
    ASSUME ClaimsInv, [Next]_vars
    PROVE  ClaimsInv' /\ HistoriesKept(dated')
<1>. USE DEF Undated
<1>0. /\ TypeOK /\ next \in Nat \ {0} /\ definition \in DOMAIN definitions \cup {0}
      /\ RelationshipsHold /\ GuidanceHolds /\ OperatingHolds
      /\ Undated \notin Times /\ Times \subseteq Nat
  BY DocumentAssumption DEF ClaimsInv
<1>1. ASSUME UNCHANGED histories, TypeOK', next' \in Nat \ {0},
             definition' = definition \/ definition' = 0
      PROVE  ClaimsInv' /\ HistoriesKept(dated')
  <2>1. UNCHANGED <<relationshipVars, guidanceVars, operatingVars>>
    BY <1>1 DEF histories
  <2>2. RelationshipsHold' /\ RelationshipsKept(dated')
    BY <1>0, <2>1, SameHistories
  <2>3. GuidanceHolds' /\ GuidanceKept(dated')
    BY <1>0, <2>1, SameHistories
  <2>4. OperatingHolds' /\ OperatingKept(dated')
    BY <1>0, <2>1, SameHistories
  <2>5. definition' \in DOMAIN definitions' \cup {0}
    BY <1>0, <1>1, <2>1 DEF operatingVars
  <2>. QED  BY <1>1, <2>2, <2>3, <2>4, <2>5 DEF ClaimsInv, HistoriesKept
\* The tables a step does not touch
<1>2. /\ UNCHANGED relationshipVars => RelationshipsHold' /\ RelationshipsKept(dated')
      /\ UNCHANGED guidanceVars => GuidanceHolds' /\ GuidanceKept(dated')
      /\ UNCHANGED operatingVars => OperatingHolds' /\ OperatingKept(dated')
  BY <1>0, SameHistories
<1>3. ASSUME RelationshipsHold', RelationshipsKept(dated'), GuidanceHolds', GuidanceKept(dated'),
             OperatingHolds', OperatingKept(dated'), next' \in Nat \ {0},
             definition' \in DOMAIN definitions' \cup {0}, Extracting, document \in Documents
      PROVE  ClaimsInv' /\ HistoriesKept(dated')
  <2>1. RelationshipsTypeOK' /\ GuidanceTypeOK' /\ OperatingTypeOK'
    BY <1>3 DEF RelationshipsHold, GuidanceHolds, OperatingHolds
  <2>2. definition' \in Nat
    BY <1>3 DEF OperatingHolds, OperatingTypeOK
  <2>3. KnownAt[document] \in Times
    BY <1>3, DocumentAssumption
  <2>4. TypeOK'
    BY <1>0, <1>3, <2>1, <2>2, <2>3 DEF TypeOK, Extracting, bounds
  <2>. QED  BY <1>3, <2>4 DEF ClaimsInv, HistoriesKept
<1>4. ASSUME NEW S \in SUBSET Documents, Refresh(S) PROVE ClaimsInv' /\ HistoriesKept(dated')
  <2>1. listing' \in Seq(Documents)
    <3>1. IsFiniteSet(S)
      BY ClaimsAssumption, FS_Subset
    <3>2. Cardinality(S) \in Nat
      BY <3>1, FS_CardinalityType
    <3>3. listing' \in [1 .. Cardinality(S) -> S]
      BY <1>4 DEF Refresh, NewestFirst, Orders
    <3>. QED  BY <3>2, <3>3
  <2>2. refreshes' \in 0 .. MaxRefreshes
    BY <1>0, <1>4, ClaimsAssumption DEF Refresh, TypeOK
  <2>3. TypeOK'
    BY <1>0, <1>4, <2>1, <2>2
       DEF Refresh, TypeOK, histories, relationshipVars, guidanceVars, operatingVars,
           RelationshipsTypeOK, GuidanceTypeOK, OperatingTypeOK
  <2>. QED  BY <1>0, <1>1, <1>4, <2>3 DEF Refresh
<1>5. CASE Skip \/ Open
  <2>1. listing' \in Seq(Documents) /\ Head(listing) \in Documents
    <3>1. listing \in Seq(Documents)
      BY <1>0 DEF TypeOK
    <3>2. listing # <<>> /\ listing' = Tail(listing)
      BY <1>5 DEF Skip, Open, NextDocument
    <3>. QED  BY <3>1, <3>2
  <2>2. TypeOK'
    BY <1>0, <1>5, <2>1
       DEF Skip, Open, NextDocument, TypeOK, bounds, histories, relationshipVars, guidanceVars,
           operatingVars, RelationshipsTypeOK, GuidanceTypeOK, OperatingTypeOK
  <2>. QED  BY <1>0, <1>1, <1>5, <2>2 DEF Skip, Open
<1>6. CASE ExtractRelationship
  <2>1. RelationshipsHold' /\ RelationshipsKept(dated')
    BY <1>6, ExtractRelationshipHolds
  <2>2. /\ Extracting /\ document \in Documents /\ next' = next + 1 /\ definition' = 0
        /\ UNCHANGED <<guidanceVars, operatingVars>>
    BY <1>6, ClaimedType DEF ExtractRelationship, Advance
  <2>. QED  BY <1>0, <1>2, <1>3, <2>1, <2>2
<1>7. CASE ExtractDefinition
  <2>1. /\ Extracting /\ document \in Documents /\ dated' = KnownAt[document]
        /\ Claimed.key \in Keys /\ Claimed.basis \in Bases
        /\ UNCHANGED <<relationshipVars, guidanceVars>>
    BY <1>7, ClaimedType DEF ExtractDefinition, Extracting, Claim
  <2>2. CASE Advance /\ UNCHANGED operatingVars
    <3>1. next' = next + 1 /\ definition' = 0
      BY <2>2 DEF Advance
    <3>. QED  BY <1>0, <1>2, <1>3, <2>1, <2>2, <3>1
  <2>3. CASE /\ SaveDefinition(document, Claimed.key, Claimed.basis)
             /\ definition' = Returned(Claimed.key, Claimed.basis)
             /\ UNCHANGED <<next, figures, reported>>
    <3>1. /\ OperatingHolds' /\ OperatingKept(KnownAt[document])
          /\ Returned(Claimed.key, Claimed.basis) \in DOMAIN definitions'
      BY <1>0, <2>1, <2>3, DefinitionSaved
    <3>2. OperatingKept(dated')
      BY <2>1, <3>1 DEF OperatingKept
    <3>. QED  BY <1>0, <1>2, <1>3, <2>1, <2>3, <3>1, <3>2
  <2>. QED  BY <1>7, <2>2, <2>3 DEF ExtractDefinition
<1>8. CASE ExtractFigure
  <2>1. /\ Extracting /\ document \in Documents /\ dated' = KnownAt[document]
        /\ Claimed.period \in Periods /\ Claimed.value \in Amounts
        /\ UNCHANGED <<relationshipVars, guidanceVars, definitions, defined>>
        /\ SaveFigure(document, definition, Claimed.period, Claimed.value)
        /\ next' = next + 1 /\ definition' = 0
    BY <1>8, ClaimedType DEF ExtractFigure, Extracting, Advance, Claim
  <2>2. definition \in DOMAIN definitions
    BY <1>0, <1>8 DEF ExtractFigure
  <2>3. OperatingHolds' /\ OperatingKept(KnownAt[document])
    BY <1>0, <2>1, <2>2, FigureSaved
  <2>4. OperatingKept(dated')
    BY <2>1, <2>3 DEF OperatingKept
  <2>. QED  BY <1>0, <1>2, <1>3, <2>1, <2>3, <2>4
<1>9. CASE ExtractSentence
  <2>1. /\ Extracting /\ document \in Documents /\ dated' = KnownAt[document]
        /\ Claimed.thread \in Threads /\ Claimed.text \in Texts
        /\ UNCHANGED <<relationshipVars, operatingVars>>
        /\ Guide(document, Claimed.thread, Claimed.text)
        /\ next' = next + 1 /\ definition' = 0
    BY <1>9, ClaimedType DEF ExtractSentence, Extracting, Advance, Claim
  <2>2. GuidanceHolds' /\ GuidanceKept(KnownAt[document])
    BY <1>0, <2>1, GuideHolds
  <2>3. GuidanceKept(dated')
    BY <2>1, <2>2 DEF GuidanceKept
  <2>. QED  BY <1>0, <1>2, <1>3, <2>1, <2>2, <2>3
<1>10. CASE SentenceRaises \/ Finish \/ ExtractionFails \/ Die
  <2>1. /\ Leave /\ document \in Documents /\ UNCHANGED histories
        /\ listing' \in Seq(Documents) /\ failures' \in 0 .. MaxFailures
    <3>1. Leave /\ document # None
      BY <1>10 DEF SentenceRaises, Finish, ExtractionFails, Die, Pending
    <3>2. listing' = listing \/ listing' = <<>>
      BY <1>10 DEF SentenceRaises, Finish, ExtractionFails, Die
    <3>3. \/ failures' = failures
          \/ failures' = failures + 1 /\ failures < MaxFailures
      BY <1>10 DEF SentenceRaises, Finish, ExtractionFails, Die
    <3>4. /\ listing \in Seq(Documents) /\ failures \in 0 .. MaxFailures
          /\ document \in Documents
      BY <1>0, <3>1 DEF TypeOK
    <3>5. listing' \in Seq(Documents)
      <4>1. <<>> \in Seq(Documents)
        OBVIOUS
      <4>. QED  BY <3>2, <3>4, <4>1
    <3>6. failures' \in 0 .. MaxFailures
      BY <3>3, <3>4, ClaimsAssumption
    <3>. QED  BY <3>1, <3>4, <3>5, <3>6 DEF Leave
  <2>2. next' = 1 /\ definition' = 0
    BY <2>1 DEF Leave
  <2>3. TypeOK'
    BY <1>0, <2>1
       DEF Leave, TypeOK, None, histories, relationshipVars, guidanceVars, operatingVars,
           RelationshipsTypeOK, GuidanceTypeOK, OperatingTypeOK
  <2>. QED  BY <1>1, <2>1, <2>2, <2>3
<1>11. ASSUME NEW t \in Times \cup {Undated}, Requesting(t),
              RelationshipsHold', RelationshipsKept(t), GuidanceHolds', GuidanceKept(t),
              UNCHANGED <<operatingVars, registered>>
       PROVE  ClaimsInv' /\ HistoriesKept(dated')
  <2>1. OperatingHolds' /\ OperatingKept(dated')
    BY <1>2, <1>11
  <2>2. RelationshipsKept(dated') /\ GuidanceKept(dated')
    BY <1>11 DEF Requesting, RelationshipsKept, GuidanceKept
  <2>3. RelationshipsTypeOK' /\ GuidanceTypeOK' /\ OperatingTypeOK'
    BY <1>11, <2>1 DEF RelationshipsHold, GuidanceHolds, OperatingHolds
  <2>4. requests' \in 0 .. MaxRequests
    BY <1>0, <1>11, ClaimsAssumption DEF Requesting, TypeOK
  <2>5. TypeOK'
    BY <1>0, <1>11, <2>3, <2>4 DEF TypeOK, Requesting, refresh
  <2>6. next' = next /\ definition' = definition /\ definitions' = definitions
    BY <1>11 DEF Requesting, refresh, operatingVars
  <2>. QED  BY <1>0, <1>11, <2>1, <2>2, <2>5, <2>6 DEF ClaimsInv, HistoriesKept
<1>12. ASSUME NEW e \in Edges, NEW x \in Exposures, NEW resolved \in BOOLEAN,
              NEW valid \in Validities, NEW t \in Times, NEW d \in Documents,
              Override(e, x, resolved, valid, t, d)
       PROVE  ClaimsInv' /\ HistoriesKept(dated')
  <2>1. RelationshipsHold' /\ RelationshipsKept(t)
    BY <1>0, <1>12, OverrideHolds DEF Override
  <2>2. GuidanceHolds' /\ GuidanceKept(t)
    BY <1>0, <1>12, SameHistories DEF Override
  <2>. QED  BY <1>11, <1>12, <2>1, <2>2 DEF Override
<1>13. ASSUME NEW s \in DOMAIN statements, NEW actual \in Actuals, NEW t \in Times,
              NEW d \in Documents, Assess(s, actual, t, d)
       PROVE  ClaimsInv' /\ HistoriesKept(dated')
  <2>1. RelationshipsHold' /\ RelationshipsKept(t)
    BY <1>0, <1>13, SameHistories DEF Assess
  <2>2. GuidanceHolds' /\ GuidanceKept(t)
    BY <1>0, <1>13, AssessmentHolds DEF Assess
  <2>. QED  BY <1>11, <1>13, <2>1, <2>2 DEF Assess
<1>14. ASSUME NEW e \in Edges, Register(e) PROVE ClaimsInv' /\ HistoriesKept(dated')
  <2>1. requests' \in 0 .. MaxRequests
    BY <1>0, <1>14, ClaimsAssumption DEF Register, Requesting, TypeOK
  <2>2. registered' \subseteq Edges
    BY <1>0, <1>14 DEF Register, TypeOK
  <2>3. TypeOK'
    BY <1>0, <1>14, <2>1, <2>2
       DEF Register, Requesting, refresh, TypeOK, histories, relationshipVars, guidanceVars,
           operatingVars, RelationshipsTypeOK, GuidanceTypeOK, OperatingTypeOK
  <2>. QED  BY <1>0, <1>1, <1>14, <2>3 DEF Register, Requesting, refresh
<1>15. CASE UNCHANGED vars
  <2>1. TypeOK'
    BY <1>0, <1>15
       DEF vars, refresh, bounds, TypeOK, histories, relationshipVars, guidanceVars,
           operatingVars, RelationshipsTypeOK, GuidanceTypeOK, OperatingTypeOK
  <2>. QED  BY <1>0, <1>1, <1>15, <2>1 DEF vars, refresh
<1>. QED
  BY <1>4, <1>5, <1>6, <1>7, <1>8, <1>9, <1>10, <1>12, <1>13, <1>14, <1>15 DEF Next

LEMMA InitHolds == Init => ClaimsInv
<1>. SUFFICES ASSUME Init PROVE ClaimsInv
  OBVIOUS
<1>1. RelationshipsHold
  BY DEF Init, InitRelationships, RelationshipsHold, RelationshipsTypeOK
<1>2. GuidanceHolds
  BY DEF Init, InitGuidance, GuidanceHolds, GuidanceTypeOK, OneRevision
<1>3. OperatingHolds
  <2>1. OperatingTypeOK /\ definitions = <<>> /\ figures = <<>>
    BY DEF Init, InitOperating, OperatingTypeOK
  <2>2. ASSUME NEW k \in Keys PROVE VersionsCount(k)
    <3>1. OfKey(k) = {}
      BY <2>1 DEF OfKey
    <3>2. Cardinality({}) = 0
      BY FS_EmptySet
    <3>. QED  BY <3>1, <3>2 DEF VersionsCount
  <2>. QED  BY <2>1, <2>2 DEF OperatingHolds
<1>4. TypeOK
  <2>1. <<>> \in Seq(Documents)
    OBVIOUS
  <2>2. 0 \in 0 .. MaxRefreshes /\ 0 \in 0 .. MaxFailures /\ 0 \in 0 .. MaxRequests
    BY ClaimsAssumption
  <2>. QED
    BY <1>1, <1>2, <1>3, <2>1, <2>2
       DEF TypeOK, Init, RelationshipsHold, GuidanceHolds, OperatingHolds
<1>5. next = 1 /\ definition = 0
  BY DEF Init
<1>. QED  BY <1>1, <1>2, <1>3, <1>4, <1>5 DEF ClaimsInv

(***************************************************************************)
(* Whatever documents are extracted, in whatever order, and whatever is    *)
(* corrected meanwhile, the tables hold what the readers assume: rows have *)
(* early evidence, and predecessors are rows of the same edge, thread or   *)
(* key (the saves of the three repositories).                              *)
(***************************************************************************)
THEOREM ClaimsInvariant == Spec => []ClaimsInv
<1>1. ClaimsInv /\ [Next]_vars => ClaimsInv'
  BY StepHolds
<1>. QED  BY <1>1, InitHolds, PTL DEF Spec

-----------------------------------------------------------------------------
\* What the tables hold for a reader

(***************************************************************************)
(* No claim a reader may see lacks evidence he may see: a row is linked to *)
(* a document known no later than itself in the transaction that writes it *)
(* (_require_evidence, _require_source_evidence).                          *)
(***************************************************************************)
THEOREM EvidenceForAll == Spec => []EveryClaimHasEvidence
<1>1. ASSUME ClaimsInv PROVE EveryClaimHasEvidence
  <2>. SUFFICES ASSUME NEW t \in Times
                PROVE  /\ \A i \in KnownRows(observations, t) : Cited(i, t) # {}
                       /\ \A i \in KnownRows(statements, t) : Quoted(i, t) # {}
                       /\ \A i \in KnownRows(definitions, t) : Defined(i, t) # {}
                       /\ \A i \in KnownRows(figures, t) : Reported(i, t) # {}
    BY DEF EveryClaimHasEvidence
  <2>0. t \in Nat /\ \A d \in Documents : KnownAt[d] \in Nat
    BY DocumentAssumption
  <2>1. ASSUME NEW i \in KnownRows(observations, t) PROVE Cited(i, t) # {}
    <3>1. i \in DOMAIN observations /\ observations[i].known <= t
          /\ observations[i].known \in Nat /\ ObservationHolds(i)
      BY <1>1, ObservationsType DEF KnownRows, ClaimsInv, RelationshipsHold
    <3>2. PICK d \in Documents : <<i, d>> \in cited /\ KnownAt[d] <= observations[i].known
      BY <3>1 DEF ObservationHolds
    <3>3. KnownAt[d] <= t
      BY <2>0, <3>1, <3>2
    <3>. QED  BY <3>2, <3>3 DEF Cited
  <2>2. ASSUME NEW i \in KnownRows(statements, t) PROVE Quoted(i, t) # {}
    <3>1. i \in DOMAIN statements /\ statements[i].known <= t
          /\ statements[i].known \in Nat /\ StatementHolds(i)
      BY <1>1, StatementsType DEF KnownRows, ClaimsInv, GuidanceHolds
    <3>2. PICK d \in Documents : <<i, d>> \in quoted /\ KnownAt[d] <= statements[i].known
      BY <3>1 DEF StatementHolds
    <3>3. KnownAt[d] <= t
      BY <2>0, <3>1, <3>2
    <3>. QED  BY <3>2, <3>3 DEF Quoted
  <2>3. ASSUME NEW i \in KnownRows(definitions, t) PROVE Defined(i, t) # {}
    <3>1. i \in DOMAIN definitions /\ definitions[i].known <= t
          /\ definitions[i].known \in Nat /\ DefinitionHolds(i)
      BY <1>1, OperatingType DEF KnownRows, ClaimsInv, OperatingHolds
    <3>2. PICK d \in Documents : <<i, d>> \in defined /\ KnownAt[d] <= definitions[i].known
      BY <3>1 DEF DefinitionHolds
    <3>3. KnownAt[d] <= t
      BY <2>0, <3>1, <3>2
    <3>. QED  BY <3>2, <3>3 DEF Defined
  <2>4. ASSUME NEW i \in KnownRows(figures, t) PROVE Reported(i, t) # {}
    <3>1. i \in DOMAIN figures /\ figures[i].known <= t
          /\ figures[i].known \in Nat /\ FigureHolds(i)
      BY <1>1, OperatingType DEF KnownRows, ClaimsInv, OperatingHolds
    <3>2. PICK d \in Documents : <<i, d>> \in reported /\ KnownAt[d] <= figures[i].known
      BY <3>1 DEF FigureHolds
    <3>3. KnownAt[d] <= t
      BY <2>0, <3>1, <3>2
    <3>. QED  BY <3>2, <3>3 DEF Reported
  <2>. QED  BY <2>1, <2>2, <2>3, <2>4
<1>. QED  BY <1>1, ClaimsInvariant, PTL

(***************************************************************************)
(* Guidance and definitions stay chains without forks, in whatever order   *)
(* documents are extracted (latest_comparable_statement,                   *)
(* latest_definition).                                                     *)
(***************************************************************************)
THEOREM LinearHistories == Spec => []HistoriesAreLinear
<1>1. ASSUME ClaimsInv PROVE RevisionsAreLinear
  <2>1. ASSUME NEW i \in DOMAIN statements, statements[i].supersedes # 0
        PROVE  /\ statements[i].revision > 1
               /\ statements[statements[i].supersedes].thread = statements[i].thread
               /\ statements[i].revision = statements[statements[i].supersedes].revision + 1
    <3>1. StatementHolds(i)
      BY <1>1 DEF ClaimsInv, GuidanceHolds
    <3>2. /\ statements[i].supersedes \in DOMAIN statements
          /\ StatementHolds(statements[i].supersedes)
          /\ statements[statements[i].supersedes].revision \in Nat
      BY <1>1, <2>1, <3>1, StatementsType DEF StatementHolds, ClaimsInv, GuidanceHolds
    <3>. QED  BY <2>1, <3>1, <3>2 DEF StatementHolds
  <2>2. ASSUME NEW i \in DOMAIN statements, NEW j \in DOMAIN statements,
               i # j, statements[i].supersedes # 0
        PROVE  /\ statements[i].supersedes # statements[j].supersedes
               /\ statements[i].thread = statements[j].thread =>
                     statements[i].revision # statements[j].revision
    <3>1. statements[i].thread = statements[j].thread =>
              statements[i].revision # statements[j].revision
      BY <1>1, <2>1, <2>2 DEF ClaimsInv, GuidanceHolds, OneRevision
    <3>. QED  BY <2>1, <2>2, <3>1
  <2>. QED  BY <2>2 DEF RevisionsAreLinear
<1>2. ASSUME ClaimsInv PROVE VersionsAreLinear
  BY <1>2 DEF ClaimsInv, OperatingHolds, DefinitionHolds, Follows, VersionsCount,
              VersionsAreLinear, OfKey
<1>3. ClaimsInv => HistoriesAreLinear
  BY <1>1, <1>2 DEF HistoriesAreLinear
<1>. QED  BY <1>3, ClaimsInvariant, PTL

(***************************************************************************)
(* The observation an as-of reader takes for current is not one that       *)
(* another observation he can see claims to supersede (latest_observation, *)
(* list_current).                                                          *)
(***************************************************************************)
THEOREM CurrentStands == Spec => []CurrentIsNotSuperseded
<1>1. ASSUME ClaimsInv, NEW t \in Times, NEW e \in Edges,
             NEW i \in KnownRows(observations, t),
             LatestObservation(e, t) # 0,
             observations[i].supersedes = LatestObservation(e, t)
      PROVE  FALSE
  <2>. DEFINE l == LatestObservation(e, t)
              n == Len(observations)
  <2>1. RelationshipsTypeOK /\ i \in DOMAIN observations /\ ObservationHolds(i)
    BY <1>1 DEF ClaimsInv, RelationshipsHold, KnownRows
  <2>2. /\ n \in Nat /\ DOMAIN observations = 1 .. n
        /\ \A k \in 1 .. n : observations[k].known \in Nat
    BY <2>1, ObservationsType
  <2>3. /\ l \in SeenOf(e, t) /\ SeenOf(e, t) \in SUBSET (1 .. n)
        /\ \A j \in SeenOf(e, t) \ {l} : Behind(observations, l, j)
    BY <1>1, <2>1, LatestObservationType
  <2>. HIDE DEF l, n
  <2>4. /\ l \in 1 .. (i - 1) /\ observations[l].edge = observations[i].edge
        /\ observations[l].known <= observations[i].known
    BY <1>1, <2>1 DEF l, ObservationHolds
  <2>5. i \in SeenOf(e, t)
    BY <1>1, <2>1, <2>3, <2>4 DEF SeenOf, ObservationsOf
  <2>6. i \in 1 .. n /\ l \in 1 .. n /\ l < i
    BY <2>1, <2>2, <2>3, <2>4
  <2>7. Behind(observations, l, i)
    BY <2>3, <2>5, <2>6
  <2>. QED  BY <2>2, <2>4, <2>6, <2>7 DEF Behind
<1>2. ClaimsInv => CurrentIsNotSuperseded
  BY <1>1 DEF CurrentIsNotSuperseded
<1>. QED  BY <1>2, ClaimsInvariant, PTL

-----------------------------------------------------------------------------
\* What was known by a time

\* Rows that are added later than a time are not seen as of it.
LEMMA SameRowsKnown ==
    ASSUME NEW rows, NEW more, NEW t \in Nat, NEW known \in Nat, t < known,
           \A i \in DOMAIN rows : i \in DOMAIN more /\ more[i] = rows[i],
           \A i \in DOMAIN more \ DOMAIN rows : more[i].known = known
    PROVE  /\ KnownRows(more, t) = KnownRows(rows, t)
           /\ \A i \in KnownRows(rows, t) :
                  i \in DOMAIN rows /\ i \in DOMAIN more /\ more[i] = rows[i]
<1>1. ASSUME NEW i \in KnownRows(more, t) PROVE i \in KnownRows(rows, t)
  <2>1. i \in DOMAIN rows
    BY <1>1 DEF KnownRows
  <2>. QED  BY <1>1, <2>1 DEF KnownRows
<1>. QED  BY <1>1 DEF KnownRows

\* The last of the rows seen does not depend on the others.
LEMMA SameLast ==
    ASSUME NEW n \in Nat, NEW rows, DOMAIN rows = 1 .. n,
           \A i \in 1 .. n : rows[i].known \in Nat,
           NEW S \in SUBSET (1 .. n),
           NEW more, \A i \in S : more[i] = rows[i]
    PROVE  LastOf(more, S) = LastOf(rows, S)
<1>1. CASE S = {}
  BY <1>1 DEF LastOf
<1>2. CASE S # {}
  <2>. DEFINE l == LastOf(rows, S)
              m == LastOf(more, S)
  <2>1. l \in S /\ \A j \in S \ {l} : Behind(rows, l, j)
    BY <1>2, LastOfType
  <2>2. \A i, j \in S : Behind(more, i, j) <=> Behind(rows, i, j)
    BY DEF Behind
  <2>3. m = CHOOSE i \in S : \A j \in S \ {i} : Behind(more, i, j)
    BY <1>2 DEF LastOf
  <2>. HIDE DEF l, m
  <2>4. \E i \in S : \A j \in S \ {i} : Behind(more, i, j)
    BY <2>1, <2>2
  <2>5. m \in S /\ \A j \in S \ {m} : Behind(more, m, j)
    BY <2>3, <2>4, Zenon
  <2>6. m = l
    <3>1. SUFFICES ASSUME m # l PROVE FALSE
      OBVIOUS
    <3>2. Behind(rows, l, m) /\ Behind(rows, m, l)
      BY <2>1, <2>2, <2>5, <3>1
    <3>3. m \in 1 .. n /\ l \in 1 .. n /\ rows[m].known \in Nat /\ rows[l].known \in Nat
      BY <2>1, <2>5
    <3>. QED  BY <3>2, <3>3 DEF Behind
  <2>. QED  BY <2>6 DEF l, m
<1>. QED  BY <1>1, <1>2

LEMMA RelationshipsSettled ==
    ASSUME RelationshipsHold, NEW t \in Nat, NEW known \in Nat, t < known,
           RelationshipsKept(known), RelationshipsHold'
    PROVE  /\ Network(t)' = Network(t)
           /\ RelationshipRecords(t)' = RelationshipRecords(t)
<1>. DEFINE n == Len(observations)
            seen == KnownRows(observations, t)
<1>0. /\ n \in Nat /\ DOMAIN observations = 1 .. n
      /\ \A i \in 1 .. n : observations[i].known \in Nat
  BY ObservationsType DEF RelationshipsHold
<1>1. /\ KnownRows(observations', t) = seen
      /\ \A i \in seen : /\ i \in DOMAIN observations /\ i \in DOMAIN observations'
                          /\ observations'[i] = observations[i]
  BY SameRowsKnown DEF RelationshipsKept
<1>2. ASSUME NEW i \in seen PROVE Cited(i, t)' = Cited(i, t)
  <2>1. i \in DOMAIN observations /\ observations[i].known <= t
    BY <1>2 DEF KnownRows
  <2>2. observations[i].known < known
    BY <1>0, <2>1
  <2>. QED  BY <2>1, <2>2 DEF RelationshipsKept, Cited
<1>. HIDE DEF n, seen
<1>3. RelationshipRecords(t)' = RelationshipRecords(t)
  <2>1. /\ RelationshipRecords(t) = {<<i, observations[i], Cited(i, t)>> : i \in seen}
        /\ RelationshipRecords(t)' = {<<i, observations'[i], Cited(i, t)'>> : i \in seen}
    BY <1>1 DEF RelationshipRecords, seen
  <2>. QED  BY <1>1, <1>2, <2>1
<1>4. ASSUME NEW e PROVE LatestObservation(e, t)' = LatestObservation(e, t)
  <2>. DEFINE S == ObservationsOf(e) \cap seen
  <2>1. (ObservationsOf(e))' \cap seen = S
    BY <1>1 DEF ObservationsOf
  <2>2. /\ LatestObservation(e, t) = LastOf(observations, S)
        /\ LatestObservation(e, t)' = LastOf(observations', S)
    BY <1>1, <2>1 DEF LatestObservation, seen
  <2>3. S \in SUBSET (1 .. n) /\ \A i \in S : observations'[i] = observations[i]
    BY <1>0, <1>1
  <2>. HIDE DEF S
  <2>4. LastOf(observations', S) = LastOf(observations, S)
    BY <1>0, <2>3, SameLast
  <2>. QED  BY <2>2, <2>4
<1>5. ASSUME NEW e PROVE LatestObservation(e, t) \in seen \cup {0}
  BY LatestObservationType DEF RelationshipsHold, SeenOf, seen
\* The edge of a row stands for itself.
<1>6. /\ \A i, e : observations[i].edge = e =>
             (i \in CurrentObservations(t) <=>
                 /\ i \in DOMAIN observations /\ i = LatestObservation(e, t)
                 /\ t \in observations[i].valid)
      /\ \A i, e : observations'[i].edge = e =>
             (i \in CurrentObservations(t)' <=>
                 /\ i \in DOMAIN observations' /\ i = LatestObservation(e, t)'
                 /\ t \in observations'[i].valid)
  BY DEF CurrentObservations, LatestObservation, ObservationsOf
<1>7. ASSUME NEW i, i \in CurrentObservations(t) \/ i \in CurrentObservations(t)'
      PROVE  i \in seen
  <2>1. i # 0
    <3>1. observations' \in Seq(Observation)
      BY DEF RelationshipsHold, RelationshipsTypeOK, Observation
    <3>2. 0 \notin DOMAIN observations' /\ 0 \notin DOMAIN observations
      BY <1>0, <3>1
    <3>. QED  BY <1>7, <3>2 DEF CurrentObservations
  <2>2. \E e : i = LatestObservation(e, t)
    BY <1>4, <1>6, <1>7
  <2>. QED  BY <1>5, <2>1, <2>2
<1>8. CurrentObservations(t)' = CurrentObservations(t)
  <2>1. ASSUME NEW i \in seen
        PROVE  i \in CurrentObservations(t)' <=> i \in CurrentObservations(t)
    <3>1. PICK e : observations[i].edge = e
      OBVIOUS
    <3>. QED  BY <1>1, <1>4, <1>6, <3>1
  <2>. QED  BY <1>7, <2>1
<1>9. Network(t)' = Network(t)
  <2>. DEFINE shown == {j \in CurrentObservations(t) : Cited(j, t) # {}}
  <2>1. shown \subseteq seen
    BY <1>7
  <2>2. {j \in CurrentObservations(t)' : Cited(j, t)' # {}} = shown
    BY <1>2, <1>7, <1>8
  <2>3. /\ Network(t) = {<<i, observations[i], Cited(i, t)>> : i \in shown}
        /\ Network(t)' = {<<i, observations'[i], Cited(i, t)'>> : i \in shown}
    BY <2>2 DEF Network
  <2>. HIDE DEF shown
  <2>. QED  BY <1>1, <1>2, <2>1, <2>3
<1>. QED  BY <1>3, <1>9

LEMMA GuidanceSettled ==
    ASSUME GuidanceHolds, NEW t \in Nat, NEW known \in Nat, t < known, GuidanceKept(known)
    PROVE  GuidanceRecords(t)' = GuidanceRecords(t)
<1>. DEFINE n == Len(evaluations)
            seen == KnownRows(statements, t)
            judged == KnownRows(evaluations, t)
<1>0. /\ \A i \in DOMAIN statements : statements[i].known \in Nat
      /\ n \in Nat /\ DOMAIN evaluations = 1 .. n
      /\ \A i \in 1 .. n : evaluations[i].known \in Nat
  BY StatementsType DEF GuidanceHolds
<1>1. /\ KnownRows(statements', t) = seen
      /\ \A i \in seen : statements'[i] = statements[i]
  BY SameRowsKnown DEF GuidanceKept
<1>2. /\ KnownRows(evaluations', t) = judged
      /\ \A i \in judged : evaluations'[i] = evaluations[i] /\ i \in DOMAIN evaluations
  BY SameRowsKnown DEF GuidanceKept
<1>3. ASSUME NEW i \in seen PROVE Quoted(i, t)' = Quoted(i, t)
  <2>1. i \in DOMAIN statements /\ statements[i].known <= t
    BY <1>3 DEF KnownRows
  <2>2. statements[i].known < known
    BY <1>0, <2>1
  <2>. QED  BY <2>1, <2>2 DEF GuidanceKept, Quoted
<1>. HIDE DEF n, seen, judged
<1>4. ASSUME NEW i PROVE EvaluationsBy(i, t)' = EvaluationsBy(i, t)
  BY <1>2 DEF EvaluationsBy, judged
<1>5. ASSUME NEW i PROVE StatusAt(i, t)' = StatusAt(i, t)
  <2>. DEFINE S == EvaluationsBy(i, t)
  <2>1. S \in SUBSET (1 .. n) /\ \A e \in S : evaluations'[e] = evaluations[e]
    BY <1>0, <1>2 DEF EvaluationsBy, judged
  <2>2. LastOf(evaluations, S) \in S \/ S = {}
    BY <1>0, <2>1, LastOfType
  <2>3. LastOf(evaluations', S) = LastOf(evaluations, S)
    BY <1>0, <2>1, SameLast
  <2>4. /\ StatusAt(i, t) = IF S = {} THEN "open" ELSE evaluations[LastOf(evaluations, S)].status
        /\ StatusAt(i, t)' = IF S = {} THEN "open"
                             ELSE evaluations'[LastOf(evaluations', S)].status
    BY <1>4 DEF StatusAt
  <2>. HIDE DEF S
  <2>. QED  BY <2>1, <2>2, <2>3, <2>4
<1>6. ASSUME NEW i \in seen PROVE DirectionAt(i, t)' = DirectionAt(i, t)
  <2>. DEFINE prior == statements[i].supersedes
  <2>1. statements'[i] = statements[i]
    BY <1>1, <1>6
  <2>2. CASE prior \notin seen
    BY <1>1, <2>1, <2>2 DEF DirectionAt, seen
  <2>3. CASE prior \in seen
    <3>1. statements'[prior] = statements[prior]
      BY <1>1, <2>3
    <3>2. \A s \in {i, prior} : Representative(s)' = Representative(s)
      BY <2>1, <3>1 DEF Representative
    <3>3. {Bounds[statements'[s].text].kind : s \in {i, prior}}
              = {Bounds[statements[s].text].kind : s \in {i, prior}}
      BY <2>1, <3>1
    <3>. QED  BY <1>1, <2>1, <2>3, <3>1, <3>3 DEF DirectionAt, Representative, seen
  <2>. QED  BY <2>2, <2>3
<1>7. QED
  <2>. DEFINE shown == {i \in seen : Quoted(i, t) # {}}
  <2>1. {i \in seen : Quoted(i, t)' # {}} = shown
    BY <1>3
  <2>2. /\ GuidanceRecords(t) =
              {<<s, statements[s], DirectionAt(s, t), StatusAt(s, t), EvaluationsBy(s, t),
                 Quoted(s, t)>> : s \in shown}
        /\ GuidanceRecords(t)' =
              {<<s, statements'[s], DirectionAt(s, t)', StatusAt(s, t)', EvaluationsBy(s, t)',
                 Quoted(s, t)'>> : s \in shown}
    BY <1>1, <2>1 DEF GuidanceRecords, seen
  <2>3. ASSUME NEW s \in shown
        PROVE  /\ statements'[s] = statements[s] /\ DirectionAt(s, t)' = DirectionAt(s, t)
               /\ StatusAt(s, t)' = StatusAt(s, t) /\ EvaluationsBy(s, t)' = EvaluationsBy(s, t)
               /\ Quoted(s, t)' = Quoted(s, t)
    BY <1>1, <1>3, <1>4, <1>5, <1>6
  <2>. HIDE DEF shown
  <2>. QED  BY <2>2, <2>3

LEMMA OperatingSettled ==
    ASSUME OperatingHolds, NEW t \in Nat, NEW known \in Nat, t < known, OperatingKept(known)
    PROVE  OperatingSeries(t)' = OperatingSeries(t)
<1>. DEFINE n == Len(figures)
            versions == KnownRows(definitions, t)
            seen == KnownRows(figures, t)
<1>0. /\ n \in Nat /\ DOMAIN figures = 1 .. n
      /\ \A i \in 1 .. n : figures[i].known \in Nat
      /\ \A d \in Documents : KnownAt[d] \in Nat
  BY OperatingType, DocumentAssumption DEF OperatingHolds
<1>1. /\ KnownRows(definitions', t) = versions
      /\ \A i \in versions : definitions'[i] = definitions[i] /\ i \in DOMAIN definitions
  BY SameRowsKnown DEF OperatingKept
<1>2. /\ KnownRows(figures', t) = seen
      /\ \A i \in seen : figures'[i] = figures[i] /\ i \in DOMAIN figures
  BY SameRowsKnown DEF OperatingKept
<1>3. ASSUME NEW i \in versions PROVE Defined(i, t)' = Defined(i, t)
  <2>1. \A d \in Documents : KnownAt[d] <= t => KnownAt[d] < known
    BY <1>0
  <2>. QED  BY <1>1, <2>1 DEF OperatingKept, Defined
<1>4. ASSUME NEW i \in seen PROVE Reported(i, t)' = Reported(i, t)
  <2>1. \A d \in Documents : KnownAt[d] <= t => KnownAt[d] < known
    BY <1>0
  <2>. QED  BY <1>2, <2>1 DEF OperatingKept, Reported
<1>. HIDE DEF n, versions, seen
<1>5. ASSUME NEW def
      PROVE  /\ FiguresBy(def, t)' = FiguresBy(def, t) /\ FiguresBy(def, t) \subseteq seen
             /\ \A i \in FiguresBy(def, t) : figures[i].definition = def
  BY <1>2 DEF FiguresBy, seen
<1>6. ASSUME NEW def
      PROVE  /\ Points(def, t)' = Points(def, t) /\ Points(def, t) \subseteq seen
             /\ \A i \in Points(def, t) : figures[i].definition = def
  <2>. DEFINE F == FiguresBy(def, t)
              Beside(i) == {j \in F : figures[j].period = figures[i].period}
  <2>1. F \subseteq seen /\ \A i \in F : figures'[i] = figures[i] /\ i \in 1 .. n
    BY <1>0, <1>2, <1>5
  <2>2. /\ Points(def, t) = {i \in F : i = LastOf(figures, Beside(i))}
        /\ Points(def, t)' =
              {i \in F : i = LastOf(figures', {j \in F : figures'[j].period = figures'[i].period})}
    BY <1>5 DEF Points
  <2>3. ASSUME NEW i \in F
        PROVE  LastOf(figures', {j \in F : figures'[j].period = figures'[i].period})
                   = LastOf(figures, Beside(i))
    <3>1. {j \in F : figures'[j].period = figures'[i].period} = Beside(i)
      BY <2>1, <2>3
    <3>2. Beside(i) \in SUBSET (1 .. n) /\ \A j \in Beside(i) : figures'[j] = figures[j]
      BY <2>1
    <3>3. LastOf(figures', Beside(i)) = LastOf(figures, Beside(i))
      BY <1>0, <3>2, SameLast
    <3>. QED  BY <3>1, <3>3
  <2>4. Points(def, t)' = Points(def, t)
    BY <2>2, <2>3
  <2>. QED  BY <1>5, <2>1, <2>2, <2>4
<1>7. ASSUME NEW def, NEW i \in Points(def, t) PROVE GrowthBase(i, t)' = GrowthBase(i, t)
  <2>. DEFINE P == Points(def, t)
              earlier == {j \in P : figures[j].period < figures[i].period}
              last == {k \in earlier : \A l \in earlier : figures[l].period <= figures[k].period}
  <2>1. /\ \A j \in P : figures'[j] = figures[j] /\ figures[j].definition = def
        /\ figures'[i] = figures[i] /\ Points(def, t)' = P
    BY <1>2, <1>6, <1>7
  <2>2. GrowthBase(i, t) = {figures[j].value : j \in last}
    BY <2>1, <1>7 DEF GrowthBase
  <2>3. {j \in P : figures'[j].period < figures'[i].period} = earlier
    BY <2>1
  <2>4. {k \in earlier : \A l \in earlier : figures'[l].period <= figures'[k].period} = last
    BY <2>1
  <2>5. GrowthBase(i, t)' = {figures'[j].value : j \in last}
    <3>1. figures'[i].definition = def
      BY <2>1, <1>7
    <3>. QED  BY <2>1, <2>3, <2>4, <3>1 DEF GrowthBase
  <2>. QED  BY <2>1, <2>2, <2>5
<1>8. ASSUME NEW def \in versions, NEW i \in Points(def, t)
      PROVE  MixBase(i, t)' = MixBase(i, t)
  <2>. DEFINE all == UNION {Points(d, t) : d \in versions}
              Base(k) == /\ figures[k].period = figures[i].period
                         /\ definitions[figures[k].definition].basis
                               = definitions[figures[i].definition].basis
              BaseNow(k) == /\ figures'[k].period = figures'[i].period
                            /\ definitions'[figures'[k].definition].basis
                                  = definitions'[figures'[i].definition].basis
              beside == {k \in all : Base(k)}
  <2>1. UNION {Points(d, t)' : d \in versions} = all
    BY <1>6
  <2>2. ASSUME NEW k \in all
        PROVE  /\ figures'[k] = figures[k]
               /\ definitions'[figures[k].definition] = definitions[figures[k].definition]
    <3>1. PICK d \in versions : k \in Points(d, t)
      OBVIOUS
    <3>2. k \in seen /\ figures[k].definition = d
      BY <1>6, <3>1
    <3>. QED  BY <1>1, <1>2, <3>2
  <2>3. i \in all
    BY <1>8
  <2>4. \A k \in all : BaseNow(k) <=> Base(k)
    BY <2>2, <2>3
  <2>5. /\ MixBase(i, t) = {<<j, figures[j].value>> : j \in beside}
        /\ MixBase(i, t)' = {<<j, figures'[j].value>> : j \in {k \in all : BaseNow(k)}}
    BY <1>1, <2>1 DEF MixBase, versions
  <2>. HIDE DEF all, Base, BaseNow
  <2>6. {k \in all : BaseNow(k)} = beside
    BY <2>4
  <2>7. {<<j, figures'[j].value>> : j \in beside} = {<<j, figures[j].value>> : j \in beside}
    BY <2>2
  <2>. QED  BY <2>5, <2>6, <2>7
<1>9. ASSUME NEW def \in versions
      PROVE  {<<i, figures'[i], GrowthBase(i, t)', MixBase(i, t)', Reported(i, t)'>> :
                  i \in Points(def, t)}
                 = {<<i, figures[i], GrowthBase(i, t), MixBase(i, t), Reported(i, t)>> :
                        i \in Points(def, t)}
  <2>1. ASSUME NEW i \in Points(def, t)
        PROVE  /\ figures'[i] = figures[i] /\ GrowthBase(i, t)' = GrowthBase(i, t)
               /\ MixBase(i, t)' = MixBase(i, t) /\ Reported(i, t)' = Reported(i, t)
    <3>1. i \in seen
      BY <1>6
    <3>. QED  BY <1>2, <1>4, <1>7, <1>8, <3>1
  <2>. QED  BY <2>1
<1>10. QED
  <2>. DEFINE Now(def) ==
                  {<<i, figures'[i], GrowthBase(i, t)', MixBase(i, t)', Reported(i, t)'>> :
                      i \in Points(def, t)}
              Before(def) ==
                  {<<i, figures[i], GrowthBase(i, t), MixBase(i, t), Reported(i, t)>> :
                      i \in Points(def, t)}
  <2>1. /\ OperatingSeries(t) =
              {<<def, definitions[def], Defined(def, t), Before(def)>> : def \in versions}
        /\ OperatingSeries(t)' =
              {<<def, definitions'[def], Defined(def, t)', Now(def)>> : def \in versions}
    BY <1>1, <1>6 DEF OperatingSeries, versions
  <2>2. ASSUME NEW def \in versions
        PROVE  /\ definitions'[def] = definitions[def] /\ Defined(def, t)' = Defined(def, t)
               /\ Now(def) = Before(def)
    BY <1>1, <1>3, <1>9
  <2>. HIDE DEF Now, Before
  <2>. QED  BY <2>1, <2>2

(***************************************************************************)
(* What a reader sees as of a time stays as it was when something is       *)
(* written that became known later, also when it is not written in the     *)
(* order it became known (the known_at filters of the reads).              *)
(***************************************************************************)
THEOREM SettledPast == Spec => PastIsSettled
<1>1. ASSUME ClaimsInv, ClaimsInv', [Next]_vars
      PROVE  [\A t \in Times : t < dated' => SeenAsOf(t)' = SeenAsOf(t)]_vars
  <2>1. HistoriesKept(dated') /\ dated' \in Nat
    BY <1>1, StepHolds, DocumentAssumption DEF ClaimsInv, TypeOK, Undated
  <2>2. ASSUME NEW t \in Times, t < dated' PROVE SeenAsOf(t)' = SeenAsOf(t)
    <3>1. t \in Nat
      BY DocumentAssumption
    <3>2. Network(t)' = Network(t) /\ RelationshipRecords(t)' = RelationshipRecords(t)
      BY <1>1, <2>1, <2>2, <3>1, RelationshipsSettled DEF ClaimsInv, HistoriesKept
    <3>3. GuidanceRecords(t)' = GuidanceRecords(t)
      BY <1>1, <2>1, <2>2, <3>1, GuidanceSettled DEF ClaimsInv, HistoriesKept
    <3>4. OperatingSeries(t)' = OperatingSeries(t)
      BY <1>1, <2>1, <2>2, <3>1, OperatingSettled DEF ClaimsInv, HistoriesKept
    <3>. QED  BY <3>2, <3>3, <3>4 DEF SeenAsOf
  <2>. QED  BY <2>2
<1>. QED  BY <1>1, ClaimsInvariant, PTL DEF Spec, PastIsSettled

=============================================================================
