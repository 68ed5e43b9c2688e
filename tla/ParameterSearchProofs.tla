------------------------- MODULE ParameterSearchProofs -------------------------
(***************************************************************************)
(* Theorems about BacktestEngine, for every history, strategy and start,   *)
(* and about ParameterSearch, for every number of searches, set of         *)
(* histories, grid, design of the validation and number of crashes.        *)
(***************************************************************************)
EXTENDS ParameterSearch, FiniteSums, SequenceTheorems, TLAPS

-----------------------------------------------------------------------------
\* Powers of four

LEMMA FoursFacts ==
    ASSUME NEW n \in Nat
    PROVE  Fours(n + 1) = 4 * Fours(n) /\ Fours(n) \in Nat \ {0} /\ Fours(0) = 1
<1>. DEFINE IsPower(f, m) == f = [k \in 0 .. m |-> IF k = 0 THEN 1 ELSE 4 * f[k - 1]]
<1>1. ASSUME NEW m \in Nat
      PROVE  \E f : IsPower(f, m) /\ \A k \in 0 .. m : f[k] \in Nat \ {0}
  <2>. DEFINE F == {i \in Nat : \E f : IsPower(f, i) /\ \A k \in 0 .. i : f[k] \in Nat \ {0}}
  <2>1. 0 \in F
    <3>. DEFINE f == [k \in 0 .. 0 |-> 1]
    <3>1. f = [k \in 0 .. 0 |-> IF k = 0 THEN 1 ELSE 4 * f[k - 1]]
      OBVIOUS
    <3>2. IsPower(f, 0) /\ \A k \in 0 .. 0 : f[k] \in Nat \ {0}
      BY <3>1
    <3>. HIDE DEF f, IsPower
    <3>. QED  BY <3>2
  <2>2. ASSUME NEW i \in Nat, i \in F PROVE i + 1 \in F
    <3>1. PICK f : IsPower(f, i) /\ \A k \in 0 .. i : f[k] \in Nat \ {0}
      BY <2>2
    <3>. DEFINE g == [k \in 0 .. i + 1 |-> IF k = 0 THEN 1 ELSE 4 * f[k - 1]]
    <3>2. \A k \in 0 .. i : g[k] = f[k]
      BY <3>1
    <3>3. ASSUME NEW k \in 0 .. i + 1 PROVE g[k] \in Nat \ {0} /\ (k # 0 => g[k - 1] = f[k - 1])
      <4>1. CASE k = 0
        BY <4>1
      <4>2. CASE k # 0
        <5>1. k - 1 \in 0 .. i
          BY <4>2
        <5>. DEFINE x == f[k - 1]
        <5>2. x \in Nat \ {0} /\ g[k] = 4 * x
          BY <3>1, <4>2, <5>1
        <5>. HIDE DEF x, g
        <5>3. g[k] \in Nat \ {0}
          BY <5>2
        <5>4. g[k - 1] = f[k - 1]
          BY <3>2, <5>1
        <5>. QED  BY <5>3, <5>4
      <4>. QED  BY <4>1, <4>2
    <3>4. g = [k \in 0 .. i + 1 |-> IF k = 0 THEN 1 ELSE 4 * g[k - 1]]
      BY <3>3
    <3>5. IsPower(g, i + 1)
      <4>. HIDE DEF g
      <4>. QED  BY <3>4
    <3>. HIDE DEF g, IsPower
    <3>. QED  BY <3>3, <3>5
  <2>. HIDE DEF F
  <2>3. Nat \subseteq F
    BY <2>1, <2>2, NatInductionOnSet
  <2>. QED  BY <2>3 DEF F
<1>. DEFINE power(m) == CHOOSE f : IsPower(f, m)
<1>2. ASSUME NEW m \in Nat PROVE IsPower(power(m), m) /\ Fours(m) = power(m)[m]
  <2>1. IsPower(power(m), m)
    <3>. HIDE DEF IsPower
    <3>. QED  BY <1>1
  <2>. QED  BY <2>1 DEF Fours
<1>3. ASSUME NEW m \in Nat, NEW i \in Nat, m <= i, NEW f, NEW g, IsPower(f, m), IsPower(g, i)
      PROVE  \A k \in 0 .. m : f[k] = g[k] /\ f[k] \in Nat \ {0}
  <2>. DEFINE F == {k \in Nat : k \in 0 .. m => f[k] = g[k] /\ f[k] \in Nat \ {0}}
  <2>1. 0 \in F
    BY <1>3
  <2>2. ASSUME NEW k \in Nat, k \in F PROVE k + 1 \in F
    <3>. SUFFICES ASSUME k + 1 \in 0 .. m PROVE f[k + 1] = g[k + 1] /\ f[k + 1] \in Nat \ {0}
      OBVIOUS
    <3>1. k \in 0 .. m /\ k + 1 \in 0 .. i /\ k + 1 # 0 /\ k + 1 - 1 = k
      BY <1>3
    <3>. DEFINE x == k + 1
    <3>2. x \in 0 .. m /\ x \in 0 .. i /\ x # 0 /\ x - 1 = k
      BY <3>1
    <3>. HIDE DEF x
    <3>3. f[x] = 4 * f[k] /\ g[x] = 4 * g[k]
      BY <1>3, <3>2
    <3>4. f[k] = g[k] /\ f[k] \in Nat \ {0}
      BY <2>2, <3>1
    <3>. HIDE DEF IsPower
    <3>5. f[x] = g[x] /\ f[x] \in Nat \ {0}
      BY <3>3, <3>4
    <3>. QED  BY <3>5 DEF x
  <2>. HIDE DEF F
  <2>3. Nat \subseteq F
    BY <2>1, <2>2, NatInductionOnSet
  <2>. QED  BY <2>3 DEF F
<1>4. /\ IsPower(power(n), n) /\ IsPower(power(n + 1), n + 1) /\ IsPower(power(0), 0)
      /\ Fours(n) = power(n)[n] /\ Fours(n + 1) = power(n + 1)[n + 1] /\ Fours(0) = power(0)[0]
  <2>. HIDE DEF IsPower, power
  <2>. QED  BY <1>2
<1>5. power(n)[n] = power(n + 1)[n] /\ power(n)[n] \in Nat \ {0}
  <2>. HIDE DEF IsPower, power
  <2>. QED  BY <1>3, <1>4
<1>. HIDE DEF power
<1>6. power(n + 1)[n + 1] = 4 * power(n + 1)[n]
  BY <1>4
<1>7. power(0)[0] = 1
  BY <1>4
<1>. QED  BY <1>4, <1>5, <1>6, <1>7

LEMMA FoursMultiply ==
    ASSUME NEW m \in Nat, NEW n \in Nat
    PROVE  Fours(m + n) = Fours(m) * Fours(n)
<1>. DEFINE F == {k \in Nat : Fours(m + k) = Fours(m) * Fours(k)}
<1>1. 0 \in F
  BY FoursFacts
<1>2. ASSUME NEW k \in Nat, k \in F PROVE k + 1 \in F
  <2>. DEFINE a == Fours(m)
              b == Fours(k)
  <2>1. Fours(m + k) = a * b /\ a \in Nat /\ b \in Nat
    BY <1>2, FoursFacts
  <2>2. Fours(k + 1) = 4 * b
    BY FoursFacts
  <2>3. Fours((m + k) + 1) = 4 * Fours(m + k)
    BY FoursFacts
  <2>4. m + (k + 1) = (m + k) + 1
    OBVIOUS
  <2>5. Fours(m + (k + 1)) = 4 * (a * b)
    BY <2>1, <2>3, <2>4
  <2>. HIDE DEF a, b
  <2>6. 4 * (a * b) = a * (4 * b)
    BY <2>1
  <2>. QED  BY <2>2, <2>5, <2>6 DEF a
<1>. HIDE DEF F
<1>3. Nat \subseteq F
  BY <1>1, <1>2, NatInductionOnSet
<1>. QED  BY <1>3 DEF F

LEMMA TripleIsFinite ==
    ASSUME NEW a, NEW b, NEW c
    PROVE  IsFiniteSet({a, b, c})
<1>1. IsFiniteSet({a}) /\ IsFiniteSet({b}) /\ IsFiniteSet({c})
  BY FS_Singleton
<1>2. {a, b, c} = ({a} \cup {b}) \cup {c}
  OBVIOUS
<1>3. IsFiniteSet({a} \cup {b})
  BY <1>1, FS_Union
<1>4. IsFiniteSet(({a} \cup {b}) \cup {c})
  BY <1>1, <1>3, FS_Union
<1>. QED  BY <1>2, <1>4

\* What the first element has and each passes on to the next, all have.
LEMMA ElementsStayIn ==
    ASSUME NEW n \in Nat, NEW g, NEW T, n >= 1 => g[1] \in T,
           \A k \in 1 .. n - 1 : g[k] \in T => g[k + 1] \in T
    PROVE  \A k \in 1 .. n : g[k] \in T
<1>. DEFINE F == {k \in Nat : k + 1 \in 1 .. n => g[k + 1] \in T}
<1>1. 0 \in F
  OBVIOUS
<1>2. ASSUME NEW k \in Nat, k \in F PROVE k + 1 \in F
  <2>. SUFFICES ASSUME k + 1 + 1 \in 1 .. n PROVE g[k + 1 + 1] \in T
    OBVIOUS
  <2>1. k + 1 \in 1 .. n /\ k + 1 \in 1 .. n - 1
    OBVIOUS
  <2>. QED  BY <1>2, <2>1
<1>. HIDE DEF F
<1>3. Nat \subseteq F
  BY <1>1, <1>2, NatInductionOnSet
<1>4. ASSUME NEW k \in 1 .. n PROVE g[k] \in T
  <2>1. k - 1 \in Nat /\ k - 1 + 1 = k
    OBVIOUS
  <2>2. k - 1 \in F
    BY <1>3, <2>1
  <2>. QED  BY <2>1, <2>2 DEF F
<1>. QED  BY <1>4

-----------------------------------------------------------------------------
\* What a strategy holds

Held(s) == [position : {0, s.side}, pending : BOOLEAN, entry : Prices \cup {None},
            best : Prices \cup {None}, atr : Int \cup {None}, days : Int]

LEMMA SessionType ==
    ASSUME NEW h \in Seq(Session), NEW k \in 1 .. Len(h)
    PROVE  /\ h[k].open \in Prices /\ h[k].close \in Prices
           /\ h[k].open \in Nat \ {0} /\ h[k].close \in Nat \ {0}
<1>1. h[k] \in Session
  OBVIOUS
<1>. QED  BY <1>1, EngineAssumption DEF Session

LEMMA TrueRangeType ==
    ASSUME NEW h \in Seq(Session), NEW k \in 1 .. Len(h)
    PROVE  TrueRange(h, k) \in Int
<1>. DEFINE a == h[k].open
            b == h[k].close
            c == IF k = 1 THEN b ELSE h[k - 1].close
            seen == {a, b, c}
<1>1. a \in Int /\ b \in Int /\ c \in Int
  <2>1. k # 1 => k - 1 \in 1 .. Len(h)
    OBVIOUS
  <2>. QED  BY <2>1, SessionType
<1>2. TrueRange(h, k) = Max(seen) - Min(seen)
  <2>1. {a, b} \cup (IF k = 1 THEN {} ELSE {h[k - 1].close}) = seen
    OBVIOUS
  <2>. QED  BY <2>1 DEF TrueRange
<1>. HIDE DEF a, b, c
<1>3. seen \in SUBSET Int /\ seen # {} /\ IsFiniteSet(seen)
  BY <1>1, TripleIsFinite
<1>. HIDE DEF seen
<1>4. Max(seen) \in Int /\ Min(seen) \in Int
  BY <1>3, ExtremesOf
<1>. QED  BY <1>2, <1>4

LEMMA FlatType ==
    ASSUME NEW s \in Strategy
    PROVE  Flat \in Held(s)
  BY DEF Flat, Held

LEMMA DecidedType ==
    ASSUME NEW h \in Seq(Session), NEW s \in Strategy, NEW k \in 1 .. Len(h), NEW mind \in Held(s)
    PROVE  Decided(h, s, mind, k) \in Held(s)
<1>1. h[k].open \in Prices /\ h[k].close \in Prices
  BY SessionType
<1>2. Entering(h, s, k) \in Held(s)
  <2>. DEFINE range == TrueRange(h, k)
  <2>1. range \in Int
    BY TrueRangeType
  <2>2. Entering(h, s, k) = [position |-> s.side, pending |-> TRUE, entry |-> None,
                             best |-> None, atr |-> range, days |-> 0]
    BY DEF Entering
  <2>. HIDE DEF range
  <2>. QED  BY <2>1, <2>2 DEF Held
<1>3. Filled(mind, h[k]) \in Held(s)
  BY <1>1 DEF Filled, Held
<1>4. Carried(s, mind, h[k]) \in Held(s)
  <2>. DEFINE held == Filled(mind, h[k])
              best == Farther(s.side, held.best, h[k].close)
  <2>1. best \in Prices \cup {None}
    BY <1>1, <1>3 DEF Farther, Held
  <2>2. Carried(s, mind, h[k]) = [held EXCEPT !.days = held.days + 1, !.best = best]
    BY DEF Carried
  <2>3. held \in Held(s)
    BY <1>3
  <2>. HIDE DEF held, best
  <2>4. held.days + 1 \in Int
    BY <2>3 DEF Held
  <2>. DEFINE days == held.days + 1
  <2>5. [held EXCEPT !.days = days] \in Held(s)
    <3>. HIDE DEF days
    <3>. QED  BY <2>3, <2>4 DEF days, Held
  <2>6. [held EXCEPT !.days = days, !.best = best] \in Held(s)
    <3>. DEFINE other == [held EXCEPT !.days = days]
    <3>1. [held EXCEPT !.days = days, !.best = best] = [other EXCEPT !.best = best]
      OBVIOUS
    <3>2. other \in Held(s)
      BY <2>5
    <3>. HIDE DEF other
    <3>3. [other EXCEPT !.best = best] \in Held(s)
      BY <2>1, <3>2 DEF Held
    <3>. QED  BY <3>1, <3>3
  <2>. QED  BY <2>2, <2>6
<1>. QED  BY <1>2, <1>4, FlatType DEF Decided

\* What is held after k - 1 sessions
IsMind(m, h, s) ==
    m = [k \in 1 .. Len(h) + 1 |-> IF k = 1 THEN Flat ELSE Decided(h, s, m[k - 1], k - 1)]

LEMMA MindIterates ==
    ASSUME NEW h \in Seq(Session), NEW s \in Strategy
    PROVE  \E m : IsMind(m, h, s) /\ Mind(h, s) = Tail(m)
<1>. DEFINE n == Len(h) + 1
            D == (1 .. n) \X Held(s)
            next == [q \in D |-> IF q[1] = 1 THEN Flat ELSE Decided(h, s, q[2], q[1] - 1)]
<1>0. n \in Nat /\ Len(h) \in Nat
  OBVIOUS
<1>1. PICK g : IsIteration(g, n, Flat, next)
  BY <1>0, IterationExists
<1>2. g = [k \in 1 .. n |-> IF k = 1 THEN Flat ELSE next[<<k, g[k - 1]>>]]
  BY <1>1 DEF IsIteration
<1>3. \A k \in 1 .. n : g[k] \in Held(s)
  <2>1. 1 \in 1 .. n /\ g[1] = Flat
    BY <1>0, <1>2
  <2>2. ASSUME NEW k \in 1 .. n - 1, g[k] \in Held(s)
        PROVE  g[k + 1] \in Held(s)
    <3>. DEFINE i == k + 1
    <3>1. i \in 1 .. n /\ i # 1 /\ i - 1 = k /\ k \in 1 .. Len(h)
      BY <1>0
    <3>. HIDE DEF i
    <3>2. g[i] = next[<<i, g[k]>>]
      BY <1>2, <3>1
    <3>3. next[<<i, g[k]>>] = Decided(h, s, g[k], k)
      BY <2>2, <3>1
    <3>. HIDE DEF next
    <3>4. g[i] \in Held(s)
      BY <2>2, <3>1, <3>2, <3>3, DecidedType
    <3>. QED  BY <3>4 DEF i
  <2>. HIDE DEF next, n
  <2>. QED  BY <1>0, <2>1, <2>2, FlatType, ElementsStayIn
<1>4. ASSUME NEW k \in 1 .. n, k # 1
      PROVE  next[<<k, g[k - 1]>>] = Decided(h, s, g[k - 1], k - 1)
  <2>1. k - 1 \in 1 .. n
    BY <1>4
  <2>2. g[k - 1] \in Held(s)
    BY <1>3, <2>1
  <2>. QED  BY <1>4, <2>2
<1>5. IsMind(g, h, s)
  <2>. HIDE DEF next
  <2>1. \A k \in 1 .. n : (IF k = 1 THEN Flat ELSE next[<<k, g[k - 1]>>])
                          = IF k = 1 THEN Flat ELSE Decided(h, s, g[k - 1], k - 1)
    BY <1>4
  <2>2. g = [k \in 1 .. n |-> IF k = 1 THEN Flat ELSE Decided(h, s, g[k - 1], k - 1)]
    BY <1>2, <2>1
  <2>. QED  BY <2>2 DEF IsMind
<1>. DEFINE m == CHOOSE m : IsMind(m, h, s)
<1>6. Mind(h, s) = Tail(m)
  BY DEF Mind, IsMind
<1>7. IsMind(m, h, s)
  BY <1>5
<1>. HIDE DEF m, n, next
<1>. QED  BY <1>6, <1>7

LEMMA MindType ==
    ASSUME NEW h \in Seq(Session), NEW s \in Strategy, NEW m, IsMind(m, h, s)
    PROVE  /\ m[1] = Flat
           /\ \A k \in 1 .. Len(h) + 1 : m[k] \in Held(s)
           /\ \A k \in 1 .. Len(h) : m[k + 1] = Decided(h, s, m[k], k)
           /\ m \in Seq(Held(s)) /\ Len(m) = Len(h) + 1
<1>. DEFINE n == Len(h) + 1
<1>1. Len(h) \in Nat /\ n \in Nat /\ 1 \in 1 .. n
  OBVIOUS
<1>2. m = [k \in 1 .. n |-> IF k = 1 THEN Flat ELSE Decided(h, s, m[k - 1], k - 1)]
  BY DEF IsMind
<1>3. m[1] = Flat
  BY <1>1, <1>2
<1>4. ASSUME NEW k \in 1 .. Len(h)
      PROVE  m[k + 1] = Decided(h, s, m[k], k)
  <2>. DEFINE i == k + 1
  <2>1. i \in 1 .. n /\ i # 1 /\ i - 1 = k
    BY <1>1
  <2>. HIDE DEF i
  <2>. QED  BY <1>2, <2>1 DEF i
<1>5. \A k \in 1 .. n : m[k] \in Held(s)
  <2>1. ASSUME NEW k \in 1 .. n - 1, m[k] \in Held(s)
        PROVE  m[k + 1] \in Held(s)
    <3>1. k \in 1 .. Len(h)
      BY <1>1
    <3>. QED  BY <1>4, <2>1, <3>1, DecidedType
  <2>. HIDE DEF n
  <2>. QED  BY <1>1, <1>3, <2>1, FlatType, ElementsStayIn
<1>6. m \in Seq(Held(s)) /\ Len(m) = n
  <2>. DEFINE f == [k \in 1 .. n |-> m[k]]
  <2>1. m = f
    BY <1>2
  <2>2. f \in [1 .. n -> Held(s)]
    BY <1>5
  <2>. HIDE DEF f, n
  <2>3. f \in Seq(Held(s)) /\ Len(f) = n
    BY <1>1, <2>2
  <2>. QED  BY <2>1, <2>3
<1>. QED  BY <1>3, <1>4, <1>5, <1>6

\* g is the history h up to row n, but for the close of that row.
Begins(g, h, n) ==
    /\ g \in Seq(Session) /\ h \in Seq(Session)
    /\ Len(g) = n /\ n \in Nat \ {0} /\ n <= Len(h)
    /\ \A k \in 1 .. n - 1 : g[k] = h[k]
    /\ g[n].open = h[n].open

LEMMA EndingBegins ==
    ASSUME NEW h \in Seq(Session), NEW n \in 1 .. Len(h), NEW p \in Prices
    PROVE  Begins(EndingWith(h, n, p), h, n)
<1>. DEFINE f == SubSeq(h, 1, n)
            g == EndingWith(h, n, p)
<1>1. n \in Nat \ {0} /\ n <= Len(h) /\ Len(h) \in Nat
  OBVIOUS
<1>2. f \in Seq(Session) /\ Len(f) = n /\ \A k \in 1 .. n : f[k] = h[k]
  BY <1>1
<1>3. g = [f EXCEPT ![n].close = p]
  BY DEF EndingWith
<1>. HIDE DEF f, g
<1>4. f[n] \in Session
  BY <1>1, <1>2
<1>. DEFINE last == [f[n] EXCEPT !.close = p]
<1>5. last \in Session /\ last.open = f[n].open
  BY <1>4 DEF Session
<1>6. g = [f EXCEPT ![n] = last]
  BY <1>3
<1>. HIDE DEF last
<1>7. g \in Seq(Session) /\ Len(g) = n
  BY <1>1, <1>2, <1>5, <1>6
<1>8. \A k \in 1 .. n - 1 : g[k] = h[k]
  BY <1>1, <1>2, <1>6
<1>9. g[n] = last
  BY <1>1, <1>2, <1>6
<1>10. g[n].open = h[n].open
  BY <1>1, <1>2, <1>5, <1>9
<1>. QED  BY <1>1, <1>7, <1>8, <1>10 DEF Begins, g

LEMMA DecidedAgree ==
    ASSUME NEW g, NEW h, NEW n, Begins(g, h, n), NEW s, NEW mind, NEW k \in 1 .. n - 1
    PROVE  Decided(g, s, mind, k) = Decided(h, s, mind, k)
<1>1. g[k] = h[k] /\ (k # 1 => g[k - 1] = h[k - 1])
  BY DEF Begins
<1>2. TrueRange(g, k) = TrueRange(h, k)
  BY <1>1 DEF TrueRange
<1>3. Entering(g, s, k) = Entering(h, s, k)
  BY <1>2 DEF Entering
<1>. QED  BY <1>1, <1>3 DEF Decided

LEMMA MindsAgree ==
    ASSUME NEW g, NEW h, NEW n, Begins(g, h, n), NEW s \in Strategy,
           NEW m, NEW o, IsMind(m, g, s), IsMind(o, h, s)
    PROVE  \A k \in 1 .. n : m[k] = o[k]
<1>. DEFINE same == [k \in 1 .. n |-> IF m[k] = o[k] THEN 1 ELSE 0]
<1>1. n \in Nat /\ n >= 1 /\ n = Len(g) /\ n <= Len(h) /\ Len(h) \in Nat
      /\ g \in Seq(Session) /\ h \in Seq(Session)
  BY DEF Begins
<1>2. m[1] = Flat /\ o[1] = Flat
  BY <1>1, MindType
<1>3. same[1] \in {1}
  BY <1>1, <1>2
<1>4. ASSUME NEW k \in 1 .. n - 1, same[k] \in {1}
      PROVE  same[k + 1] \in {1}
  <2>1. k \in 1 .. Len(g) /\ k \in 1 .. Len(h) /\ k \in 1 .. n /\ k + 1 \in 1 .. n
    BY <1>1
  <2>2. m[k + 1] = Decided(g, s, m[k], k) /\ o[k + 1] = Decided(h, s, o[k], k)
    BY <1>1, <2>1, MindType
  <2>3. m[k] = o[k]
    BY <1>4, <2>1
  <2>4. m[k + 1] = o[k + 1]
    BY <2>2, <2>3, DecidedAgree
  <2>. QED  BY <2>1, <2>4
<1>5. \A k \in 1 .. n : same[k] \in {1}
  <2>. HIDE DEF same
  <2>. QED  BY <1>1, <1>3, <1>4, ElementsStayIn
<1>. QED  BY <1>5

-----------------------------------------------------------------------------
\* Signals and positions

LEMMA SignalIsMind ==
    ASSUME NEW h \in Seq(Session), NEW s \in Strategy, NEW start
    PROVE  \E m : /\ IsMind(m, h, s)
                  /\ \A k \in 1 .. Len(h) :
                        Signals(h, s, start)[k] = IF k < start THEN 0 ELSE m[k + 1].position
<1>1. PICK m : IsMind(m, h, s) /\ Mind(h, s) = Tail(m)
  BY MindIterates
<1>2. m \in Seq(Held(s)) /\ Len(m) = Len(h) + 1 /\ Len(h) \in Nat
  BY <1>1, MindType
<1>3. \A k \in 1 .. Len(h) : Tail(m)[k] = m[k + 1]
  BY <1>2
<1>4. \A k \in 1 .. Len(h) : Signals(h, s, start)[k] = IF k < start THEN 0 ELSE Tail(m)[k].position
  BY <1>1 DEF Signals
<1>. QED  BY <1>1, <1>3, <1>4

LEMMA SignalType ==
    ASSUME NEW h \in Seq(Session), NEW s \in Strategy, NEW start \in Nat, NEW k \in 1 .. Len(h)
    PROVE  /\ Signals(h, s, start)[k] \in {0, s.side}
           /\ k < start => Signals(h, s, start)[k] = 0
<1>1. PICK m : /\ IsMind(m, h, s)
               /\ \A i \in 1 .. Len(h) :
                     Signals(h, s, start)[i] = IF i < start THEN 0 ELSE m[i + 1].position
  BY SignalIsMind
<1>2. k + 1 \in 1 .. Len(h) + 1
  OBVIOUS
<1>3. m[k + 1] \in Held(s)
  BY <1>1, <1>2, MindType
<1>4. m[k + 1].position \in {0, s.side}
  BY <1>3 DEF Held
<1>. QED  BY <1>1, <1>4

LEMMA PositionType ==
    ASSUME NEW h \in Seq(Session), NEW s \in Strategy, NEW start \in Nat \ {0},
           NEW k \in 0 .. Len(h)
    PROVE  /\ Positions(h, s, start)[k] \in {0, s.side}
           /\ Positions(h, s, start)[k] \in Int
           /\ k <= start => Positions(h, s, start)[k] = 0
<1>. DEFINE signal == Signals(h, s, start)
            position == Positions(h, s, start)[k]
<1>1. position = IF k <= 1 THEN 0 ELSE signal[k - 1]
  BY DEF Positions, Shifted
<1>2. s.side \in Int
  BY DEF Strategy
<1>3. ASSUME k > 1
      PROVE  signal[k - 1] \in {0, s.side} /\ (k <= start => signal[k - 1] = 0)
  <2>. DEFINE i == k - 1
  <2>1. i \in 1 .. Len(h) /\ start \in Nat /\ (k <= start => i < start)
    BY <1>3
  <2>. HIDE DEF i
  <2>2. signal[i] \in {0, s.side} /\ (i < start => signal[i] = 0)
    BY <2>1, SignalType
  <2>. QED  BY <2>1, <2>2 DEF i
<1>. HIDE DEF signal, position
<1>4. k <= 1 \/ k > 1
  OBVIOUS
<1>. QED  BY <1>1, <1>2, <1>3, <1>4 DEF position

LEMMA PositionsAgree ==
    ASSUME NEW g, NEW h, NEW n, Begins(g, h, n), NEW s \in Strategy, NEW start \in Nat \ {0}
    PROVE  /\ \A k \in 1 .. n - 1 : Signals(g, s, start)[k] = Signals(h, s, start)[k]
           /\ \A k \in 0 .. n : Positions(g, s, start)[k] = Positions(h, s, start)[k]
<1>1. n \in Nat /\ n >= 1 /\ n = Len(g) /\ n <= Len(h) /\ Len(h) \in Nat
      /\ g \in Seq(Session) /\ h \in Seq(Session)
  BY DEF Begins
<1>2. PICK m : /\ IsMind(m, g, s)
               /\ \A k \in 1 .. Len(g) :
                     Signals(g, s, start)[k] = IF k < start THEN 0 ELSE m[k + 1].position
  BY <1>1, SignalIsMind
<1>3. PICK o : /\ IsMind(o, h, s)
               /\ \A k \in 1 .. Len(h) :
                     Signals(h, s, start)[k] = IF k < start THEN 0 ELSE o[k + 1].position
  BY <1>1, SignalIsMind
<1>4. \A k \in 1 .. n : m[k] = o[k]
  BY <1>2, <1>3, MindsAgree
<1>5. ASSUME NEW k \in 1 .. n - 1
      PROVE  Signals(g, s, start)[k] = Signals(h, s, start)[k]
  <2>1. k \in 1 .. Len(g) /\ k \in 1 .. Len(h) /\ k + 1 \in 1 .. n
    BY <1>1
  <2>2. m[k + 1] = o[k + 1]
    BY <1>4, <2>1
  <2>3. Signals(g, s, start)[k] = IF k < start THEN 0 ELSE m[k + 1].position
    BY <1>2, <2>1
  <2>4. Signals(h, s, start)[k] = IF k < start THEN 0 ELSE o[k + 1].position
    BY <1>3, <2>1
  <2>. QED  BY <2>2, <2>3, <2>4
<1>6. ASSUME NEW k \in 0 .. n
      PROVE  Positions(g, s, start)[k] = Positions(h, s, start)[k]
  <2>1. k \in 0 .. Len(g) /\ k \in 0 .. Len(h)
    BY <1>1
  <2>2. /\ Positions(g, s, start)[k] = IF k <= 1 THEN 0 ELSE Signals(g, s, start)[k - 1]
        /\ Positions(h, s, start)[k] = IF k <= 1 THEN 0 ELSE Signals(h, s, start)[k - 1]
    BY <2>1 DEF Positions, Shifted
  <2>3. CASE k <= 1
    BY <2>2, <2>3
  <2>4. CASE k > 1
    <3>1. k - 1 \in 1 .. n - 1
      BY <1>1, <2>4
    <3>2. Signals(g, s, start)[k - 1] = Signals(h, s, start)[k - 1]
      BY <1>5, <3>1
    <3>. QED  BY <2>2, <2>4, <3>2
  <2>. QED  BY <2>3, <2>4
<1>. QED  BY <1>5, <1>6

-----------------------------------------------------------------------------
\* Factors

LEMMA FactorType ==
    ASSUME NEW position \in Int, NEW from \in Nat \ {0}, NEW to \in Nat
    PROVE  Factor(position, from, to) \in Int
<1>. DEFINE x == position * 2 * (to - from)
<1>1. x \in Int
  <2>1. position * 2 \in Int /\ to - from \in Int
    OBVIOUS
  <2>. DEFINE a == position * 2
              b == to - from
  <2>. HIDE DEF a, b
  <2>2. a * b \in Int
    BY <2>1 DEF a, b
  <2>. QED  BY <2>2 DEF a, b
<1>2. Factor(position, from, to) = 2 + (x \div from)
  BY DEF Factor
<1>. HIDE DEF x
<1>. QED  BY <1>1, <1>2

LEMMA NetFactorType ==
    ASSUME NEW h \in Seq(Session), NEW k \in 1 .. Len(h),
           NEW previous \in Int, NEW position \in Int
    PROVE  NetFactor(h, previous, position, k) \in Nat
<1>. DEFINE overnight == IF k = 1 THEN 2 ELSE Factor(previous, h[k - 1].close, h[k].open)
            intraday  == Factor(position, h[k].open, h[k].close)
            idle      == IF previous = 0 /\ position = 0 THEN Cash ELSE 0
            paid      == Absolute(position - previous) * Cost
            earned    == overnight * intraday
            net       == earned + idle - paid
<1>1. overnight \in Int
  <2>1. k # 1 => k - 1 \in 1 .. Len(h)
    OBVIOUS
  <2>2. k # 1 => Factor(previous, h[k - 1].close, h[k].open) \in Int
    BY <2>1, SessionType, FactorType
  <2>. QED  BY <2>2
<1>2. intraday \in Int
  BY SessionType, FactorType
<1>3. idle \in Int
  BY EngineAssumption
<1>4. paid \in Int
  <2>. DEFINE moved == Absolute(position - previous)
  <2>1. moved \in Int /\ Cost \in Int
    BY EngineAssumption DEF Absolute
  <2>. HIDE DEF moved
  <2>2. moved * Cost \in Int
    BY <2>1
  <2>. QED  BY <2>2 DEF moved
<1>5. NetFactor(h, previous, position, k) = Max({net, 0})
  BY DEF NetFactor
<1>. HIDE DEF overnight, intraday, idle, paid
<1>6. earned \in Int
  BY <1>1, <1>2
<1>. HIDE DEF earned
<1>7. net \in Int
  BY <1>3, <1>4, <1>6
<1>. HIDE DEF net
<1>8. {net, 0} \in SUBSET Int /\ {net, 0} # {} /\ IsFiniteSet({net, 0})
  <2>1. IsFiniteSet({net, 0})
    <3>1. {net, 0} = {net, 0, 0}
      OBVIOUS
    <3>2. IsFiniteSet({net, 0, 0})
      BY TripleIsFinite
    <3>. QED  BY <3>1, <3>2
  <2>. QED  BY <1>7, <2>1
<1>9. Max({net, 0}) \in Int /\ Max({net, 0}) >= 0
  BY <1>7, <1>8, ExtremesOf
<1>. QED  BY <1>5, <1>9

LEMMA NetFactorsAgree ==
    ASSUME NEW g, NEW h, NEW n, Begins(g, h, n), NEW k \in 1 .. n - 1, NEW previous, NEW position
    PROVE  NetFactor(g, previous, position, k) = NetFactor(h, previous, position, k)
<1>1. g[k] = h[k] /\ (k # 1 => g[k - 1] = h[k - 1])
  BY DEF Begins
<1>2. /\ (IF k = 1 THEN 2 ELSE Factor(previous, g[k - 1].close, g[k].open))
         = (IF k = 1 THEN 2 ELSE Factor(previous, h[k - 1].close, h[k].open))
      /\ Factor(position, g[k].open, g[k].close) = Factor(position, h[k].open, h[k].close)
  BY <1>1
<1>. QED  BY <1>2, Zenon DEF NetFactor

-----------------------------------------------------------------------------
\* The equity curve

\* What row n of the active ones multiplies the wealth by
Gain(h, position, start, n) ==
    NetFactor(h, position[start + n - 2], position[start + n - 1], start + n - 1)

IsWealth(w, h, position, start) ==
    w = [n \in 1 .. Len(h) - start + 1 |->
            IF n = 1 THEN Unit(h, start)
            ELSE (w[n - 1] \div 4) * Gain(h, position, start, n)]

\* A history, the row it becomes active and a position for each row
Traded(h, position, start) ==
    /\ h \in Seq(Session) /\ start \in Nat \ {0} /\ start < Len(h)
    /\ \A k \in 0 .. Len(h) : position[k] \in Int

LEMMA GainType ==
    ASSUME NEW h, NEW position, NEW start, Traded(h, position, start),
           NEW n \in 2 .. Len(h) - start + 1
    PROVE  Gain(h, position, start, n) \in Nat
<1>. DEFINE k == start + n - 1
            j == start + n - 2
<1>1. h \in Seq(Session) /\ start \in Nat \ {0} /\ Len(h) \in Nat
  BY DEF Traded
<1>2. k \in 1 .. Len(h) /\ k \in 0 .. Len(h) /\ j \in 0 .. Len(h)
  BY <1>1
<1>3. Gain(h, position, start, n) = NetFactor(h, position[j], position[k], k)
  BY DEF Gain
<1>. HIDE DEF j, k
<1>4. position[j] \in Int /\ position[k] \in Int
  BY <1>2 DEF Traded
<1>. QED  BY <1>1, <1>2, <1>3, <1>4, NetFactorType

LEMMA UnitType ==
    ASSUME NEW h, NEW position, NEW start, Traded(h, position, start)
    PROVE  Unit(h, start) \in Nat \ {0}
<1>1. Len(h) - start + 1 \in Nat
  BY DEF Traded
<1>. QED  BY <1>1, FoursFacts DEF Unit

LEMMA WealthExists ==
    ASSUME NEW h, NEW position, NEW start, Traded(h, position, start)
    PROVE  IsWealth(Wealth(h, position, start), h, position, start)
<1>. DEFINE n == Len(h) - start + 1
            unit == Unit(h, start)
            next == [q \in (1 .. n) \X Nat |-> (q[2] \div 4) * Gain(h, position, start, q[1])]
<1>1. n \in Nat /\ n >= 1
  BY DEF Traded
<1>2. PICK g : IsIteration(g, n, unit, next)
  <2>. HIDE DEF n, unit, next
  <2>. QED  BY <1>1, IterationExists
<1>3. g = [k \in 1 .. n |-> IF k = 1 THEN unit ELSE next[<<k, g[k - 1]>>]]
  BY <1>2 DEF IsIteration
<1>4. \A k \in 1 .. n : g[k] \in Nat
  <2>1. g[1] \in Nat
    <3>1. g[1] = unit
      BY <1>1, <1>3
    <3>. QED  BY <3>1, UnitType
  <2>2. ASSUME NEW k \in 1 .. n - 1, g[k] \in Nat
        PROVE  g[k + 1] \in Nat
    <3>. DEFINE i == k + 1
                x == g[k] \div 4
                y == Gain(h, position, start, i)
    <3>1. i \in 1 .. n /\ i \in 2 .. n /\ i # 1 /\ i - 1 = k
      BY <1>1
    <3>2. x \in Nat
      BY <2>2
    <3>3. y \in Nat
      BY <3>1, GainType
    <3>4. g[i] = next[<<i, g[k]>>]
      <4>. HIDE DEF next, i
      <4>. QED  BY <1>3, <3>1
    <3>5. next[<<i, g[k]>>] = x * y
      BY <2>2, <3>1
    <3>. HIDE DEF x, y, next
    <3>6. x * y \in Nat
      BY <3>2, <3>3
    <3>. QED  BY <3>4, <3>5, <3>6
  <2>. HIDE DEF n, unit, next
  <2>. QED  BY <1>1, <2>1, <2>2, ElementsStayIn
<1>5. ASSUME NEW k \in 1 .. n, k # 1
      PROVE  next[<<k, g[k - 1]>>] = (g[k - 1] \div 4) * Gain(h, position, start, k)
  <2>1. k - 1 \in 1 .. n
    BY <1>1, <1>5
  <2>2. g[k - 1] \in Nat
    BY <1>4, <2>1
  <2>. QED  BY <2>2
<1>6. g = [k \in 1 .. n |-> IF k = 1 THEN unit
                            ELSE (g[k - 1] \div 4) * Gain(h, position, start, k)]
  <2>. HIDE DEF next, unit, n
  <2>1. \A k \in 1 .. n : (IF k = 1 THEN unit ELSE next[<<k, g[k - 1]>>])
           = IF k = 1 THEN unit ELSE (g[k - 1] \div 4) * Gain(h, position, start, k)
    BY <1>5
  <2>. QED  BY <1>3, <2>1
<1>7. IsWealth(g, h, position, start)
  BY <1>6 DEF IsWealth
<1>8. Wealth(h, position, start) = CHOOSE w : IsWealth(w, h, position, start)
  BY DEF Wealth, IsWealth, Gain
<1>. QED  BY <1>7, <1>8

LEMMA WealthFacts ==
    ASSUME NEW h, NEW position, NEW start, Traded(h, position, start),
           NEW w, w = Wealth(h, position, start)
    PROVE  /\ w \in Seq(Nat) /\ Len(w) = Len(h) - start + 1
           /\ w[1] = Unit(h, start)
           /\ \A k \in 1 .. Len(h) - start :
                 w[k + 1] = (w[k] \div 4) * Gain(h, position, start, k + 1)
<1>. DEFINE n == Len(h) - start + 1
            unit == Unit(h, start)
<1>1. n \in Nat /\ n >= 1
  BY DEF Traded
<1>2. w = [k \in 1 .. n |-> IF k = 1 THEN unit
                            ELSE (w[k - 1] \div 4) * Gain(h, position, start, k)]
  BY WealthExists DEF IsWealth
<1>. HIDE DEF unit
<1>3. w[1] = unit
  BY <1>1, <1>2
<1>4. ASSUME NEW k \in 1 .. n - 1
      PROVE  w[k + 1] = (w[k] \div 4) * Gain(h, position, start, k + 1)
  <2>. DEFINE i == k + 1
  <2>1. i \in 1 .. n /\ i # 1 /\ i - 1 = k
    BY <1>1
  <2>. HIDE DEF i, n
  <2>2. w[i] = (w[i - 1] \div 4) * Gain(h, position, start, i)
    BY <1>2, <2>1
  <2>. QED  BY <2>1, <2>2 DEF i
<1>5. \A k \in 1 .. n : w[k] \in Nat
  <2>1. w[1] \in Nat
    BY <1>3, UnitType DEF unit
  <2>2. ASSUME NEW k \in 1 .. n - 1, w[k] \in Nat
        PROVE  w[k + 1] \in Nat
    <3>. DEFINE x == w[k] \div 4
                y == Gain(h, position, start, k + 1)
    <3>1. k + 1 \in 2 .. n
      BY <1>1
    <3>2. x \in Nat /\ y \in Nat
      BY <2>2, <3>1, GainType
    <3>3. w[k + 1] = x * y
      BY <1>4
    <3>. HIDE DEF x, y
    <3>4. x * y \in Nat
      BY <3>2
    <3>. QED  BY <3>3, <3>4
  <2>. HIDE DEF n
  <2>. QED  BY <1>1, <2>1, <2>2, ElementsStayIn
<1>6. w \in Seq(Nat) /\ Len(w) = n
  <2>. DEFINE f == [k \in 1 .. n |-> w[k]]
  <2>1. w = f
    BY <1>2
  <2>2. f \in [1 .. n -> Nat]
    BY <1>5
  <2>. HIDE DEF f, n
  <2>3. f \in Seq(Nat) /\ Len(f) = n
    BY <1>1, <2>2
  <2>. QED  BY <2>1, <2>3
<1>7. n - 1 = Len(h) - start
  BY DEF Traded
<1>. QED  BY <1>3, <1>4, <1>6, <1>7 DEF unit

\* a rows after the first are left of one history and b of the other: their
\* wealths are the same number of units.
Alike(x, y, a, b) == \E m \in Nat : x = m * Fours(a) /\ y = m * Fours(b)

LEMMA AlikeStep ==
    ASSUME NEW x \in Nat, NEW y \in Nat, NEW a \in Nat, NEW b \in Nat, NEW f \in Nat,
           Alike(x, y, a + 1, b + 1)
    PROVE  Alike((x \div 4) * f, (y \div 4) * f, a, b)
<1>1. PICK m \in Nat : x = m * Fours(a + 1) /\ y = m * Fours(b + 1)
  BY DEF Alike
<1>. DEFINE p == Fours(a)
            q == Fours(b)
<1>2. p \in Nat /\ q \in Nat /\ Fours(a + 1) = 4 * p /\ Fours(b + 1) = 4 * q
  BY FoursFacts
<1>. HIDE DEF p, q
<1>3. x = m * (4 * p) /\ y = m * (4 * q)
  BY <1>1, <1>2
<1>. DEFINE c == m * p
            d == m * q
<1>4. c \in Nat /\ d \in Nat /\ x = 4 * c /\ y = 4 * d
  BY <1>1, <1>2, <1>3
<1>5. x \div 4 = c /\ y \div 4 = d
  <2>. HIDE DEF c, d
  <2>. QED  BY <1>4
<1>6. c * f = (m * f) * p /\ d * f = (m * f) * q /\ m * f \in Nat
  BY <1>1, <1>2
<1>. HIDE DEF c, d
<1>. QED  BY <1>5, <1>6 DEF Alike, p, q

LEMMA WealthsAlike ==
    ASSUME NEW g, NEW h, NEW n, Begins(g, h, n), NEW position, NEW later, NEW start,
           Traded(g, position, start), Traded(h, later, start),
           \A k \in 0 .. n : position[k] = later[k]
    PROVE  \A i \in 1 .. n - start :
              Alike(Wealth(g, position, start)[i], Wealth(h, later, start)[i],
                    n - start + 2 - i, Len(h) - start + 2 - i)
<1>. DEFINE v == Wealth(g, position, start)
            w == Wealth(h, later, start)
            a == n - start
            b == Len(h) - start
            fits(i) == Alike(v[i], w[i], a + 2 - i, b + 2 - i)
            same == [i \in 1 .. a |-> IF fits(i) THEN 1 ELSE 0]
<1>1. /\ n \in Nat /\ n = Len(g) /\ n <= Len(h) /\ Len(h) \in Nat
      /\ start \in Nat \ {0} /\ start < n /\ a \in Nat /\ a >= 1 /\ b \in Nat /\ a <= b
  BY DEF Begins, Traded
<1>2. /\ v \in Seq(Nat) /\ Len(v) = a + 1 /\ v[1] = Unit(g, start)
      /\ \A k \in 1 .. a : v[k + 1] = (v[k] \div 4) * Gain(g, position, start, k + 1)
  <2>1. Len(g) - start + 1 = a + 1 /\ Len(g) - start = a
    BY <1>1
  <2>2. /\ v \in Seq(Nat) /\ Len(v) = Len(g) - start + 1 /\ v[1] = Unit(g, start)
        /\ \A k \in 1 .. Len(g) - start :
              v[k + 1] = (v[k] \div 4) * Gain(g, position, start, k + 1)
    <3>1. v = Wealth(g, position, start)
      OBVIOUS
    <3>. HIDE DEF v
    <3>. QED  BY <3>1, WealthFacts
  <2>. HIDE DEF v, a
  <2>. QED  BY <2>1, <2>2
<1>3. /\ w \in Seq(Nat) /\ Len(w) = b + 1 /\ w[1] = Unit(h, start)
      /\ \A k \in 1 .. b : w[k + 1] = (w[k] \div 4) * Gain(h, later, start, k + 1)
  <2>1. Len(h) - start + 1 = b + 1 /\ Len(h) - start = b
    BY <1>1
  <2>2. /\ w \in Seq(Nat) /\ Len(w) = Len(h) - start + 1 /\ w[1] = Unit(h, start)
        /\ \A k \in 1 .. Len(h) - start :
              w[k + 1] = (w[k] \div 4) * Gain(h, later, start, k + 1)
    <3>1. w = Wealth(h, later, start)
      OBVIOUS
    <3>. HIDE DEF w
    <3>. QED  BY <3>1, WealthFacts
  <2>. HIDE DEF w, b
  <2>. QED  BY <2>1, <2>2
<1>. HIDE DEF v, w
<1>4. fits(1)
  <2>. DEFINE p == Fours(a + 1)
              q == Fours(b + 1)
  <2>1. v[1] = p /\ w[1] = q
    <3>1. Len(g) - start + 1 = a + 1 /\ Len(h) - start + 1 = b + 1
      BY <1>1
    <3>. QED  BY <1>2, <1>3, <3>1 DEF Unit
  <2>2. p \in Nat /\ q \in Nat
    <3>1. a + 1 \in Nat /\ b + 1 \in Nat
      BY <1>1
    <3>. QED  BY <3>1, FoursFacts
  <2>3. a + 2 - 1 = a + 1 /\ b + 2 - 1 = b + 1
    BY <1>1
  <2>4. p = 1 * p /\ q = 1 * q
    BY <2>2
  <2>5. v[1] = 1 * p /\ w[1] = 1 * q
    BY <2>1, <2>4
  <2>6. Alike(v[1], w[1], a + 1, b + 1)
    BY <2>5 DEF Alike
  <2>. HIDE DEF a, b, p, q
  <2>. QED  BY <2>3, <2>6
<1>5. ASSUME NEW i \in 1 .. a - 1, fits(i)
      PROVE  fits(i + 1)
  <2>. DEFINE x == v[i]
              y == w[i]
              f == Gain(g, position, start, i + 1)
              c == a + 1 - i
              d == b + 1 - i
  <2>1. c \in Nat /\ d \in Nat /\ a + 2 - i = c + 1 /\ b + 2 - i = d + 1
        /\ a + 2 - (i + 1) = c /\ b + 2 - (i + 1) = d
    BY <1>1
  <2>2. i \in 1 .. a /\ i \in 1 .. b /\ i \in 1 .. a + 1 /\ i \in 1 .. b + 1
        /\ i + 1 \in 2 .. Len(g) - start + 1
    BY <1>1
  <2>3. x \in Nat /\ y \in Nat
    <3>1. i \in 1 .. Len(v) /\ i \in 1 .. Len(w)
      <4>. HIDE DEF a, b
      <4>. QED  BY <1>2, <1>3, <2>2
    <3>. QED  BY <1>2, <1>3, <3>1
  <2>4. f \in Nat
    BY <2>2, GainType
  <2>5. Gain(h, later, start, i + 1) = f
    <3>. DEFINE k == start + i
    <3>1. /\ start + (i + 1) - 2 = k - 1 /\ start + (i + 1) - 1 = k /\ k \in 1 .. n - 1
          /\ k \in 0 .. n /\ k - 1 \in 0 .. n
      BY <1>1
    <3>. HIDE DEF k
    <3>2. position[k] = later[k] /\ position[k - 1] = later[k - 1]
      BY <3>1
    <3>3. f = NetFactor(g, position[k - 1], position[k], k)
      BY <3>1 DEF Gain
    <3>4. Gain(h, later, start, i + 1) = NetFactor(h, later[k - 1], later[k], k)
      BY <3>1 DEF Gain
    <3>. QED  BY <3>1, <3>2, <3>3, <3>4, NetFactorsAgree
  <2>6. v[i + 1] = (x \div 4) * f /\ w[i + 1] = (y \div 4) * f
    <3>. HIDE DEF a, b
    <3>. QED  BY <1>2, <1>3, <2>2, <2>5
  <2>7. Alike(x, y, c + 1, d + 1)
    BY <1>5, <2>1
  <2>. HIDE DEF x, y, f, c, d, a, b
  <2>8. Alike((x \div 4) * f, (y \div 4) * f, c, d)
    BY <2>1, <2>3, <2>4, <2>7, AlikeStep
  <2>. QED  BY <2>1, <2>6, <2>8
<1>6. \A i \in 1 .. a : same[i] \in {1}
  <2>1. same[1] \in {1}
    BY <1>1, <1>4
  <2>2. ASSUME NEW i \in 1 .. a - 1, same[i] \in {1} PROVE same[i + 1] \in {1}
    <3>1. i \in 1 .. a /\ i + 1 \in 1 .. a
      BY <1>1
    <3>. HIDE DEF fits, a
    <3>2. fits(i)
      BY <2>2, <3>1
    <3>3. fits(i + 1)
      BY <1>5, <3>2
    <3>. QED  BY <3>1, <3>3
  <2>. HIDE DEF same, a
  <2>. QED  BY <1>1, <2>1, <2>2, ElementsStayIn
<1>7. \A i \in 1 .. a : fits(i)
  <2>. HIDE DEF fits
  <2>. QED  BY <1>6
<1>. QED  BY <1>7 DEF v, w

-----------------------------------------------------------------------------
\* The rows of a backtest

\* A backtest that can run, the row it becomes active and the positions it takes
Backtest(h, s, from, start, position) ==
    /\ h \in Seq(Session) /\ s \in Strategy /\ from \in Nat \ {0}
    /\ start = Start(s, from) /\ start < Len(h)
    /\ position = Positions(h, s, start)

LEMMA StartType ==
    ASSUME NEW s \in Strategy, NEW from \in Nat \ {0}
    PROVE  Start(s, from) \in Nat \ {0}
<1>. DEFINE w == s.warm + 1
            S == {w, from}
<1>1. w \in Int
  BY DEF Strategy
<1>. HIDE DEF w
<1>2. IsFiniteSet(S)
  <2>1. S = {w, from, from}
    OBVIOUS
  <2>. HIDE DEF S
  <2>2. IsFiniteSet({w, from, from})
    BY TripleIsFinite
  <2>. QED  BY <2>1, <2>2
<1>3. S \in SUBSET Int /\ S # {} /\ from \in S
  BY <1>1
<1>4. Start(s, from) = Max(S)
  BY DEF Start, w
<1>. HIDE DEF S
<1>5. Max(S) \in Int /\ Max(S) >= from
  BY <1>2, <1>3, ExtremesOf
<1>. QED  BY <1>4, <1>5

LEMMA BacktestTrades ==
    ASSUME NEW h, NEW s, NEW from, NEW start, NEW position, Backtest(h, s, from, start, position)
    PROVE  Traded(h, position, start)
<1>1. start \in Nat \ {0}
  BY StartType DEF Backtest
<1>2. \A k \in 0 .. Len(h) : position[k] \in Int
  BY <1>1, PositionType DEF Backtest
<1>. QED  BY <1>1, <1>2 DEF Traded, Backtest

LEMMA RowsFacts ==
    ASSUME NEW h, NEW s, NEW from, NEW start, NEW position, Backtest(h, s, from, start, position),
           NEW rows, rows = Rows(h, s, from), NEW w, w = Wealth(h, position, start)
    PROVE  /\ DOMAIN rows = start .. Len(h)
           /\ \A k \in start .. Len(h) :
                 /\ rows[k].signal = Signals(h, s, start)[k]
                 /\ rows[k].position = position[k]
                 /\ rows[k].before = IF k = start THEN w[1] ELSE w[k - start]
                 /\ rows[k].equity = w[k - start + 1]
                 /\ rows[k].before \in Nat /\ rows[k].equity \in Nat
                 /\ rows[k].position \in {0, s.side}
           /\ rows[start].position = 0
           /\ rows[start].before = Unit(h, start) /\ rows[start].equity = Unit(h, start)
<1>1. Traded(h, position, start) /\ start \in Nat \ {0} /\ start < Len(h) /\ Len(h) \in Nat
      /\ h \in Seq(Session) /\ s \in Strategy
  BY BacktestTrades, StartType DEF Backtest
<1>2. w \in Seq(Nat) /\ Len(w) = Len(h) - start + 1 /\ w[1] = Unit(h, start)
  BY <1>1, WealthFacts
<1>. DEFINE unit == Unit(h, start)
            curve == <<unit>> \o w
<1>3. unit \in Nat
  BY <1>1, UnitType
<1>4. /\ curve \in Seq(Nat)
      /\ \A k \in start .. Len(h) : /\ curve[k - start + 2] = w[k - start + 1]
                                    /\ k # start => curve[k - start + 1] = w[k - start]
                                    /\ k = start => curve[k - start + 1] = unit
  <2>. HIDE DEF unit
  <2>1. <<unit>> \in Seq(Nat) /\ Len(<<unit>>) = 1 /\ <<unit>>[1] = unit
    BY <1>3
  <2>2. curve \in Seq(Nat) /\ Len(curve) = 1 + Len(w)
    BY <1>2, <2>1
  <2>3. \A i \in 1 .. Len(w) : curve[i + 1] = w[i]
    BY <1>2, <2>1
  <2>4. curve[1] = unit
    BY <1>2, <2>1
  <2>5. ASSUME NEW k \in start .. Len(h)
        PROVE  /\ curve[k - start + 2] = w[k - start + 1]
               /\ k # start => curve[k - start + 1] = w[k - start]
               /\ k = start => curve[k - start + 1] = unit
    <3>. HIDE DEF curve
    <3>. DEFINE i == k - start
    <3>1. i \in Nat /\ i + 1 \in 1 .. Len(w) /\ (i + 1) + 1 = i + 2 /\ (i # 0 => i \in 1 .. Len(w))
          /\ (i = 0 <=> k = start)
      BY <1>1, <1>2
    <3>. HIDE DEF i
    <3>2. curve[i + 2] = w[i + 1]
      BY <2>3, <3>1
    <3>3. i # 0 => curve[i + 1] = w[i]
      BY <2>3, <3>1
    <3>4. i = 0 => curve[i + 1] = unit
      BY <2>4
    <3>. QED  BY <3>1, <3>2, <3>3, <3>4 DEF i
  <2>. QED  BY <2>2, <2>5
<1>5. rows = [k \in start .. Len(h) |->
                 [signal |-> Signals(h, s, start)[k], position |-> position[k],
                  before |-> curve[k - start + 1], equity |-> curve[k - start + 2]]]
  BY DEF Rows, Backtest
<1>. HIDE DEF curve
<1>6. ASSUME NEW k \in start .. Len(h)
      PROVE  /\ rows[k].signal = Signals(h, s, start)[k]
             /\ rows[k].position = position[k]
             /\ rows[k].before = IF k = start THEN w[1] ELSE w[k - start]
             /\ rows[k].equity = w[k - start + 1]
             /\ rows[k].before \in Nat /\ rows[k].equity \in Nat
             /\ rows[k].position \in {0, s.side}
  <2>1. /\ rows[k].signal = Signals(h, s, start)[k]
        /\ rows[k].position = position[k]
        /\ rows[k].before = curve[k - start + 1]
        /\ rows[k].equity = curve[k - start + 2]
    BY <1>5
  <2>2. /\ rows[k].before = IF k = start THEN w[1] ELSE w[k - start]
        /\ rows[k].equity = w[k - start + 1]
    BY <1>2, <1>4, <2>1
  <2>3. w[1] \in Nat /\ w[k - start + 1] \in Nat /\ (k # start => w[k - start] \in Nat)
    <3>1. /\ 1 \in 1 .. Len(w) /\ k - start + 1 \in 1 .. Len(w)
          /\ k # start => k - start \in 1 .. Len(w)
      BY <1>1, <1>2
    <3>. QED  BY <1>2, <3>1
  <2>4. position[k] \in {0, s.side}
    <3>1. k \in 0 .. Len(h)
      BY <1>1
    <3>. QED  BY <1>1, <3>1, PositionType DEF Backtest
  <2>. QED  BY <2>1, <2>2, <2>3, <2>4
<1>7. start \in start .. Len(h) /\ start \in 0 .. Len(h)
  BY <1>1
<1>8. rows[start].position = 0
  <2>1. start <= start
    BY <1>1
  <2>2. Positions(h, s, start)[start] = 0
    BY <1>1, <1>7, <2>1, PositionType
  <2>. QED  BY <1>6, <1>7, <2>2 DEF Backtest
<1>9. rows[start].before = unit /\ rows[start].equity = unit
  <2>1. start - start + 1 = 1
    BY <1>1
  <2>. QED  BY <1>2, <1>6, <1>7, <2>1
<1>10. DOMAIN rows = start .. Len(h)
  BY <1>5
<1>. QED  BY <1>6, <1>8, <1>9, <1>10

\* The equity before a row is that after the row before it.
LEMMA RowsConnect ==
    ASSUME NEW h, NEW s, NEW from, NEW start, NEW position, Backtest(h, s, from, start, position),
           NEW rows, rows = Rows(h, s, from), NEW k \in start + 1 .. Len(h)
    PROVE  rows[k].before = rows[k - 1].equity
<1>. DEFINE w == Wealth(h, position, start)
<1>1. start \in Nat \ {0} /\ start < Len(h) /\ Len(h) \in Nat
  BY StartType DEF Backtest
<1>2. k \in start .. Len(h) /\ k - 1 \in start .. Len(h) /\ k # start /\ (k - 1) - start + 1 = k - start
  BY <1>1
<1>3. rows[k].before = IF k = start THEN w[1] ELSE w[k - start]
  <2>. HIDE DEF w
  <2>. QED  BY <1>2, RowsFacts DEF w
<1>4. rows[k - 1].equity = w[(k - 1) - start + 1]
  <2>. DEFINE i == k - 1
  <2>1. i \in start .. Len(h)
    BY <1>2
  <2>. HIDE DEF w, i
  <2>2. rows[i].equity = w[i - start + 1]
    BY <2>1, RowsFacts DEF w
  <2>. QED  BY <2>2 DEF i
<1>. QED  BY <1>2, <1>3, <1>4

-----------------------------------------------------------------------------
\* Nothing is known before it happened.

\* Two backtests of one strategy, the first of a history that ends with row n
Prefix(g, h, n, s, from, start, position, later) ==
    /\ Begins(g, h, n)
    /\ Backtest(g, s, from, start, position) /\ Backtest(h, s, from, start, later)

LEMMA RowsAgree ==
    ASSUME NEW g, NEW h, NEW n, NEW s, NEW from, NEW start, NEW position, NEW later,
           Prefix(g, h, n, s, from, start, position, later),
           NEW past, past = Rows(g, s, from), NEW rows, rows = Rows(h, s, from),
           NEW scale, scale = Fours(Len(h) - n)
    PROVE  /\ \A k \in start .. n : past[k].position = rows[k].position
           /\ \A k \in start .. n : past[k].before * scale = rows[k].before
           /\ \A k \in start .. n - 1 : /\ past[k].signal = rows[k].signal
                                        /\ past[k].equity * scale = rows[k].equity
<1>. DEFINE v == Wealth(g, position, start)
            w == Wealth(h, later, start)
<1>0. Backtest(g, s, from, start, position)
  BY DEF Prefix
<1>1. /\ Begins(g, h, n) /\ Backtest(g, s, from, start, position) /\ Backtest(h, s, from, start, later)
      /\ n \in Nat /\ n = Len(g) /\ n <= Len(h) /\ Len(h) \in Nat
      /\ start \in Nat \ {0} /\ start < n /\ s \in Strategy
  BY StartType DEF Prefix, Begins, Backtest
<1>2. /\ \A k \in 1 .. n - 1 : Signals(g, s, start)[k] = Signals(h, s, start)[k]
      /\ \A k \in 0 .. n : position[k] = later[k]
  BY <1>1, PositionsAgree DEF Backtest
<1>3. \A i \in 1 .. n - start :
          Alike(v[i], w[i], n - start + 2 - i, Len(h) - start + 2 - i)
  BY <1>1, <1>2, WealthsAlike, BacktestTrades
<1>4. ASSUME NEW i \in 1 .. n - start
      PROVE  v[i] * scale = w[i]
  <2>. DEFINE a == n - start + 2 - i
              b == Len(h) - start + 2 - i
              c == Len(h) - n
  <2>1. a \in Nat /\ c \in Nat /\ b = a + c
    BY <1>1
  <2>2. Alike(v[i], w[i], a, b)
    BY <1>3
  <2>. HIDE DEF v, w, a, b, c
  <2>3. PICK m \in Nat : v[i] = m * Fours(a) /\ w[i] = m * Fours(b)
    BY <2>2 DEF Alike
  <2>4. Fours(b) = Fours(a) * Fours(c) /\ Fours(a) \in Nat /\ Fours(c) \in Nat
    BY <2>1, FoursMultiply, FoursFacts
  <2>5. scale = Fours(c)
    BY DEF c
  <2>. DEFINE p == Fours(a)
              q == Fours(c)
  <2>6. v[i] = m * p /\ w[i] = m * (p * q) /\ p \in Nat /\ q \in Nat /\ scale = q
    BY <2>3, <2>4, <2>5
  <2>. HIDE DEF p, q
  <2>7. (m * p) * q = m * (p * q)
    BY <2>6
  <2>. QED  BY <2>6, <2>7
<1>5. ASSUME NEW k \in start .. n
      PROVE  /\ past[k].position = rows[k].position
             /\ past[k].before * scale = rows[k].before
  <2>1. k \in start .. Len(g) /\ k \in start .. Len(h) /\ k \in 0 .. n
    BY <1>1
  <2>. DEFINE i == IF k = start THEN 1 ELSE k - start
  <2>2. i \in 1 .. n - start
    BY <1>1
  <2>3. past[k].position = position[k] /\ past[k].before = v[i]
    <3>1. past[k].position = position[k] /\ past[k].before = IF k = start THEN v[1] ELSE v[k - start]
      <4>1. v = Wealth(g, position, start)
        OBVIOUS
      <4>. HIDE DEF v
      <4>. QED  BY <1>0, <2>1, <4>1, RowsFacts
    <3>. HIDE DEF v
    <3>. QED  BY <3>1
  <2>4. rows[k].position = later[k] /\ rows[k].before = w[i]
    <3>1. rows[k].position = later[k] /\ rows[k].before = IF k = start THEN w[1] ELSE w[k - start]
      <4>. HIDE DEF w
      <4>. QED  BY <1>1, <2>1, RowsFacts DEF w
    <3>. HIDE DEF w
    <3>. QED  BY <3>1
  <2>. HIDE DEF v, w, i
  <2>. QED  BY <1>2, <1>4, <2>1, <2>2, <2>3, <2>4
<1>6. ASSUME NEW k \in start .. n - 1
      PROVE  /\ past[k].signal = rows[k].signal
             /\ past[k].equity * scale = rows[k].equity
  <2>1. k \in start .. Len(g) /\ k \in start .. Len(h) /\ k \in 1 .. n - 1
    BY <1>1
  <2>. DEFINE i == k - start + 1
  <2>2. i \in 1 .. n - start
    BY <1>1
  <2>3. past[k].signal = Signals(g, s, start)[k] /\ past[k].equity = v[i]
    <3>. HIDE DEF v
    <3>. QED  BY <1>1, <2>1, RowsFacts DEF v
  <2>4. rows[k].signal = Signals(h, s, start)[k] /\ rows[k].equity = w[i]
    <3>. HIDE DEF w
    <3>. QED  BY <1>1, <2>1, RowsFacts DEF w
  <2>. HIDE DEF v, w, i
  <2>. QED  BY <1>2, <1>4, <2>1, <2>2, <2>3, <2>4
<1>. QED  BY <1>5, <1>6

LEMMA ExitsFacts ==
    ASSUME NEW rows, NEW a \in Nat, NEW b \in Nat, DOMAIN rows = a .. b, NEW e \in a .. b
    PROVE  /\ Exits(rows, e) \in SUBSET Int /\ IsFiniteSet(Exits(rows, e))
           /\ Exits(rows, e) # {} =>
                 /\ Min(Exits(rows, e)) \in Exits(rows, e)
                 /\ \A k \in Exits(rows, e) : Min(Exits(rows, e)) <= k
<1>1. Exits(rows, e) \subseteq a .. b
  BY DEF Exits
<1>2. IsFiniteSet(a .. b)
  BY FS_Interval
<1>3. Exits(rows, e) \in SUBSET Int /\ IsFiniteSet(Exits(rows, e))
  BY <1>1, <1>2, FS_Subset
<1>. QED  BY <1>3, ExtremesOf

\* A trade that is closed in a history that ends with row n is the same trade of
\* the longer one.
LEMMA TradeStays ==
    ASSUME NEW g, NEW h, NEW n, NEW s, NEW from, NEW start, NEW position, NEW later,
           Prefix(g, h, n, s, from, start, position, later),
           NEW past, past = Rows(g, s, from), NEW rows, rows = Rows(h, s, from),
           NEW scale, scale = Fours(Len(h) - n),
           NEW e \in Entries(past), Exits(past, e) # {}, End(g, past, e) < n
    PROVE  [Trade(g, past, e) EXCEPT !.pnl = @ * scale] = Trade(h, rows, e)
<1>. DEFINE X == Exits(past, e)
            Y == Exits(rows, e)
            a == Min(X)
            b == Min(Y)
<1>1. /\ Begins(g, h, n) /\ Backtest(g, s, from, start, position) /\ Backtest(h, s, from, start, later)
      /\ n \in Nat /\ n = Len(g) /\ n <= Len(h) /\ Len(h) \in Nat /\ start \in Nat
      /\ start < n /\ s \in Strategy
  BY StartType DEF Prefix, Begins, Backtest
<1>2. DOMAIN past = start .. n /\ DOMAIN rows = start .. Len(h)
  BY <1>1, RowsFacts
<1>3. e \in start .. n /\ e \in start .. Len(h)
  BY <1>1, <1>2 DEF Entries
<1>4. \A k \in start .. n : past[k].position = rows[k].position
  BY RowsAgree
<1>5. X = {k \in Y : k <= n}
  BY <1>1, <1>2, <1>4 DEF Exits
<1>6. X \subseteq Int /\ a \in X /\ \A k \in X : a <= k
  BY <1>1, <1>2, <1>3, ExitsFacts
<1>7. End(g, past, e) = a /\ a < n /\ a > e /\ a \in start .. n - 1
  <2>1. End(g, past, e) = a
    BY DEF End
  <2>2. a \in start .. n /\ a > e
    BY <1>2, <1>6 DEF Exits
  <2>3. a < n
    BY <2>1
  <2>. HIDE DEF a
  <2>. QED  BY <1>1, <2>1, <2>2, <2>3
<1>8. Y # {} /\ Y \subseteq Int /\ b \in Y /\ \A k \in Y : b <= k
  <2>1. Y # {}
    BY <1>5
  <2>. QED  BY <1>1, <1>2, <1>3, <2>1, ExitsFacts
<1>9. a = b /\ End(h, rows, e) = a
  <2>1. End(h, rows, e) = b
    BY <1>8 DEF End
  <2>. HIDE DEF a, b, X, Y
  <2>2. a \in Y /\ b <= a
    BY <1>5, <1>6, <1>8
  <2>3. b \in X
    BY <1>1, <1>5, <1>6, <1>7, <1>8, <2>2
  <2>. QED  BY <1>6, <1>8, <2>1, <2>2, <2>3
<1>. HIDE DEF a, b
<1>10. h[e].open = g[e].open
  <2>1. e \in 1 .. n - 1
    <3>1. start \in Nat \ {0}
      BY StartType DEF Prefix, Backtest
    <3>. QED  BY <1>1, <1>3, <1>7, <3>1
  <2>. QED  BY <1>1, <2>1 DEF Begins
<1>. DEFINE early == past[a].equity - past[e].before
            late  == rows[a].equity - rows[e].before
<1>11. early * scale = late
  <2>. DEFINE p == past[a].equity
              q == past[e].before
  <2>1. p * scale = rows[a].equity /\ q * scale = rows[e].before
    BY <1>3, <1>7, RowsAgree
  <2>2. p \in Nat /\ q \in Nat
    <3>1. a \in start .. Len(g) /\ e \in start .. Len(g)
      BY <1>1, <1>3, <1>7
    <3>2. \A k \in start .. Len(g) : past[k].equity \in Nat /\ past[k].before \in Nat
      BY <1>1, RowsFacts
    <3>. QED  BY <3>1, <3>2
  <2>3. scale \in Nat
    <3>1. Len(h) - n \in Nat
      BY <1>1
    <3>. QED  BY <3>1, FoursFacts
  <2>. HIDE DEF p, q
  <2>4. (p - q) * scale = p * scale - q * scale
    BY <2>2, <2>3
  <2>. QED  BY <2>1, <2>4 DEF p, q
<1>12. Trade(g, past, e) = [entry |-> e, price |-> g[e].open, closed |-> TRUE, end |-> a, pnl |-> early]
  BY <1>7, Zenon DEF Trade, EntryEquity
<1>13. Trade(h, rows, e) = [entry |-> e, price |-> h[e].open, closed |-> TRUE, end |-> a, pnl |-> late]
  BY <1>8, <1>9, Zenon DEF Trade, EntryEquity
<1>. HIDE DEF early, late
<1>14. [Trade(g, past, e) EXCEPT !.pnl = @ * scale]
         = [entry |-> e, price |-> g[e].open, closed |-> TRUE, end |-> a, pnl |-> early * scale]
  <2>. DEFINE yes == TRUE
              t == Trade(g, past, e)
  <2>1. t = [entry |-> e, price |-> g[e].open, closed |-> yes, end |-> a, pnl |-> early]
    BY <1>12
  <2>. HIDE DEF yes, t
  <2>2. [t EXCEPT !.pnl = @ * scale]
          = [entry |-> e, price |-> g[e].open, closed |-> yes, end |-> a, pnl |-> early * scale]
    BY <2>1
  <2>. QED  BY <2>2 DEF yes, t
<1>. QED  BY <1>10, <1>11, <1>13, <1>14

LEMMA EntriesAgree ==
    ASSUME NEW g, NEW h, NEW n, NEW s, NEW from, NEW start, NEW position, NEW later,
           Prefix(g, h, n, s, from, start, position, later),
           NEW past, past = Rows(g, s, from), NEW rows, rows = Rows(h, s, from)
    PROVE  Entries(past) = {e \in Entries(rows) : e <= n}
<1>1. /\ Backtest(g, s, from, start, position) /\ Backtest(h, s, from, start, later)
      /\ n \in Nat /\ n = Len(g) /\ n <= Len(h) /\ Len(h) \in Nat /\ start \in Nat
      /\ start < n /\ s \in Strategy
  BY StartType DEF Prefix, Begins, Backtest
<1>2. DOMAIN past = start .. n /\ DOMAIN rows = start .. Len(h)
  BY <1>1, RowsFacts
<1>3. \A k \in start .. n : past[k].position = rows[k].position
  BY RowsAgree
<1>4. ASSUME NEW k \in start .. n
      PROVE  k \in Entries(past) <=> k \in Entries(rows)
  <2>1. k \in start .. Len(h) /\ (k - 1 \in start .. n <=> k - 1 \in start .. Len(h))
    BY <1>1
  <2>2. past[k].position = rows[k].position
    BY <1>3
  <2>3. k - 1 \in start .. n => past[k - 1].position = rows[k - 1].position
    BY <1>3
  <2>. QED  BY <1>2, <2>1, <2>2, <2>3 DEF Entries
<1>5. Entries(past) = {e \in Entries(rows) : e <= n}
  <2>1. Entries(past) \subseteq start .. n /\ Entries(rows) \subseteq start .. Len(h)
    BY <1>2 DEF Entries
  <2>2. \A e \in start .. Len(h) : e <= n <=> e \in start .. n
    BY <1>1
  <2>. QED  BY <1>1, <1>4, <2>1, <2>2
<1>. QED  BY <1>5

LEMMA EntriesOfLedger ==
    ASSUME NEW h, NEW rows, NEW n
    PROVE  /\ {t.entry : t \in Ledger(h, rows)} = Entries(rows)
           /\ {t.entry : t \in {t \in Ledger(h, rows) : t.entry <= n}}
                = {e \in Entries(rows) : e <= n}
<1>1. \A e : Trade(h, rows, e).entry = e
  BY DEF Trade
<1>2. Ledger(h, rows) = {Trade(h, rows, e) : e \in Entries(rows)}
  BY DEF Ledger
<1>. QED  BY <1>1, <1>2

\* No backtest knows anything before it happened.
LEMMA NothingIsKnownEarly ==
    ASSUME NEW h \in Seq(Session), NEW s \in Strategy, NEW from \in Nat \ {0}
    PROVE  KnownInTime(h, s, from)
<1>. SUFFICES ASSUME NEW n \in 1 .. Len(h), NEW p \in Prices,
                     NEW g, g = EndingWith(h, n, p), CanRun(g, s, from),
                     NEW past, past = Rows(g, s, from), NEW rows, rows = Rows(h, s, from),
                     NEW scale, scale = Fours(Len(h) - n)
              PROVE  /\ past[n].position = rows[n].position
                     /\ past[n].before * scale = rows[n].before
                     /\ \A k \in Start(s, from) .. n - 1 :
                           /\ past[k].signal = rows[k].signal
                           /\ past[k].position = rows[k].position
                           /\ past[k].equity * scale = rows[k].equity
                     /\ {t.entry : t \in Ledger(g, past)}
                          = {t.entry : t \in {t \in Ledger(h, rows) : t.entry <= n}}
                     /\ \A t \in Ledger(g, past) : t.closed /\ t.end < n =>
                           [t EXCEPT !.pnl = @ * scale] \in Ledger(h, rows)
  BY DEF KnownInTime
<1>. DEFINE start == Start(s, from)
            position == Positions(g, s, start)
            later == Positions(h, s, start)
<1>1. Begins(g, h, n)
  BY EndingBegins
<1>2. g \in Seq(Session) /\ Len(g) = n /\ n \in Nat /\ n <= Len(h) /\ start < n
      /\ start \in Nat \ {0} /\ Len(h) \in Nat
  BY <1>1, StartType DEF Begins, CanRun
<1>3. Prefix(g, h, n, s, from, start, position, later)
  <2>1. Backtest(g, s, from, start, position)
    BY <1>2 DEF Backtest
  <2>2. Backtest(h, s, from, start, later)
    BY <1>2 DEF Backtest
  <2>. QED  BY <1>1, <2>1, <2>2 DEF Prefix
<1>. HIDE DEF position, later, start
<1>4. /\ \A k \in start .. n : past[k].position = rows[k].position
      /\ \A k \in start .. n : past[k].before * scale = rows[k].before
      /\ \A k \in start .. n - 1 : /\ past[k].signal = rows[k].signal
                                   /\ past[k].equity * scale = rows[k].equity
  BY <1>3, RowsAgree
<1>5. n \in start .. n /\ \A k \in start .. n - 1 : k \in start .. n
  BY <1>2
<1>6. {t.entry : t \in Ledger(g, past)}
        = {t.entry : t \in {t \in Ledger(h, rows) : t.entry <= n}}
  <2>1. Entries(past) = {e \in Entries(rows) : e <= n}
    BY <1>3, EntriesAgree
  <2>2. {t.entry : t \in Ledger(g, past)} = Entries(past)
    BY EntriesOfLedger
  <2>3. {t.entry : t \in {t \in Ledger(h, rows) : t.entry <= n}} = {e \in Entries(rows) : e <= n}
    BY EntriesOfLedger
  <2>. QED  BY <2>1, <2>2, <2>3
<1>7. ASSUME NEW t \in Ledger(g, past), t.closed, t.end < n
      PROVE  [t EXCEPT !.pnl = @ * scale] \in Ledger(h, rows)
  <2>1. PICK e \in Entries(past) : t = Trade(g, past, e)
    BY DEF Ledger
  <2>2. Exits(past, e) # {} /\ End(g, past, e) < n
    BY <1>7, <2>1 DEF Trade
  <2>3. [t EXCEPT !.pnl = @ * scale] = Trade(h, rows, e)
    BY <1>3, <2>1, <2>2, TradeStays
  <2>4. e \in Entries(rows)
    BY <1>3, EntriesAgree
  <2>. QED  BY <2>3, <2>4 DEF Ledger
<1>. QED  BY <1>4, <1>5, <1>6, <1>7 DEF start

-----------------------------------------------------------------------------
\* The ledger explains the equity curve.

\* What each row gains
Gained(rows) == [k \in DOMAIN rows |-> rows[k].equity - rows[k].before]

\* Rows from a to b, each of which begins with what the one before it ended with
Connected(rows, a, b) ==
    /\ a \in Nat /\ b \in Nat /\ a <= b /\ DOMAIN rows = a .. b
    /\ \A k \in a .. b : rows[k].equity \in Int /\ rows[k].before \in Int
    /\ \A k \in a + 1 .. b : rows[k].before = rows[k - 1].equity

\* The gains of consecutive rows add up to what lies between their ends.
LEMMA GainsTelescope ==
    ASSUME NEW rows, NEW a, NEW b, Connected(rows, a, b), NEW i \in a .. b, NEW j \in i .. b
    PROVE  SumFunctionOnSet(Gained(rows), i .. j) = rows[j].equity - rows[i].before
<1>. DEFINE f == Gained(rows)
            F == {n \in Nat : i + n <= b =>
                     SumFunctionOnSet(f, i .. i + n) = rows[i + n].equity - rows[i].before}
<1>1. a \in Nat /\ b \in Nat /\ i \in Nat /\ i >= a /\ i <= b
  BY DEF Connected
<1>2. \A k \in a .. b : /\ f[k] = rows[k].equity - rows[k].before
                        /\ rows[k].equity \in Int /\ rows[k].before \in Int /\ f[k] \in Int
  BY DEF Connected, Gained
<1>. HIDE DEF f
<1>3. 0 \in F
  <2>1. i .. i + 0 = {i} /\ i + 0 = i
    BY <1>1
  <2>2. f[i] = rows[i].equity - rows[i].before /\ f[i] \in Int
    BY <1>2
  <2>3. SumFunctionOnSet(f, {i}) = f[i]
    BY <2>2, SumOfOne
  <2>4. SumFunctionOnSet(f, i .. i + 0) = rows[i + 0].equity - rows[i].before
    BY <2>1, <2>2, <2>3
  <2>. QED  BY <2>4
<1>4. ASSUME NEW n \in Nat, n \in F PROVE n + 1 \in F
  <2>. SUFFICES ASSUME i + (n + 1) <= b
                PROVE  SumFunctionOnSet(f, i .. i + (n + 1))
                         = rows[i + (n + 1)].equity - rows[i].before
    OBVIOUS
  <2>. DEFINE m == i + n
              k == i + (n + 1)
  <2>1. /\ m \in a .. b /\ k \in a .. b /\ k = m + 1 /\ k - 1 = m /\ k \in a + 1 .. b /\ m <= b
        /\ m \in Nat /\ k \in Nat /\ i <= m
    BY <1>1
  <2>2. SumFunctionOnSet(f, i .. m) = rows[m].equity - rows[i].before
    BY <1>4, <2>1
  <2>. HIDE DEF m, k, F
  <2>3. i .. k = (i .. m) \cup {k} /\ k \notin i .. m /\ IsFiniteSet(i .. m)
    <3>1. i .. k = (i .. m) \cup {k} /\ k \notin i .. m
      BY <1>1, <2>1
    <3>2. IsFiniteSet(i .. m)
      BY <1>1, <2>1, FS_Interval
    <3>. QED  BY <3>1, <3>2
  <2>4. \A x \in (i .. m) \cup {k} : f[x] \in Int
    BY <1>1, <1>2, <2>1
  <2>5. SumFunctionOnSet(f, (i .. m) \cup {k}) = f[k] + SumFunctionOnSet(f, i .. m)
    BY <2>3, <2>4, SumPutsIn
  <2>6. rows[k].before = rows[m].equity
    BY <2>1 DEF Connected
  <2>. DEFINE p == rows[i].before
              q == rows[m].equity
              r == rows[k].equity
  <2>7. p \in Int /\ q \in Int /\ r \in Int /\ f[k] = r - q
    BY <1>2, <2>1, <2>6
  <2>8. SumFunctionOnSet(f, i .. k) = (r - q) + (q - p)
    BY <2>2, <2>3, <2>5, <2>7
  <2>9. (r - q) + (q - p) = r - p
    <3>. HIDE DEF p, q, r
    <3>. QED  BY <2>7
  <2>10. SumFunctionOnSet(f, i .. k) = r - p
    BY <2>8, <2>9
  <2>. QED  BY <2>10 DEF k
<1>5. j - i \in Nat /\ i + (j - i) = j /\ j <= b
  BY <1>1
<1>6. j - i \in F
  <2>. HIDE DEF F
  <2>1. Nat \subseteq F
    BY <1>3, <1>4, NatInductionOnSet
  <2>. QED  BY <1>5, <2>1
<1>7. SumFunctionOnSet(f, i .. j) = rows[j].equity - rows[i].before
  BY <1>5, <1>6
<1>. QED  BY <1>7 DEF f

\* A trade ends where it begins or later, and before the next one begins.
LEMMA TradesInOrder ==
    ASSUME NEW h, NEW rows, NEW a, NEW b, Connected(rows, a, b), b = Len(h),
           NEW d \in Entries(rows)
    PROVE  /\ d \in a .. b /\ End(h, rows, d) \in d .. b
           /\ \A e \in Entries(rows) : e > d => End(h, rows, d) < e
<1>1. DOMAIN rows = a .. b /\ a \in Nat /\ b \in Nat
  BY DEF Connected
<1>2. d \in a .. b /\ rows[d].position # 0
  BY <1>1 DEF Entries
<1>. DEFINE X == Exits(rows, d)
            x == Min(X)
<1>3. X # {} => x \in X /\ \A k \in X : x <= k
  BY <1>1, <1>2, ExitsFacts
<1>4. X \subseteq d + 1 .. b
  BY <1>1, <1>2 DEF Exits
<1>5. End(h, rows, d) = IF X = {} THEN b ELSE x
  BY DEF End
<1>6. ASSUME NEW e \in Entries(rows), e > d
      PROVE  X # {} /\ x < e
  <2>1. e \in a .. b /\ (e - 1 \in a .. b => rows[e - 1].position = 0)
    BY <1>1 DEF Entries
  <2>2. e - 1 \in a .. b
    BY <1>1, <1>2, <1>6, <2>1
  <2>3. e - 1 # d
    BY <1>2, <2>1, <2>2
  <2>4. e - 1 > d
    BY <1>1, <1>2, <1>6, <2>1, <2>3
  <2>5. e - 1 \in X
    BY <1>1, <2>1, <2>2, <2>4 DEF Exits
  <2>6. x \in X /\ x <= e - 1
    BY <1>3, <2>5
  <2>. HIDE DEF x, X
  <2>7. x \in Int
    BY <1>1, <1>2, <1>4, <2>6
  <2>. QED  BY <2>1, <2>5, <2>6, <2>7
<1>. HIDE DEF x, X
<1>7. End(h, rows, d) \in d .. b
  <2>1. CASE X = {}
    BY <1>1, <1>2, <1>5, <2>1
  <2>2. CASE X # {}
    <3>1. x \in d + 1 .. b /\ End(h, rows, d) = x
      BY <1>3, <1>4, <1>5, <2>2
    <3>. QED  BY <1>1, <1>2, <3>1
  <2>. QED  BY <2>1, <2>2
<1>. QED  BY <1>2, <1>5, <1>6, <1>7

LEMMA RowsAreConnected ==
    ASSUME NEW h, NEW s, NEW from, NEW start, NEW position, Backtest(h, s, from, start, position),
           NEW rows, rows = Rows(h, s, from)
    PROVE  Connected(rows, start, Len(h))
<1>1. start \in Nat /\ Len(h) \in Nat /\ start < Len(h)
  BY StartType DEF Backtest
<1>2. /\ DOMAIN rows = start .. Len(h)
      /\ \A k \in start .. Len(h) : rows[k].equity \in Nat /\ rows[k].before \in Nat
  BY RowsFacts
<1>3. \A k \in start + 1 .. Len(h) : rows[k].before = rows[k - 1].equity
  BY RowsConnect
<1>. QED  BY <1>1, <1>2, <1>3 DEF Connected

LEMMA LedgerExplains ==
    ASSUME NEW h \in Seq(Session), NEW s \in Strategy, NEW from \in Nat \ {0}
    PROVE  LedgerExplainsCurve(h, s, from)
<1>. SUFFICES ASSUME CanRun(h, s, from),
                     NEW rows, rows = Rows(h, s, from), NEW trades, trades = Ledger(h, rows),
                     NEW covered, covered = UNION {t.entry .. t.end : t \in trades},
                     NEW idle, idle = DOMAIN rows \ covered
              PROVE  /\ rows[Len(h)].equity - Unit(h, Start(s, from)) =
                           SumFunction([t \in trades |-> t.pnl])
                           + SumFunction([k \in idle |-> rows[k].equity - rows[k].before])
                     /\ \A t, u \in trades : t # u => (t.entry .. t.end) \cap (u.entry .. u.end) = {}
  BY DEF LedgerExplainsCurve
<1>. DEFINE start == Start(s, from)
            position == Positions(h, s, start)
            b == Len(h)
            part == [t \in trades |-> t.entry .. t.end]
            f == Gained(rows)
            pnl == [t \in trades |-> t.pnl]
<1>1. Backtest(h, s, from, start, position)
  BY DEF CanRun, Backtest
<1>. HIDE DEF position, start
<1>2. Connected(rows, start, b)
  BY <1>1, RowsAreConnected
<1>3. /\ DOMAIN rows = start .. b /\ start \in Nat /\ b \in Nat /\ start <= b
      /\ rows[start].before = Unit(h, start)
      /\ \A k \in start .. b : /\ f[k] \in Int /\ f[k] = rows[k].equity - rows[k].before
                               /\ rows[k].equity \in Int /\ rows[k].before \in Int
  <2>1. rows[start].before = Unit(h, start)
    BY <1>1, RowsFacts
  <2>. QED  BY <1>2, <2>1 DEF Connected, Gained
<1>4. ASSUME NEW t \in trades
      PROVE  \E e \in Entries(rows) : /\ t = Trade(h, rows, e) /\ t.entry = e
                                      /\ t.end = End(h, rows, e)
                                      /\ t.pnl = rows[t.end].equity - rows[t.entry].before
                                      /\ t.entry \in start .. b /\ t.end \in t.entry .. b
                                      /\ \A d \in Entries(rows) : d > e => t.end < d
  <2>1. PICK e \in Entries(rows) : t = Trade(h, rows, e)
    BY DEF Ledger
  <2>2. /\ t.entry = e /\ t.end = End(h, rows, e)
        /\ t.pnl = rows[t.end].equity - rows[t.entry].before
    BY <2>1 DEF Trade, EntryEquity
  <2>. QED  BY <1>2, <2>1, <2>2, TradesInOrder
<1>5. ASSUME NEW t \in trades, NEW u \in trades, t # u
      PROVE  (t.entry .. t.end) \cap (u.entry .. u.end) = {}
  <2>1. PICK d \in Entries(rows) : /\ t = Trade(h, rows, d) /\ t.entry = d
                                   /\ t.entry \in start .. b /\ t.end \in t.entry .. b
                                   /\ \A e \in Entries(rows) : e > d => t.end < e
    BY <1>4
  <2>2. PICK e \in Entries(rows) : /\ u = Trade(h, rows, e) /\ u.entry = e
                                   /\ u.entry \in start .. b /\ u.end \in u.entry .. b
                                   /\ \A c \in Entries(rows) : c > e => u.end < c
    BY <1>4
  <2>3. d # e
    BY <1>5, <2>1, <2>2
  <2>4. CASE d < e
    BY <1>3, <2>1, <2>2, <2>4
  <2>5. CASE e < d
    BY <1>3, <2>1, <2>2, <2>5
  <2>. QED  BY <1>3, <2>1, <2>2, <2>3, <2>4, <2>5
<1>6. IsFiniteSet(trades)
  <2>. DEFINE g == [e \in Entries(rows) |-> Trade(h, rows, e)]
  <2>1. g \in Surjection(Entries(rows), trades)
    BY DEF Ledger, Surjection
  <2>2. Entries(rows) \subseteq start .. b
    BY <1>3 DEF Entries
  <2>3. IsFiniteSet(Entries(rows))
    <3>1. IsFiniteSet(start .. b)
      BY <1>3, FS_Interval
    <3>. QED  BY <2>2, <3>1, FS_Subset
  <2>. HIDE DEF g
  <2>. QED  BY <2>1, <2>3, FS_Surjection
<1>7. ASSUME NEW t \in trades
      PROVE  /\ part[t] \subseteq start .. b /\ IsFiniteSet(part[t])
             /\ pnl[t] = SumFunctionOnSet(f, part[t])
  <2>1. /\ t.pnl = rows[t.end].equity - rows[t.entry].before
        /\ t.entry \in start .. b /\ t.end \in t.entry .. b
    BY <1>4
  <2>2. part[t] = t.entry .. t.end /\ pnl[t] = t.pnl
    OBVIOUS
  <2>3. SumFunctionOnSet(f, t.entry .. t.end) = rows[t.end].equity - rows[t.entry].before
    BY <1>2, <2>1, GainsTelescope
  <2>4. t.entry .. t.end \subseteq start .. b /\ IsFiniteSet(t.entry .. t.end)
    <3>. DEFINE first == t.entry
                last  == t.end
    <3>1. first \in start .. b /\ last \in first .. b
      BY <2>1
    <3>. HIDE DEF first, last
    <3>2. first .. last \subseteq start .. b /\ first \in Int /\ last \in Int
      BY <1>3, <3>1
    <3>3. IsFiniteSet(first .. last)
      BY <3>2, FS_Interval
    <3>. QED  BY <3>2, <3>3 DEF first, last
  <2>. QED  BY <2>1, <2>2, <2>3, <2>4
<1>8. \A k : k \in covered <=> \E t \in trades : k \in part[t]
  OBVIOUS
<1>9. \A t, u \in trades : t # u => part[t] \cap part[u] = {}
  BY <1>5
<1>. HIDE DEF part, pnl, f
<1>10. IsFiniteSet(covered) /\ SumFunctionOnSet(f, covered) = SumFunctionOnSet(pnl, trades)
  <2>1. \A t \in trades : \A k \in part[t] : f[k] \in Int
    BY <1>3, <1>7
  <2>2. \A t \in trades : IsFiniteSet(part[t])
    BY <1>7
  <2>3. \A t \in trades : pnl[t] = SumFunctionOnSet(f, part[t])
    BY <1>7
  <2>5. \A t, u \in trades : t # u => part[t] \cap part[u] = {}
    BY <1>9
  <2>. QED  BY ONLY <1>6, <1>8, <2>1, <2>2, <2>3, <2>5, SumOfParts, SMTT(60)
<1>11. /\ covered \cup idle = start .. b /\ covered \cap idle = {}
       /\ IsFiniteSet(idle) /\ idle \subseteq start .. b
  <2>1. covered \subseteq start .. b
    BY <1>7, <1>8
  <2>2. IsFiniteSet(start .. b)
    BY <1>3, FS_Interval
  <2>. QED  BY <1>3, <2>1, <2>2, FS_Subset
<1>12. SumFunctionOnSet(f, covered \cup idle)
         = SumFunctionOnSet(f, covered) + SumFunctionOnSet(f, idle)
  <2>1. \A x \in covered \cup idle : f[x] \in Int
    BY <1>3, <1>11
  <2>. QED  BY <1>10, <1>11, <2>1, SumOfUnion
<1>13. SumFunctionOnSet(f, start .. b) = rows[b].equity - Unit(h, start)
  <2>1. start \in start .. b /\ b \in start .. b
    BY <1>3
  <2>2. SumFunctionOnSet(Gained(rows), start .. b) = rows[b].equity - rows[start].before
    BY <1>2, <2>1, GainsTelescope
  <2>. QED  BY <1>3, <2>2 DEF f
<1>14. SumFunction([k \in idle |-> rows[k].equity - rows[k].before]) = SumFunctionOnSet(f, idle)
  <2>. DEFINE g == [k \in idle |-> rows[k].equity - rows[k].before]
  <2>1. SumFunction(g) = SumFunctionOnSet(g, idle)
    BY DEF SumFunction
  <2>2. \A k \in idle : g[k] = f[k]
    BY <1>3, <1>11
  <2>. HIDE DEF g
  <2>3. SumFunctionOnSet(g, idle) = SumFunctionOnSet(f, idle)
    BY <1>11, <2>2, SumsEqual
  <2>. QED  BY <2>1, <2>3 DEF g
<1>15. SumFunction([t \in trades |-> t.pnl]) = SumFunctionOnSet(pnl, trades)
  BY DEF SumFunction, pnl
<1>16. rows[b].equity - Unit(h, start) =
         SumFunction([t \in trades |-> t.pnl])
         + SumFunction([k \in idle |-> rows[k].equity - rows[k].before])
  BY <1>10, <1>11, <1>12, <1>13, <1>14, <1>15
<1>. QED  BY <1>5, <1>16 DEF start

-----------------------------------------------------------------------------
\* The windows of a history are given by its length, and none reaches the final test.

LEMMA ProductGrows ==
    ASSUME NEW m \in Nat, NEW n \in Nat, m <= n, NEW q \in Nat
    PROVE  m * q \in Nat /\ n * q \in Nat /\ m * q <= n * q
<1>1. n * q = m * q + (n - m) * q
  OBVIOUS
<1>2. n - m \in Nat
  OBVIOUS
<1>3. m * q \in Nat /\ n * q \in Nat /\ (n - m) * q \in Nat
  BY <1>2
<1>. QED  BY <1>1, <1>3

LEMMA HistoryType ==
    ASSUME NEW h \in Histories
    PROVE  /\ h \in Seq(Session) /\ Len(h) \in Nat
           /\ TrainingEnd(h) \in Nat /\ DevelopmentEnd(h) \in Nat
           /\ FinalStart(h) = DevelopmentEnd(h) + 1
<1>1. h \in Seq(Session) /\ Len(h) \in Nat
  BY SearchAssumption
<1>2. TrainingPercent \in Nat /\ 100 - FinalPercent \in Nat
  BY SearchAssumption
<1>3. Len(h) * TrainingPercent \in Nat /\ Len(h) * (100 - FinalPercent) \in Nat
  BY <1>1, <1>2, ProductGrows
<1>4. TrainingEnd(h) \in Nat /\ DevelopmentEnd(h) \in Nat
  <2>. DEFINE t == Len(h) * TrainingPercent
              d == Len(h) * (100 - FinalPercent)
  <2>. HIDE DEF t, d
  <2>1. t \in Nat /\ d \in Nat
    BY <1>3 DEF t, d
  <2>2. t \div 100 \in Nat /\ d \div 100 \in Nat
    BY <2>1
  <2>. QED  BY <2>2 DEF TrainingEnd, DevelopmentEnd, t, d
<1>5. FinalStart(h) = DevelopmentEnd(h) + 1
  BY DEF FinalStart, DevelopmentEnd
<1>. QED  BY <1>1, <1>4, <1>5

\* The last fold ends where development ends.
LEMMA FoldsEndInTime ==
    ASSUME NEW h \in Histories, CanSplit(h), NEW n \in 0 .. Folds
    PROVE  FoldEnd(h, n) \in Nat /\ FoldEnd(h, n) <= DevelopmentEnd(h)
<1>. DEFINE rows  == DevelopmentEnd(h) - TrainingEnd(h)
            whole == rows \div Folds
            rest  == rows % Folds
            least == Min({n, rest})
<1>1. /\ TrainingEnd(h) \in Nat /\ DevelopmentEnd(h) \in Nat /\ rows \in Nat
      /\ Folds \in Nat \ {0} /\ n \in Nat /\ n <= Folds
  <2>1. TrainingEnd(h) \in Nat /\ DevelopmentEnd(h) \in Nat
    BY HistoryType
  <2>2. TrainingEnd(h) < DevelopmentEnd(h)
    BY DEF CanSplit
  <2>3. Folds \in Nat \ {0} /\ n \in Nat /\ n <= Folds
    BY SearchAssumption
  <2>. QED  BY <2>1, <2>2, <2>3
<1>. HIDE DEF rows
<1>2. whole \in Nat /\ rest \in Nat /\ rows = Folds * whole + rest
  BY <1>1
<1>3. least \in Nat /\ least <= rest
  <2>. HIDE DEF rest, whole
  <2>1. n \in Int /\ rest \in Int /\ n \in Nat /\ rest \in Nat
    BY <1>1, <1>2
  <2>. HIDE DEF least
  <2>2. least \in {n, rest} /\ least <= rest
    BY <2>1, MinOfTwo DEF least
  <2>. QED  BY <2>1, <2>2
<1>4. FoldEnd(h, n) = TrainingEnd(h) + n * whole + least
  BY DEF FoldEnd, rows
<1>. HIDE DEF whole, rest, least
<1>5. n * whole \in Nat /\ Folds * whole \in Nat /\ n * whole <= Folds * whole
  BY <1>1, <1>2, ProductGrows
<1>6. DevelopmentEnd(h) = TrainingEnd(h) + rows
  BY <1>1 DEF rows
<1>. QED  BY <1>1, <1>2, <1>3, <1>4, <1>5, <1>6

LEMMA SameLengthSameWindows ==
    ASSUME NEW g, NEW h, Len(g) = Len(h)
    PROVE  Windows(g) = Windows(h)
<1>1. TrainingEnd(g) = TrainingEnd(h) /\ DevelopmentEnd(g) = DevelopmentEnd(h)
  BY DEF TrainingEnd, DevelopmentEnd
<1>2. \A n : FoldEnd(g, n) = FoldEnd(h, n)
  BY <1>1 DEF FoldEnd
<1>. QED  BY <1>2 DEF Windows

\* Two histories that agree up to a session agree on every segment up to it.
LEMMA SameBeginningSameSegment ==
    ASSUME NEW S, NEW g \in Seq(S), NEW h \in Seq(S), NEW end \in Nat,
           end <= Len(g), end <= Len(h), SubSeq(g, 1, end) = SubSeq(h, 1, end),
           NEW first \in Nat \ {0}, NEW last \in Nat, last <= end
    PROVE  SubSeq(g, first, last) = SubSeq(h, first, last)
<1>1. \A i \in 1 .. end : g[i] \in S /\ h[i] \in S /\ g[i] = h[i]
  <2>1. \A i \in 1 .. end : g[i] \in S /\ h[i] \in S
    OBVIOUS
  <2>2. /\ \A i \in 1 .. end - 1 + 1 : SubSeq(g, 1, end)[i] = g[1 + i - 1]
        /\ \A i \in 1 .. end - 1 + 1 : SubSeq(h, 1, end)[i] = h[1 + i - 1]
    BY <2>1, SubSeqProperties
  <2>3. ASSUME NEW i \in 1 .. end PROVE g[i] = h[i]
    <3>1. i \in 1 .. end - 1 + 1 /\ 1 + i - 1 = i
      OBVIOUS
    <3>. QED  BY <2>2, <3>1
  <2>. QED  BY <2>1, <2>3
<1>2. \A i \in first .. last : g[i] \in S /\ h[i] \in S
  BY <1>1
<1>3. /\ SubSeq(g, first, last) \in Seq(S) /\ SubSeq(h, first, last) \in Seq(S)
      /\ Len(SubSeq(g, first, last)) = IF first <= last THEN last - first + 1 ELSE 0
      /\ Len(SubSeq(h, first, last)) = IF first <= last THEN last - first + 1 ELSE 0
      /\ \A i \in 1 .. last - first + 1 : SubSeq(g, first, last)[i] = g[first + i - 1]
      /\ \A i \in 1 .. last - first + 1 : SubSeq(h, first, last)[i] = h[first + i - 1]
  BY <1>2, SubSeqProperties
<1>4. ASSUME NEW i \in 1 .. Len(SubSeq(g, first, last))
      PROVE  SubSeq(g, first, last)[i] = SubSeq(h, first, last)[i]
  <2>1. i \in 1 .. last - first + 1 /\ first + i - 1 \in 1 .. end
    BY <1>3
  <2>. QED  BY <1>1, <1>3, <2>1
<1>. QED  BY <1>3, <1>4, SeqEqual

\* What the search makes of a candidate, from the windows and their segments
Judgement(windows, fold, s) ==
    IF \A n \in 1 .. Folds : CanRun(fold[n], s, Begin(windows[n]))
    THEN [ok    |-> TRUE,
          score |-> Median([n \in 1 .. Folds |-> Score(Rows(fold[n], s, Begin(windows[n])))])]
    ELSE Rejected

Segments(h) == [n \in 1 .. Folds |-> Segment(h, Windows(h)[n])]

LEMMA BeginningDecides ==
    ASSUME NEW g \in Histories, NEW h \in Histories, CanSplit(g), CanSplit(h),
           Len(g) = Len(h),
           SubSeq(g, 1, FinalStart(h) - 1) = SubSeq(h, 1, FinalStart(h) - 1),
           NEW s
    PROVE  Evaluation(g, s) = Evaluation(h, s)
<1>1. Windows(g) = Windows(h)
  BY SameLengthSameWindows
<1>2. /\ g \in Seq(Session) /\ h \in Seq(Session) /\ Len(h) \in Nat
      /\ DevelopmentEnd(h) \in Nat /\ DevelopmentEnd(h) < Len(h)
      /\ FinalStart(h) - 1 = DevelopmentEnd(h)
  <2>1. /\ g \in Seq(Session) /\ h \in Seq(Session) /\ Len(h) \in Nat
        /\ DevelopmentEnd(h) \in Nat /\ FinalStart(h) = DevelopmentEnd(h) + 1
    BY HistoryType
  <2>. QED  BY <2>1 DEF CanSplit
<1>3. ASSUME NEW n \in 1 .. Folds
      PROVE  Segment(g, Windows(g)[n]) = Segment(h, Windows(h)[n])
  <2>. DEFINE w     == Windows(h)[n]
              first == Max({1, w.first - Warmup})
  <2>1. w = [first |-> FoldEnd(h, n - 1) + 1, last |-> FoldEnd(h, n)]
    BY DEF Windows
  <2>2. n - 1 \in 0 .. Folds /\ n \in 0 .. Folds
    BY SearchAssumption
  <2>3. /\ FoldEnd(h, n - 1) \in Nat
        /\ FoldEnd(h, n) \in Nat /\ FoldEnd(h, n) <= DevelopmentEnd(h)
    BY <2>2, FoldsEndInTime
  <2>4. /\ w.first = FoldEnd(h, n - 1) + 1
        /\ w.last \in Nat /\ w.last <= DevelopmentEnd(h)
    BY <2>1, <2>3
  <2>. HIDE DEF w
  <2>5. first \in Nat \ {0}
    <3>1. w.first - Warmup \in Int
      BY <2>3, <2>4, SearchAssumption
    <3>. DEFINE m == w.first - Warmup
    <3>2. 1 \in Int /\ m \in Int
      BY <3>1
    <3>. HIDE DEF m
    <3>3. Max({1, m}) \in {1, m} /\ Max({1, m}) >= 1
      BY <3>2, MaxOfTwo
    <3>4. Max({1, m}) \in Nat \ {0}
      BY <3>2, <3>3
    <3>. QED  BY <3>4 DEF m
  <2>. HIDE DEF first
  <2>6. SubSeq(g, first, w.last) = SubSeq(h, first, w.last)
    <3>1. /\ DevelopmentEnd(h) <= Len(g) /\ DevelopmentEnd(h) <= Len(h)
          /\ SubSeq(g, 1, DevelopmentEnd(h)) = SubSeq(h, 1, DevelopmentEnd(h))
      BY <1>2
    <3>. DEFINE end  == DevelopmentEnd(h)
                last == w.last
    <3>2. /\ end \in Nat /\ end <= Len(g) /\ end <= Len(h)
          /\ SubSeq(g, 1, end) = SubSeq(h, 1, end)
          /\ last \in Nat /\ last <= end
      BY <1>2, <2>4, <3>1
    <3>. HIDE DEF end, last
    <3>3. SubSeq(g, first, last) = SubSeq(h, first, last)
      BY <1>2, <2>5, <3>2, SameBeginningSameSegment
    <3>. QED  BY <3>3 DEF last
  <2>. QED  BY <1>1, <2>6 DEF Segment, w, first
<1>4. Segments(g) = Segments(h)
  BY <1>3 DEF Segments
<1>5. /\ Evaluation(g, s) = Judgement(Windows(g), Segments(g), s)
      /\ Evaluation(h, s) = Judgement(Windows(h), Segments(h), s)
  BY Zenon DEF Evaluation, Judgement, Segments
<1>. QED  BY <1>1, <1>4, <1>5

-----------------------------------------------------------------------------
\* Types, and where a search is at each position of its route and its thread

Position == {"none", "loading", "loaded", "refused", "searching", "trying", "stopped",
             "tested", "saved", "done", "lost"}

Working == {"loading", "loaded", "refused", "searching", "trying", "stopped", "tested", "saved"}

Judging == {"searching", "trying", "tested"}

Judgements == {Worth[h][i] : h \in Searchable, i \in DOMAIN Grid}

Attempt == [candidate : DOMAIN Grid,
            ok : {e.ok : e \in Judgements}, score : {e.score : e \in Judgements}]

TypeOK ==
    /\ job \in [Jobs -> JobRow]
    /\ pc \in [Jobs -> Position]
    /\ guided \in [Jobs -> BOOLEAN]
    /\ history \in [Jobs -> Histories \cup {<< >>}]
    /\ attempts \in [Jobs -> Seq(Attempt)]
    /\ asked \in [Jobs -> Nat \cup {None}]

\* The row and the attempts of a search at each position.  The share it has
\* reported is that of the attempts it has made.
RouteOf(j) ==
    /\ pc[j] = "none" => job[j] = AbsentRow /\ asked[j] = None
    /\ pc[j] \in {"none", "loading", "loaded"} => attempts[j] = << >>
    /\ pc[j] \in {"loading", "loaded"} => job[j].progress = 0
    /\ pc[j] \in Working => job[j].status = "running"
    /\ pc[j] = "loaded" => history[j] \in Histories
    /\ pc[j] \in Judging => history[j] \in Searchable
    /\ pc[j] = "searching" => Len(attempts[j]) <= Trials(j)
    /\ pc[j] = "trying" => Len(attempts[j]) < Trials(j)
    /\ pc[j] \in {"searching", "trying"} =>
          job[j].progress <= Clamp(Share(Len(attempts[j]), Trials(j)))
    /\ pc[j] \in {"tested", "saved"} => Len(attempts[j]) = Trials(j)
    /\ job[j].status = "completed" => pc[j] = "done" /\ Len(attempts[j]) = Trials(j)

\* A request is seen before the next attempt but one.
StopOf(j) ==
    asked[j] # None =>
        /\ job[j].cancel
        /\ Len(attempts[j]) <= asked[j] + 1
        /\ pc[j] = "trying" => Len(attempts[j]) <= asked[j]

\* Every attempt is what its candidate is worth on the history that is searched.
JudgedOf(j) ==
    pc[j] \in Judging =>
        \A n \in DOMAIN attempts[j] :
            LET a == attempts[j][n]
            IN  /\ a.candidate \in DOMAIN Grid
                /\ a.ok = Worth[history[j]][a.candidate].ok
                /\ a.score = Worth[history[j]][a.candidate].score

SearchOf(j) == RouteOf(j) /\ StopOf(j) /\ JudgedOf(j)

SearchInv == TypeOK /\ \A j \in Jobs : SearchOf(j)

\* One step of one search
StepOf(j) == Post(j) \/ Cancel(j) \/ Raise(j) \/ Step(j)

LEMMA RowType ==
    ASSUME NEW row \in JobRow
    PROVE  /\ \A p \in Int : WithProgress(row, p) \in JobRow
           /\ WithResult(row, "completed") \in JobRow
           /\ \A b \in BOOLEAN : WithError(row, b) \in JobRow
           /\ CancelRequested(row) \in JobRow
           /\ AbsentRow \in JobRow /\ NewRow \in JobRow
<1>1. ASSUME NEW p \in Int
      PROVE  WithProgress(row, p) \in JobRow
  <2>1. Clamp(p) \in 0 .. Whole
    BY WholeAssumption DEF Clamp
  <2>. QED  BY <2>1 DEF WithProgress, JobRow
<1>2. WithResult(row, "completed") \in JobRow
  <2>1. Whole \in 0 .. Whole /\ "completed" \in JobStatus
    BY WholeAssumption DEF JobStatus, FinalStatus
  <2>. QED  BY <2>1 DEF WithResult, JobRow
<1>3. ASSUME NEW b \in BOOLEAN
      PROVE  WithError(row, b) \in JobRow
  BY DEF WithError, JobRow, JobStatus, FinalStatus
<1>4. CancelRequested(row) \in JobRow
  BY DEF CancelRequested, JobRow
<1>5. AbsentRow \in JobRow /\ NewRow \in JobRow
  <2>1. 0 \in 0 .. Whole
    BY WholeAssumption
  <2>. QED  BY <2>1 DEF AbsentRow, NewRow, JobRow, JobStatus, FinalStatus
<1>. QED  BY <1>1, <1>2, <1>3, <1>4, <1>5

LEMMA TrialCounts ==
    LET most == Min({MaxTrials, Len(Grid)})
    IN  /\ Len(Grid) \in Nat \ {0} /\ DOMAIN Grid = 1 .. Len(Grid)
        /\ most \in Nat \ {0} /\ most <= Len(Grid)
<1>1. Grid \in Seq(Strategy) /\ Grid # << >> /\ MaxTrials \in Nat \ {0}
  BY SearchAssumption
<1>2. Len(Grid) \in Nat \ {0} /\ DOMAIN Grid = 1 .. Len(Grid)
  BY <1>1, EmptySeq
<1>. DEFINE l == Len(Grid)
<1>3. MaxTrials \in Nat \ {0} /\ l \in Nat \ {0}
  BY <1>1, <1>2
<1>. HIDE DEF l
<1>4. Min({MaxTrials, l}) \in {MaxTrials, l} /\ Min({MaxTrials, l}) <= l
  BY <1>3, MinOfTwo
<1>5. Min({MaxTrials, l}) \in Nat \ {0}
  BY <1>3, <1>4
<1>. QED  BY <1>2, <1>4, <1>5 DEF l

LEMMA TrialsType ==
    ASSUME NEW j \in Jobs
    PROVE  /\ Trials(j) \in Nat \ {0} /\ Trials(j) <= Len(Grid)
           /\ ~guided[j] => Trials(j) = Len(Grid)
           /\ Len(Grid) \in Nat \ {0} /\ DOMAIN Grid = 1 .. Len(Grid)
  BY TrialCounts DEF Trials

LEMMA ShareType ==
    ASSUME NEW done \in Nat, NEW total \in Nat \ {0}
    PROVE  Share(done, total) \in Int
<1>1. Whole * done \in Nat
  BY WholeAssumption
<1>. DEFINE d == Whole * done
<1>. HIDE DEF d
<1>2. d \div total \in Int
  BY <1>1 DEF d
<1>. QED  BY <1>2 DEF Share, d

\* The steps of one search leave the others where they are.
LEMMA OthersKept ==
    ASSUME TypeOK, NEW j \in Jobs, StepOf(j), NEW k \in Jobs, k # j
    PROVE  /\ job'[k] = job[k] /\ pc'[k] = pc[k] /\ guided'[k] = guided[k]
           /\ history'[k] = history[k] /\ attempts'[k] = attempts[k] /\ asked'[k] = asked[k]
<1>1. CASE Post(j)
  BY <1>1 DEF Post, Goto, Untried, TypeOK
<1>2. CASE Cancel(j)
  BY <1>2 DEF Cancel, TypeOK
<1>3. CASE Raise(j)
  BY <1>3 DEF Raise, Goto, Untried, TypeOK
<1>4. CASE Load(j)
  BY <1>4 DEF Load, Goto, TypeOK
<1>5. CASE Refuse(j)
  BY <1>5 DEF Refuse, Goto, Untried, TypeOK
<1>6. CASE Split(j)
  BY <1>6 DEF Split, Goto, TypeOK
<1>7. CASE Ask(j)
  BY <1>7 DEF Ask, Goto, Untried, TypeOK
<1>8. CASE Try(j)
  <2>1. /\ attempts' = [attempts EXCEPT ![j] = attempts'[j]]
        /\ job' = [job EXCEPT ![j] = job'[j]]
        /\ pc' = [pc EXCEPT ![j] = "searching"]
        /\ UNCHANGED <<guided, history, asked>>
    BY <1>8 DEF Try, Goto, TypeOK
  <2>. QED  BY <2>1 DEF TypeOK
<1>9. CASE Test(j)
  BY <1>9 DEF Test, Goto, Untried, TypeOK
<1>10. CASE Save(j)
  BY <1>10 DEF Save, Goto, Untried, TypeOK
<1>11. CASE Finish(j)
  BY <1>11 DEF Finish, Goto, Untried, TypeOK
<1>12. CASE Fail(j)
  BY <1>12 DEF Fail, Goto, Untried, TypeOK
<1>. QED
  BY <1>1, <1>2, <1>3, <1>4, <1>5, <1>6, <1>7, <1>8, <1>9, <1>10, <1>11, <1>12
  DEF StepOf, Step

LEMMA RouteStep ==
    ASSUME SearchInv, NEW j \in Jobs, StepOf(j)
    PROVE  TypeOK' /\ SearchOf(j)'
<1>0. /\ job \in [Jobs -> JobRow] /\ pc \in [Jobs -> Position] /\ guided \in [Jobs -> BOOLEAN]
      /\ history \in [Jobs -> Histories \cup {<< >>}] /\ attempts \in [Jobs -> Seq(Attempt)]
      /\ asked \in [Jobs -> Nat \cup {None}] /\ TypeOK
      /\ job[j] \in JobRow /\ attempts[j] \in Seq(Attempt) /\ Len(attempts[j]) \in Nat
  <2>1. /\ job \in [Jobs -> JobRow] /\ pc \in [Jobs -> Position]
        /\ guided \in [Jobs -> BOOLEAN]
        /\ history \in [Jobs -> Histories \cup {<< >>}] /\ attempts \in [Jobs -> Seq(Attempt)]
        /\ asked \in [Jobs -> Nat \cup {None}] /\ TypeOK
    BY DEF SearchInv, TypeOK
  <2>. QED  BY <2>1
<1>a. RouteOf(j) /\ StopOf(j) /\ JudgedOf(j)
  BY DEF SearchInv, SearchOf
<1>r. /\ \A p \in Int : WithProgress(job[j], p) \in JobRow
      /\ WithResult(job[j], "completed") \in JobRow
      /\ \A b \in BOOLEAN : WithError(job[j], b) \in JobRow
      /\ CancelRequested(job[j]) \in JobRow /\ NewRow \in JobRow
  BY <1>0, RowType
<1>t. /\ Trials(j) \in Nat \ {0} /\ Trials(j) <= Len(Grid)
      /\ ~guided[j] => Trials(j) = Len(Grid)
      /\ Len(Grid) \in Nat \ {0} /\ DOMAIN Grid = 1 .. Len(Grid)
  BY TrialsType
<1>u. guided'[j] = guided[j] => Trials(j)' = Trials(j)
  BY DEF Trials
<1>n. None \notin Int
  BY EngineAssumption
<1>1. CASE Post(j)
  <2>1. /\ pc[j] = "none" /\ job' = [job EXCEPT ![j] = NewRow]
        /\ pc' = [pc EXCEPT ![j] = "loading"] /\ UNCHANGED <<guided, history, attempts, asked>>
    BY <1>1 DEF Post, At, Goto, Untried
  <2>2. TypeOK'
    BY <1>0, <1>r, <2>1 DEF TypeOK, Position
  <2>3. /\ pc'[j] = "loading" /\ job'[j] = NewRow /\ attempts'[j] = << >> /\ asked'[j] = None
    BY <1>0, <1>a, <2>1 DEF RouteOf
  <2>4. NewRow.status = "running" /\ NewRow.progress = 0
    BY DEF NewRow, AbsentRow
  <2>5. RouteOf(j)'
    BY <2>3, <2>4 DEF RouteOf, Working, Judging
  <2>. QED  BY <2>2, <2>3, <2>5 DEF SearchOf, StopOf, JudgedOf, Judging
<1>2. CASE Cancel(j)
  <2>1. /\ job[j].status = "running" /\ ~job[j].cancel
        /\ job' = [job EXCEPT ![j] = CancelRequested(@)]
        /\ asked' = [asked EXCEPT ![j] = Len(attempts[j])]
        /\ UNCHANGED <<pc, guided, history, attempts>>
    BY <1>2 DEF Cancel
  <2>2. TypeOK'
    BY <1>0, <1>r, <2>1 DEF TypeOK
  <2>3. /\ job'[j] = [job[j] EXCEPT !.cancel = TRUE] /\ asked'[j] = Len(attempts[j])
    BY <1>0, <2>1 DEF CancelRequested
  <2>4. /\ job'[j].status = "running" /\ job'[j].cancel /\ job'[j].progress = job[j].progress
    BY <1>0, <2>1, <2>3 DEF JobRow
  <2>5. pc[j] # "none"
    BY <1>a, <2>1 DEF RouteOf, AbsentRow
  <2>6. RouteOf(j)'
    BY <1>a, <1>u, <2>1, <2>4, <2>5 DEF RouteOf
  <2>7. StopOf(j)'
    BY <1>0, <2>1, <2>3, <2>4 DEF StopOf
  <2>8. JudgedOf(j)'
    BY <1>a, <2>1 DEF JudgedOf
  <2>. QED  BY <2>2, <2>6, <2>7, <2>8 DEF SearchOf
<1>3. CASE Raise(j)
  <2>1. /\ pc[j] \in {"loading", "trying", "tested", "saved"}
        /\ pc' = [pc EXCEPT ![j] = "lost"]
        /\ UNCHANGED <<job, guided, history, attempts, asked>>
    BY <1>3 DEF Raise, Goto, Untried
  <2>2. TypeOK' /\ pc'[j] = "lost"
    BY <1>0, <2>1 DEF TypeOK, Position
  <2>3. job'[j].status = "running"
    BY <1>a, <2>1 DEF RouteOf, Working
  <2>. QED
    BY <1>a, <2>1, <2>2, <2>3 DEF SearchOf, RouteOf, StopOf, JudgedOf, Working, Judging
<1>4. CASE Load(j)
  <2>1. PICK h \in Histories : history' = [history EXCEPT ![j] = h]
    BY <1>4 DEF Load
  <2>2. /\ pc[j] = "loading" /\ pc' = [pc EXCEPT ![j] = "loaded"]
        /\ UNCHANGED <<job, guided, attempts, asked>>
    BY <1>4 DEF Load, At, Goto
  <2>3. TypeOK' /\ pc'[j] = "loaded" /\ history'[j] \in Histories
    BY <1>0, <2>1, <2>2 DEF TypeOK, Position
  <2>4. job'[j].status = "running"
    BY <1>a, <2>2 DEF RouteOf, Working
  <2>. QED
    BY <1>a, <2>2, <2>3, <2>4 DEF SearchOf, RouteOf, StopOf, JudgedOf, Working, Judging
<1>5. CASE Refuse(j)
  <2>1. /\ pc[j] = "loading" /\ pc' = [pc EXCEPT ![j] = "refused"]
        /\ UNCHANGED <<job, guided, history, attempts, asked>>
    BY <1>5 DEF Refuse, At, Goto, Untried
  <2>2. TypeOK' /\ pc'[j] = "refused"
    BY <1>0, <2>1 DEF TypeOK, Position
  <2>3. job'[j].status = "running"
    BY <1>a, <2>1 DEF RouteOf, Working
  <2>. QED
    BY <1>a, <2>1, <2>2, <2>3 DEF SearchOf, RouteOf, StopOf, JudgedOf, Working, Judging
<1>6. CASE Split(j)
  <2>1. PICK g \in Guides :
            /\ guided' = [guided EXCEPT ![j] = g]
            /\ pc' = [pc EXCEPT ![j] =
                         IF CanSplit(history[j]) /\ (g \/ Len(Grid) <= MaxTrials)
                         THEN "searching" ELSE "refused"]
    BY <1>6 DEF Split, Goto
  <2>2. /\ pc[j] = "loaded" /\ UNCHANGED <<job, history, attempts, asked>>
    BY <1>6 DEF Split, At
  <2>3. /\ TypeOK' /\ pc'[j] \in {"searching", "refused"}
        /\ pc'[j] = "searching" => CanSplit(history[j])
    BY <1>0, <2>1, <2>2, SearchAssumption DEF TypeOK, Position
  <2>4. /\ job'[j].status = "running" /\ job'[j].progress = 0 /\ attempts'[j] = << >>
        /\ history'[j] \in Histories
    BY <1>a, <2>2 DEF RouteOf, Working
  <2>5. Trials(j)' \in Nat \ {0}
    BY TrialCounts DEF Trials
  <2>6. 0 <= Clamp(Share(0, Trials(j)'))
    <3>1. Share(0, Trials(j)') \in Int
      BY <2>5, ShareType
    <3>. QED  BY <3>1, WholeAssumption DEF Clamp
  <2>7. Len(<< >>) = 0 /\ Len(attempts'[j]) = 0
    BY <2>4
  <2>8. RouteOf(j)'
    <3>1. pc'[j] \in {"searching", "trying"} =>
              job'[j].progress <= Clamp(Share(Len(attempts'[j]), Trials(j)'))
      BY <2>4, <2>6, <2>7
    <3>2. pc'[j] \in Judging => history'[j] \in Searchable
      BY <2>2, <2>3, <2>4 DEF Judging, Searchable
    <3>3. Len(attempts'[j]) <= Trials(j)'
      BY <2>5, <2>7
    <3>. QED  BY <2>3, <2>4, <3>1, <3>2, <3>3 DEF RouteOf, Working
  <2>9. StopOf(j)'
    BY <1>a, <2>2, <2>3 DEF StopOf
  <2>10. JudgedOf(j)'
    BY <2>4 DEF JudgedOf
  <2>. QED  BY <2>3, <2>8, <2>9, <2>10 DEF SearchOf
<1>7. CASE Ask(j)
  <2>1. /\ pc[j] = "searching" /\ Len(attempts[j]) < Trials(j)
        /\ pc' = [pc EXCEPT ![j] = IF job[j].cancel THEN "stopped" ELSE "trying"]
        /\ UNCHANGED <<job, guided, history, attempts, asked>>
    BY <1>7 DEF Ask, At, Goto, Untried
  <2>2. /\ TypeOK' /\ pc'[j] \in {"stopped", "trying"}
        /\ pc'[j] = "trying" => ~job[j].cancel
    BY <1>0, <2>1 DEF TypeOK, Position
  <2>3. job'[j].status = "running"
    BY <1>a, <2>1 DEF RouteOf, Working
  <2>4. RouteOf(j)'
    BY <1>a, <1>u, <2>1, <2>2, <2>3 DEF RouteOf, Working, Judging
  <2>. QED
    BY <1>a, <2>1, <2>2, <2>4 DEF SearchOf, StopOf, JudgedOf, Judging
<1>8. CASE Try(j)
  <2>1. PICK i \in Suggested(j) :
            attempts' = [attempts EXCEPT ![j] =
                Append(@, [candidate |-> i, ok |-> Worth[history[j]][i].ok,
                           score |-> Worth[history[j]][i].score])]
    BY <1>8 DEF Try
  <2>. DEFINE n == Len(attempts[j]) + 1
              p == Share(n, Trials(j))
              a == [candidate |-> i, ok |-> Worth[history[j]][i].ok,
                     score |-> Worth[history[j]][i].score]
  <2>2. /\ pc[j] = "trying" /\ pc' = [pc EXCEPT ![j] = "searching"]
        /\ job' = [job EXCEPT ![j] = WithProgress(@, p)]
        /\ UNCHANGED <<guided, history, asked>>
    BY <1>8 DEF Try, At, Goto
  <2>3. /\ Len(attempts[j]) < Trials(j) /\ history[j] \in Searchable
        /\ job[j].status = "running"
    BY <1>a, <2>2 DEF RouteOf, Working, Judging
  <2>4. i \in DOMAIN Grid
    BY <1>0, <1>t, <2>1, <2>3 DEF Suggested
  <2>5. a \in Attempt
    <3>1. Worth[history[j]][i] \in Judgements
      BY <2>3, <2>4 DEF Judgements
    <3>. QED  BY <2>4, <3>1 DEF Attempt
  <2>6. n \in Nat /\ n <= Trials(j) /\ p \in Int
    <3>1. n \in Nat /\ n <= Trials(j)
      BY <1>0, <1>t, <2>3
    <3>. HIDE DEF n
    <3>. QED  BY <1>t, <3>1, ShareType
  <2>7. /\ attempts'[j] = Append(attempts[j], a) /\ Len(attempts'[j]) = n
        /\ attempts'[j] \in Seq(Attempt)
        /\ DOMAIN attempts'[j] = 1 .. n
        /\ \A m \in 1 .. n : attempts'[j][m] = IF m = n THEN a ELSE attempts[j][m]
    <3>1. attempts'[j] = Append(attempts[j], a)
      BY <1>0, <2>1
    <3>. HIDE DEF a
    <3>. QED  BY <1>0, <2>5, <3>1
  <2>8. TypeOK'
    <3>1. attempts' \in [Jobs -> Seq(Attempt)]
      <4>1. attempts' = [attempts EXCEPT ![j] = attempts'[j]]
        BY <1>0, <2>1
      <4>. QED  BY <1>0, <2>7, <4>1
    <3>2. job' \in [Jobs -> JobRow]
      BY <1>0, <1>r, <2>2, <2>6
    <3>3. pc' \in [Jobs -> Position]
      BY <1>0, <2>2 DEF Position
    <3>. QED  BY <1>0, <2>2, <3>1, <3>2, <3>3 DEF TypeOK
  <2>. HIDE DEF a, p
  <2>9. pc'[j] = "searching" /\ job'[j] = WithProgress(job[j], p)
    BY <1>0, <2>2
  <2>10. /\ job'[j].status = "running" /\ job'[j].progress = Clamp(p)
         /\ job'[j].cancel = job[j].cancel
    BY <1>0, <2>3, <2>9 DEF WithProgress, JobRow
  <2>11. Clamp(p) \in Int
    BY <2>6, WholeAssumption DEF Clamp
  <2>12. RouteOf(j)'
    <3>1. Trials(j)' = Trials(j)
      BY <1>u, <2>2
    <3>2. job'[j].progress <= Clamp(Share(Len(attempts'[j]), Trials(j)'))
      BY <2>7, <2>10, <2>11, <3>1 DEF p
    <3>. QED
      BY <2>2, <2>3, <2>6, <2>7, <2>9, <2>10, <3>1, <3>2 DEF RouteOf, Working, Judging
  <2>13. StopOf(j)'
    <3>1. ASSUME asked[j] # None
          PROVE  job[j].cancel /\ n <= asked[j] + 1
      <4>1. asked[j] \in Nat
        BY <1>0, <3>1
      <4>. QED  BY <1>0, <1>a, <2>2, <3>1, <4>1 DEF StopOf
    <3>. QED  BY <2>2, <2>7, <2>9, <2>10, <3>1 DEF StopOf
  <2>14. JudgedOf(j)'
    <3>1. ASSUME NEW m \in 1 .. n
          PROVE  LET b == attempts'[j][m]
                 IN  /\ b.candidate \in DOMAIN Grid
                     /\ b.ok = Worth[history[j]][b.candidate].ok
                     /\ b.score = Worth[history[j]][b.candidate].score
      <4>1. CASE m = n
        BY <2>4, <2>7, <4>1 DEF a
      <4>2. CASE m # n
        <5>1. m \in DOMAIN attempts[j]
          BY <1>0, <4>2
        <5>2. attempts'[j][m] = attempts[j][m]
          BY <2>7, <4>2
        <5>. QED  BY <1>a, <2>2, <5>1, <5>2 DEF JudgedOf, Judging
      <4>. QED  BY <4>1, <4>2
    <3>. QED  BY <2>2, <2>7, <3>1 DEF JudgedOf
  <2>. QED  BY <2>8, <2>12, <2>13, <2>14 DEF SearchOf
<1>9. CASE Test(j)
  <2>1. /\ pc[j] = "searching" /\ Len(attempts[j]) = Trials(j)
        /\ pc' = [pc EXCEPT ![j] = pc'[j]] /\ pc'[j] \in {"tested", "refused"}
        /\ UNCHANGED <<job, guided, history, attempts, asked>>
    BY <1>0, <1>9 DEF Test, At, Goto, Untried
  <2>2. TypeOK'
    BY <1>0, <2>1 DEF TypeOK, Position
  <2>3. job'[j].status = "running"
    BY <1>a, <2>1 DEF RouteOf, Working
  <2>4. RouteOf(j)'
    BY <1>a, <1>u, <2>1, <2>3 DEF RouteOf, Working, Judging
  <2>. QED
    BY <1>a, <2>1, <2>2, <2>4 DEF SearchOf, StopOf, JudgedOf, Judging
<1>10. CASE Save(j)
  <2>1. /\ pc[j] = "tested" /\ pc' = [pc EXCEPT ![j] = "saved"]
        /\ UNCHANGED <<job, guided, history, attempts, asked>>
    BY <1>10 DEF Save, At, Goto, Untried
  <2>2. TypeOK' /\ pc'[j] = "saved"
    BY <1>0, <2>1 DEF TypeOK, Position
  <2>3. job'[j].status = "running"
    BY <1>a, <2>1 DEF RouteOf, Working
  <2>4. RouteOf(j)'
    BY <1>a, <1>u, <2>1, <2>2, <2>3 DEF RouteOf, Working, Judging
  <2>. QED
    BY <1>a, <2>1, <2>2, <2>4 DEF SearchOf, StopOf, JudgedOf, Judging
<1>11. CASE Finish(j)
  <2>1. /\ pc[j] = "saved" /\ pc' = [pc EXCEPT ![j] = "done"]
        /\ job' = [job EXCEPT ![j] = WithResult(@, "completed")]
        /\ UNCHANGED <<guided, history, attempts, asked>>
    BY <1>11 DEF Finish, At, Goto, Untried
  <2>2. TypeOK' /\ pc'[j] = "done" /\ job'[j] = WithResult(job[j], "completed")
    BY <1>0, <1>r, <2>1 DEF TypeOK, Position
  <2>3. job'[j].cancel = job[j].cancel
    BY <1>0, <2>2 DEF WithResult, JobRow
  <2>4. RouteOf(j)'
    BY <1>a, <1>u, <2>1, <2>2 DEF RouteOf, Working, Judging
  <2>. QED
    BY <1>a, <2>1, <2>2, <2>3, <2>4 DEF SearchOf, StopOf, JudgedOf, Judging
<1>12. CASE Fail(j)
  <2>1. /\ pc[j] \in {"refused", "stopped"} /\ pc' = [pc EXCEPT ![j] = "done"]
        /\ job' = [job EXCEPT ![j] = WithError(@, pc[j] = "stopped")]
        /\ UNCHANGED <<guided, history, attempts, asked>>
    BY <1>12 DEF Fail, Goto, Untried
  <2>2. TypeOK' /\ pc'[j] = "done" /\ job'[j] = WithError(job[j], pc[j] = "stopped")
    BY <1>0, <1>r, <2>1 DEF TypeOK, Position
  <2>3. job'[j].cancel = job[j].cancel /\ job'[j].status \in {"cancelled", "failed"}
    BY <1>0, <2>2 DEF WithError, JobRow
  <2>4. RouteOf(j)'
    BY <2>2, <2>3 DEF RouteOf, Working, Judging
  <2>. QED
    BY <1>a, <2>1, <2>2, <2>3, <2>4 DEF SearchOf, StopOf, JudgedOf, Judging
<1>. QED
  BY <1>1, <1>2, <1>3, <1>4, <1>5, <1>6, <1>7, <1>8, <1>9, <1>10, <1>11, <1>12
  DEF StepOf, Step

LEMMA SearchInit ==
    ASSUME Init
    PROVE  SearchInv
<1>1. TypeOK
  <2>1. AbsentRow \in JobRow
    <3>1. 0 \in 0 .. Whole
      BY WholeAssumption
    <3>. QED  BY <3>1 DEF AbsentRow, JobRow, JobStatus
  <2>2. << >> \in Seq(Attempt)
    OBVIOUS
  <2>. QED  BY <2>1, <2>2 DEF Init, TypeOK, Position
<1>2. ASSUME NEW j \in Jobs
      PROVE  SearchOf(j)
  BY DEF Init, SearchOf, RouteOf, StopOf, JudgedOf, Working, Judging, AbsentRow
<1>. QED  BY <1>1, <1>2 DEF SearchInv

LEMMA SearchNext ==
    ASSUME SearchInv, [Next]_vars
    PROVE  SearchInv'
<1>0. /\ pc \in [Jobs -> Position] /\ TypeOK
      /\ \A j \in Jobs : RouteOf(j) /\ StopOf(j) /\ JudgedOf(j)
  BY DEF SearchInv, TypeOK, SearchOf
<1>1. ASSUME NEW j \in Jobs, StepOf(j)
      PROVE  SearchInv'
  <2>1. TypeOK' /\ SearchOf(j)'
    BY <1>1, RouteStep
  <2>2. ASSUME NEW k \in Jobs, k # j
        PROVE  SearchOf(k)'
    <3>1. /\ job'[k] = job[k] /\ pc'[k] = pc[k] /\ guided'[k] = guided[k]
          /\ history'[k] = history[k] /\ attempts'[k] = attempts[k] /\ asked'[k] = asked[k]
      BY <1>0, <1>1, <2>2, OthersKept
    <3>2. Trials(k)' = Trials(k)
      BY <3>1 DEF Trials
    <3>3. RouteOf(k)'
      BY <1>0, <3>1, <3>2 DEF RouteOf
    <3>. QED  BY <1>0, <3>1, <3>3 DEF SearchOf, StopOf, JudgedOf
  <2>. QED  BY <2>1, <2>2 DEF SearchInv
<1>2. CASE Crash
  <2>1. /\ pc' = [j \in Jobs |-> IF pc[j] \in {"none", "done"} THEN pc[j] ELSE "lost"]
        /\ UNCHANGED <<job, guided, history, attempts, asked>>
    BY <1>2 DEF Crash, Untried
  <2>2. TypeOK'
    BY <1>0, <2>1 DEF TypeOK, Position
  <2>3. ASSUME NEW j \in Jobs
        PROVE  SearchOf(j)'
    <3>1. \/ pc'[j] = pc[j] /\ pc[j] \in {"none", "done"}
          \/ pc'[j] = "lost" /\ pc[j] # "none"
      BY <1>0, <2>1
    <3>2. job[j].status = "completed" => pc'[j] = "done"
      BY <1>0, <2>1 DEF RouteOf
    <3>3. Trials(j)' = Trials(j)
      BY <2>1 DEF Trials
    <3>4. RouteOf(j)'
      BY <1>0, <2>1, <3>1, <3>2, <3>3 DEF RouteOf, Working, Judging
    <3>. QED  BY <1>0, <2>1, <3>1, <3>4 DEF SearchOf, StopOf, JudgedOf, Judging
  <2>. QED  BY <2>2, <2>3 DEF SearchInv
<1>3. CASE UNCHANGED vars
  <2>1. UNCHANGED <<job, pc, guided, history, attempts, asked>>
    BY <1>3 DEF vars
  <2>2. ASSUME NEW j \in Jobs
        PROVE  SearchOf(j)'
    <3>1. Trials(j)' = Trials(j)
      BY <2>1 DEF Trials
    <3>2. RouteOf(j)'
      BY <1>0, <2>1, <3>1 DEF RouteOf
    <3>. QED  BY <1>0, <2>1, <3>2 DEF SearchOf, StopOf, JudgedOf
  <2>. QED  BY <1>0, <2>1, <2>2 DEF SearchInv, TypeOK
<1>. QED  BY <1>1, <1>2, <1>3 DEF Next, StepOf

\* Where every search is: its row, its attempts and its request fit its position.
THEOREM SearchInvariant == Spec => []SearchInv
  BY SearchInit, SearchNext, PTL DEF Spec

\* A search that is asked to stop tries at most one more candidate and does not
\* complete unless that was its last (run_parameter_search, job_cancellation_requested).
THEOREM CancelStops == Spec => []CancelStopsSearch
<1>1. SearchInv => CancelStopsSearch
  <2>1. ASSUME SearchInv, NEW j \in Jobs, asked[j] # None
        PROVE  /\ Len(attempts[j]) <= asked[j] + 1
               /\ job[j].status = "completed" => asked[j] + 1 >= Trials(j)
    <3>1. RouteOf(j) /\ StopOf(j)
      BY <2>1 DEF SearchInv, SearchOf
    <3>2. asked[j] \in Nat /\ Trials(j) \in Nat
      BY <2>1, TrialsType DEF SearchInv, TypeOK
    <3>3. Len(attempts[j]) <= asked[j] + 1
      BY <2>1, <3>1 DEF StopOf
    <3>. QED  BY <3>1, <3>2, <3>3 DEF RouteOf
  <2>. QED  BY <2>1 DEF CancelStopsSearch
<1>. QED  BY <1>1, SearchInvariant, PTL

\* What is chosen and what the attempts scored does not depend on a session of the
\* final window, for every set of histories (_walk_forward_windows, evaluate).
THEOREM SelectionIsBlind == Spec => []SelectionIgnoresFinal
<1>1. SearchInv => SelectionIgnoresFinal
  <2>1. ASSUME SearchInv, NEW j \in Jobs, pc[j] = "tested",
               NEW h \in Searchable, Len(h) = Len(history[j]),
               SubSeq(h, 1, FinalStart(h) - 1) = SubSeq(history[j], 1, FinalStart(h) - 1),
               NEW n \in DOMAIN attempts[j]
        PROVE  Worth[h][attempts[j][n].candidate]
                 = [ok |-> attempts[j][n].ok, score |-> attempts[j][n].score]
    <3>. DEFINE i == attempts[j][n].candidate
                g == history[j]
    <3>1. /\ g \in Searchable /\ i \in DOMAIN Grid
          /\ attempts[j][n].ok = Worth[g][i].ok
          /\ attempts[j][n].score = Worth[g][i].score
      BY <2>1 DEF SearchInv, SearchOf, RouteOf, JudgedOf, Judging
    <3>2. FinalStart(h) = FinalStart(g)
      BY <2>1 DEF FinalStart
    <3>3. Evaluation(h, Grid[i]) = Evaluation(g, Grid[i])
      <4>1. /\ h \in Histories /\ CanSplit(h) /\ g \in Histories /\ CanSplit(g)
            /\ Len(h) = Len(g)
            /\ SubSeq(h, 1, FinalStart(g) - 1) = SubSeq(g, 1, FinalStart(g) - 1)
        BY <2>1, <3>1, <3>2 DEF Searchable
      <4>. HIDE DEF g, i
      <4>. QED  BY <4>1, BeginningDecides
    <3>4. Worth[h][i] = Evaluation(h, Grid[i]) /\ Worth[g][i] = Evaluation(g, Grid[i])
      <4>. HIDE DEF g, i
      <4>1. ASSUME NEW w \in Searchable
            PROVE  Worth[w][i] = Evaluation(w, Grid[i])
        <5>1. Worth[w] = [c \in DOMAIN Grid |-> Evaluation(w, Grid[c])]
          BY <4>1 DEF Worth
        <5>. QED  BY <3>1, <5>1
      <4>. QED  BY <2>1, <3>1, <4>1
    <3>5. Evaluation(g, Grid[i]) = [ok    |-> Evaluation(g, Grid[i]).ok,
                                    score |-> Evaluation(g, Grid[i]).score]
      <4>. HIDE DEF g, i
      <4>. QED  BY DEF Evaluation, Rejected
    <3>. QED  BY <3>1, <3>3, <3>4, <3>5
  <2>2. ASSUME SearchInv, NEW j \in Jobs, pc[j] = "tested", NEW h \in Searchable,
               /\ Len(h) = Len(history[j])
               /\ SubSeq(h, 1, FinalStart(h) - 1) = SubSeq(history[j], 1, FinalStart(h) - 1)
        PROVE  \A n \in DOMAIN attempts[j] :
                  Worth[h][attempts[j][n].candidate]
                    = [ok |-> attempts[j][n].ok, score |-> attempts[j][n].score]
    BY <2>1, <2>2
  <2>. QED  BY <2>2 DEF SelectionIgnoresFinal, At
<1>. QED  BY <1>1, SearchInvariant, PTL

-----------------------------------------------------------------------------
\* The contract of local jobs

LEMMA DivisionGrows ==
    ASSUME NEW a \in Nat, NEW b \in Nat, a <= b, NEW t \in Nat \ {0}
    PROVE  a \div t <= b \div t
<1>. DEFINE p == a \div t
            q == b \div t
<1>1. p \in Int /\ q \in Int /\ a = t * p + (a % t) /\ b = t * q + (b % t)
  OBVIOUS
<1>2. a % t \in 0 .. t - 1 /\ b % t \in 0 .. t - 1
  OBVIOUS
<1>. HIDE DEF p, q
<1>3. SUFFICES ASSUME q < p PROVE FALSE
  BY <1>1 DEF p, q
<1>4. t * (q + 1) <= t * p
  BY <1>1, <1>3
<1>5. t * (q + 1) = t * q + t
  BY <1>1
<1>. QED  BY <1>1, <1>2, <1>4, <1>5

\* One more attempt never lowers the share of work done.
LEMMA ShareGrows ==
    ASSUME NEW n \in Nat, NEW total \in Nat \ {0}
    PROVE  Clamp(Share(n, total)) <= Clamp(Share(n + 1, total))
<1>1. Whole * n \in Nat /\ Whole * (n + 1) \in Nat /\ Whole * n <= Whole * (n + 1)
  BY WholeAssumption
<1>2. (Whole * n) \div total <= (Whole * (n + 1)) \div total
  BY <1>1, DivisionGrows
<1>3. Share(n, total) <= Share(n + 1, total)
  BY <1>2 DEF Share
<1>4. Share(n, total) \in Int /\ Share(n + 1, total) \in Int
  BY ShareType
<1>. QED  BY <1>3, <1>4, WholeAssumption DEF Clamp

ContractStep == [Contract!Next]_job

LEMMA ContractOfStep ==
    ASSUME SearchInv, NEW j \in Jobs, StepOf(j)
    PROVE  ContractStep
<1>0. /\ job \in [Jobs -> JobRow] /\ job[j] \in JobRow /\ Len(attempts[j]) \in Nat
      /\ RouteOf(j)
  BY DEF SearchInv, SearchOf, TypeOK
<1>1. CASE Post(j)
  <2>1. Contract!Create(j)
    BY <1>0, <1>1 DEF Post, At, RouteOf, Contract!Create, Contract!NewRow,
                      Contract!AbsentRow, NewRow, AbsentRow
  <2>. QED  BY <2>1 DEF ContractStep, Contract!Next
<1>2. CASE Cancel(j)
  <2>1. Contract!RequestCancel(j)
    BY <1>2 DEF Cancel, Contract!RequestCancel, Contract!Running, Contract!CancelRequested,
                CancelRequested
  <2>. QED  BY <2>1 DEF ContractStep, Contract!Next
<1>3. CASE Raise(j) \/ Load(j) \/ Refuse(j) \/ Split(j) \/ Ask(j) \/ Test(j) \/ Save(j)
  <2>1. job' = job
    BY <1>3 DEF Raise, Load, Refuse, Split, Ask, Test, Save, Untried
  <2>. QED  BY <2>1 DEF ContractStep
<1>4. CASE Try(j)
  <2>. DEFINE n == Len(attempts[j])
              p == Share(n + 1, Trials(j))
  <2>1. /\ pc[j] = "trying" /\ job' = [job EXCEPT ![j] = WithProgress(@, p)]
    BY <1>4 DEF Try, At
  <2>2. /\ job[j].status = "running"
        /\ job[j].progress <= Clamp(Share(n, Trials(j)))
    BY <1>0, <2>1 DEF RouteOf, Working
  <2>3. /\ n \in Nat /\ Trials(j) \in Nat \ {0} /\ p \in Int /\ Share(n, Trials(j)) \in Int
    <3>1. n \in Nat /\ n + 1 \in Nat /\ Trials(j) \in Nat \ {0}
      BY <1>0, TrialsType
    <3>. HIDE DEF n
    <3>. QED  BY <3>1, ShareType
  <2>4. Clamp(Share(n, Trials(j))) <= Clamp(p)
    <3>. HIDE DEF n
    <3>. QED  BY <2>3, ShareGrows
  <2>. HIDE DEF p
  <2>5. Clamp(p) \in job[j].progress .. Whole /\ Clamp(Clamp(p)) = Clamp(p)
    <3>1. /\ Clamp(p) \in 0 .. Whole /\ Clamp(Share(n, Trials(j))) \in 0 .. Whole
          /\ Clamp(Clamp(p)) = Clamp(p)
      BY <2>3, WholeAssumption DEF Clamp
    <3>2. job[j].progress \in 0 .. Whole
      BY <1>0 DEF JobRow
    <3>. QED  BY <2>2, <2>4, <3>1, <3>2, WholeAssumption
  <2>6. job' = [job EXCEPT ![j] = Contract!WithProgress(@, Clamp(p))]
    BY <2>1, <2>5 DEF WithProgress, Contract!WithProgress, Clamp, Contract!Clamp
  <2>7. Contract!Report(j)
    BY <2>2, <2>5, <2>6 DEF Contract!Report, Contract!Running
  <2>. QED  BY <2>7 DEF ContractStep, Contract!Next
<1>5. CASE Finish(j)
  <2>1. job[j].status = "running" /\ job' = [job EXCEPT ![j] = WithResult(@, "completed")]
    BY <1>0, <1>5 DEF Finish, At, RouteOf, Working
  <2>2. Contract!EndWithResult(j)
    BY <2>1 DEF Contract!EndWithResult, Contract!Running, Contract!FinalStatus,
                Contract!WithResult, WithResult
  <2>. QED  BY <2>2 DEF ContractStep, Contract!Next
<1>6. CASE Fail(j)
  <2>1. job[j].status = "running" /\ job' = [job EXCEPT ![j] = WithError(@, pc[j] = "stopped")]
    BY <1>0, <1>6 DEF Fail, RouteOf, Working
  <2>2. Contract!EndWithError(j)
    BY <2>1 DEF Contract!EndWithError, Contract!Running, Contract!WithError, WithError
  <2>. QED  BY <2>2 DEF ContractStep, Contract!Next
<1>. QED  BY <1>1, <1>2, <1>3, <1>4, <1>5, <1>6 DEF StepOf, Step

\* The row of every search keeps the contract of LocalJob: it starts once, its
\* progress never falls and no row that ended is written again, although nothing
\* closes the row of a search that is lost (parameter_search, progress, cancel).
THEOREM JobsKeepContract == Spec => JobContract
<1>1. Init => Contract!Init
  BY DEF Init, Contract!Init, Contract!AbsentRow, AbsentRow
<1>2. SearchInv /\ [Next]_vars => [Contract!Next]_job
  <2>1. ASSUME SearchInv, Next PROVE ContractStep
    <3>1. CASE Crash
      BY <3>1 DEF Crash, ContractStep
    <3>2. ASSUME NEW j \in Jobs, StepOf(j) PROVE ContractStep
      BY <2>1, <3>2, ContractOfStep
    <3>. QED  BY <2>1, <3>1, <3>2 DEF Next, StepOf
  <2>2. ASSUME UNCHANGED vars PROVE ContractStep
    BY <2>2 DEF vars, ContractStep
  <2>. QED  BY <2>1, <2>2 DEF ContractStep
<1>. QED  BY <1>1, <1>2, SearchInvariant, PTL DEF Spec, JobContract, Contract!Spec

-----------------------------------------------------------------------------
\* The score of a backtest, the median of the folds and the best of the attempts

LEMMA ScoreType ==
    ASSUME NEW rows, NEW a, NEW b, Connected(rows, a, b),
           \A k \in a .. b : rows[k].equity \in Nat, rows[a].before \in Nat \ {0}
    PROVE  Score(rows) \in Int
<1>. DEFINE active  == DOMAIN rows
            unit    == rows[a].before
            seen(k) == {unit} \cup {rows[i].equity : i \in {i \in active : i <= k}}
            peak(k) == Max(seen(k))
            part(k) == (100 * (peak(k) - rows[k].equity)) \div peak(k)
            falls   == {part(k) : k \in active}
            fall    == Max(falls)
            gain    == (100 * (rows[b].equity - unit)) \div unit
<1>1. /\ a \in Nat /\ b \in Nat /\ a <= b /\ active = a .. b /\ a \in active /\ b \in active
      /\ unit \in Nat \ {0} /\ \A k \in active : rows[k].equity \in Nat
  BY DEF Connected
<1>2. IsFiniteSet(active) /\ active \in SUBSET Int
  <2>1. IsFiniteSet(a .. b)
    BY <1>1, FS_Interval
  <2>. QED  BY <1>1, <2>1
<1>3. Min(active) = a /\ Max(active) = b
  <2>1. /\ Min(active) \in active /\ \A x \in active : Min(active) <= x
        /\ Max(active) \in active /\ \A x \in active : Max(active) >= x
    BY <1>1, <1>2, ExtremesOf
  <2>. DEFINE least == Min(active)
              most  == Max(active)
  <2>2. least \in a .. b /\ most \in a .. b /\ least <= a /\ most >= b
    BY <1>1, <2>1
  <2>. HIDE DEF least, most
  <2>3. least = a /\ most = b
    BY <1>1, <2>2
  <2>. QED  BY <2>3 DEF least, most
<1>4. Score(rows) = IF fall = 0 THEN 0 ELSE (100 * gain) \div fall
  BY <1>3, Zenon DEF Score
<1>5. ASSUME NEW k \in active
      PROVE  peak(k) \in Nat \ {0} /\ peak(k) >= rows[k].equity
  <2>. DEFINE upto == {i \in active : i <= k}
              T    == {rows[i].equity : i \in upto}
  <2>1. IsFiniteSet(upto)
    BY <1>2, FS_Subset
  <2>2. IsFiniteSet(T)
    <3>. DEFINE g == [i \in upto |-> rows[i].equity]
    <3>1. g \in Surjection(upto, T)
      BY DEF Surjection
    <3>. HIDE DEF g, upto, T
    <3>. QED  BY <2>1, <3>1, FS_Surjection
  <2>3. T \subseteq Nat /\ rows[k].equity \in T
    BY <1>1, <1>2
  <2>4. seen(k) = {unit} \cup T
    OBVIOUS
  <2>. HIDE DEF T
  <2>5. IsFiniteSet({unit} \cup T)
    BY <2>2, FS_Singleton, FS_Union
  <2>. DEFINE S == {unit} \cup T
  <2>6. S \in SUBSET Int /\ S # {} /\ IsFiniteSet(S) /\ S \subseteq Nat
    <3>1. IsFiniteSet(S)
      BY <2>5
    <3>2. S \subseteq Nat /\ S # {}
      BY <1>1, <2>3
    <3>. HIDE DEF S
    <3>. QED  BY <3>1, <3>2
  <2>7. unit \in S /\ rows[k].equity \in S
    BY <2>3
  <2>. HIDE DEF S
  <2>8. Max(S) \in S /\ \A x \in S : Max(S) >= x
    BY <2>6, ExtremesOf
  <2>. DEFINE m == Max(S)
  <2>9. m \in Nat /\ m >= unit /\ m >= rows[k].equity
    BY <2>6, <2>7, <2>8
  <2>10. peak(k) = m
    BY <2>4 DEF S
  <2>. HIDE DEF m
  <2>11. m \in Nat \ {0} /\ m >= rows[k].equity
    BY <1>1, <2>9
  <2>. QED  BY <2>10, <2>11
<1>. HIDE DEF seen, peak
<1>6. ASSUME NEW k \in active
      PROVE  part(k) \in Nat
  <2>. DEFINE p == peak(k)
              e == rows[k].equity
              d == 100 * (p - e)
  <2>1. p \in Nat \ {0} /\ e \in Nat /\ p >= e
    BY <1>1, <1>5
  <2>. HIDE DEF p, e
  <2>2. d \in Nat
    BY <2>1
  <2>. HIDE DEF d
  <2>3. d \div p \in Nat
    BY <2>1, <2>2
  <2>. QED  BY <2>3 DEF d, p, e
<1>. HIDE DEF part
<1>7. IsFiniteSet(falls) /\ falls \subseteq Nat /\ falls # {}
  <2>. DEFINE g == [k \in active |-> part(k)]
  <2>1. g \in Surjection(active, falls)
    BY DEF Surjection
  <2>2. falls \subseteq Nat /\ falls # {}
    BY <1>1, <1>6
  <2>. HIDE DEF g, falls, active
  <2>. QED  BY <1>2, <2>1, <2>2, FS_Surjection
<1>8. fall \in Nat
  <2>. HIDE DEF falls
  <2>1. falls \in SUBSET Int
    BY <1>7
  <2>2. Max(falls) \in falls
    BY <1>7, <2>1, ExtremesOf
  <2>. QED  BY <1>7, <2>2
<1>9. gain \in Int
  <2>. DEFINE e == rows[b].equity
              d == 100 * (e - unit)
  <2>1. e \in Nat /\ unit \in Nat \ {0}
    BY <1>1
  <2>. HIDE DEF e, unit
  <2>2. d \in Int
    BY <2>1
  <2>. HIDE DEF d
  <2>3. d \div unit \in Int
    BY <2>1, <2>2
  <2>. QED  BY <2>3 DEF d, e
<1>. HIDE DEF fall, gain
<1>. DEFINE c == 100 * gain
<1>10. c \in Int
  BY <1>9
<1>. HIDE DEF c
<1>11. fall # 0 => c \div fall \in Int
  BY <1>8, <1>10
<1>. QED  BY <1>4, <1>11 DEF c

\* The r-th of n scores is one of them.
LEMMA RankedType ==
    ASSUME NEW n \in Nat \ {0}, NEW scores \in [1 .. n -> Int], NEW r \in 1 .. n
    PROVE  Ranked(scores, r) \in Int
<1>. DEFINE upto(x) == {k \in DOMAIN scores : scores[k] <= x}
            T == {x \in Range(scores) : Cardinality(upto(x)) >= r}
<1>1. IsFiniteSet(1 .. n) /\ Cardinality(1 .. n) = n
  BY FS_Interval
<1>2. Range(scores) \subseteq Int /\ IsFiniteSet(Range(scores))
  <2>1. scores \in Surjection(1 .. n, Range(scores))
    BY DEF Surjection, Range
  <2>2. IsFiniteSet(Range(scores))
    BY <1>1, <2>1, FS_Surjection
  <2>. QED  BY <2>2 DEF Range
<1>3. \E x \in Range(scores) : upto(x) = 1 .. n
  <2>1. 1 .. n # {}
    OBVIOUS
  <2>2. \A k \in 1 .. n : scores[k] \in Int
    OBVIOUS
  <2>3. PICK m \in 1 .. n : \A k \in 1 .. n : scores[m] >= scores[k]
    BY <1>1, <2>1, <2>2, FunctionHasExtremes
  <2>4. scores[m] \in Range(scores)
    BY DEF Range
  <2>5. upto(scores[m]) = 1 .. n
    BY <2>2, <2>3
  <2>. QED  BY <2>4, <2>5
<1>4. T # {}
  BY <1>1, <1>3
<1>5. T \in SUBSET Int /\ IsFiniteSet(T)
  <2>1. T \subseteq Range(scores)
    OBVIOUS
  <2>. HIDE DEF T
  <2>2. IsFiniteSet(T)
    BY <1>2, <2>1, FS_Subset
  <2>. QED  BY <1>2, <2>1, <2>2
<1>6. Ranked(scores, r) = Min(T)
  BY DEF Ranked
<1>. HIDE DEF T
<1>7. Min(T) \in T
  BY <1>4, <1>5, ExtremesOf
<1>. QED  BY <1>5, <1>6, <1>7

LEMMA MedianType ==
    ASSUME NEW n \in Nat, n >= 2, NEW scores \in [1 .. n -> Int]
    PROVE  Median(scores) \in Int
<1>1. Len(scores) = n
  <2>1. scores \in Seq(Int) /\ DOMAIN scores = 1 .. n
    OBVIOUS
  <2>. QED  BY <2>1
<1>. DEFINE p == (n + 1) \div 2
            q == (n + 2) \div 2
<1>2. p \in 1 .. n /\ q \in 1 .. n
  OBVIOUS
<1>3. Median(scores) = Ranked(scores, p) + Ranked(scores, q)
  BY <1>1 DEF Median
<1>. HIDE DEF p, q
<1>4. Ranked(scores, p) \in Int /\ Ranked(scores, q) \in Int
  BY <1>2, RankedType
<1>. QED  BY <1>3, <1>4

\* A backtest that can run has a score.
LEMMA BacktestScored ==
    ASSUME NEW h \in Seq(Session), NEW s \in Strategy, NEW from \in Nat \ {0},
           CanRun(h, s, from)
    PROVE  Score(Rows(h, s, from)) \in Int
<1>. DEFINE start == Start(s, from)
            position == Positions(h, s, start)
            rows == Rows(h, s, from)
<1>1. Backtest(h, s, from, start, position)
  BY DEF CanRun, Backtest
<1>. HIDE DEF position, start, rows
<1>2. Connected(rows, start, Len(h))
  BY <1>1, RowsAreConnected DEF rows
<1>3. /\ \A k \in start .. Len(h) : rows[k].equity \in Nat
      /\ rows[start].before = Unit(h, start)
  BY <1>1, RowsFacts DEF rows
<1>4. Unit(h, start) \in Nat \ {0}
  BY <1>1, BacktestTrades, UnitType
<1>. QED  BY <1>2, <1>3, <1>4, ScoreType DEF rows

LEMMA SegmentType ==
    ASSUME NEW h \in Histories, CanSplit(h), NEW n \in 1 .. Folds
    PROVE  /\ Segment(h, Windows(h)[n]) \in Seq(Session)
           /\ Begin(Windows(h)[n]) \in Nat \ {0}
<1>. DEFINE w     == Windows(h)[n]
            first == w.first
            last  == w.last
<1>1. w = [first |-> FoldEnd(h, n - 1) + 1, last |-> FoldEnd(h, n)]
  BY DEF Windows
<1>2. n - 1 \in 0 .. Folds /\ n \in 0 .. Folds
  BY SearchAssumption
<1>3. /\ FoldEnd(h, n - 1) \in Nat
      /\ FoldEnd(h, n) \in Nat /\ FoldEnd(h, n) <= DevelopmentEnd(h)
  BY <1>2, FoldsEndInTime
<1>4. /\ h \in Seq(Session) /\ Len(h) \in Nat
      /\ DevelopmentEnd(h) \in Nat /\ DevelopmentEnd(h) < Len(h)
  BY HistoryType DEF CanSplit
<1>5. first \in Nat \ {0} /\ last \in Nat /\ last <= Len(h) /\ Warmup \in Nat
  <2>. HIDE DEF w
  <2>1. first = FoldEnd(h, n - 1) + 1 /\ last = FoldEnd(h, n)
    BY <1>1
  <2>. HIDE DEF first, last
  <2>. QED  BY <1>3, <1>4, <2>1, SearchAssumption
<1>. HIDE DEF w, first, last
<1>6. Segment(h, w) \in Seq(Session)
  <2>. DEFINE d == first - Warmup
              m == Max({1, d})
  <2>1. 1 \in Int /\ d \in Int
    BY <1>5
  <2>. HIDE DEF d
  <2>2. Max({1, d}) \in {1, d} /\ Max({1, d}) >= 1
    BY <2>1, MaxOfTwo
  <2>3. m \in Nat \ {0}
    BY <2>1, <2>2
  <2>4. Segment(h, w) = SubSeq(h, m, last)
    BY DEF Segment, d, first, last
  <2>. HIDE DEF m
  <2>5. \A i \in m .. last : h[i] \in Session
    BY <1>4, <1>5, <2>3
  <2>6. SubSeq(h, m, last) \in Seq(Session)
    BY <1>5, <2>3, <2>5, SubSeqProperties
  <2>. QED  BY <2>4, <2>6
<1>7. Begin(w) \in Nat \ {0}
  <2>. DEFINE d == Warmup + 1
  <2>1. first \in Int /\ d \in Int /\ d \in Nat \ {0}
    BY <1>5
  <2>. HIDE DEF d
  <2>2. Min({first, d}) \in {first, d}
    BY <2>1, MinOfTwo
  <2>3. Min({first, d}) \in Nat \ {0}
    BY <1>5, <2>1, <2>2
  <2>. QED  BY <2>3 DEF Begin, d, first
<1>. QED  BY <1>6, <1>7 DEF w

\* What a candidate is worth is a number, or it is rejected.
LEMMA EvaluationType ==
    ASSUME NEW h \in Histories, CanSplit(h), NEW s \in Strategy
    PROVE  Evaluation(h, s) \in [ok : BOOLEAN, score : Int]
<1>. DEFINE windows == Windows(h)
            fold    == [n \in 1 .. Folds |-> Segment(h, windows[n])]
            scores  == [n \in 1 .. Folds |-> Score(Rows(fold[n], s, Begin(windows[n])))]
            can     == \A n \in 1 .. Folds : CanRun(fold[n], s, Begin(windows[n]))
<1>1. Evaluation(h, s) = IF can THEN [ok |-> TRUE, score |-> Median(scores)] ELSE Rejected
  BY DEF Evaluation
<1>2. ASSUME can
      PROVE  Median(scores) \in Int
  <2>1. ASSUME NEW n \in 1 .. Folds
        PROVE  Score(Rows(fold[n], s, Begin(windows[n]))) \in Int
    <3>. DEFINE g == fold[n]
                b == Begin(windows[n])
    <3>1. g \in Seq(Session) /\ b \in Nat \ {0}
      BY SegmentType
    <3>2. CanRun(g, s, b)
      BY <1>2
    <3>. HIDE DEF g, b
    <3>3. Score(Rows(g, s, b)) \in Int
      BY <3>1, <3>2, BacktestScored
    <3>. QED  BY <3>3 DEF g, b
  <2>2. scores \in [1 .. Folds -> Int]
    BY <2>1
  <2>3. Folds \in Nat /\ Folds >= 2
    BY SearchAssumption
  <2>. HIDE DEF scores
  <2>. QED  BY <2>2, <2>3, MedianType
<1>. HIDE DEF can, scores
<1>3. CASE can
  BY <1>1, <1>2, <1>3
<1>4. CASE ~can
  BY <1>1, <1>4 DEF Rejected
<1>. QED  BY <1>3, <1>4

LEMMA AttemptType ==
    ASSUME NEW a \in Attempt
    PROVE  a.ok \in BOOLEAN /\ a.score \in Int
<1>1. ASSUME NEW e \in Judgements
      PROVE  e.ok \in BOOLEAN /\ e.score \in Int
  <2>1. PICK h \in Searchable, i \in DOMAIN Grid : e = Worth[h][i]
    BY DEF Judgements
  <2>2. e = Evaluation(h, Grid[i])
    <3>1. Worth[h] = [c \in DOMAIN Grid |-> Evaluation(h, Grid[c])]
      BY DEF Worth
    <3>. QED  BY <2>1, <3>1
  <2>3. h \in Histories /\ CanSplit(h) /\ Grid[i] \in Strategy
    <3>1. Grid \in Seq(Strategy)
      BY SearchAssumption
    <3>. QED  BY <3>1 DEF Searchable
  <2>4. Evaluation(h, Grid[i]) \in [ok : BOOLEAN, score : Int]
    BY <2>3, EvaluationType
  <2>. QED  BY <2>2, <2>4
<1>. QED  BY <1>1 DEF Attempt

\* The best of the attempts is one that completed, and no other that completed has
\* a higher score.
LEMMA BestIsBest ==
    ASSUME NEW tried \in Seq(Attempt), Completed(tried) # {}
    PROVE  \E n \in DOMAIN tried :
              /\ tried[n] = Best(tried) /\ tried[n].ok
              /\ \A m \in DOMAIN tried : tried[m].ok => tried[m].score <= tried[n].score
<1>. DEFINE done == Completed(tried)
            top  == {n \in done : \A m \in done : tried[m].score <= tried[n].score}
            f    == [n \in done |-> tried[n].score]
<1>1. /\ DOMAIN tried = 1 .. Len(tried) /\ Len(tried) \in Nat
      /\ \A n \in DOMAIN tried : tried[n] \in Attempt
  OBVIOUS
<1>2. done \subseteq 1 .. Len(tried) /\ \A n \in done : tried[n].ok
  BY <1>1 DEF Completed
<1>3. IsFiniteSet(done)
  <2>1. IsFiniteSet(1 .. Len(tried))
    BY <1>1, FS_Interval
  <2>. HIDE DEF done
  <2>. QED  BY <1>2, <2>1, FS_Subset
<1>4. \A n \in done : tried[n].score \in Int
  BY <1>1, <1>2, AttemptType
<1>5. \E n \in done : \A m \in done : f[n] >= f[m]
  <2>1. \A n \in done : f[n] \in Int
    BY <1>4
  <2>. HIDE DEF done, f
  <2>. QED  BY <1>3, <2>1, FunctionHasExtremes DEF done
<1>6. top # {} /\ top \subseteq done
  <2>1. PICK n \in done : \A m \in done : f[n] >= f[m]
    BY <1>5
  <2>2. \A m \in done : tried[m].score <= tried[n].score
    BY <1>4, <2>1
  <2>. QED  BY <2>2
<1>7. top \in SUBSET Int /\ IsFiniteSet(top)
  <2>. HIDE DEF top, done
  <2>1. IsFiniteSet(top)
    BY <1>3, <1>6, FS_Subset
  <2>. QED  BY <1>2, <1>6, <2>1
<1>8. Min(top) \in top
  <2>. HIDE DEF top
  <2>. QED  BY <1>6, <1>7, ExtremesOf
<1>9. Best(tried) = tried[Min(top)]
  BY DEF Best
<1>. DEFINE n == Min(top)
<1>10. n \in done /\ \A m \in done : tried[m].score <= tried[n].score
  <2>. HIDE DEF n
  <2>. QED  BY <1>8 DEF n
<1>. HIDE DEF n, top
<1>11. n \in DOMAIN tried /\ tried[n] = Best(tried) /\ tried[n].ok
  BY <1>1, <1>2, <1>9, <1>10 DEF n
<1>12. \A m \in DOMAIN tried : tried[m].ok => tried[m].score <= tried[n].score
  BY <1>10 DEF Completed
<1>. QED  BY <1>11, <1>12

-----------------------------------------------------------------------------
\* What a search has stored

\* The run a search stores
RunOf(j) == [job |-> j, candidate |-> Best(attempts[j]).candidate,
             snapshot |-> history[j], tested |-> attempts[j]]

Unsaved == {"none", "loading", "loaded", "refused", "searching", "trying", "stopped", "tested"}

\* A search stores its run once, after an attempt has completed, and its row has a
\* result only afterwards.
StoredOf(j) ==
    /\ pc[j] \in Unsaved => \A q \in runs : q.job # j
    /\ pc[j] = "tested" => Completed(attempts[j]) # {}
    /\ pc[j] = "saved" \/ job[j].result =>
          {q \in runs : q.job = j} = {RunOf(j)} /\ Completed(attempts[j]) # {}
    /\ job[j].result => job[j].status = "completed"

StoredInv == SearchInv /\ \A j \in Jobs : StoredOf(j)

\* What a search can be relied on whose variables a step leaves alone
LEMMA StoredKept ==
    ASSUME NEW j \in Jobs, StoredOf(j),
           job'[j] = job[j], pc'[j] = pc[j] \/ pc'[j] \notin Unsaved \cup {"saved"},
           attempts'[j] = attempts[j], history'[j] = history[j],
           {q \in runs : q.job = j}' = {q \in runs : q.job = j}
    PROVE  StoredOf(j)'
<1>1. RunOf(j)' = RunOf(j) /\ Completed(attempts[j])' = Completed(attempts[j])
  BY DEF RunOf, Best, Completed
<1>2. (\A q \in runs : q.job # j) => (\A q \in runs' : q.job # j)
  OBVIOUS
<1>3. CASE pc'[j] = pc[j]
  BY <1>1, <1>2, <1>3 DEF StoredOf
<1>4. CASE pc'[j] \notin Unsaved \cup {"saved"}
  <2>1. "tested" \in Unsaved
    BY DEF Unsaved
  <2>. QED  BY <1>1, <1>4, <2>1 DEF StoredOf
<1>. QED  BY <1>3, <1>4

LEMMA StoredStep ==
    ASSUME StoredInv, NEW j \in Jobs, StepOf(j)
    PROVE  \A k \in Jobs : StoredOf(k)'
<1>0. /\ job \in [Jobs -> JobRow] /\ pc \in [Jobs -> Position]
      /\ history \in [Jobs -> Histories \cup {<< >>}] /\ attempts \in [Jobs -> Seq(Attempt)]
      /\ asked \in [Jobs -> Nat \cup {None}] /\ guided \in [Jobs -> BOOLEAN]
      /\ job[j] \in JobRow /\ RouteOf(j)
  BY DEF StoredInv, SearchInv, SearchOf, TypeOK
<1>a. StoredOf(j)
  BY DEF StoredInv
<1>b. TypeOK
  BY DEF StoredInv, SearchInv
<1>1. ASSUME NEW k \in Jobs, k # j
      PROVE  StoredOf(k)'
  <2>1. /\ job'[k] = job[k] /\ pc'[k] = pc[k]
        /\ history'[k] = history[k] /\ attempts'[k] = attempts[k]
    BY <1>b, <1>1, OthersKept
  <2>2. {q \in runs : q.job = k}' = {q \in runs : q.job = k}
    <3>1. CASE Save(j)
      <4>1. runs' = runs \cup {[job |-> j, candidate |-> Best(attempts[j]).candidate,
                                snapshot |-> history[j], tested |-> attempts[j]]}
        BY <3>1 DEF Save
      <4>2. PICK r : r.job = j /\ runs' = runs \cup {r}
        BY <4>1
      <4>. QED  BY <1>1, <4>2
    <3>2. CASE ~Save(j)
      <4>1. runs' = runs
        BY <3>2 DEF StepOf, Step, Post, Cancel, Raise, Load, Refuse, Split, Ask, Try, Test,
                    Finish, Fail
      <4>. QED  BY <4>1
    <3>. QED  BY <3>1, <3>2
  <2>3. StoredOf(k)
    BY DEF StoredInv
  <2>. QED  BY <2>1, <2>2, <2>3, StoredKept
<1>2. StoredOf(j)'
  <2>1. CASE Post(j)
    <3>1. /\ pc[j] = "none" /\ job'[j] = NewRow /\ pc'[j] = "loading" /\ runs' = runs
      BY <1>0, <2>1 DEF Post, At, Goto
    <3>2. NewRow.result = FALSE
      BY DEF NewRow, AbsentRow
    <3>. QED  BY <1>a, <3>1, <3>2 DEF StoredOf, Unsaved
  <2>2. CASE Cancel(j)
    <3>1. /\ job[j].status = "running" /\ job' = [job EXCEPT ![j] = CancelRequested(@)]
          /\ UNCHANGED <<pc, history, attempts, runs>>
      BY <2>2 DEF Cancel
    <3>2. job'[j] = [job[j] EXCEPT !.cancel = TRUE]
      BY <1>0, <3>1 DEF CancelRequested
    <3>3. ~job[j].result /\ job'[j].result = job[j].result
      BY <1>0, <1>a, <3>1, <3>2 DEF StoredOf, JobRow
    <3>4. RunOf(j)' = RunOf(j) /\ Completed(attempts[j])' = Completed(attempts[j])
      BY <3>1 DEF RunOf, Best, Completed
    <3>. QED  BY <1>a, <3>1, <3>3, <3>4 DEF StoredOf
  <2>3. CASE Raise(j)
    <3>1. /\ pc'[j] = "lost" /\ job' = job /\ UNCHANGED <<history, attempts, runs>>
      BY <1>0, <2>3 DEF Raise, Goto, Untried
    <3>. QED  BY <1>a, <3>1, StoredKept DEF Unsaved
  <2>4. CASE Load(j) \/ Refuse(j) \/ Split(j) \/ Ask(j) \/ Try(j)
    <3>1. /\ pc[j] \in {"loading", "loaded", "searching", "trying"} /\ runs' = runs
          /\ pc'[j] \in {"loaded", "refused", "searching", "trying", "stopped"}
      BY <1>0, <2>4 DEF Load, Refuse, Split, Ask, Try, At, Goto
    <3>2. job[j].status = "running"
      BY <1>0, <3>1 DEF RouteOf, Working
    <3>3. ~job[j].result /\ job'[j].result = job[j].result
      <4>1. ~job[j].result
        BY <1>a, <3>2 DEF StoredOf
      <4>2. CASE Try(j)
        <5>1. PICK p : job' = [job EXCEPT ![j] = WithProgress(@, p)]
          BY <4>2 DEF Try
        <5>2. job'[j] = [job[j] EXCEPT !.progress = Clamp(p)]
          BY <1>0, <5>1 DEF WithProgress
        <5>. QED  BY <1>0, <4>1, <5>2 DEF JobRow
      <4>3. CASE ~Try(j)
        BY <2>4, <4>1, <4>3 DEF Load, Refuse, Split, Ask, Untried
      <4>. QED  BY <4>2, <4>3
    <3>. QED  BY <1>a, <3>1, <3>3 DEF StoredOf, Unsaved
  <2>5. CASE Test(j)
    <3>1. /\ pc[j] = "searching" /\ job' = job /\ runs' = runs /\ attempts' = attempts
          /\ pc'[j] \in {"tested", "refused"}
          /\ pc'[j] = "tested" => Completed(attempts[j]) # {}
      BY <1>0, <2>5 DEF Test, At, Goto, Untried
    <3>2. ~job[j].result
      BY <1>0, <1>a, <3>1 DEF StoredOf, RouteOf, Working
    <3>3. Completed(attempts[j])' = Completed(attempts[j])
      BY <3>1 DEF Completed
    <3>. QED  BY <1>a, <3>1, <3>2, <3>3 DEF StoredOf, Unsaved
  <2>6. CASE Save(j)
    <3>1. /\ pc[j] = "tested" /\ pc'[j] = "saved" /\ runs' = runs \cup {RunOf(j)}
          /\ UNCHANGED <<job, history, attempts>>
      BY <1>0, <2>6 DEF Save, At, Goto, Untried, RunOf
    <3>2. /\ \A q \in runs : q.job # j
          /\ Completed(attempts[j]) # {}
      BY <1>a, <3>1 DEF StoredOf, Unsaved
    <3>3. RunOf(j)' = RunOf(j) /\ RunOf(j).job = j
          /\ Completed(attempts[j])' = Completed(attempts[j])
      BY <3>1 DEF RunOf, Best, Completed
    <3>. DEFINE r == RunOf(j)
    <3>4. r.job = j /\ runs' = runs \cup {r}
      BY <3>1, <3>3
    <3>. HIDE DEF r
    <3>5. {q \in runs' : q.job = j} = {r}
      BY <3>2, <3>4
    <3>. QED  BY <1>a, <3>1, <3>2, <3>3, <3>5 DEF StoredOf, Unsaved, r
  <2>7. CASE Finish(j)
    <3>1. /\ pc[j] = "saved" /\ pc'[j] = "done" /\ job'[j] = WithResult(job[j], "completed")
          /\ UNCHANGED <<history, attempts, runs>>
      BY <1>0, <2>7 DEF Finish, At, Goto, Untried
    <3>2. job'[j].status = "completed"
      BY <1>0, <3>1 DEF WithResult, JobRow
    <3>3. RunOf(j)' = RunOf(j) /\ Completed(attempts[j])' = Completed(attempts[j])
      BY <3>1 DEF RunOf, Best, Completed
    <3>. QED  BY <1>a, <3>1, <3>2, <3>3 DEF StoredOf, Unsaved
  <2>8. CASE Fail(j)
    <3>1. /\ pc[j] \in {"refused", "stopped"} /\ pc'[j] = "done"
          /\ job'[j] = WithError(job[j], pc[j] = "stopped")
      BY <1>0, <2>8 DEF Fail, Goto
    <3>2. job[j].status = "running"
      BY <1>0, <3>1 DEF RouteOf, Working
    <3>3. ~job[j].result /\ job'[j].result = job[j].result
      BY <1>0, <1>a, <3>1, <3>2 DEF StoredOf, WithError, JobRow
    <3>. QED  BY <3>1, <3>3 DEF StoredOf, Unsaved
  <2>. QED
    BY <2>1, <2>2, <2>3, <2>4, <2>5, <2>6, <2>7, <2>8 DEF StepOf, Step
<1>. QED  BY <1>1, <1>2

LEMMA StoredNext ==
    ASSUME StoredInv, [Next]_vars
    PROVE  StoredInv'
<1>1. SearchInv' /\ SearchInv
  BY SearchNext DEF StoredInv
<1>2. \A j \in Jobs : StoredOf(j)
  BY DEF StoredInv
<1>3. ASSUME NEW j \in Jobs, StepOf(j)
      PROVE  StoredInv'
  BY <1>1, <1>3, StoredStep DEF StoredInv
<1>4. CASE Crash
  <2>1. ASSUME NEW j \in Jobs
        PROVE  StoredOf(j)'
    <3>1. /\ UNCHANGED <<job, history, attempts, runs>>
          /\ pc'[j] = pc[j] \/ pc'[j] = "lost"
      BY <1>4 DEF Crash, Untried
    <3>2. "lost" \notin Unsaved \cup {"saved"}
      BY DEF Unsaved
    <3>. QED  BY <1>2, <3>1, <3>2, StoredKept
  <2>. QED  BY <1>1, <2>1 DEF StoredInv
<1>5. CASE UNCHANGED vars
  <2>1. ASSUME NEW j \in Jobs
        PROVE  StoredOf(j)'
    <3>1. UNCHANGED <<job, pc, history, attempts, runs>>
      BY <1>5 DEF vars
    <3>. QED  BY <1>2, <3>1, StoredKept
  <2>. QED  BY <1>1, <2>1 DEF StoredInv
<1>. QED  BY <1>3, <1>4, <1>5 DEF Next, StepOf

\* Every run is stored once, by a search an attempt of which completed, before its
\* row has a result (save_research_run, update_job).
THEOREM RunsAreStoredOnce == Spec => []StoredInv
<1>1. Init => StoredInv
  <2>1. ASSUME Init, NEW j \in Jobs
        PROVE  StoredOf(j)
    BY <2>1 DEF Init, StoredOf, Unsaved, AbsentRow
  <2>. QED  BY <2>1, SearchInit DEF StoredInv
<1>. QED  BY <1>1, StoredNext, PTL DEF Spec

\* A job with a result has stored one run, of its own history and of all its
\* attempts, and the candidate of it completed with a score that no other exceeds
\* (run_parameter_search, save_research_run).
THEOREM BestIsStored == Spec => []ResultIsBestRun
<1>1. ASSUME StoredInv
      PROVE  ResultIsBestRun
  <2>1. ASSUME NEW j \in Jobs, job[j].result
        PROVE  \E r \in runs :
                 /\ {q \in runs : q.job = j} = {r}
                 /\ r.snapshot = history[j]
                 /\ Len(r.tested) = Trials(j)
                 /\ \E n \in DOMAIN r.tested :
                      /\ r.tested[n].ok /\ r.tested[n].candidate = r.candidate
                      /\ \A m \in DOMAIN r.tested :
                            r.tested[m].ok => r.tested[m].score <= r.tested[n].score
    <3>. DEFINE r == RunOf(j)
                tried == attempts[j]
    <3>1. /\ {q \in runs : q.job = j} = {r} /\ Completed(tried) # {}
          /\ job[j].status = "completed"
      BY <1>1, <2>1 DEF StoredInv, StoredOf
    <3>2. tried \in Seq(Attempt) /\ Len(tried) = Trials(j)
      BY <1>1, <3>1 DEF StoredInv, SearchInv, SearchOf, TypeOK, RouteOf
    <3>3. /\ r.snapshot = history[j] /\ r.tested = tried
          /\ r.candidate = Best(tried).candidate
      BY DEF RunOf
    <3>4. r \in runs
      BY <3>1
    <3>. HIDE DEF r, tried
    <3>5. PICK n \in DOMAIN tried :
              /\ tried[n] = Best(tried) /\ tried[n].ok
              /\ \A m \in DOMAIN tried : tried[m].ok => tried[m].score <= tried[n].score
      BY <3>1, <3>2, BestIsBest
    <3>. QED  BY <3>1, <3>2, <3>3, <3>4, <3>5
  <2>. QED  BY <2>1 DEF ResultIsBestRun
<1>. QED  BY <1>1, RunsAreStoredOnce, PTL

-----------------------------------------------------------------------------
\* What every backtest promises, of the histories that arrive

LEMMA LoadedType ==
    ASSUME SearchInv, NEW h \in Loaded, NEW i \in DOMAIN Grid
    PROVE  h \in Seq(Session) /\ Grid[i] \in Strategy
<1>1. PICK j \in Jobs : pc[j] = "loaded" /\ h = history[j]
  BY DEF Loaded
<1>2. h \in Histories
  BY <1>1 DEF SearchInv, SearchOf, RouteOf
<1>3. Grid \in Seq(Strategy) /\ Histories \subseteq Seq(Session)
  BY SearchAssumption
<1>. QED  BY <1>2, <1>3

\* No backtest knows a session before it happened, whatever the history, the
\* strategy and the start (apply_execution, run_research_backtest, _trades).
THEOREM NoBacktestLooksAhead == Spec => []NoLookAhead
<1>1. ASSUME SearchInv
      PROVE  NoLookAhead
  <2>1. ASSUME NEW h \in Loaded, NEW i \in DOMAIN Grid, NEW from \in {1, 3}
        PROVE  KnownInTime(h, Grid[i], from)
    <3>1. h \in Seq(Session) /\ Grid[i] \in Strategy /\ from \in Nat \ {0}
      BY <1>1, LoadedType
    <3>. QED  BY <3>1, NothingIsKnownEarly
  <2>. QED  BY <2>1 DEF NoLookAhead
<1>. QED  BY <1>1, SearchInvariant, PTL

\* The ledger of every backtest explains its equity curve to the last unit, and no
\* session is counted by two trades (apply_execution, _trades).
THEOREM TradesAddUp == Spec => []TradesReconcile
<1>1. ASSUME SearchInv
      PROVE  TradesReconcile
  <2>1. ASSUME NEW h \in Loaded, NEW i \in DOMAIN Grid, NEW from \in {1, 3}
        PROVE  LedgerExplainsCurve(h, Grid[i], from)
    <3>1. h \in Seq(Session) /\ Grid[i] \in Strategy /\ from \in Nat \ {0}
      BY <1>1, LoadedType
    <3>. QED  BY <3>1, LedgerExplains
  <2>. QED  BY <2>1 DEF TradesReconcile
<1>. QED  BY <1>1, SearchInvariant, PTL

=============================================================================
