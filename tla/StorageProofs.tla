----------------------------- MODULE StorageProofs -----------------------------
(***************************************************************************)
(* Theorems about the company identity of the intelligence repository and  *)
(* about the connection its statements go through.                         *)
(*                                                                         *)
(* CompanyIdentity, for any number of companies, tickers, exchanges and    *)
(* days: the rows may be infinitely many, and that LIMIT 1 finds a row     *)
(* follows from the order of the days alone.                               *)
(*                                                                         *)
(* SharedConnection, for any number of threads and calls and any           *)
(* well-bracketed programs: transactions stay whole and owned.             *)
(***************************************************************************)
EXTENDS CompanyIdentity, SharedConnection, WellFoundedInduction, TLAPS

-----------------------------------------------------------------------------
\* Rows and the choices among them

LEMMA LeastNumber ==
    ASSUME NEW N \in SUBSET Nat, N # {}
    PROVE  \E n \in N : \A k \in N : n <= k
<1>1. PICK n \in N : \A k \in N : <<k, n>> \notin OpToRel(<, Nat)
  BY NatLessThanWellFounded, WFMin
<1>2. \A k \in N : ~(k < n)
  BY <1>1 DEF OpToRel
<1>. QED  BY <1>2

LEMMA Calendar == /\ Forever \in Nat /\ Forever > 0
                  /\ \A d \in Days : d \in Nat /\ d >= 1 /\ d < Forever
  BY IdentityAssumption DEF Forever, Days

LEMMA MappingFields ==
    ASSUME NEW m \in Mapping
    PROVE  /\ m.company \in Companies /\ m.ticker \in Tickers /\ m.exchange \in Exchanges
           /\ m.from \in Nat /\ m.from < Forever /\ m.to \in Nat /\ m.to <= Forever
           /\ m.primary \in BOOLEAN
  BY Calendar DEF Mapping

LEMMA FirstIsOne ==
    ASSUME NEW rows \in SUBSET Mapping, rows # {}
    PROVE  First(rows) \in rows
<1>1. \A m \in rows : Rank(m) \in Nat
  BY MappingFields, Calendar DEF Rank
<1>. DEFINE ranks == {Rank(m) : m \in rows}
<1>a. ranks \in SUBSET Nat /\ ranks # {}
  BY <1>1
<1>. HIDE DEF ranks
<1>2. PICK n \in ranks : \A k \in ranks : n <= k
  BY <1>a, LeastNumber
<1>. USE DEF ranks
<1>3. \E m \in rows : \A k \in rows : Rank(m) <= Rank(k)
  BY <1>2
<1>. QED  BY <1>3 DEF First

LEMMA LatestIsOne ==
    ASSUME NEW rows \in SUBSET Mapping, rows # {}
    PROVE  Latest(rows) \in rows
<1>. DEFINE ends == {Forever - m.to : m \in rows}
<1>0. \A m \in rows : Forever - m.to \in Nat /\ Forever - m.from \in Nat
  <2>1. SUFFICES ASSUME NEW m \in rows PROVE Forever - m.to \in Nat /\ Forever - m.from \in Nat
    OBVIOUS
  <2>2. m \in Mapping
    OBVIOUS
  <2>. QED  BY <2>2, MappingFields, Calendar
<1>a. ends \in SUBSET Nat /\ ends # {}
  BY <1>0
<1>. HIDE DEF ends
<1>1. PICK n \in ends : \A k \in ends : n <= k
  BY <1>a, LeastNumber
<1>. USE DEF ends
<1>. DEFINE last == {m \in rows : Forever - m.to = n}
            begins == {Forever - m.from : m \in last}
<1>b. begins \in SUBSET Nat /\ begins # {}
  BY <1>0, <1>1
<1>. HIDE DEF begins
<1>2. PICK i \in begins : \A k \in begins : i <= k
  BY <1>b, LeastNumber
<1>. USE DEF begins
<1>3. PICK m \in last : Forever - m.from = i
  BY <1>2
<1>4. ASSUME NEW k \in rows
      PROVE  m.to > k.to \/ (m.to = k.to /\ m.from >= k.from)
  <2>1. /\ m \in Mapping /\ k \in Mapping
        /\ Forever - m.to <= Forever - k.to
    BY <1>1, <1>3
  <2>2. CASE k.to = m.to
    <3>1. k \in last
      BY <2>2, <1>3
    <3>2. Forever - m.from <= Forever - k.from
      BY <3>1, <1>2, <1>3
    <3>3. m.from \in Nat /\ k.from \in Nat /\ Forever \in Nat
      BY <2>1, MappingFields, Calendar
    <3>. QED  BY <3>2, <3>3, <2>2
  <2>3. CASE k.to # m.to
    BY <2>3, <2>1, MappingFields, Calendar
  <2>. QED  BY <2>2, <2>3
<1>. QED  BY <1>3, <1>4 DEF Latest

\* A day on which nothing has ended yet
OneOwner(rows) ==
    \A m, n \in Active(rows) : m.ticker = n.ticker => m.company = n.company

\* The active owner is the company of every active row.
LEMMA OwnerOfRow ==
    ASSUME NEW rows \in SUBSET Mapping, OneOwner(rows), NEW m \in Active(rows)
    PROVE  ActiveOwner(rows, m.ticker) = m.company
<1>. DEFINE owning == OfTicker(Active(rows), m.ticker)
<1>1. owning \in SUBSET Mapping /\ owning # {}
  BY DEF OfTicker, Active
<1>2. First(owning) \in owning
  BY <1>1, FirstIsOne
<1>. QED  BY <1>1, <1>2 DEF ActiveOwner, OneOwner, OfTicker

\* A ticker that is not taken has no active row of another company.
LEMMA FreeTicker ==
    ASSUME NEW rows \in SUBSET Mapping, OneOwner(rows), NEW t, NEW c, ~Taken(rows, t, c)
    PROVE  \A m \in Active(rows) : m.ticker = t => m.company = c
<1>1. ASSUME NEW m \in Active(rows), m.ticker = t
      PROVE  m.company = c
  <2>1. ActiveOwner(rows, t) = m.company
    BY <1>1, OwnerOfRow
  <2>2. m.company # NoCompany
    BY MappingFields, IdentityAssumption DEF Active
  <2>. QED  BY <2>1, <2>2 DEF Taken
<1>. QED  BY <1>1

-----------------------------------------------------------------------------
\* What the two ways of writing do to the rows

\* Rows of their type that begin before they end
Valid(rows) == rows \subseteq Mapping /\ \A m \in rows : m.from <= m.to

\* One row is added, in the place of active rows of the same company and ticker
\* that were not primary; it begins on the day, or when the one it replaces did.
Adds(rows, new, gone, r, c, t, day, primary) ==
    /\ gone \subseteq Active(rows)
    /\ r \in Mapping
    /\ \A m \in gone : m.company = c /\ m.ticker = t /\ ~m.primary
    /\ r.company = c /\ r.ticker = t /\ r.to = Forever
    /\ r.primary = primary
    /\ \/ gone = {} /\ r.from = day
       \/ \E old : gone = {old} /\ r.from = old.from
    /\ new = (rows \ gone) \cup {r}

\* A registration adds one row at most.
LEMMA WaysToRegister ==
    ASSUME NEW rows \in SUBSET Mapping, NEW c \in Companies, NEW t \in Tickers,
           NEW x \in Exchanges, NEW day \in Days, NEW primary \in BOOLEAN
    PROVE  \/ /\ Registered(rows, c, t, x, day, primary) = rows
              /\ ~primary \/ ActivePrimaries(rows, c) # {}
           \/ \E gone, r : Adds(rows, Registered(rows, c, t, x, day, primary),
                                gone, r, c, t, day, primary)
<1>. DEFINE new == Registered(rows, c, t, x, day, primary)
            same == Same(rows, c, t, x)
            old == First(same)
<1>1. CASE same = {}
  <2>. DEFINE r == NewRow(c, t, x, day, primary)
  <2>1. r \in Mapping
    BY Calendar, IdentityAssumption DEF NewRow, Mapping, Forever, Days
  <2>2. new = (rows \ {}) \cup {r}
    BY <1>1 DEF Registered
  <2>3. r.company = c /\ r.ticker = t /\ r.to = Forever /\ r.primary = primary /\ r.from = day
    BY DEF NewRow
  <2>. HIDE DEF r, new
  <2>4. Adds(rows, new, {}, r, c, t, day, primary)
    BY <2>1, <2>2, <2>3 DEF Adds
  <2>. QED  BY <2>4 DEF new
<1>2. CASE same # {} /\ primary /\ ActivePrimaries(rows, c) = {}
  <2>. DEFINE r == [old EXCEPT !.primary = TRUE]
  <2>1. old \in same
    BY <1>2, FirstIsOne DEF Same, OfTicker, Active, Of
  <2>2. /\ old \in Active(rows) /\ old.company = c /\ old.ticker = t
        /\ old \in Mapping /\ old.to = Forever
    BY <2>1 DEF Same, OfTicker, Active, Of
  <2>3. ~old.primary
    BY <2>2, <1>2, MappingFields DEF ActivePrimaries, Primaries, Active, Of
  <2>4. r \in Mapping
    BY <2>2 DEF Mapping
  <2>5. /\ r.company = c /\ r.ticker = t /\ r.to = Forever /\ r.primary = TRUE
        /\ r.from = old.from
    BY <2>2 DEF Mapping
  <2>6. new = (rows \ {old}) \cup {r}
    BY <1>2 DEF Registered
  <2>7. {old} \in SUBSET Active(rows)
    BY <2>2
  <2>8. primary = TRUE
    BY <1>2
  <2>. HIDE DEF old, new, r
  <2>9. \A m \in {old} : m.company = c /\ m.ticker = t /\ ~m.primary
    BY <2>2, <2>3
  <2>10. Adds(rows, new, {old}, r, c, t, day, primary)
    BY <2>4, <2>5, <2>6, <2>7, <2>8, <2>9 DEF Adds
  <2>. QED  BY <2>10 DEF new
<1>3. CASE same # {} /\ ~(primary /\ ActivePrimaries(rows, c) = {})
  BY <1>3 DEF Registered
<1>. QED  BY <1>1, <1>2, <1>3

LEMMA RegisteredRows ==
    ASSUME NEW rows \in SUBSET Mapping, Valid(rows),
           NEW c \in Companies, NEW t \in Tickers,
           NEW x \in Exchanges, NEW day \in Days, NEW primary \in BOOLEAN,
           OneOwner(rows), ~Taken(rows, t, c)
    PROVE  /\ Valid(Registered(rows, c, t, x, day, primary))
           /\ OneOwner(Registered(rows, c, t, x, day, primary))
<1>. DEFINE new == Registered(rows, c, t, x, day, primary)
<1>1. \A m \in Active(rows) : m.ticker = t => m.company = c
  BY FreeTicker
<1>2. CASE new = rows
  BY <1>2
<1>3. CASE \E gone, r : Adds(rows, new, gone, r, c, t, day, primary)
  <2>. HIDE DEF new
  <2>1. PICK gone, r : Adds(rows, new, gone, r, c, t, day, primary)
    BY <1>3
  <2>a. /\ r \in Mapping /\ r.company = c /\ r.ticker = t /\ r.to = Forever
        /\ new = (rows \ gone) \cup {r}
    BY <2>1 DEF Adds
  <2>2. r.from <= r.to
    BY <2>a, MappingFields, Calendar
  <2>3. Valid(new)
    BY <2>a, <2>2 DEF Valid
  <2>4. \A m \in Active(new) : m \in Active(rows) \/ m = r
    BY <2>a DEF Active
  <2>5. OneOwner(new)
    BY <2>a, <2>4, <1>1 DEF OneOwner
  <2>. QED  BY <2>3, <2>5 DEF new
<1>. QED  BY <1>2, <1>3, WaysToRegister

\* What it takes to be an active primary row
LEMMA PrimaryRow ==
    ASSUME NEW rows, NEW d, NEW q
    PROVE  q \in ActivePrimaries(rows, d) <=> q \in Active(rows) /\ q.company = d /\ q.primary
  BY DEF ActivePrimaries, Primaries, Active, Of

\* The primary rows are the same ...
SamePrimaries(rows, new) ==
    \A d, q : q \in ActivePrimaries(new, d) <=> q \in ActivePrimaries(rows, d)

\* ... or those of one company are a single one.
OnlyPrimary(rows, new, c, r) ==
    /\ \A q : q \in ActivePrimaries(new, c) <=> q = r
    /\ \A d, q : d # c => (q \in ActivePrimaries(new, d) <=> q \in ActivePrimaries(rows, d))

LEMMA AlternateRegistered ==
    ASSUME NEW rows \in SUBSET Mapping, NEW c \in Companies, NEW t \in Tickers,
           NEW x \in Exchanges, NEW day \in Days
    PROVE  SamePrimaries(rows, Registered(rows, c, t, x, day, FALSE))
<1>. DEFINE new == Registered(rows, c, t, x, day, FALSE)
<1>1. new = rows \/ \E gone, r : Adds(rows, new, gone, r, c, t, day, FALSE)
  BY WaysToRegister
<1>. HIDE DEF new
<1>2. CASE new = rows
  BY <1>2 DEF SamePrimaries, new
<1>3. ASSUME NEW gone, NEW r, Adds(rows, new, gone, r, c, t, day, FALSE)
      PROVE  SamePrimaries(rows, new)
  <2>1. /\ \A m \in gone : ~m.primary
        /\ ~r.primary
        /\ new = (rows \ gone) \cup {r}
    BY <1>3 DEF Adds
  <2>2. \A q : q.primary => (q \in Active(new) <=> q \in Active(rows))
    BY <2>1 DEF Active
  <2>. QED  BY <2>2, PrimaryRow DEF SamePrimaries
<1>. QED  BY <1>1, <1>2, <1>3 DEF new

LEMMA PrimaryRegistered ==
    ASSUME NEW rows \in SUBSET Mapping, NEW c \in Companies, NEW t \in Tickers,
           NEW x \in Exchanges, NEW day \in Days, ActivePrimaries(rows, c) = {}
    PROVE  \E r : OnlyPrimary(rows, Registered(rows, c, t, x, day, TRUE), c, r)
<1>. DEFINE new == Registered(rows, c, t, x, day, TRUE)
<1>1. \E gone, r : Adds(rows, new, gone, r, c, t, day, TRUE)
  BY WaysToRegister
<1>. HIDE DEF new
<1>2. PICK gone, r : Adds(rows, new, gone, r, c, t, day, TRUE)
  BY <1>1
<1>3. \A m \in Active(rows) : ~(m.company = c /\ m.primary)
  BY PrimaryRow
<1>4. /\ \A m \in gone : m.company = c /\ ~m.primary
      /\ r.company = c /\ r.to = Forever /\ r.primary
      /\ new = (rows \ gone) \cup {r}
  BY <1>2 DEF Adds
<1>5. \A q : q \in Active(new) <=> (q \in Active(rows) /\ q \notin gone) \/ q = r
  BY <1>4 DEF Active
<1>6. ASSUME NEW q
      PROVE  q \in ActivePrimaries(new, c) <=> q = r
  <2>1. q \in ActivePrimaries(new, c) => q = r
    BY <1>3, <1>5, PrimaryRow, Zenon
  <2>2. r \in ActivePrimaries(new, c)
    BY <1>4, <1>5, PrimaryRow, Zenon
  <2>. QED  BY <2>1, <2>2
<1>7. ASSUME NEW d, NEW q, d # c
      PROVE  q \in ActivePrimaries(new, d) <=> q \in ActivePrimaries(rows, d)
  BY <1>4, <1>5, <1>7, PrimaryRow
<1>8. OnlyPrimary(rows, new, c, r)
  BY <1>6, <1>7 DEF OnlyPrimary
<1>. QED  BY <1>8 DEF new

\* Rows of one company are ended on a day they have all reached.
LEMMA EndedRows ==
    ASSUME NEW rows \in SUBSET Mapping, Valid(rows),
           NEW c \in Companies, NEW some \in SUBSET Active(Of(rows, c)),
           NEW day \in Days, \A m \in some : m.from <= day
    PROVE  LET new == Ended(rows, some, day)
           IN  /\ Valid(new)
               /\ Active(new) = Active(rows) \ some
<1>. DEFINE new == Ended(rows, some, day)
<1>1. ASSUME NEW m \in some
      PROVE  LET r == [m EXCEPT !.to = day]
             IN  /\ r \in Mapping
                 /\ r.from = m.from /\ r.to = day
  <2>1. m \in Mapping
    BY DEF Active, Of
  <2>2. day \in 1 .. Forever
    BY Calendar
  <2>. QED  BY <2>1, <2>2 DEF Mapping
<1>2. Valid(new)
  BY <1>1 DEF Valid, Ended
<1>3. ASSUME NEW r
      PROVE  r \in Active(new) <=> r \in Active(rows) \ some
  <2>1. day # Forever
    BY Calendar
  <2>2. CASE r \in rows \ some
    BY <2>2 DEF Active, Ended
  <2>3. ASSUME NEW m \in some, r = [m EXCEPT !.to = day]
        PROVE  r.to # Forever
    BY <2>1, <2>3, <1>1
  <2>4. CASE r \notin rows \ some
    BY <2>3, <2>4 DEF Active, Ended
  <2>. QED  BY <2>2, <2>4
<1>. QED  BY <1>2, <1>3
-----------------------------------------------------------------------------
\* The inductive invariant

IdentityInv == TypeOK /\ ActiveTickerHasOneOwner /\ ActiveCompanyHasOnePrimary

LEMMA InvRows ==
    ASSUME IdentityInv
    PROVE  mappings \in SUBSET Mapping /\ Valid(mappings) /\ OneOwner(mappings)
  BY DEF IdentityInv, TypeOK, Valid, ActiveTickerHasOneOwner, OneOwner

LEMMA ChangedType ==
    ASSUME TypeOK, NEW day \in 1 .. Forever, Changed(day)
    PROVE  effective' \in 1 .. Forever /\ changes' \in 0 .. MaxChanges
  BY IdentityAssumption DEF TypeOK, Changed

\* The status of every company but one is left alone, and so are its primaries.
LEMMA OnePrimary ==
    ASSUME ActiveCompanyHasOnePrimary, NEW c \in Companies,
           \A d \in Companies \ {c} :
              /\ status'[d] = status[d]
              /\ ActivePrimaries(mappings', d) = ActivePrimaries(mappings, d),
           (status'[c] = "active") <=> ActivePrimaries(mappings', c) # {},
           \A m, n \in ActivePrimaries(mappings', c) : m = n
    PROVE  ActiveCompanyHasOnePrimary'
  BY DEF ActiveCompanyHasOnePrimary

LEMMA UpsertKeeps ==
    ASSUME IdentityInv, NEW c \in Companies, NEW t \in Tickers, NEW x \in Exchanges,
           NEW day \in Days, UpsertCompany(c, t, x, day)
    PROVE  IdentityInv'
<1>. DEFINE current == First(ActivePrimaries(mappings, c))
            lone == ActivePrimaries(mappings, c) = {}
<1>1. /\ mappings \in SUBSET Mapping /\ Valid(mappings) /\ OneOwner(mappings)
      /\ TypeOK /\ ActiveCompanyHasOnePrimary
  BY InvRows DEF IdentityInv
<1>2. status' = [status EXCEPT ![c] = "active"] /\ Changed(day)
  BY DEF UpsertCompany
<1>3. \/ ~lone /\ mappings' = mappings
      \/ /\ ~Taken(mappings, t, c)
         /\ mappings' = Registered(mappings, c, t, x, day, lone)
  BY DEF UpsertCompany, Registers, MayRegister
<1>4. Valid(mappings') /\ OneOwner(mappings')
  BY <1>1, <1>3, RegisteredRows
<1>5. /\ \A d \in Companies \ {c} : ActivePrimaries(mappings', d) = ActivePrimaries(mappings, d)
      /\ ~lone => ActivePrimaries(mappings', c) = ActivePrimaries(mappings, c)
      /\ lone => \E r : ActivePrimaries(mappings', c) = {r}
  <2>1. CASE ~lone /\ mappings' = mappings
    BY <2>1
  <2>2. CASE mappings' = Registered(mappings, c, t, x, day, lone)
    <3>1. CASE lone
      <4>1. mappings' = Registered(mappings, c, t, x, day, TRUE)
        BY <2>2, <3>1
      <4>2. PICK r : OnlyPrimary(mappings, mappings', c, r)
        BY <3>1, <4>1, <1>1, PrimaryRegistered
      <4>3. ActivePrimaries(mappings', c) = {r}
        BY <4>2 DEF OnlyPrimary
      <4>4. ASSUME NEW d \in Companies \ {c}
            PROVE  ActivePrimaries(mappings', d) = ActivePrimaries(mappings, d)
        <5>1. d # c
          OBVIOUS
        <5>2. \A q : q \in ActivePrimaries(mappings', d) <=> q \in ActivePrimaries(mappings, d)
          BY <4>2, <5>1, Zenon DEF OnlyPrimary
        <5>. QED  BY <5>2, Zenon
      <4>. QED  BY <3>1, <4>3, <4>4
    <3>2. CASE ~lone
      <4>1. mappings' = Registered(mappings, c, t, x, day, FALSE)
        BY <2>2, <3>2
      <4>2. SamePrimaries(mappings, mappings')
        BY <4>1, <1>1, AlternateRegistered
      <4>3. \A d : ActivePrimaries(mappings', d) = ActivePrimaries(mappings, d)
        BY <4>2 DEF SamePrimaries
      <4>. QED  BY <3>2, <4>3
    <3>. QED  BY <3>1, <3>2
  <2>. QED  BY <1>3, <2>1, <2>2
<1>6. TypeOK'
  <2>1. status' \in [Companies -> {"absent", "active", "inactive"}]
    BY <1>1, <1>2 DEF TypeOK
  <2>2. day \in 1 .. Forever
    BY Calendar DEF Days, Forever
  <2>3. effective' \in 1 .. Forever /\ changes' \in 0 .. MaxChanges
    BY <1>1, <1>2, <2>2, ChangedType
  <2>. QED  BY <2>1, <2>3, <1>4 DEF TypeOK, Valid
<1>7. ActiveCompanyHasOnePrimary'
  <2>1. \A d \in Companies \ {c} : status'[d] = status[d]
    BY <1>1, <1>2 DEF TypeOK
  <2>2. status'[c] = "active"
    BY <1>1, <1>2 DEF TypeOK
  <2>3. ActivePrimaries(mappings', c) # {}
    BY <1>5
  <2>4. \A m, n \in ActivePrimaries(mappings', c) : m = n
    BY <1>5, <1>1 DEF ActiveCompanyHasOnePrimary
  <2>. QED  BY <2>1, <2>2, <2>3, <2>4, <1>1, <1>5, OnePrimary
<1>. QED  BY <1>4, <1>6, <1>7 DEF IdentityInv, ActiveTickerHasOneOwner, OneOwner

LEMMA RegisterKeeps ==
    ASSUME IdentityInv, NEW c \in Companies, NEW t \in Tickers, NEW x \in Exchanges,
           NEW day \in Days, RegisterSecurity(c, t, x, day)
    PROVE  IdentityInv'
<1>1. /\ mappings \in SUBSET Mapping /\ Valid(mappings) /\ OneOwner(mappings)
      /\ TypeOK /\ ActiveCompanyHasOnePrimary
  BY InvRows DEF IdentityInv
<1>2. /\ status' = status /\ Changed(day)
      /\ ~Taken(mappings, t, c)
      /\ mappings' = Registered(mappings, c, t, x, day, FALSE)
  BY DEF RegisterSecurity, Registers, MayRegister
<1>3. Valid(mappings') /\ OneOwner(mappings')
  BY <1>1, <1>2, RegisteredRows
<1>4. \A d \in Companies : ActivePrimaries(mappings', d) = ActivePrimaries(mappings, d)
  <2>1. SamePrimaries(mappings, mappings')
    BY <1>1, <1>2, AlternateRegistered
  <2>. QED  BY <2>1 DEF SamePrimaries
<1>5. TypeOK'
  <2>1. status' \in [Companies -> {"absent", "active", "inactive"}]
    BY <1>1, <1>2 DEF TypeOK
  <2>2. day \in 1 .. Forever
    BY Calendar DEF Days, Forever
  <2>3. effective' \in 1 .. Forever /\ changes' \in 0 .. MaxChanges
    BY <1>1, <1>2, <2>2, ChangedType
  <2>. QED  BY <2>1, <2>3, <1>3 DEF TypeOK, Valid
<1>6. ActiveCompanyHasOnePrimary'
  BY <1>1, <1>2, <1>4 DEF ActiveCompanyHasOnePrimary
<1>. QED  BY <1>3, <1>5, <1>6 DEF IdentityInv, ActiveTickerHasOneOwner, OneOwner

\* The rows between the two halves of a ticker change
LEMMA ReplacedRows ==
    ASSUME IdentityInv, NEW c \in Companies, NEW t \in Tickers, NEW x \in Exchanges,
           NEW day \in Days, ChangePrimaryTicker(c, t, x, day)
    PROVE  LET rows == EndedBefore(mappings, Replaced(c, t), day)
           IN  /\ day - 1 \in Days \/ Replaced(c, t) = {}
               /\ Replaced(c, t) \in SUBSET Active(Of(mappings, c))
               /\ \A m \in Replaced(c, t) : m.from <= day - 1
               /\ rows \in SUBSET Mapping /\ Valid(rows)
               /\ Active(rows) = Active(mappings) \ Replaced(c, t)
               /\ OneOwner(rows)
               /\ ActivePrimaries(rows, c) = {}
               /\ \A d \in Companies \ {c} :
                     ActivePrimaries(rows, d) = ActivePrimaries(mappings, d)
<1>. DEFINE old == Replaced(c, t)
            rows == EndedBefore(mappings, old, day)
<1>1. mappings \in SUBSET Mapping /\ Valid(mappings) /\ OneOwner(mappings)
  BY InvRows
<1>2. old \in SUBSET Active(Of(mappings, c)) /\ old \subseteq mappings
  BY DEF Replaced, Active, Of
<1>3. \A m \in old : m.from < day
  BY DEF ChangePrimaryTicker
<1>4. \A m \in old : m \in Mapping /\ m.from \in Nat /\ m.from >= 1
  BY <1>1, <1>2 DEF Mapping, Days
<1>. HIDE DEF old
<1>5. day - 1 \in Days \/ old = {}
  <2>1. ASSUME NEW m \in old
        PROVE  day - 1 \in Days
    <3>1. m.from < day /\ m.from >= 1 /\ m.from \in Nat
      BY <1>3, <1>4
    <3>. QED  BY <3>1, Calendar, IdentityAssumption DEF Days
  <2>. QED  BY <2>1
<1>6. \A m \in old : m.from <= day - 1
  <2>1. ASSUME NEW m \in old
        PROVE  m.from <= day - 1
    <3>1. m.from < day /\ m.from \in Nat /\ day \in Nat
      BY <1>3, <1>4, Calendar
    <3>. QED  BY <3>1
  <2>. QED  BY <2>1
<1>7. Valid(rows) /\ Active(rows) = Active(mappings) \ old
  <2>1. CASE old = {}
    <3>1. rows = mappings
      BY <2>1 DEF EndedBefore, Ended
    <3>. QED  BY <3>1, <2>1, <1>1
  <2>2. CASE old # {}
    <3>1. day - 1 \in Days
      BY <2>2, <1>5
    <3>. QED  BY <3>1, <1>1, <1>2, <1>6, EndedRows DEF EndedBefore
  <2>. QED  BY <2>1, <2>2
<1>. HIDE DEF rows
<1>8. OneOwner(rows)
  BY <1>1, <1>7 DEF OneOwner
<1>9. /\ ActivePrimaries(rows, c) = {}
      /\ \A d \in Companies \ {c} : ActivePrimaries(rows, d) = ActivePrimaries(mappings, d)
  <2>1. \A m \in Active(mappings) : m.company = c /\ m.primary => m \in old
    BY DEF Replaced, Active, Of, old
  <2>2. \A m \in old : m.company = c
    BY DEF Replaced, Active, Of, old
  <2>3. ASSUME NEW q
        PROVE  q \notin ActivePrimaries(rows, c)
    BY <2>1, <1>7, PrimaryRow
  <2>4. ASSUME NEW d \in Companies \ {c}, NEW q
        PROVE  q \in ActivePrimaries(rows, d) <=> q \in ActivePrimaries(mappings, d)
    BY <2>2, <1>7, PrimaryRow
  <2>. QED  BY <2>3, <2>4, Zenon
<1>. QED  BY <1>2, <1>5, <1>6, <1>7, <1>8, <1>9 DEF Valid, rows, old

LEMMA ChangeKeeps ==
    ASSUME IdentityInv, NEW c \in Companies, NEW t \in Tickers, NEW x \in Exchanges,
           NEW day \in Days, ChangePrimaryTicker(c, t, x, day)
    PROVE  IdentityInv'
<1>. DEFINE rows == EndedBefore(mappings, Replaced(c, t), day)
<1>1. TypeOK /\ ActiveCompanyHasOnePrimary
  BY DEF IdentityInv
<1>2. /\ status' = [status EXCEPT ![c] = "active"] /\ Changed(day)
      /\ ~Taken(rows, t, c)
      /\ mappings' = Registered(rows, c, t, x, day, TRUE)
  BY DEF ChangePrimaryTicker, Reactivated, MayRegister
<1>3. /\ rows \in SUBSET Mapping /\ Valid(rows) /\ OneOwner(rows)
      /\ ActivePrimaries(rows, c) = {}
      /\ \A d \in Companies \ {c} : ActivePrimaries(rows, d) = ActivePrimaries(mappings, d)
  BY ReplacedRows
<1>. HIDE DEF rows
<1>4. Valid(mappings') /\ OneOwner(mappings')
  BY <1>2, <1>3, RegisteredRows
<1>5. /\ \A d \in Companies \ {c} : ActivePrimaries(mappings', d) = ActivePrimaries(mappings, d)
      /\ \E r : ActivePrimaries(mappings', c) = {r}
  <2>1. PICK r : OnlyPrimary(rows, mappings', c, r)
    BY <1>2, <1>3, PrimaryRegistered
  <2>2. ActivePrimaries(mappings', c) = {r}
    BY <2>1 DEF OnlyPrimary
  <2>3. ASSUME NEW d \in Companies \ {c}
        PROVE  ActivePrimaries(mappings', d) = ActivePrimaries(rows, d)
    <3>1. d # c
      OBVIOUS
    <3>2. \A q : q \in ActivePrimaries(mappings', d) <=> q \in ActivePrimaries(rows, d)
      BY <2>1, <3>1, Zenon DEF OnlyPrimary
    <3>. QED  BY <3>2, Zenon
  <2>. QED  BY <2>2, <2>3, <1>3
<1>6. TypeOK'
  <2>1. status' \in [Companies -> {"absent", "active", "inactive"}]
    BY <1>1, <1>2 DEF TypeOK
  <2>2. day \in 1 .. Forever
    BY Calendar DEF Days, Forever
  <2>3. effective' \in 1 .. Forever /\ changes' \in 0 .. MaxChanges
    BY <1>1, <1>2, <2>2, ChangedType
  <2>. QED  BY <2>1, <2>3, <1>4 DEF TypeOK, Valid
<1>7. ActiveCompanyHasOnePrimary'
  <2>1. \A d \in Companies \ {c} : status'[d] = status[d]
    BY <1>1, <1>2 DEF TypeOK
  <2>2. status'[c] = "active"
    BY <1>1, <1>2 DEF TypeOK
  <2>. QED  BY <2>1, <2>2, <1>1, <1>5, OnePrimary
<1>. QED  BY <1>4, <1>6, <1>7 DEF IdentityInv, ActiveTickerHasOneOwner, OneOwner

LEMMA MarkKeeps ==
    ASSUME IdentityInv, NEW c \in Companies, NEW last \in Days, MarkInactive(c, last)
    PROVE  IdentityInv'
<1>. DEFINE old == Active(Of(mappings, c))
<1>1. /\ mappings \in SUBSET Mapping /\ Valid(mappings) /\ OneOwner(mappings)
      /\ TypeOK /\ ActiveCompanyHasOnePrimary
  BY InvRows DEF IdentityInv
<1>2. /\ status' = [status EXCEPT ![c] = "inactive"] /\ Changed(last + 1)
      /\ \A m \in old : m.from <= last
      /\ mappings' = Ended(mappings, old, last)
  BY DEF MarkInactive
<1>3. Valid(mappings') /\ Active(mappings') = Active(mappings) \ old
  <2>1. old \in SUBSET Active(Of(mappings, c))
    OBVIOUS
  <2>. HIDE DEF old
  <2>. QED  BY <2>1, <1>1, <1>2, EndedRows
<1>4. OneOwner(mappings')
  BY <1>1, <1>3 DEF OneOwner
<1>5. /\ ActivePrimaries(mappings', c) = {}
      /\ \A d \in Companies \ {c} : ActivePrimaries(mappings', d) = ActivePrimaries(mappings, d)
  <2>1. \A m \in Active(mappings) : m \in old <=> m.company = c
    BY DEF Active, Of
  <2>2. \A m \in old : m.company = c
    BY DEF Active, Of
  <2>. HIDE DEF old
  <2>3. ASSUME NEW q
        PROVE  q \notin ActivePrimaries(mappings', c)
    BY <2>1, <1>3, PrimaryRow
  <2>4. ASSUME NEW d \in Companies \ {c}, NEW q
        PROVE  q \in ActivePrimaries(mappings', d) <=> q \in ActivePrimaries(mappings, d)
    BY <2>2, <1>3, PrimaryRow
  <2>. QED  BY <2>3, <2>4, Zenon
<1>6. TypeOK'
  <2>1. status' \in [Companies -> {"absent", "active", "inactive"}]
    BY <1>1, <1>2 DEF TypeOK
  <2>2. last + 1 \in 1 .. Forever
    BY Calendar DEF Days, Forever
  <2>3. effective' \in 1 .. Forever /\ changes' \in 0 .. MaxChanges
    BY <1>1, <1>2, <2>2, ChangedType
  <2>. QED  BY <2>1, <2>3, <1>3 DEF TypeOK, Valid
<1>7. ActiveCompanyHasOnePrimary'
  <2>1. \A d \in Companies \ {c} : status'[d] = status[d]
    BY <1>1, <1>2 DEF TypeOK
  <2>2. status'[c] = "inactive"
    BY <1>1, <1>2 DEF TypeOK
  <2>. QED  BY <2>1, <2>2, <1>1, <1>5, OnePrimary
<1>. QED  BY <1>4, <1>6, <1>7 DEF IdentityInv, ActiveTickerHasOneOwner, OneOwner

\* The three parts hold at the start and after every operation.
THEOREM IdentityInvariant == Spec => []IdentityInv
<1>1. Init => IdentityInv
  <2>1. \A c \in Companies : ActivePrimaries({}, c) = {}
    BY DEF ActivePrimaries, Primaries, Active, Of
  <2>2. 1 \in 1 .. Forever /\ 0 \in 0 .. MaxChanges
    BY Calendar, IdentityAssumption
  <2>3. Init => TypeOK
    BY <2>2 DEF Init, TypeOK
  <2>4. Init => ActiveTickerHasOneOwner /\ ActiveCompanyHasOnePrimary
    BY <2>1 DEF Init, ActiveTickerHasOneOwner, ActiveCompanyHasOnePrimary, Active
  <2>. QED  BY <2>3, <2>4 DEF IdentityInv
<1>2. IdentityInv /\ [Next]_identityVars => IdentityInv'
  <2>. SUFFICES ASSUME IdentityInv, [Next]_identityVars PROVE IdentityInv'
    OBVIOUS
  <2>1. CASE UNCHANGED identityVars
    BY <2>1 DEF identityVars, IdentityInv, TypeOK, ActiveTickerHasOneOwner,
       ActiveCompanyHasOnePrimary, ActivePrimaries, Primaries, Active, Of
  <2>2. ASSUME NEW c \in Companies, NEW day \in Days, NEW t \in Tickers, NEW x \in Exchanges,
               UpsertCompany(c, t, x, day)
        PROVE  IdentityInv'
    BY <2>2, UpsertKeeps
  <2>3. ASSUME NEW c \in Companies, NEW day \in Days, NEW t \in Tickers, NEW x \in Exchanges,
               RegisterSecurity(c, t, x, day)
        PROVE  IdentityInv'
    BY <2>3, RegisterKeeps
  <2>4. ASSUME NEW c \in Companies, NEW day \in Days, NEW t \in Tickers, NEW x \in Exchanges,
               ChangePrimaryTicker(c, t, x, day)
        PROVE  IdentityInv'
    BY <2>4, ChangeKeeps
  <2>5. ASSUME NEW c \in Companies, NEW day \in Days, MarkInactive(c, day)
        PROVE  IdentityInv'
    BY <2>5, MarkKeeps
  <2>. QED  BY <2>1, <2>2, <2>3, <2>4, <2>5 DEF Next
<1>. QED  BY <1>1, <1>2, PTL DEF Spec

\* An active ticker belongs to one company (_register_security,
\* change_primary_ticker).
THEOREM OneOwnerPerTicker == Spec => []ActiveTickerHasOneOwner
  BY IdentityInvariant, PTL DEF IdentityInv

\* A company is active exactly while it has its one primary mapping.
THEOREM OnePrimaryPerCompany == Spec => []ActiveCompanyHasOnePrimary
  BY IdentityInvariant, PTL DEF IdentityInv

-----------------------------------------------------------------------------
\* The look-up of a ticker

\* It depends on the rows of the ticker alone, ...
LEMMA ResolveOfTicker ==
    ASSUME NEW rows, NEW new, NEW t, OfTicker(new, t) = OfTicker(rows, t)
    PROVE  Resolve(new, t) = Resolve(rows, t)
<1>1. \A q : q \in OfTicker(Active(new), t) <=> q \in OfTicker(Active(rows), t)
  <2>1. \A q : q \in OfTicker(Active(new), t) <=> q \in OfTicker(new, t) /\ q.to = Forever
    BY DEF OfTicker, Active
  <2>2. \A q : q \in OfTicker(Active(rows), t) <=> q \in OfTicker(rows, t) /\ q.to = Forever
    BY DEF OfTicker, Active
  <2>. QED  BY <2>1, <2>2
<1>2. OfTicker(Active(new), t) = OfTicker(Active(rows), t)
  BY <1>1
<1>3. ActiveOwner(new, t) = ActiveOwner(rows, t)
  BY <1>2 DEF ActiveOwner
<1>. QED  BY <1>3 DEF Resolve

\* ... finds the company of an active row, ...
LEMMA ResolveActiveRow ==
    ASSUME NEW rows \in SUBSET Mapping, OneOwner(rows), NEW m \in Active(rows)
    PROVE  Resolve(rows, m.ticker) = m.company
<1>1. ActiveOwner(rows, m.ticker) = m.company
  BY OwnerOfRow
<1>2. m.company # NoCompany
  BY MappingFields, IdentityAssumption DEF Active
<1>. QED  BY <1>1, <1>2 DEF Resolve

\* ... and a company exactly for a ticker that has a row.
LEMMA ResolveFinds ==
    ASSUME NEW rows \in SUBSET Mapping, OneOwner(rows), NEW t
    PROVE  /\ Resolve(rows, t) \in Companies \cup {NoCompany}
           /\ OfTicker(rows, t) # {} => Resolve(rows, t) # NoCompany
<1>1. OfTicker(rows, t) \in SUBSET Mapping /\ OfTicker(Active(rows), t) \in SUBSET Mapping
  BY DEF OfTicker, Active
<1>2. CASE OfTicker(Active(rows), t) # {}
  <2>1. First(OfTicker(Active(rows), t)) \in Mapping
    BY <1>1, <1>2, FirstIsOne
  <2>2. /\ ActiveOwner(rows, t) \in Companies
        /\ ActiveOwner(rows, t) # NoCompany
    BY <1>2, <2>1, MappingFields, IdentityAssumption DEF ActiveOwner
  <2>. QED  BY <2>2 DEF Resolve
<1>3. CASE OfTicker(Active(rows), t) = {}
  <2>1. ActiveOwner(rows, t) = NoCompany
    BY <1>3 DEF ActiveOwner
  <2>2. CASE OfTicker(rows, t) = {}
    BY <2>1, <2>2 DEF Resolve
  <2>3. CASE OfTicker(rows, t) # {}
    <3>1. Latest(OfTicker(rows, t)) \in Mapping
      BY <1>1, <2>3, LatestIsOne
    <3>2. Resolve(rows, t) = Latest(OfTicker(rows, t)).company
      BY <2>1, <2>3 DEF Resolve
    <3>. QED  BY <3>1, <3>2, MappingFields, IdentityAssumption
  <2>. QED  BY <2>2, <2>3
<1>. QED  BY <1>2, <1>3

\* An operation on company c moves tickers to it or away from it.
Moves(rows, new, c) ==
    \A t \in Tickers :
        \/ Resolve(new, t) = Resolve(rows, t)
        \/ /\ Resolve(new, t) # NoCompany
           /\ Resolve(new, t) = c \/ Resolve(rows, t) = c

LEMMA RegisteredMoves ==
    ASSUME NEW rows \in SUBSET Mapping, Valid(rows), OneOwner(rows),
           NEW c \in Companies, NEW t \in Tickers,
           NEW x \in Exchanges, NEW day \in Days, NEW primary \in BOOLEAN,
           ~Taken(rows, t, c), NEW u \in Tickers
    PROVE  \/ Resolve(Registered(rows, c, t, x, day, primary), u) = Resolve(rows, u)
           \/ Resolve(Registered(rows, c, t, x, day, primary), u) = c
<1>. DEFINE new == Registered(rows, c, t, x, day, primary)
<1>0. new = rows \/ \E gone, r : Adds(rows, new, gone, r, c, t, day, primary)
  BY WaysToRegister
<1>1. new \in SUBSET Mapping /\ OneOwner(new)
  BY RegisteredRows DEF Valid
<1>. HIDE DEF new
<1>2. CASE new = rows
  BY <1>2 DEF new
<1>3. ASSUME NEW gone, NEW r, Adds(rows, new, gone, r, c, t, day, primary)
      PROVE  Resolve(new, u) = Resolve(rows, u) \/ Resolve(new, u) = c
  <2>1. /\ \A m \in gone : m.ticker = t
        /\ r.company = c /\ r.ticker = t /\ r.to = Forever
        /\ new = (rows \ gone) \cup {r}
    BY <1>3 DEF Adds
  <2>2. CASE u = t
    <3>1. r \in Active(new)
      BY <2>1 DEF Active
    <3>. QED  BY <2>1, <2>2, <3>1, <1>1, ResolveActiveRow
  <2>3. CASE u # t
    <3>1. OfTicker(new, u) = OfTicker(rows, u)
      BY <2>1, <2>3 DEF OfTicker
    <3>. QED  BY <3>1, ResolveOfTicker
  <2>. QED  BY <2>2, <2>3
<1>. QED  BY <1>0, <1>2, <1>3 DEF new

LEMMA EndedMoves ==
    ASSUME NEW rows \in SUBSET Mapping, OneOwner(rows),
           NEW c \in Companies, NEW some \in SUBSET Active(Of(rows, c)), NEW day,
           Ended(rows, some, day) \in SUBSET Mapping, OneOwner(Ended(rows, some, day)),
           NEW u \in Tickers
    PROVE  \/ Resolve(Ended(rows, some, day), u) = Resolve(rows, u)
           \/ /\ Resolve(Ended(rows, some, day), u) # NoCompany
              /\ Resolve(rows, u) = c
<1>. DEFINE new == Ended(rows, some, day)
<1>1. ASSUME NEW m \in some
      PROVE  /\ m \in Active(rows) /\ m.company = c
             /\ [m EXCEPT !.to = day].ticker = m.ticker
             /\ [m EXCEPT !.to = day] \in new
  BY DEF Active, Of, Mapping, Ended
<1>2. CASE \E m \in some : m.ticker = u
  <2>1. PICK m \in some : m.ticker = u
    BY <1>2
  <2>2. Resolve(rows, u) = c
    BY <2>1, <1>1, ResolveActiveRow
  <2>3. OfTicker(new, u) # {}
    BY <2>1, <1>1 DEF OfTicker
  <2>. QED  BY <2>2, <2>3, ResolveFinds
<1>3. CASE \A m \in some : m.ticker # u
  <2>1. ASSUME NEW q
        PROVE  q \in OfTicker(new, u) <=> q \in OfTicker(rows, u)
    BY <1>1, <1>3 DEF OfTicker, Ended
  <2>2. OfTicker(new, u) = OfTicker(rows, u)
    BY <2>1
  <2>. QED  BY <2>2, ResolveOfTicker
<1>. QED  BY <1>2, <1>3

LEMMA StepMoves ==
    ASSUME IdentityInv, Next
    PROVE  \E c \in Companies : Moves(mappings, mappings', c)
<1>0. mappings \in SUBSET Mapping /\ Valid(mappings) /\ OneOwner(mappings)
  BY InvRows
<1>1. ASSUME NEW c \in Companies, NEW t \in Tickers, NEW x \in Exchanges, NEW day \in Days,
             NEW primary \in BOOLEAN, Registers(c, t, x, day, primary)
      PROVE  Moves(mappings, mappings', c)
  <2>1. /\ ~Taken(mappings, t, c)
        /\ mappings' = Registered(mappings, c, t, x, day, primary)
    BY <1>1 DEF Registers, MayRegister
  <2>2. c # NoCompany
    BY IdentityAssumption
  <2>. QED  BY <2>1, <2>2, <1>0, RegisteredMoves DEF Moves
<1>2. ASSUME NEW c \in Companies, NEW t \in Tickers, NEW x \in Exchanges, NEW day \in Days,
             UpsertCompany(c, t, x, day)
      PROVE  Moves(mappings, mappings', c)
  <2>1. \/ Registers(c, t, x, day, TRUE) \/ Registers(c, t, x, day, FALSE)
        \/ mappings' = mappings
    BY <1>2 DEF UpsertCompany
  <2>2. mappings' = mappings => Moves(mappings, mappings', c)
    BY DEF Moves
  <2>. QED  BY <2>1, <2>2, <1>1
<1>3. ASSUME NEW c \in Companies, NEW t \in Tickers, NEW x \in Exchanges, NEW day \in Days,
             RegisterSecurity(c, t, x, day)
      PROVE  Moves(mappings, mappings', c)
  BY <1>1, <1>3 DEF RegisterSecurity
<1>4. ASSUME NEW c \in Companies, NEW t \in Tickers, NEW x \in Exchanges, NEW day \in Days,
             ChangePrimaryTicker(c, t, x, day)
      PROVE  Moves(mappings, mappings', c)
  <2>. DEFINE rows == EndedBefore(mappings, Replaced(c, t), day)
  <2>1. /\ ~Taken(rows, t, c)
        /\ mappings' = Registered(rows, c, t, x, day, TRUE)
    BY <1>4 DEF ChangePrimaryTicker, MayRegister
  <2>2. /\ Replaced(c, t) \in SUBSET Active(Of(mappings, c))
        /\ rows \in SUBSET Mapping /\ Valid(rows) /\ OneOwner(rows)
    BY <1>4, ReplacedRows
  <2>3. ASSUME NEW u \in Tickers
        PROVE  \/ Resolve(rows, u) = Resolve(mappings, u)
               \/ Resolve(rows, u) # NoCompany /\ Resolve(mappings, u) = c
    <3>1. rows = Ended(mappings, Replaced(c, t), day - 1)
      BY DEF EndedBefore
    <3>. HIDE DEF rows
    <3>. QED  BY <3>1, <2>2, <1>0, EndedMoves
  <2>. HIDE DEF rows
  <2>4. ASSUME NEW u \in Tickers
        PROVE  Resolve(mappings', u) = Resolve(rows, u) \/ Resolve(mappings', u) = c
    BY <2>1, <2>2, RegisteredMoves
  <2>5. c # NoCompany
    BY IdentityAssumption
  <2>. QED  BY <2>3, <2>4, <2>5 DEF Moves
<1>5. ASSUME NEW c \in Companies, NEW last \in Days, MarkInactive(c, last)
      PROVE  Moves(mappings, mappings', c)
  <2>. DEFINE old == Active(Of(mappings, c))
  <2>1. mappings' = Ended(mappings, old, last)
    BY <1>5 DEF MarkInactive
  <2>2. mappings' \in SUBSET Mapping /\ OneOwner(mappings')
    BY <1>5, MarkKeeps DEF IdentityInv, TypeOK, ActiveTickerHasOneOwner, OneOwner
  <2>3. old \in SUBSET Active(Of(mappings, c))
    OBVIOUS
  <2>. HIDE DEF old
  <2>. QED  BY <2>1, <2>2, <2>3, <1>0, EndedMoves DEF Moves
<1>. QED  BY <1>2, <1>3, <1>4, <1>5 DEF Next

\* The rows of company_security_mappings implement the directory that the
\* portfolio and the decision center are modelled on (resolve_ticker).
THEOREM DirectoryImplemented == Spec => DirectoryContract
<1>. DEFINE answers == [t \in Tickers |-> Resolve(mappings, t)]
<1>1. Init => Directory!Init
  <2>1. ASSUME mappings = {}, NEW t \in Tickers
        PROVE  Resolve(mappings, t) = NoCompany
    BY <2>1 DEF Resolve, ActiveOwner, OfTicker, Active
  <2>. QED  BY <2>1 DEF Init, Directory!Init, Directory!NoTickers
<1>2. IdentityInv /\ IdentityInv' /\ [Next]_identityVars => [Directory!Next]_answers
  <2>. SUFFICES ASSUME IdentityInv, IdentityInv', [Next]_identityVars
                PROVE  [Directory!Next]_answers
    OBVIOUS
  <2>1. CASE UNCHANGED identityVars
    <3>1. mappings' = mappings
      BY <2>1 DEF identityVars
    <3>2. answers' = answers
      BY <3>1
    <3>. QED  BY <3>2
  <2>2. CASE Next
    <3>1. PICK c \in Companies : Moves(mappings, mappings', c)
      BY <2>2, StepMoves
    <3>2. mappings' \in SUBSET Mapping /\ OneOwner(mappings')
      BY DEF IdentityInv, TypeOK, ActiveTickerHasOneOwner, OneOwner
    <3>3. \A t \in Tickers : Resolve(mappings', t) \in Companies \cup {NoCompany}
      BY <3>2, ResolveFinds
    <3>4. answers' = [t \in Tickers |-> Resolve(mappings', t)]
      OBVIOUS
    <3>5. answers' \in [Tickers -> Companies \cup {NoCompany}]
      BY <3>3, <3>4
    <3>6. Directory!Changes(c)
      BY <3>1, <3>4, <3>5 DEF Moves, Directory!Changes
    <3>. QED  BY <3>6 DEF Directory!Next
  <2>. QED  BY <2>1, <2>2
<1>3. Spec => []IdentityInv
  BY IdentityInvariant
<1>. QED  BY <1>1, <1>2, <1>3, PTL DEF Spec, DirectoryContract, Directory!Spec

-----------------------------------------------------------------------------
\* The days before a change

OwnersAmong(rows, t, d) == {m.company : m \in {m \in rows : m.ticker = t /\ m.from <= d /\ d <= m.to}}

Before(d, day) == d < day

\* What a registration adds, whether it is primary or not
AddsOn(rows, new, gone, r, c, t, day) ==
    /\ gone \subseteq Active(rows)
    /\ \A m \in gone : m.company = c /\ m.ticker = t
    /\ r.company = c /\ r.ticker = t /\ r.to = Forever
    /\ \/ gone = {} /\ r.from = day
       \/ \E old : gone = {old} /\ r.from = old.from
    /\ new = (rows \ gone) \cup {r}

LEMMA AddsPast ==
    ASSUME NEW rows \in SUBSET Mapping, NEW new, NEW gone, NEW r, NEW c, NEW t,
           NEW day \in Days, AddsOn(rows, new, gone, r, c, t, day),
           NEW u \in Tickers, NEW d \in Days, Before(d, day)
    PROVE  OwnersAmong(new, u, d) = OwnersAmong(rows, u, d)
<1>1. /\ gone \subseteq rows
      /\ \A m \in gone : m.company = c /\ m.ticker = t /\ m.to = Forever
      /\ r.company = c /\ r.ticker = t /\ r.to = Forever
      /\ new = (rows \ gone) \cup {r}
  BY DEF AddsOn, Active
<1>2. CASE gone = {} /\ r.from = day
  <2>1. ~(r.from <= d)
    BY <1>2, Calendar DEF Before
  <2>. QED  BY <1>1, <1>2, <2>1 DEF OwnersAmong
<1>3. ASSUME NEW old, gone = {old}, r.from = old.from
      PROVE  OwnersAmong(new, u, d) = OwnersAmong(rows, u, d)
  <2>1. /\ old \in rows /\ old.company = r.company /\ old.ticker = r.ticker
        /\ old.from = r.from /\ old.to = r.to
        /\ new = (rows \ {old}) \cup {r}
    BY <1>1, <1>3
  <2>. QED  BY <2>1 DEF OwnersAmong
<1>. QED  BY <1>2, <1>3 DEF AddsOn

SamePast(rows, new, day) ==
    \A t \in Tickers, d \in Days :
        Before(d, day) => OwnersAmong(new, t, d) = OwnersAmong(rows, t, d)

LEMMA RegisteredPast ==
    ASSUME NEW rows \in SUBSET Mapping, NEW c \in Companies, NEW t \in Tickers,
           NEW x \in Exchanges, NEW day \in Days, NEW primary \in BOOLEAN
    PROVE  SamePast(rows, Registered(rows, c, t, x, day, primary), day)
<1>. DEFINE new == Registered(rows, c, t, x, day, primary)
<1>1. new = rows \/ \E gone, r : Adds(rows, new, gone, r, c, t, day, primary)
  BY WaysToRegister
<1>. HIDE DEF new
<1>2. CASE new = rows
  BY <1>2 DEF SamePast, new
<1>3. ASSUME NEW gone, NEW r, Adds(rows, new, gone, r, c, t, day, primary)
      PROVE  SamePast(rows, new, day)
  <2>1. AddsOn(rows, new, gone, r, c, t, day)
    BY <1>3 DEF Adds, AddsOn
  <2>. QED  BY <2>1, AddsPast DEF SamePast
<1>. QED  BY <1>1, <1>2, <1>3 DEF new

LEMMA EndedPast ==
    ASSUME NEW rows \in SUBSET Mapping, NEW some \in SUBSET Active(rows), NEW day \in Days,
           NEW u \in Tickers, NEW d \in Days, d <= day
    PROVE  OwnersAmong(Ended(rows, some, day), u, d) = OwnersAmong(rows, u, d)
<1>. DEFINE new == Ended(rows, some, day)
            covers(m) == m.ticker = u /\ m.from <= d /\ d <= m.to
            ended(m) == [m EXCEPT !.to = day]
<1>1. ASSUME NEW m \in some
      PROVE  /\ m \in rows
             /\ ended(m).company = m.company
             /\ covers(ended(m)) <=> covers(m)
  <2>1. m \in Mapping /\ m.to = Forever /\ m \in rows
    BY DEF Active
  <2>2. /\ ended(m).company = m.company /\ ended(m).ticker = m.ticker
        /\ ended(m).from = m.from /\ ended(m).to = day
    BY <2>1 DEF Mapping
  <2>3. d <= Forever
    BY Calendar
  <2>. QED  BY <2>1, <2>2, <2>3
<1>2. new = (rows \ some) \cup {ended(m) : m \in some}
  BY DEF Ended
<1>. HIDE DEF new, covers, ended
<1>3. ASSUME NEW o
      PROVE  (\E m \in new : covers(m) /\ m.company = o)
               <=> (\E m \in rows : covers(m) /\ m.company = o)
  BY <1>1, <1>2
<1>4. /\ OwnersAmong(new, u, d) = {m.company : m \in {m \in new : covers(m)}}
      /\ OwnersAmong(rows, u, d) = {m.company : m \in {m \in rows : covers(m)}}
  BY DEF OwnersAmong, covers
<1>5. ASSUME NEW o
      PROVE  o \in OwnersAmong(new, u, d) <=> o \in OwnersAmong(rows, u, d)
  <2>1. /\ o \in OwnersAmong(new, u, d) <=> \E m \in new : covers(m) /\ m.company = o
        /\ o \in OwnersAmong(rows, u, d) <=> \E m \in rows : covers(m) /\ m.company = o
    BY <1>4
  <2>. QED  BY <1>3, <2>1
<1>6. OwnersAmong(new, u, d) = OwnersAmong(rows, u, d)
  <2>1. /\ \A o \in OwnersAmong(new, u, d) : o \in OwnersAmong(rows, u, d)
        /\ \A o \in OwnersAmong(rows, u, d) : o \in OwnersAmong(new, u, d)
    BY <1>5
  <2>. QED  BY <2>1
<1>. QED  BY <1>6 DEF new

LEMMA StepKeepsPast ==
    ASSUME IdentityInv, Next, NEW u \in Tickers, NEW d \in Days, d < effective'
    PROVE  OwnersAmong(mappings', u, d) = OwnersAmong(mappings, u, d)
<1>0. mappings \in SUBSET Mapping
  BY InvRows
<1>1. ASSUME NEW c \in Companies, NEW t \in Tickers, NEW x \in Exchanges, NEW day \in Days,
             Changed(day),
             \/ Registers(c, t, x, day, TRUE) \/ Registers(c, t, x, day, FALSE)
             \/ mappings' = mappings
      PROVE  OwnersAmong(mappings', u, d) = OwnersAmong(mappings, u, d)
  <2>1. Before(d, day)
    BY <1>1 DEF Changed, Before
  <2>2. SamePast(mappings, mappings, day)
    BY DEF SamePast
  <2>3. SamePast(mappings, mappings', day)
    BY <1>0, <1>1, <2>2, RegisteredPast DEF Registers
  <2>. QED  BY <2>1, <2>3 DEF SamePast
<1>2. ASSUME NEW c \in Companies, NEW t \in Tickers, NEW x \in Exchanges, NEW day \in Days,
             UpsertCompany(c, t, x, day)
      PROVE  OwnersAmong(mappings', u, d) = OwnersAmong(mappings, u, d)
  <2>1. /\ Changed(day)
        /\ \/ Registers(c, t, x, day, TRUE) \/ Registers(c, t, x, day, FALSE)
           \/ mappings' = mappings
    BY <1>2 DEF UpsertCompany
  <2>. QED  BY <2>1, <1>1
<1>3. ASSUME NEW c \in Companies, NEW t \in Tickers, NEW x \in Exchanges, NEW day \in Days,
             RegisterSecurity(c, t, x, day)
      PROVE  OwnersAmong(mappings', u, d) = OwnersAmong(mappings, u, d)
  BY <1>1, <1>3 DEF RegisterSecurity
<1>4. ASSUME NEW c \in Companies, NEW t \in Tickers, NEW x \in Exchanges, NEW day \in Days,
             ChangePrimaryTicker(c, t, x, day)
      PROVE  OwnersAmong(mappings', u, d) = OwnersAmong(mappings, u, d)
  <2>. DEFINE old == Replaced(c, t)
              rows == EndedBefore(mappings, old, day)
  <2>1. /\ Changed(day)
        /\ mappings' = Registered(rows, c, t, x, day, TRUE)
    BY <1>4 DEF ChangePrimaryTicker
  <2>2. d < day /\ day \in Nat /\ d \in Nat
    BY <2>1, Calendar DEF Changed
  <2>3. /\ day - 1 \in Days \/ old = {}
        /\ old \in SUBSET Active(Of(mappings, c))
        /\ rows \in SUBSET Mapping
    BY <1>4, ReplacedRows
  <2>4. old \in SUBSET Active(mappings)
    BY <2>3 DEF Active, Of
  <2>5. rows = Ended(mappings, old, day - 1)
    BY DEF EndedBefore
  <2>. HIDE DEF rows, old
  <2>6. OwnersAmong(mappings', u, d) = OwnersAmong(rows, u, d)
    <3>1. SamePast(rows, mappings', day)
      BY <2>1, <2>3, RegisteredPast
    <3>. QED  BY <3>1, <2>2 DEF SamePast, Before
  <2>7. CASE old = {}
    <3>1. rows = mappings
      BY <2>5, <2>7 DEF Ended
    <3>. QED  BY <3>1, <2>6
  <2>8. CASE day - 1 \in Days
    <3>1. d <= day - 1
      BY <2>2
    <3>. QED  BY <3>1, <2>4, <2>5, <2>6, <2>8, <1>0, EndedPast
  <2>. QED  BY <2>3, <2>7, <2>8
<1>5. ASSUME NEW c \in Companies, NEW last \in Days, MarkInactive(c, last)
      PROVE  OwnersAmong(mappings', u, d) = OwnersAmong(mappings, u, d)
  <2>. DEFINE old == Active(Of(mappings, c))
  <2>1. /\ Changed(last + 1)
        /\ mappings' = Ended(mappings, old, last)
    BY <1>5 DEF MarkInactive
  <2>2. d <= last
    BY <2>1, Calendar DEF Changed
  <2>3. old \in SUBSET Active(mappings)
    BY DEF Active, Of
  <2>. HIDE DEF old
  <2>. QED  BY <2>1, <2>2, <2>3, <1>0, EndedPast
<1>. QED  BY <1>2, <1>3, <1>4, <1>5 DEF Next

\* No operation alters which companies had a ticker on the days before the one
\* it takes effect (change_primary_ticker ends a mapping on the day before).
THEOREM PastIsKept == Spec => PastOwnersStay
<1>1. ASSUME NEW t, NEW d
      PROVE  /\ Owners(t, d) = OwnersAmong(mappings, t, d)
             /\ Owners(t, d)' = OwnersAmong(mappings', t, d)
  BY DEF Owners, OwnersAmong, Covering, OfTicker
<1>2. IdentityInv /\ [Next]_identityVars =>
        [\A t \in Tickers, d \in Days : d < effective' => Owners(t, d)' = Owners(t, d)]_identityVars
  BY <1>1, StepKeepsPast
<1>3. Spec => []IdentityInv
  BY IdentityInvariant
<1>. QED  BY <1>2, <1>3, PTL DEF Spec, PastOwnersStay

-----------------------------------------------------------------------------
\* The shared connection

-----------------------------------------------------------------------------
\* Programs

\* At its BEGIN a program has neither begun nor committed, and is not over.
LEMMA AtBegin ==
    ASSUME NEW p \in Seq(Statements), WellBracketed(p),
           NEW k \in DOMAIN p, p[k] = "begin"
    PROVE  /\ ~Earlier(p, k, "begin") /\ ~Earlier(p, k, "commit")
           /\ k # Len(p) /\ Has(p, "begin")
<1>1. DOMAIN p = 1..Len(p) /\ Len(p) \in Nat /\ k \in Int
  OBVIOUS
<1>2. Has(p, "begin")
  BY DEF Has
<1>3. ~Earlier(p, k, "begin")
  BY <1>1 DEF WellBracketed, Earlier
<1>4. ~Earlier(p, k, "commit")
  BY <1>1, "begin" # "read" DEF WellBracketed, Earlier
<1>5. k # Len(p)
  BY <1>1 DEF WellBracketed
<1>. QED  BY <1>2, <1>3, <1>4, <1>5

\* At its COMMIT it has begun, has not committed, and writes no more.
LEMMA AtCommit ==
    ASSUME NEW p \in Seq(Statements), WellBracketed(p),
           NEW k \in DOMAIN p, p[k] = "commit"
    PROVE  /\ Earlier(p, k, "begin") /\ ~Earlier(p, k, "commit")
           /\ \A i \in DOMAIN p : p[i] = "write" => i < k
<1>1. DOMAIN p = 1..Len(p) /\ Len(p) \in Nat /\ k \in Int
  OBVIOUS
<1>2. Has(p, "begin")
  BY DEF WellBracketed
<1>3. PICK b \in 1..(k - 1) : p[b] = "begin"
  BY <1>2 DEF WellBracketed
<1>4. Earlier(p, k, "begin")
  BY <1>1, <1>3 DEF Earlier
<1>5. ~Earlier(p, k, "commit")
  BY <1>1, "commit" # "read" DEF WellBracketed, Earlier
<1>6. \A i \in DOMAIN p : p[i] = "write" => i < k
  BY <1>1, "write" # "read", "write" # "commit" DEF WellBracketed
<1>. QED  BY <1>4, <1>5, <1>6

\* A program with a transaction writes inside it.
LEMMA AtWrite ==
    ASSUME NEW p \in Seq(Statements), WellBracketed(p), Has(p, "begin"),
           NEW k \in DOMAIN p, p[k] = "write"
    PROVE  Earlier(p, k, "begin") /\ ~Earlier(p, k, "commit")
<1>1. DOMAIN p = 1..Len(p) /\ Len(p) \in Nat /\ k \in Int
  OBVIOUS
<1>2. PICK b \in 1..(k - 1) : p[b] = "begin"
  BY DEF WellBracketed
<1>3. Earlier(p, k, "begin")
  BY <1>1, <1>2 DEF Earlier
<1>4. ~Earlier(p, k, "commit")
  BY <1>1, "write" # "read" DEF WellBracketed, Earlier
<1>. QED  BY <1>3, <1>4

\* Between BEGIN and COMMIT a program is not over before the COMMIT.
LEMMA InsideEnds ==
    ASSUME NEW p \in Seq(Statements), WellBracketed(p), NEW k \in DOMAIN p,
           Earlier(p, k, "begin"), ~Earlier(p, k, "commit"), p[k] # "commit"
    PROVE  k # Len(p)
<1>1. DOMAIN p = 1..Len(p) /\ Len(p) \in Nat /\ k \in Int
  OBVIOUS
<1>2. PICK b \in DOMAIN p : b < k /\ p[b] = "begin"
  BY DEF Earlier
<1>3. PICK j \in DOMAIN p : j > b /\ p[j] = "commit"
  BY <1>2 DEF WellBracketed
<1>4. ~(j < k) /\ j # k
  BY <1>3 DEF Earlier
<1>. QED  BY <1>1, <1>3, <1>4

\* One step further, what is behind is what was behind and the statement at k.
LEMMA BeforeNext ==
    ASSUME NEW p \in Seq(Statements), NEW k \in DOMAIN p, NEW s
    PROVE  Earlier(p, k + 1, s) <=> (Earlier(p, k, s) \/ p[k] = s)
<1>1. DOMAIN p = 1..Len(p) /\ Len(p) \in Nat /\ k \in Int
  OBVIOUS
<1>2. \A i \in DOMAIN p : i < k + 1 <=> (i < k \/ i = k)
  BY <1>1
<1>. QED  BY <1>2 DEF Earlier

\* At its last statement a program with a transaction has reached its BEGIN.
LEMMA LastHasBegun ==
    ASSUME NEW p \in Seq(Statements), Has(p, "begin"), NEW k \in DOMAIN p, k = Len(p)
    PROVE  Earlier(p, k, "begin") \/ p[k] = "begin"
<1>1. DOMAIN p = 1..Len(p) /\ Len(p) \in Nat /\ k \in Int
  OBVIOUS
<1>2. PICK i \in DOMAIN p : p[i] = "begin"
  BY DEF Has
<1>. QED  BY <1>1, <1>2 DEF Earlier

-----------------------------------------------------------------------------
\* What a step does to the calls

LEMMA ProgramType ==
    ASSUME ConnectionTypeOK, NEW c \in DOMAIN calls
    PROVE  /\ calls[c] \in CallType
           /\ calls[c].program \in Seq(Statements)
           /\ WellBracketed(calls[c].program)
           /\ c \in Nat \ {0} /\ c \in 1..Len(calls) /\ Len(calls) \in Nat
<1>1. calls[c] \in CallType
  BY DEF ConnectionTypeOK
<1>2. calls[c].program \in Programs
  BY <1>1 DEF CallType
<1>3. PICK t \in Threads : calls[c].program \in Repertoire[t]
  BY <1>2 DEF Programs
<1>4. c \in Nat \ {0} /\ c \in 1..Len(calls) /\ Len(calls) \in Nat
  BY DEF ConnectionTypeOK
<1>. QED  BY <1>1, <1>3, <1>4, ConnectionAssumption

\* The calls after a change of call c to r
CallChanged(c, r) ==
    /\ calls' \in Seq(CallType)
    /\ Len(calls') = Len(calls) /\ DOMAIN calls' = DOMAIN calls
    /\ calls'[c] = r
    /\ \A d \in DOMAIN calls : d # c => calls'[d] = calls[d]

LEMMA ChangeOfCall ==
    ASSUME ConnectionTypeOK, NEW c \in DOMAIN calls, NEW r \in CallType,
           calls' = [calls EXCEPT ![c] = r]
    PROVE  CallChanged(c, r)
  BY DEF ConnectionTypeOK, CallChanged

Advanced(c, b) ==
    [calls[c] EXCEPT !.pc = @ + 1, !.inTry = b,
                     !.status = IF calls[c].pc = Len(calls[c].program) THEN "done" ELSE "running"]

LEMMA AdvanceChanges ==
    ASSUME ConnectionTypeOK, NEW c \in DOMAIN calls, NEW b \in BOOLEAN, Advance(c, b)
    PROVE  CallChanged(c, Advanced(c, b))
<1>1. calls[c] \in CallType
  BY ProgramType
<1>2. Advanced(c, b) \in CallType
  <2>. DEFINE st == IF calls[c].pc = Len(calls[c].program) THEN "done" ELSE "running"
  <2>1. st \in {"running", "raising", "done", "failed", "killed"}
    OBVIOUS
  <2>2. calls[c].pc + 1 \in Nat \ {0}
    BY <1>1 DEF CallType
  <2>3. Advanced(c, b) = [calls[c] EXCEPT !.pc = calls[c].pc + 1, !.inTry = b, !.status = st]
    BY DEF Advanced
  <2>. HIDE DEF st
  <2>. QED  BY <1>1, <2>1, <2>2, <2>3 DEF CallType
<1>3. calls' = [calls EXCEPT ![c] = Advanced(c, b)]
  BY DEF Advance, Advanced, ConnectionTypeOK
<1>. QED  BY <1>2, <1>3, ChangeOfCall

CallEnded(c, outcome, inTry, unwritten) ==
    [calls[c] EXCEPT !.status = outcome, !.inTry = inTry, !.unwritten = unwritten]

LEMMA EndedType ==
    ASSUME ConnectionTypeOK, NEW c \in DOMAIN calls,
           NEW outcome \in {"raising", "failed", "killed"}, NEW b \in BOOLEAN, NEW u \in BOOLEAN
    PROVE  CallEnded(c, outcome, b, u) \in CallType
<1>1. calls[c] \in CallType
  BY ProgramType
<1>. QED  BY <1>1 DEF CallType, CallEnded

LEMMA RaiseChanges ==
    ASSUME ConnectionTypeOK, NEW c \in DOMAIN calls, Raise(c)
    PROVE  CallChanged(c, CallEnded(c, IF calls[c].inTry THEN "raising" ELSE "failed",
                            calls[c].inTry, calls[c].unwritten))
<1>. DEFINE st == IF calls[c].inTry THEN "raising" ELSE "failed"
            r == CallEnded(c, st, calls[c].inTry, calls[c].unwritten)
<1>1. calls[c] \in CallType
  BY ProgramType
<1>2. r \in CallType
  BY <1>1, EndedType DEF CallType
<1>3. r = [calls[c] EXCEPT !.status = st]
  BY <1>1 DEF CallType, CallEnded
<1>4. calls' = [calls EXCEPT ![c] = r]
  BY <1>3 DEF Raise, ConnectionTypeOK
<1>. QED  BY <1>2, <1>4, ChangeOfCall

LEMMA RefusedChanges ==
    ASSUME ConnectionTypeOK, NEW c \in DOMAIN calls, BeginRefused(c)
    PROVE  CallChanged(c, CallEnded(c, "failed", calls[c].inTry, calls[c].unwritten))
<1>. DEFINE r == CallEnded(c, "failed", calls[c].inTry, calls[c].unwritten)
<1>1. calls[c] \in CallType
  BY ProgramType
<1>2. r \in CallType
  BY <1>1, EndedType DEF CallType
<1>3. r = [calls[c] EXCEPT !.status = "failed"]
  BY <1>1 DEF CallType, CallEnded
<1>4. calls' = [calls EXCEPT ![c] = r]
  BY <1>3 DEF BeginRefused, ConnectionTypeOK
<1>. QED  BY <1>2, <1>4, ChangeOfCall

LEMMA CommitFailsChanges ==
    ASSUME ConnectionTypeOK, NEW c \in DOMAIN calls, CommitFails(c)
    PROVE  CallChanged(c, CallEnded(c, "raising", calls[c].inTry, TRUE))
<1>. DEFINE r == CallEnded(c, "raising", calls[c].inTry, TRUE)
<1>1. calls[c] \in CallType
  BY ProgramType
<1>2. r \in CallType
  BY <1>1, EndedType DEF CallType
<1>3. r = [calls[c] EXCEPT !.status = "raising", !.unwritten = TRUE]
  BY <1>1 DEF CallType, CallEnded
<1>4. calls' = [calls EXCEPT ![c] = r]
  BY <1>3 DEF CommitFails, ConnectionTypeOK
<1>. QED  BY <1>2, <1>4, ChangeOfCall

LEMMA RollbackChanges ==
    ASSUME ConnectionTypeOK, NEW c \in DOMAIN calls, Rollback(c)
    PROVE  CallChanged(c, CallEnded(c, "failed", FALSE, calls[c].unwritten))
<1>. DEFINE r == CallEnded(c, "failed", FALSE, calls[c].unwritten)
<1>1. calls[c] \in CallType
  BY ProgramType
<1>2. r \in CallType
  BY <1>1, EndedType DEF CallType
<1>3. r = [calls[c] EXCEPT !.status = "failed", !.inTry = FALSE]
  BY <1>1 DEF CallType, CallEnded
<1>4. calls' = [calls EXCEPT ![c] = r]
  BY <1>3 DEF Rollback, ConnectionTypeOK
<1>. QED  BY <1>2, <1>4, ChangeOfCall

\* A new call begins outside every transaction.
LEMMA CallChanges ==
    ASSUME ConnectionTypeOK, NEW t \in Threads, NEW program \in Repertoire[t], Call(t, program)
    PROVE  LET n == Len(calls) + 1 IN
           /\ calls' \in Seq(CallType) /\ Len(calls') = n
           /\ DOMAIN calls' = DOMAIN calls \cup {n} /\ n \notin DOMAIN calls
           /\ \A d \in DOMAIN calls : calls'[d] = calls[d]
           /\ calls'[n].program = program /\ calls'[n].pc = 1
           /\ ~calls'[n].inTry /\ calls'[n].status = "running"
           /\ calls'[n].unwritten = FALSE
<1>. DEFINE r == [thread |-> t, program |-> program, pc |-> 1, inTry |-> FALSE,
                  status |-> "running", unwritten |-> FALSE]
<1>1. program \in Programs
  BY DEF Programs
<1>2. r \in CallType
  BY <1>1 DEF CallType
<1>3. calls' = Append(calls, r) /\ calls \in Seq(CallType)
  BY DEF Call, ConnectionTypeOK
<1>4. /\ calls' \in Seq(CallType) /\ Len(calls') = Len(calls) + 1
      /\ \A d \in 1..Len(calls) : calls'[d] = calls[d]
      /\ calls'[Len(calls) + 1] = r
  BY <1>2, <1>3
<1>5. DOMAIN calls = 1..Len(calls) /\ DOMAIN calls' = 1..(Len(calls) + 1) /\ Len(calls) \in Nat
  BY <1>3, <1>4
<1>. QED  BY <1>4, <1>5

LEMMA KillChanges ==
    ASSUME ConnectionTypeOK, Kill
    PROVE  /\ calls' \in Seq(CallType) /\ Len(calls') = Len(calls)
           /\ DOMAIN calls' = DOMAIN calls
           /\ \A d \in DOMAIN calls :
                 calls'[d] = IF calls[d].status \in {"running", "raising"}
                             THEN CallEnded(d, "killed", FALSE, calls[d].unwritten) ELSE calls[d]
<1>. DEFINE r(d) == IF calls[d].status \in {"running", "raising"}
                    THEN CallEnded(d, "killed", FALSE, calls[d].unwritten) ELSE calls[d]
<1>1. ASSUME NEW d \in DOMAIN calls
      PROVE  /\ r(d) \in CallType
             /\ r(d) = IF calls[d].status \in {"running", "raising"}
                       THEN [calls[d] EXCEPT !.status = "killed", !.inTry = FALSE] ELSE calls[d]
  <2>1. calls[d] \in CallType
    BY <1>1, ProgramType
  <2>2. CallEnded(d, "killed", FALSE, calls[d].unwritten) \in CallType
    BY <1>1, <2>1, EndedType DEF CallType
  <2>3. CallEnded(d, "killed", FALSE, calls[d].unwritten)
            = [calls[d] EXCEPT !.status = "killed", !.inTry = FALSE]
    BY <2>1 DEF CallType, CallEnded
  <2>. QED  BY <2>1, <2>2, <2>3
<1>2. calls' = [d \in DOMAIN calls |-> r(d)]
  BY <1>1 DEF Kill
<1>3. DOMAIN calls = 1..Len(calls) /\ Len(calls) \in Nat
  BY DEF ConnectionTypeOK
<1>4. calls' \in Seq(CallType) /\ Len(calls') = Len(calls) /\ DOMAIN calls' = DOMAIN calls
  <2>1. \A d \in 1..Len(calls) : r(d) \in CallType
    BY <1>1, <1>3
  <2>. HIDE DEF r
  <2>2. calls' \in [1..Len(calls) -> CallType]
    BY <1>2, <1>3, <2>1
  <2>. QED  BY <2>2, <1>3
<1>. QED  BY <1>2, <1>4

-----------------------------------------------------------------------------
\* The same, field by field

\* Call c keeps its program and takes the given fields; no other call changes.
Moved(c, pc, inTry, outcome, unwritten) ==
    /\ calls' \in Seq(CallType)
    /\ Len(calls') = Len(calls) /\ DOMAIN calls' = DOMAIN calls
    /\ calls'[c].program = calls[c].program
    /\ calls'[c].pc = pc /\ calls'[c].inTry = inTry
    /\ calls'[c].status = outcome /\ calls'[c].unwritten = unwritten
    /\ \A d \in DOMAIN calls : d # c => calls'[d] = calls[d]

LEMMA AdvanceMoves ==
    ASSUME ConnectionTypeOK, NEW c \in DOMAIN calls, NEW b \in BOOLEAN, Advance(c, b)
    PROVE  Moved(c, calls[c].pc + 1, b,
                 IF calls[c].pc = Len(calls[c].program) THEN "done" ELSE "running",
                 calls[c].unwritten)
<1>1. calls[c] \in CallType
  BY ProgramType
<1>2. /\ Advanced(c, b).program = calls[c].program
      /\ Advanced(c, b).pc = calls[c].pc + 1
      /\ Advanced(c, b).inTry = b
      /\ Advanced(c, b).unwritten = calls[c].unwritten
      /\ Advanced(c, b).status
            = IF calls[c].pc = Len(calls[c].program) THEN "done" ELSE "running"
  BY <1>1 DEF CallType, Advanced
<1>. QED  BY <1>2, AdvanceChanges DEF CallChanged, Moved

LEMMA CallEndedMoves ==
    ASSUME ConnectionTypeOK, NEW c \in DOMAIN calls, NEW outcome, NEW b, NEW u,
           CallChanged(c, CallEnded(c, outcome, b, u))
    PROVE  Moved(c, calls[c].pc, b, outcome, u)
<1>1. calls[c] \in CallType
  BY ProgramType
<1>2. /\ CallEnded(c, outcome, b, u).program = calls[c].program
      /\ CallEnded(c, outcome, b, u).pc = calls[c].pc
      /\ CallEnded(c, outcome, b, u).inTry = b
      /\ CallEnded(c, outcome, b, u).status = outcome
      /\ CallEnded(c, outcome, b, u).unwritten = u
  BY <1>1 DEF CallType, CallEnded
<1>. QED  BY <1>2 DEF CallChanged, Moved

LEMMA RaiseMoves ==
    ASSUME ConnectionTypeOK, NEW c \in DOMAIN calls, Raise(c)
    PROVE  Moved(c, calls[c].pc, calls[c].inTry,
                 IF calls[c].inTry THEN "raising" ELSE "failed", calls[c].unwritten)
  BY RaiseChanges, CallEndedMoves

-----------------------------------------------------------------------------
\* Types

\* A step that adds no call and no row keeps the types.
LEMMA TypeKept ==
    ASSUME ConnectionTypeOK, calls' \in Seq(CallType), Len(calls') = Len(calls),
           DOMAIN calls' = DOMAIN calls, owner' \in 0..Len(calls), aborted' \in BOOLEAN,
           pending' \subseteq (DOMAIN calls) \X Nat,
           stored' \subseteq (DOMAIN calls) \X Nat,
           owner' = 0 => pending' = {} /\ ~aborted'
    PROVE  ConnectionTypeOK'
  BY DEF ConnectionTypeOK

LEMMA TypeClosed ==
    ASSUME ConnectionTypeOK, calls' \in Seq(CallType), Len(calls') = Len(calls),
           DOMAIN calls' = DOMAIN calls, CloseTransaction,
           stored' \subseteq (DOMAIN calls) \X Nat
    PROVE  ConnectionTypeOK'
<1>1. owner' \in 0..Len(calls)
  <2>1. Len(calls) \in Nat
    BY DEF ConnectionTypeOK
  <2>. QED  BY <2>1 DEF CloseTransaction
<1>2. pending' \subseteq (DOMAIN calls) \X Nat
  BY DEF CloseTransaction
<1>. QED  BY <1>1, <1>2, TypeKept DEF CloseTransaction

LEMMA TypeNext ==
    ASSUME ConnectionTypeOK, [ConnectionNext]_connectionVars
    PROVE  ConnectionTypeOK'
<1>0. /\ owner \in 0..Len(calls) /\ aborted \in BOOLEAN
      /\ pending \subseteq (DOMAIN calls) \X Nat /\ stored \subseteq (DOMAIN calls) \X Nat
      /\ owner = 0 => pending = {} /\ ~aborted
  BY DEF ConnectionTypeOK
<1>1. ASSUME NEW t \in Threads, NEW program \in Repertoire[t], Call(t, program)
      PROVE  ConnectionTypeOK'
  <2>1. /\ calls' \in Seq(CallType) /\ Len(calls') = Len(calls) + 1
        /\ DOMAIN calls \subseteq DOMAIN calls'
    BY <1>1, CallChanges
  <2>2. UNCHANGED <<owner, aborted, pending, stored>>
    BY <1>1 DEF Call
  <2>3. owner' \in 0..Len(calls')
    <3>1. Len(calls) \in Nat
      BY DEF ConnectionTypeOK
    <3>. QED  BY <3>1, <1>0, <2>1, <2>2
  <2>4. pending' \subseteq (DOMAIN calls') \X Nat /\ stored' \subseteq (DOMAIN calls') \X Nat
    BY <1>0, <2>1, <2>2
  <2>. QED  BY <1>0, <2>1, <2>2, <2>3, <2>4 DEF ConnectionTypeOK
<1>2. ASSUME NEW c \in DOMAIN calls, Execute(c)
      PROVE  ConnectionTypeOK'
  <2>0. /\ calls[c] \in CallType /\ calls[c].pc \in Nat /\ calls[c].inTry \in BOOLEAN
        /\ c \in 0..Len(calls) /\ c # 0
    BY <1>2, ProgramType DEF CallType
  <2>1. CASE Begin(c)
    BY <1>0, <2>0, <2>1, <1>2, AdvanceMoves, TypeKept DEF Begin, Moved
  <2>2. CASE BeginRefused(c)
    BY <1>0, <2>0, <2>2, <1>2, RefusedChanges, CallEndedMoves, TypeKept DEF BeginRefused, Moved
  <2>3. CASE Read(c)
    BY <1>0, <2>0, <2>3, <1>2, AdvanceMoves, TypeKept DEF Read, Moved
  <2>4. CASE Write(c)
    <3>1. calls' \in Seq(CallType) /\ Len(calls') = Len(calls) /\ DOMAIN calls' = DOMAIN calls
      BY <2>0, <2>4, <1>2, AdvanceMoves DEF Write, Moved
    <3>2. <<c, calls[c].pc>> \in (DOMAIN calls) \X Nat
      BY <2>0, <1>2
    <3>3. pending' \subseteq (DOMAIN calls) \X Nat /\ stored' \subseteq (DOMAIN calls) \X Nat
      BY <1>0, <2>4, <3>2 DEF Write
    <3>. QED  BY <1>0, <2>4, <3>1, <3>3, TypeKept DEF Write
  <2>5. CASE StatementFails(c)
    BY <1>0, <2>0, <2>5, <1>2, RaiseMoves, TypeKept DEF StatementFails, Moved
  <2>6. CASE Commit(c)
    <3>1. calls' \in Seq(CallType) /\ Len(calls') = Len(calls) /\ DOMAIN calls' = DOMAIN calls
      BY <2>0, <2>6, <1>2, AdvanceMoves DEF Commit, Moved
    <3>. QED  BY <1>0, <2>6, <3>1, TypeClosed DEF Commit
  <2>7. CASE CommitRefused(c)
    BY <1>0, <2>0, <2>7, <1>2, RaiseMoves, TypeKept DEF CommitRefused, Moved
  <2>8. CASE CommitFails(c)
    <3>1. calls' \in Seq(CallType) /\ Len(calls') = Len(calls) /\ DOMAIN calls' = DOMAIN calls
      BY <2>0, <2>8, <1>2, CommitFailsChanges DEF CallChanged
    <3>. QED  BY <1>0, <2>8, <3>1, TypeClosed DEF CommitFails
  <2>9. CASE Rollback(c)
    <3>1. calls' \in Seq(CallType) /\ Len(calls') = Len(calls) /\ DOMAIN calls' = DOMAIN calls
      BY <2>0, <2>9, <1>2, RollbackChanges DEF CallChanged
    <3>. QED  BY <1>0, <2>9, <3>1, TypeClosed DEF Rollback
  <2>. QED  BY <1>2, <2>1, <2>2, <2>3, <2>4, <2>5, <2>6, <2>7, <2>8, <2>9 DEF Execute
<1>3. CASE Kill
  BY <1>0, <1>3, KillChanges, TypeClosed DEF Kill
<1>4. CASE UNCHANGED connectionVars
  BY <1>4 DEF connectionVars, ConnectionTypeOK
<1>. QED  BY <1>1, <1>2, <1>3, <1>4 DEF ConnectionNext

\* The types hold in every state, and rows are pending only inside a
\* transaction (LocalMarketStore.connection).
THEOREM ConnectionTypeCorrect == ConnectionSpec => []ConnectionTypeOK
<1>1. ASSUME ConnectionInit
      PROVE  ConnectionTypeOK
  <2>1. calls \in Seq(CallType) /\ Len(calls) = 0
    BY <1>1 DEF ConnectionInit
  <2>2. owner \in 0..Len(calls)
    BY <1>1, <2>1 DEF ConnectionInit
  <2>. QED  BY <1>1, <2>1, <2>2 DEF ConnectionInit, ConnectionTypeOK
<1>2. ConnectionTypeOK /\ [ConnectionNext]_connectionVars => ConnectionTypeOK'
  BY TypeNext
<1>. QED  BY <1>1, <1>2, PTL DEF ConnectionSpec

-----------------------------------------------------------------------------
\* Where a call is in its program, and who owns the transaction

LEMMA AtFacts ==
    ASSUME ConnectionTypeOK, PositionInv, NEW c \in DOMAIN calls, NEW statement, At(c, statement)
    PROVE  /\ calls[c].program \in Seq(Statements) /\ WellBracketed(calls[c].program)
           /\ calls[c].pc \in DOMAIN calls[c].program
           /\ calls[c].program[calls[c].pc] = statement
           /\ calls[c].status = "running"
  BY ProgramType DEF PositionInv, PositionOfCall, At

\* Only the call that took the step has a new position to check.
LEMMA PositionKept ==
    ASSUME ConnectionTypeOK, PositionInv, NEW c \in DOMAIN calls,
           NEW pc, NEW b, NEW outcome, NEW u, Moved(c, pc, b, outcome, u),
           PositionOfCall(c)'
    PROVE  PositionInv'
<1>1. ASSUME NEW d \in DOMAIN calls, d # c
      PROVE  PositionOfCall(d)'
  <2>1. calls'[d] = calls[d] /\ PositionOfCall(d)
    BY <1>1 DEF Moved, PositionInv
  <2>. QED  BY <2>1 DEF PositionOfCall, Passed
<1>. QED  BY <1>1 DEF PositionInv, Moved

\* An advance from a statement that is neither BEGIN nor COMMIT
LEMMA PositionOfAdvance ==
    ASSUME ConnectionTypeOK, PositionInv, NEW c \in DOMAIN calls,
           At(c, "read") \/ At(c, "write"), Advance(c, calls[c].inTry)
    PROVE  PositionInv'
<1>. DEFINE p == calls[c].program
            k == calls[c].pc
<1>0. p \in Seq(Statements) /\ WellBracketed(p) /\ k \in DOMAIN p
      /\ p[k] # "begin" /\ p[k] # "commit" /\ calls[c].status = "running"
  BY AtFacts
<1>1. calls[c].inTry \in BOOLEAN
  BY ProgramType DEF CallType
<1>2. Moved(c, k + 1, calls[c].inTry, IF k = Len(p) THEN "done" ELSE "running",
            calls[c].unwritten)
  BY <1>1, AdvanceMoves
<1>3. PositionOfCall(c)
  BY DEF PositionInv
<1>4. /\ Earlier(p, k + 1, "begin") <=> Earlier(p, k, "begin")
      /\ Earlier(p, k + 1, "commit") <=> Earlier(p, k, "commit")
  BY <1>0, BeforeNext
<1>5. k # Len(p) => k + 1 \in DOMAIN p
  BY <1>0
<1>6. calls[c].inTry => k # Len(p)
  BY <1>0, <1>3, InsideEnds DEF PositionOfCall, Passed
<1>7. /\ calls'[c].program = p /\ calls'[c].pc = k + 1 /\ calls'[c].inTry = calls[c].inTry
      /\ calls'[c].status = IF k = Len(p) THEN "done" ELSE "running"
  BY <1>2 DEF Moved
<1>. HIDE DEF p, k
<1>8. PositionOfCall(c)'
  BY <1>0, <1>1, <1>3, <1>4, <1>5, <1>6, <1>7 DEF PositionOfCall, Passed, p, k
<1>. QED  BY <1>2, <1>8, PositionKept

\* A call that raises, or that ended
LEMMA PositionOfEnd ==
    ASSUME ConnectionTypeOK, PositionInv, NEW c \in DOMAIN calls,
           NEW b \in BOOLEAN, NEW outcome, NEW u, Moved(c, calls[c].pc, b, outcome, u),
           b => outcome = "raising", outcome \in {"raising", "failed"},
           outcome = "raising" => b
    PROVE  PositionInv'
<1>1. PositionOfCall(c)'
  BY DEF PositionOfCall, Passed, Moved
<1>. QED  BY <1>1, PositionKept

LEMMA PositionNext ==
    ASSUME ConnectionTypeOK, PositionInv, [ConnectionNext]_connectionVars
    PROVE  PositionInv'
<1>1. ASSUME NEW t \in Threads, NEW program \in Repertoire[t], Call(t, program)
      PROVE  PositionInv'
  <2>1. program \in Seq(Statements) /\ program # << >>
    BY <1>1, ConnectionAssumption
  <2>2. PICK n :
        /\ DOMAIN calls' = DOMAIN calls \cup {n}
        /\ \A d \in DOMAIN calls : calls'[d] = calls[d]
        /\ calls'[n].program = program /\ calls'[n].pc = 1
        /\ ~calls'[n].inTry /\ calls'[n].status = "running"
    BY <1>1, CallChanges
  <2>3. 1 \in DOMAIN program /\ ~Earlier(program, 1, "begin")
    BY <2>1 DEF Earlier
  <2>4. PositionOfCall(n)'
    BY <2>2, <2>3 DEF PositionOfCall, Passed
  <2>5. ASSUME NEW d \in DOMAIN calls
        PROVE  PositionOfCall(d)'
    BY <2>2 DEF PositionInv, PositionOfCall, Passed
  <2>. QED  BY <2>2, <2>4, <2>5 DEF PositionInv
<1>2. ASSUME NEW c \in DOMAIN calls, Execute(c)
      PROVE  PositionInv'
  <2>. DEFINE p == calls[c].program
              k == calls[c].pc
  <2>0. PositionOfCall(c) /\ calls[c].inTry \in BOOLEAN
    BY <1>2, ProgramType DEF PositionInv, CallType
  <2>1. CASE Begin(c)
    <3>1. p \in Seq(Statements) /\ WellBracketed(p) /\ k \in DOMAIN p /\ p[k] = "begin"
      BY <2>1, AtFacts DEF Begin
    <3>2. k # Len(p) /\ ~Earlier(p, k, "commit")
      BY <3>1, AtBegin
    <3>3. k + 1 \in DOMAIN p /\ Earlier(p, k + 1, "begin") /\ ~Earlier(p, k + 1, "commit")
      BY <3>1, <3>2, BeforeNext
    <3>4. Moved(c, k + 1, TRUE, "running", calls[c].unwritten)
      BY <2>1, <3>2, AdvanceMoves DEF Begin
    <3>. HIDE DEF p, k
    <3>5. PositionOfCall(c)'
      BY <3>3, <3>4 DEF PositionOfCall, Passed, Moved, p, k
    <3>. QED  BY <3>4, <3>5, PositionKept
  <2>2. CASE BeginRefused(c)
    <3>1. At(c, "begin")
      BY <2>2 DEF BeginRefused
    <3>2. p \in Seq(Statements) /\ WellBracketed(p) /\ k \in DOMAIN p /\ p[k] = "begin"
          /\ calls[c].status = "running"
      BY <3>1, AtFacts
    <3>3. ~calls[c].inTry
      BY <2>0, <3>2, AtBegin DEF PositionOfCall, Passed
    <3>. QED  BY <2>0, <2>2, <3>3, RefusedChanges, CallEndedMoves, PositionOfEnd
  <2>3. CASE Read(c)
    BY <2>3, PositionOfAdvance DEF Read
  <2>4. CASE Write(c)
    BY <2>4, PositionOfAdvance DEF Write
  <2>5. CASE StatementFails(c)
    BY <2>0, <2>5, RaiseMoves, PositionOfEnd DEF StatementFails
  <2>6. CASE Commit(c)
    <3>1. p \in Seq(Statements) /\ WellBracketed(p) /\ k \in DOMAIN p /\ p[k] = "commit"
      BY <2>6, AtFacts DEF Commit
    <3>2. Earlier(p, k + 1, "commit") /\ (k # Len(p) => k + 1 \in DOMAIN p)
      BY <3>1, BeforeNext
    <3>3. Moved(c, k + 1, FALSE, IF k = Len(p) THEN "done" ELSE "running",
                calls[c].unwritten)
      BY <2>6, AdvanceMoves DEF Commit
    <3>. HIDE DEF p, k
    <3>4. PositionOfCall(c)'
      BY <3>2, <3>3 DEF PositionOfCall, Passed, Moved, p, k
    <3>. QED  BY <3>3, <3>4, PositionKept
  <2>7. CASE CommitRefused(c)
    BY <2>0, <2>7, RaiseMoves, PositionOfEnd DEF CommitRefused
  <2>8. CASE CommitFails(c)
    <3>1. At(c, "commit")
      BY <2>8 DEF CommitFails
    <3>2. p \in Seq(Statements) /\ WellBracketed(p) /\ k \in DOMAIN p /\ p[k] = "commit"
          /\ calls[c].status = "running"
      BY <3>1, AtFacts
    <3>3. calls[c].inTry
      BY <2>0, <3>2, AtCommit DEF PositionOfCall, Passed
    <3>. QED  BY <2>0, <2>8, <3>3, CommitFailsChanges, CallEndedMoves, PositionOfEnd
  <2>9. CASE Rollback(c)
    <3>1. Moved(c, k, FALSE, "failed", calls[c].unwritten)
      BY <2>9, RollbackChanges, CallEndedMoves
    <3>2. PositionOfCall(c)'
      BY <3>1 DEF PositionOfCall, Moved
    <3>. QED  BY <3>1, <3>2, PositionKept
  <2>. QED  BY <1>2, <2>1, <2>2, <2>3, <2>4, <2>5, <2>6, <2>7, <2>8, <2>9 DEF Execute
<1>3. CASE Kill
  <2>1. ASSUME NEW d \in DOMAIN calls
        PROVE  PositionOfCall(d)'
    <3>0. PositionOfCall(d) /\ calls[d] \in CallType
      BY ProgramType DEF PositionInv
    <3>1. CASE calls[d].status \in {"running", "raising"}
      <4>1. calls'[d] = CallEnded(d, "killed", FALSE, calls[d].unwritten)
        BY <1>3, <3>1, KillChanges
      <4>2. calls'[d].status = "killed" /\ calls'[d].inTry = FALSE
        BY <4>1, <3>0 DEF CallEnded, CallType
      <4>. QED  BY <4>2 DEF PositionOfCall
    <3>2. CASE calls[d].status \notin {"running", "raising"}
      <4>1. calls'[d] = calls[d]
        BY <1>3, <3>2, KillChanges
      <4>. QED  BY <4>1, <3>0 DEF PositionOfCall, Passed
    <3>. QED  BY <3>1, <3>2
  <2>. QED  BY <1>3, <2>1, KillChanges DEF PositionInv
<1>4. CASE UNCHANGED connectionVars
  BY <1>4 DEF connectionVars, PositionInv, PositionOfCall, Passed
<1>. QED  BY <1>1, <1>2, <1>3, <1>4 DEF ConnectionNext

\* The transaction stays with the call that began it.
LEMMA OwnedNext ==
    ASSUME ConnectionTypeOK, PositionInv, TransactionIsOwned, [ConnectionNext]_connectionVars
    PROVE  TransactionIsOwned'
<1>0. owner # 0 => owner \in DOMAIN calls
  <2>1. DOMAIN calls = 1..Len(calls) /\ Len(calls) \in Nat /\ owner \in 0..Len(calls)
    BY DEF ConnectionTypeOK
  <2>. QED  BY <2>1
<1>1. ASSUME NEW t \in Threads, NEW program \in Repertoire[t], Call(t, program)
      PROVE  TransactionIsOwned'
  <2>1. \A d \in DOMAIN calls : calls'[d] = calls[d]
    BY <1>1, CallChanges
  <2>. QED  BY <1>0, <1>1, <2>1 DEF TransactionIsOwned, Call
<1>2. ASSUME NEW c \in DOMAIN calls, Execute(c)
      PROVE  TransactionIsOwned'
  <2>. DEFINE p == calls[c].program
              k == calls[c].pc
  <2>0. PositionOfCall(c) /\ calls[c].inTry \in BOOLEAN
    BY <1>2, ProgramType DEF PositionInv, CallType
  <2>1. CASE Begin(c)
    <3>1. p \in Seq(Statements) /\ WellBracketed(p) /\ k \in DOMAIN p /\ p[k] = "begin"
      BY <2>1, AtFacts DEF Begin
    <3>2. k # Len(p)
      BY <3>1, AtBegin
    <3>3. Moved(c, k + 1, TRUE, "running", calls[c].unwritten)
      BY <2>1, <3>2, AdvanceMoves DEF Begin
    <3>. QED  BY <2>1, <3>3 DEF TransactionIsOwned, Begin, Moved
  <2>2. CASE BeginRefused(c)
    <3>1. At(c, "begin")
      BY <2>2 DEF BeginRefused
    <3>2. p \in Seq(Statements) /\ WellBracketed(p) /\ k \in DOMAIN p /\ p[k] = "begin"
          /\ calls[c].status = "running"
      BY <3>1, AtFacts
    <3>3. ~calls[c].inTry
      BY <2>0, <3>2, AtBegin DEF PositionOfCall, Passed
    <3>4. Moved(c, k, calls[c].inTry, "failed", calls[c].unwritten)
      BY <2>2, RefusedChanges, CallEndedMoves
    <3>. QED  BY <1>0, <2>2, <3>3, <3>4 DEF TransactionIsOwned, BeginRefused, Moved
  <2>3. ASSUME Read(c) \/ Write(c)
        PROVE  TransactionIsOwned'
    <3>1. /\ At(c, "read") \/ At(c, "write")
          /\ Advance(c, calls[c].inTry) /\ UNCHANGED owner
      BY <2>3 DEF Read, Write
    <3>2. p \in Seq(Statements) /\ WellBracketed(p) /\ k \in DOMAIN p /\ p[k] # "commit"
          /\ calls[c].status = "running"
      BY <3>1, AtFacts
    <3>3. calls[c].inTry => k # Len(p)
      BY <2>0, <3>2, InsideEnds DEF PositionOfCall, Passed
    <3>4. Moved(c, k + 1, calls[c].inTry, IF k = Len(p) THEN "done" ELSE "running",
                calls[c].unwritten)
      BY <2>0, <3>1, AdvanceMoves
    <3>. HIDE DEF p, k
    <3>. QED  BY <1>0, <3>1, <3>3, <3>4 DEF TransactionIsOwned, Moved
  <2>5. ASSUME StatementFails(c) \/ CommitRefused(c)
        PROVE  TransactionIsOwned'
    <3>1. Raise(c) /\ UNCHANGED owner
      BY <2>5 DEF StatementFails, CommitRefused
    <3>2. Moved(c, k, calls[c].inTry, IF calls[c].inTry THEN "raising" ELSE "failed",
                calls[c].unwritten)
      BY <3>1, RaiseMoves
    <3>. QED  BY <1>0, <3>1, <3>2 DEF TransactionIsOwned, Moved
  <2>6. CASE Commit(c)
    BY <2>6 DEF TransactionIsOwned, Commit, CloseTransaction
  <2>8. CASE CommitFails(c)
    BY <2>8 DEF TransactionIsOwned, CommitFails, CloseTransaction
  <2>9. CASE Rollback(c)
    BY <2>9 DEF TransactionIsOwned, Rollback, CloseTransaction
  <2>. QED  BY <1>2, <2>1, <2>2, <2>3, <2>5, <2>6, <2>8, <2>9 DEF Execute
<1>3. CASE Kill
  BY <1>3 DEF TransactionIsOwned, Kill, CloseTransaction
<1>4. CASE UNCHANGED connectionVars
  BY <1>4 DEF connectionVars, TransactionIsOwned
<1>. QED  BY <1>1, <1>2, <1>3, <1>4 DEF ConnectionNext

\* Whatever fails, an open transaction belongs to a call that will end it with
\* COMMIT or ROLLBACK.
THEOREM TransactionOwned == ConnectionSpec => []TransactionIsOwned
<1>1. ConnectionInit => PositionInv /\ TransactionIsOwned
  BY DEF ConnectionInit, PositionInv, TransactionIsOwned
<1>2. ConnectionTypeOK /\ PositionInv /\ TransactionIsOwned /\ [ConnectionNext]_connectionVars
          => PositionInv' /\ TransactionIsOwned'
  BY PositionNext, OwnedNext
<1>. QED  BY <1>1, <1>2, ConnectionTypeCorrect, PTL DEF ConnectionSpec

-----------------------------------------------------------------------------
\* Where the rows of a call are

RowsAt(c) ==
    /\ calls[c].inTry => owner = c
    /\ Transactional(c) => RowsOfCall(c)

\* A step of another call leaves the rows of call d where they are.
LEMMA RowsKept ==
    ASSUME NEW d \in DOMAIN calls, calls'[d] = calls[d], RowsAt(d),
           owner' = d <=> owner = d,
           Transactional(d) =>
              \A i \in Writes(d) : /\ <<d, i>> \in pending' <=> <<d, i>> \in pending
                                   /\ <<d, i>> \in stored' <=> <<d, i>> \in stored
    PROVE  RowsAt(d)'
<1>1. Writes(d)' = Writes(d) /\ (Transactional(d)' <=> Transactional(d))
      /\ (\A s : Passed(d, s)' <=> Passed(d, s))
  BY DEF Writes, Transactional, Passed
<1>. QED  BY <1>1 DEF RowsAt, RowsOfCall

LEMMA MovedKeepsProgram ==
    ASSUME NEW c \in DOMAIN calls, NEW pc, NEW b, NEW outcome, NEW u,
           Moved(c, pc, b, outcome, u)
    PROVE  /\ Writes(c)' = Writes(c) /\ (Transactional(c)' <=> Transactional(c))
           /\ \A s : Passed(c, s)' <=> Earlier(calls[c].program, pc, s)
  BY DEF Moved, Writes, Transactional, Passed

\* No write stands at or before BEGIN.
LEMMA WritesAfterBegin ==
    ASSUME NEW p \in Seq(Statements), WellBracketed(p),
           NEW k \in DOMAIN p, p[k] = "begin", NEW i \in DOMAIN p, p[i] = "write"
    PROVE  ~(i < k + 1)
<1>1. DOMAIN p = 1..Len(p) /\ Len(p) \in Nat /\ k \in Int /\ i \in Int
  OBVIOUS
<1>2. Has(p, "begin") /\ ~Earlier(p, k, "begin")
  BY AtBegin
<1>3. PICK b \in DOMAIN p : b < i /\ p[b] = "begin"
  BY <1>2, AtWrite DEF Earlier
<1>4. ~(b < k) /\ b \in Int
  BY <1>1, <1>2, <1>3 DEF Earlier
<1>. QED  BY <1>1, <1>3, <1>4

LEMMA RowsOfBegin ==
    ASSUME ConnectionTypeOK, PositionInv, NEW c \in DOMAIN calls, RowsAt(c), Begin(c)
    PROVE  RowsAt(c)'
<1>. DEFINE p == calls[c].program
            k == calls[c].pc
<1>1. p \in Seq(Statements) /\ WellBracketed(p) /\ k \in DOMAIN p /\ p[k] = "begin"
      /\ calls[c].status = "running"
  BY AtFacts DEF Begin
<1>2. k # Len(p) /\ ~Earlier(p, k, "begin") /\ ~Earlier(p, k, "commit") /\ Has(p, "begin")
  BY <1>1, AtBegin
<1>3. Moved(c, k + 1, TRUE, "running", calls[c].unwritten)
  BY <1>2, AdvanceMoves DEF Begin
<1>4. Earlier(p, k + 1, "begin") /\ ~Earlier(p, k + 1, "commit")
  BY <1>1, <1>2, BeforeNext
<1>5. \A i \in Writes(c) : ~(i < k + 1)
  BY <1>1, WritesAfterBegin DEF Writes
<1>6. \A i \in Writes(c) : <<c, i>> \notin stored
  BY <1>1, <1>2 DEF RowsAt, RowsOfCall, Passed, Transactional
<1>7. pending' = {} /\ stored' = stored /\ owner' = c
  BY DEF Begin, ConnectionTypeOK
<1>8. /\ Writes(c)' = Writes(c)
      /\ Passed(c, "begin")' /\ ~Passed(c, "commit")'
      /\ calls'[c].pc = k + 1 /\ calls'[c].status = "running"
  BY <1>3, <1>4, MovedKeepsProgram DEF Moved
<1>. HIDE DEF p, k
<1>. QED  BY <1>5, <1>6, <1>7, <1>8 DEF RowsAt, RowsOfCall

\* A call that raises or fails keeps what it has.
LEMMA RowsOfEnd ==
    ASSUME NEW c \in DOMAIN calls, RowsAt(c),
           NEW outcome, outcome \in {"raising", "failed"},
           Moved(c, calls[c].pc, calls[c].inTry, outcome, calls[c].unwritten),
           UNCHANGED <<owner, pending, stored>>
    PROVE  RowsAt(c)'
<1>1. /\ Writes(c)' = Writes(c) /\ (Transactional(c)' <=> Transactional(c))
      /\ calls'[c].status = outcome /\ calls'[c].inTry = calls[c].inTry
  BY MovedKeepsProgram DEF Moved
<1>. QED  BY <1>1 DEF RowsAt, RowsOfCall

LEMMA RowsOfRead ==
    ASSUME ConnectionTypeOK, PositionInv, NEW c \in DOMAIN calls, RowsAt(c), Read(c)
    PROVE  RowsAt(c)'
<1>. DEFINE p == calls[c].program
            k == calls[c].pc
<1>1. p \in Seq(Statements) /\ WellBracketed(p) /\ k \in DOMAIN p /\ p[k] = "read"
      /\ calls[c].status = "running"
  BY AtFacts DEF Read
<1>2. Moved(c, k + 1, calls[c].inTry, IF k = Len(p) THEN "done" ELSE "running",
            calls[c].unwritten)
  BY AdvanceMoves, ProgramType DEF Read, CallType
<1>3. /\ Earlier(p, k + 1, "begin") <=> Earlier(p, k, "begin")
      /\ Earlier(p, k + 1, "commit") <=> Earlier(p, k, "commit")
  BY <1>1, BeforeNext
<1>4. \A i \in Writes(c) : i < k + 1 <=> i < k
  <2>1. ASSUME NEW i \in Writes(c)
        PROVE  i < k + 1 <=> i < k
    <3>1. i \in Int /\ k \in Int /\ i # k
      BY <1>1 DEF Writes
    <3>. QED  BY <3>1
  <2>. QED  BY <2>1
<1>5. Transactional(c) /\ k = Len(p) => Earlier(p, k, "commit")
  BY <1>1, LastHasBegun, InsideEnds DEF Transactional
<1>6. /\ Writes(c)' = Writes(c) /\ (Transactional(c)' <=> Transactional(c))
      /\ Passed(c, "begin")' <=> Passed(c, "begin")
      /\ Passed(c, "commit")' <=> Passed(c, "commit")
      /\ calls'[c].pc = k + 1 /\ calls'[c].inTry = calls[c].inTry
      /\ calls'[c].status = IF k = Len(p) THEN "done" ELSE "running"
  BY <1>2, <1>3, MovedKeepsProgram DEF Moved, Passed
<1>7. UNCHANGED <<owner, pending, stored>>
  BY DEF Read
<1>8. Transactional(c) /\ k = Len(p) => Passed(c, "commit")
  BY <1>5 DEF Passed
<1>9. calls[c].status = "running" /\ calls[c].pc = k
  BY <1>1
<1>. HIDE DEF p, k
<1>. QED  BY <1>4, <1>6, <1>7, <1>8, <1>9 DEF RowsAt, RowsOfCall

\* A write of a transactional call joins its own transaction.
LEMMA RowsOfWrite ==
    ASSUME ConnectionTypeOK, PositionInv, NEW c \in DOMAIN calls, RowsAt(c), Write(c)
    PROVE  RowsAt(c)'
<1>. DEFINE p == calls[c].program
            k == calls[c].pc
<1>1. p \in Seq(Statements) /\ WellBracketed(p) /\ k \in DOMAIN p /\ p[k] = "write"
      /\ calls[c].status = "running"
  BY AtFacts DEF Write
<1>2. Moved(c, k + 1, calls[c].inTry, IF k = Len(p) THEN "done" ELSE "running",
            calls[c].unwritten)
  BY AdvanceMoves, ProgramType DEF Write, CallType
<1>3. (Transactional(c)' <=> Transactional(c)) /\ owner' = owner
      /\ calls'[c].inTry = calls[c].inTry
  BY <1>2, MovedKeepsProgram DEF Moved, Write
<1>4. SUFFICES ASSUME Transactional(c)
               PROVE  RowsOfCall(c)'
  BY <1>3 DEF RowsAt
<1>5. Earlier(p, k, "begin") /\ ~Earlier(p, k, "commit")
  BY <1>1, <1>4, AtWrite DEF Transactional
<1>6. k # Len(p)
  BY <1>1, <1>5, InsideEnds
<1>7. owner = c /\ c # 0
  BY <1>1, <1>5, ProgramType DEF PositionInv, PositionOfCall, Passed, RowsAt
<1>8. Earlier(p, k + 1, "begin") /\ ~Earlier(p, k + 1, "commit")
  BY <1>1, <1>5, BeforeNext
<1>9. /\ Writes(c)' = Writes(c)
      /\ Passed(c, "begin")' /\ ~Passed(c, "commit")'
      /\ calls'[c].pc = k + 1 /\ calls'[c].status = "running"
  BY <1>2, <1>6, <1>8, MovedKeepsProgram DEF Moved
<1>10. pending' = pending \cup {<<c, k>>} /\ stored' = stored
  BY <1>7 DEF Write
<1>11. ASSUME NEW i \in Writes(c), i < k + 1
       PROVE  i < k \/ i = k
  BY <1>1, <1>11 DEF Writes
<1>12. /\ RowsOfCall(c) /\ calls[c].status = "running" /\ calls[c].pc = k
  BY <1>1, <1>4 DEF RowsAt
<1>. HIDE DEF p, k
<1>. QED  BY <1>3, <1>7, <1>9, <1>10, <1>11, <1>12 DEF RowsOfCall

\* At COMMIT and at ROLLBACK the open transaction is the call's own.
LEMMA OwnsAtCommit ==
    ASSUME ConnectionTypeOK, PositionInv, NEW c \in DOMAIN calls, RowsAt(c), At(c, "commit")
    PROVE  owner = c /\ Transactional(c)
<1>1. /\ calls[c].program \in Seq(Statements) /\ WellBracketed(calls[c].program)
      /\ calls[c].pc \in DOMAIN calls[c].program
      /\ calls[c].program[calls[c].pc] = "commit" /\ calls[c].status = "running"
  BY AtFacts
<1>2. Passed(c, "begin") /\ ~Passed(c, "commit")
  BY <1>1, AtCommit DEF Passed
<1>3. calls[c].inTry
  BY <1>1, <1>2 DEF PositionInv, PositionOfCall
<1>. QED  BY <1>2, <1>3 DEF RowsAt, Passed, Earlier, Transactional, Has

LEMMA RowsOfCommit ==
    ASSUME ConnectionTypeOK, PositionInv, NEW c \in DOMAIN calls, RowsAt(c), Commit(c)
    PROVE  RowsAt(c)'
<1>. DEFINE p == calls[c].program
            k == calls[c].pc
<1>1. p \in Seq(Statements) /\ WellBracketed(p) /\ k \in DOMAIN p /\ p[k] = "commit"
      /\ calls[c].status = "running"
  BY AtFacts DEF Commit
<1>2. owner = c /\ Transactional(c) /\ c # 0
  BY OwnsAtCommit, ProgramType DEF Commit
<1>3. Earlier(p, k, "begin") /\ \A i \in Writes(c) : i < k
  BY <1>1, AtCommit DEF Writes
<1>4. \A i \in Writes(c) : <<c, i>> \in pending
  BY <1>1, <1>2, <1>3 DEF RowsAt, RowsOfCall
<1>5. Earlier(p, k + 1, "begin")
  BY <1>1, <1>3, BeforeNext
<1>6. Moved(c, k + 1, FALSE, IF k = Len(p) THEN "done" ELSE "running", calls[c].unwritten)
  BY AdvanceMoves DEF Commit
<1>7. Writes(c)' = Writes(c) /\ Passed(c, "begin")' /\ ~calls'[c].inTry
  BY <1>5, <1>6, MovedKeepsProgram DEF Moved
<1>8. owner' = 0 /\ pending' = {} /\ stored' = stored \cup pending
  BY DEF Commit, CloseTransaction
<1>. HIDE DEF p, k
<1>. QED  BY <1>2, <1>4, <1>7, <1>8 DEF RowsAt, RowsOfCall

\* A call that ended with the transaction closed: nothing of it is pending.
LEMMA RowsOfClosed ==
    ASSUME NEW c \in DOMAIN calls, c # 0, RowsAt(c), CloseTransaction, UNCHANGED stored,
           calls'[c].program = calls[c].program,
           calls'[c].status \in {"failed", "killed"}, ~calls'[c].inTry
    PROVE  RowsAt(c)'
<1>1. Writes(c)' = Writes(c) /\ (Transactional(c)' <=> Transactional(c))
  BY DEF Writes, Transactional
<1>. QED  BY <1>1 DEF RowsAt, RowsOfCall, CloseTransaction

\* A commit that was not written is never forgotten.
LEMMA UnwrittenKept ==
    ASSUME ConnectionTypeOK, [ConnectionNext]_connectionVars, CommitsWritten'
    PROVE  CommitsWritten /\ \A c \in DOMAIN calls : ~CommitFails(c)
<1>1. ASSUME NEW t \in Threads, NEW program \in Repertoire[t], Call(t, program)
      PROVE  CommitsWritten /\ \A c \in DOMAIN calls : ~CommitFails(c)
  <2>1. /\ DOMAIN calls \subseteq DOMAIN calls'
        /\ \A d \in DOMAIN calls : calls'[d] = calls[d]
    BY <1>1, CallChanges
  <2>2. ASSUME NEW c \in DOMAIN calls, CommitFails(c)
        PROVE  FALSE
    BY <1>1, <2>2, CallChanges, CommitFailsChanges DEF CallChanged, ConnectionTypeOK
  <2>. QED  BY <2>1, <2>2 DEF CommitsWritten
<1>2. ASSUME NEW c \in DOMAIN calls, CommitFails(c)
      PROVE  FALSE
  BY <1>2, CommitFailsChanges, CallEndedMoves DEF Moved, CommitsWritten
<1>3. ASSUME NEW c \in DOMAIN calls, Execute(c)
      PROVE  CommitsWritten
  <2>1. PICK pc, b, outcome : Moved(c, pc, b, outcome, calls[c].unwritten)
    <3>0. calls[c].inTry \in BOOLEAN
      BY ProgramType DEF CallType
    <3>1. CASE Begin(c)
      BY <3>1, AdvanceMoves DEF Begin
    <3>2. CASE BeginRefused(c)
      BY <3>2, RefusedChanges, CallEndedMoves
    <3>3. CASE Read(c)
      BY <3>0, <3>3, AdvanceMoves DEF Read
    <3>4. CASE Write(c)
      BY <3>0, <3>4, AdvanceMoves DEF Write
    <3>5. CASE StatementFails(c)
      BY <3>5, RaiseMoves DEF StatementFails
    <3>6. CASE Commit(c)
      BY <3>6, AdvanceMoves DEF Commit
    <3>7. CASE CommitRefused(c)
      BY <3>7, RaiseMoves DEF CommitRefused
    <3>9. CASE Rollback(c)
      BY <3>9, RollbackChanges, CallEndedMoves
    <3>. QED  BY <1>2, <1>3, <3>1, <3>2, <3>3, <3>4, <3>5, <3>6, <3>7, <3>9 DEF Execute
  <2>. QED  BY <2>1 DEF Moved, CommitsWritten
<1>4. CASE Kill
  <2>1. ASSUME NEW d \in DOMAIN calls
        PROVE  calls'[d].unwritten = calls[d].unwritten
    <3>1. calls[d] \in CallType
      BY ProgramType
    <3>2. CallEnded(d, "killed", FALSE, calls[d].unwritten).unwritten = calls[d].unwritten
      BY <3>1 DEF CallEnded, CallType
    <3>. QED  BY <1>4, <3>2, KillChanges
  <2>. QED  BY <1>2, <1>4, <2>1, KillChanges DEF CommitsWritten
<1>5. CASE UNCHANGED connectionVars
  BY <1>2, <1>5 DEF connectionVars, CommitsWritten
<1>. QED  BY <1>1, <1>2, <1>3, <1>4, <1>5 DEF ConnectionNext

LEMMA RowsNext ==
    ASSUME ConnectionTypeOK, PositionInv, TransactionIsOwned, RowsInv, [ConnectionNext]_connectionVars
    PROVE  RowsInv'
<1>. SUFFICES ASSUME CommitsWritten'
              PROVE  \A d \in DOMAIN calls' : RowsAt(d)'
  BY DEF RowsInv, RowsAt
<1>0. /\ \A d \in DOMAIN calls : RowsAt(d) /\ ~CommitFails(d)
      /\ DOMAIN calls = 1..Len(calls) /\ Len(calls) \in Nat
      /\ owner \in 0..Len(calls)
  BY UnwrittenKept DEF RowsInv, RowsAt, ConnectionTypeOK
<1>1. ASSUME NEW t \in Threads, NEW program \in Repertoire[t], Call(t, program)
      PROVE  \A d \in DOMAIN calls' : RowsAt(d)'
  <2>0. program \in Seq(Statements)
    BY <1>1, ConnectionAssumption
  <2>1. PICK n :
        /\ DOMAIN calls' = DOMAIN calls \cup {n} /\ n \notin DOMAIN calls
        /\ n = Len(calls) + 1
        /\ \A d \in DOMAIN calls : calls'[d] = calls[d]
        /\ calls'[n].program = program /\ calls'[n].pc = 1
        /\ ~calls'[n].inTry /\ calls'[n].status = "running"
    BY <1>1, CallChanges
  <2>2. UNCHANGED <<owner, aborted, pending, stored>>
    BY <1>1 DEF Call
  <2>3. \A d \in DOMAIN calls : RowsAt(d)'
    BY <1>0, <2>1, <2>2, RowsKept
  <2>4. owner # n /\ (\A i : <<n, i>> \notin pending /\ <<n, i>> \notin stored)
    <3>1. owner # n
      BY <1>0, <2>1
    <3>2. pending \subseteq (DOMAIN calls) \X Nat /\ stored \subseteq (DOMAIN calls) \X Nat
      BY DEF ConnectionTypeOK
    <3>. QED  BY <2>1, <3>1, <3>2
  <2>5. ~Passed(n, "commit")'
    <3>1. ~Earlier(program, 1, "commit")
      BY <2>0 DEF Earlier
    <3>. QED  BY <2>1, <3>1 DEF Passed
  <2>6. RowsAt(n)'
    BY <2>1, <2>2, <2>4, <2>5 DEF RowsAt, RowsOfCall
  <2>. QED  BY <2>1, <2>3, <2>6
<1>2. ASSUME NEW c \in DOMAIN calls, Execute(c)
      PROVE  \A d \in DOMAIN calls' : RowsAt(d)'
  <2>0. /\ RowsAt(c) /\ PositionOfCall(c) /\ calls[c].inTry \in BOOLEAN /\ c # 0
        /\ \A d \in DOMAIN calls : d # 0
    BY <1>0, ProgramType DEF PositionInv, CallType
  <2>1. ASSUME NEW pc, NEW b, NEW outcome, NEW u, Moved(c, pc, b, outcome, u), RowsAt(c)',
               \A d \in DOMAIN calls \ {c} :
                  /\ owner' = d <=> owner = d
                  /\ Transactional(d) => \A i \in Writes(d) :
                        /\ <<d, i>> \in pending' <=> <<d, i>> \in pending
                        /\ <<d, i>> \in stored' <=> <<d, i>> \in stored
        PROVE  \A d \in DOMAIN calls' : RowsAt(d)'
    BY <1>0, <2>1, RowsKept DEF Moved
  <2>2. CASE Begin(c)
    <3>1. Moved(c, calls[c].pc + 1, TRUE,
                IF calls[c].pc = Len(calls[c].program) THEN "done" ELSE "running",
                calls[c].unwritten)
      BY <2>2, AdvanceMoves DEF Begin
    <3>2. UNCHANGED <<pending, stored>> /\ owner = 0 /\ owner' = c
      BY <2>2 DEF Begin
    <3>. QED  BY <2>0, <2>1, <2>2, <3>1, <3>2, RowsOfBegin
  <2>3. CASE BeginRefused(c)
    <3>1. Moved(c, calls[c].pc, calls[c].inTry, "failed", calls[c].unwritten)
      BY <2>3, RefusedChanges, CallEndedMoves
    <3>2. UNCHANGED <<owner, pending, stored>>
      BY <2>3 DEF BeginRefused
    <3>. QED  BY <2>0, <2>1, <3>1, <3>2, RowsOfEnd
  <2>4. CASE Read(c)
    <3>1. Moved(c, calls[c].pc + 1, calls[c].inTry,
                IF calls[c].pc = Len(calls[c].program) THEN "done" ELSE "running",
                calls[c].unwritten)
      BY <2>0, <2>4, AdvanceMoves DEF Read
    <3>2. UNCHANGED <<owner, pending, stored>>
      BY <2>4 DEF Read
    <3>. QED  BY <2>0, <2>1, <2>4, <3>1, <3>2, RowsOfRead
  <2>5. CASE Write(c)
    <3>1. Moved(c, calls[c].pc + 1, calls[c].inTry,
                IF calls[c].pc = Len(calls[c].program) THEN "done" ELSE "running",
                calls[c].unwritten)
      BY <2>0, <2>5, AdvanceMoves DEF Write
    <3>2. /\ owner' = owner
          /\ pending' \in {pending, pending \cup {<<c, calls[c].pc>>}}
          /\ stored' \in {stored, stored \cup {<<c, calls[c].pc>>}}
      BY <2>5 DEF Write
    <3>3. \A d \in DOMAIN calls \ {c} : \A i \in Writes(d) :
             /\ <<d, i>> \in pending' <=> <<d, i>> \in pending
             /\ <<d, i>> \in stored' <=> <<d, i>> \in stored
      BY <3>2
    <3>. QED  BY <2>0, <2>1, <2>5, <3>1, <3>2, <3>3, RowsOfWrite
  <2>6. CASE StatementFails(c) \/ CommitRefused(c)
    <3>1. Raise(c) /\ UNCHANGED <<owner, pending, stored>>
      BY <2>6 DEF StatementFails, CommitRefused
    <3>2. PICK outcome \in {"raising", "failed"} :
            Moved(c, calls[c].pc, calls[c].inTry, outcome, calls[c].unwritten)
      BY <3>1, RaiseMoves
    <3>. QED  BY <2>0, <2>1, <3>1, <3>2, RowsOfEnd
  <2>7. ASSUME owner = c, CloseTransaction, stored' \in {stored, stored \cup pending}
        PROVE  \A d \in DOMAIN calls \ {c} :
                  /\ owner' = d <=> owner = d
                  /\ Transactional(d) => \A i \in Writes(d) :
                        /\ <<d, i>> \in pending' <=> <<d, i>> \in pending
                        /\ <<d, i>> \in stored' <=> <<d, i>> \in stored
    <3>1. ASSUME NEW d \in DOMAIN calls \ {c}, Transactional(d), NEW i \in Writes(d)
          PROVE  <<d, i>> \notin pending
      BY <1>0, <2>7, <3>1 DEF RowsAt, RowsOfCall
    <3>. QED  BY <2>0, <2>7, <3>1 DEF CloseTransaction
  <2>8. CASE Commit(c)
    <3>1. Moved(c, calls[c].pc + 1, FALSE,
                IF calls[c].pc = Len(calls[c].program) THEN "done" ELSE "running",
                calls[c].unwritten)
      BY <2>8, AdvanceMoves DEF Commit
    <3>2. owner = c
      BY <2>0, <2>8, OwnsAtCommit DEF Commit
    <3>3. CloseTransaction /\ stored' = stored \cup pending
      BY <2>8 DEF Commit
    <3>. QED  BY <2>0, <2>1, <2>7, <2>8, <3>1, <3>2, <3>3, RowsOfCommit
  <2>9. CASE Rollback(c)
    <3>1. Moved(c, calls[c].pc, FALSE, "failed", calls[c].unwritten)
      BY <2>9, RollbackChanges, CallEndedMoves
    <3>2. owner = c
      BY <2>0, <2>9 DEF Rollback, PositionOfCall, RowsAt
    <3>3. CloseTransaction /\ stored' = stored
      BY <2>9 DEF Rollback
    <3>4. RowsAt(c)'
      BY <2>0, <3>1, <3>3, RowsOfClosed DEF Moved
    <3>. QED  BY <2>1, <2>7, <3>1, <3>2, <3>3, <3>4
  <2>. QED  BY <1>0, <1>2, <2>2, <2>3, <2>4, <2>5, <2>6, <2>8, <2>9 DEF Execute
<1>3. CASE Kill
  <2>1. ASSUME NEW d \in DOMAIN calls
        PROVE  RowsAt(d)'
    <3>0. RowsAt(d) /\ PositionOfCall(d) /\ d # 0 /\ calls[d] \in CallType
      BY <1>0, ProgramType DEF PositionInv
    <3>1. CASE calls[d].status \in {"running", "raising"}
      <4>1. calls'[d] = CallEnded(d, "killed", FALSE, calls[d].unwritten)
        BY <1>3, <3>1, KillChanges
      <4>2. /\ calls'[d].status = "killed" /\ calls'[d].inTry = FALSE
            /\ calls'[d].program = calls[d].program
        BY <4>1, <3>0 DEF CallEnded, CallType
      <4>. QED  BY <1>3, <3>0, <4>2, RowsOfClosed DEF Kill
    <3>2. CASE calls[d].status \notin {"running", "raising"}
      <4>1. calls'[d] = calls[d]
        BY <1>3, <3>2, KillChanges
      <4>2. /\ Writes(d)' = Writes(d) /\ (Transactional(d)' <=> Transactional(d))
        BY <4>1 DEF Writes, Transactional
      <4>3. owner' = 0 /\ pending' = {} /\ stored' = stored
        BY <1>3 DEF Kill, CloseTransaction
      <4>. QED  BY <3>0, <3>2, <4>1, <4>2, <4>3 DEF RowsAt, RowsOfCall, PositionOfCall
    <3>. QED  BY <3>1, <3>2
  <2>. QED  BY <1>3, <2>1, KillChanges
<1>4. CASE UNCHANGED connectionVars
  <2>1. \A d \in DOMAIN calls : RowsAt(d)'
    BY <1>0, <1>4, RowsKept DEF connectionVars
  <2>. QED  BY <1>4, <2>1 DEF connectionVars
<1>. QED  BY <1>1, <1>2, <1>3, <1>4 DEF ConnectionNext

-----------------------------------------------------------------------------
\* The invariant of the connection holds: it says at every statement which
\* transaction is open, whose it is and where the rows of each call are
\* (the try blocks of the repositories over LocalMarketStore.connection).
THEOREM ConnectionInvariant == ConnectionSpec => []ConnectionInv
<1>1. ConnectionInit => ConnectionInv
  BY DEF ConnectionInit, ConnectionInv, PositionInv, TransactionIsOwned, RowsInv
<1>2. ConnectionTypeOK /\ ConnectionInv /\ [ConnectionNext]_connectionVars => ConnectionInv'
  BY PositionNext, OwnedNext, RowsNext DEF ConnectionInv
<1>. QED  BY <1>1, <1>2, ConnectionTypeCorrect, PTL DEF ConnectionSpec

\* A transactional call is in the database whole or not at all, whatever the
\* other thread does between its statements (for instance
\* CompanyRepository.upsert, OptionLifecycleRepository.append).
THEOREM WholeOrNothing == ConnectionSpec => []AllOrNothing
<1>1. ConnectionInv => AllOrNothing
  <2>. SUFFICES ASSUME ConnectionInv, CommitsWritten,
                       NEW c \in DOMAIN calls, Transactional(c)
                PROVE  (Rows(c) \cap stored) \in {{}, Rows(c)}
    BY DEF AllOrNothing
  <2>1. \/ \A i \in Writes(c) : <<c, i>> \in stored
        \/ \A i \in Writes(c) : <<c, i>> \notin stored
    BY DEF ConnectionInv, RowsInv, RowsOfCall
  <2>2. \A r \in Rows(c) : \E i \in Writes(c) : r = <<c, i>>
    BY DEF Rows
  <2>. QED  BY <2>1, <2>2
<1>. QED  BY <1>1, ConnectionInvariant, PTL

\* What a transactional call returned is in the database.
THEOREM ReturnedStored == ConnectionSpec => []ReturnedIsStored
<1>1. ConnectionInv => ReturnedIsStored
  <2>. SUFFICES ASSUME ConnectionInv, CommitsWritten,
                       NEW c \in DOMAIN calls, Transactional(c), calls[c].status = "done"
                PROVE  Rows(c) \subseteq stored
    BY DEF ReturnedIsStored
  <2>1. \A i \in Writes(c) : <<c, i>> \in stored
    BY DEF ConnectionInv, RowsInv, RowsOfCall
  <2>. QED  BY <2>1 DEF Rows
<1>. QED  BY <1>1, ConnectionInvariant, PTL
================================================================================
