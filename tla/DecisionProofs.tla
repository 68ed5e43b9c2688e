---------------------------- MODULE DecisionProofs ----------------------------
(***************************************************************************)
(* Theorems about what a decision is made of: about DecisionJournal and    *)
(* the planning below it, for any number of companies, tickers, decisions  *)
(* and operations, what is kept in versions is one chain per key, what a   *)
(* decision froze stays what it was, the revisions never contradict the    *)
(* journal wherever the process stops, and what was sized and fitted keeps *)
(* its limits; about OptionLedger, for any positions, prices and events,   *)
(* the ledger reconciles, what is called covered is covered, and the       *)
(* collateral of short puts is enough.                                     *)
(***************************************************************************)
EXTENDS DecisionJournal, OptionLedger, FiniteSums, TLAPS

-----------------------------------------------------------------------------
\* Rows in versions

\* One row for each of the versions 1 .. n of every key
Chained(rows, keys) ==
    /\ \A r \in rows : r.key \in keys
    /\ \A r, q \in rows : r.key = q.key /\ r.version = q.version => r = q
    /\ \A k \in keys : \E n \in Nat : Versions(rows, k) = 1 .. n

\* Another version at the end of the chain of k
Grows(chain, longer, keys, k) ==
    /\ Len(longer[k]) = Len(chain[k]) + 1
    /\ SubSeq(longer[k], 1, Len(chain[k])) = chain[k]
    /\ \A other \in keys \ {k} : longer[other] = chain[other]

LEMMA NoRowsChained ==
    ASSUME NEW keys
    PROVE  Chained({}, keys) /\ AsChain({}, keys) = [k \in keys |-> << >>]
<1>1. \A k : Under({}, k) = {} /\ Versions({}, k) = {} /\ CurrentVersion({}, k) = 0
  BY DEF Under, Versions, CurrentVersion
<1>2. 1 .. 0 = {} /\ 0 \in Nat
  OBVIOUS
<1>3. Chained({}, keys)
  BY <1>1, <1>2 DEF Chained
<1>4. ASSUME NEW k \in keys
      PROVE  [n \in 1 .. CurrentVersion({}, k) |-> {r \in Under({}, k) : r.version = n}] = << >>
  BY <1>1, <1>2
<1>. QED  BY <1>3, <1>4 DEF AsChain

LEMMA CurrentIsLast ==
    ASSUME NEW rows, NEW k, NEW n \in Nat, Versions(rows, k) = 1 .. n
    PROVE  CurrentVersion(rows, k) = n
<1>1. CASE n = 0
  <2>1. Versions(rows, k) = {}
    BY <1>1
  <2>2. Under(rows, k) = {}
    BY <2>1 DEF Versions
  <2>. QED  BY <1>1, <2>2 DEF CurrentVersion
<1>2. CASE n # 0
  <2>1. n \in 1 .. n /\ \A m \in 1 .. n : m <= n
    BY <1>2
  <2>2. Under(rows, k) # {}
    BY <2>1 DEF Versions
  <2>3. CurrentVersion(rows, k) = CHOOSE l \in 1 .. n : \A m \in 1 .. n : m <= l
    BY <2>2 DEF CurrentVersion
  <2>4. \A l \in 1 .. n : (\A m \in 1 .. n : m <= l) => l = n
    BY <2>1
  <2>. QED  BY <2>1, <2>3, <2>4
<1>. QED  BY <1>1, <1>2

\* The current version of a key that has one is a stored row.
LEMMA CurrentIsRow ==
    ASSUME NEW rows, NEW keys, Chained(rows, keys), NEW k \in keys, Under(rows, k) # {}
    PROVE  Current(rows, k) \in Under(rows, k)
<1>1. PICK n \in Nat : Versions(rows, k) = 1 .. n
  BY DEF Chained
<1>2. CurrentVersion(rows, k) = n
  BY <1>1, CurrentIsLast
<1>3. n \in Versions(rows, k)
  <2>1. Versions(rows, k) # {}
    BY DEF Versions
  <2>. QED  BY <1>1, <2>1
<1>4. \E r \in Under(rows, k) : r.version = n
  BY <1>3 DEF Versions
<1>. QED  BY <1>2, <1>4 DEF Current, RowOf

\* What a row that is added does to the versions
LEMMA AddedVersions ==
    ASSUME NEW rows, NEW row, NEW k
    PROVE  /\ row.key = k => /\ Under(Inserted(rows, row), k) = Under(rows, k) \cup {row}
                             /\ Versions(Inserted(rows, row), k)
                                  = Versions(rows, k) \cup {row.version}
           /\ row.key # k => /\ Under(Inserted(rows, row), k) = Under(rows, k)
                             /\ Versions(Inserted(rows, row), k) = Versions(rows, k)
<1>1. row.key = k => Under(Inserted(rows, row), k) = Under(rows, k) \cup {row}
  BY DEF Under, Inserted
<1>2. row.key # k => Under(Inserted(rows, row), k) = Under(rows, k)
  BY DEF Under, Inserted
<1>. QED  BY <1>1, <1>2 DEF Versions

LEMMA AddedAtEnd ==
    ASSUME NEW rows, NEW keys, Chained(rows, keys), NEW k \in keys, NEW row,
           row.key = k, row.version = CurrentVersion(rows, k) + 1
    PROVE  /\ Chained(Inserted(rows, row), keys)
           /\ Grows(AsChain(rows, keys), AsChain(Inserted(rows, row), keys), keys, k)
<1>. DEFINE new == Inserted(rows, row)
<1>1. PICK n \in Nat : Versions(rows, k) = 1 .. n
  BY DEF Chained
<1>2. CurrentVersion(rows, k) = n /\ row.version = n + 1
  BY <1>1, CurrentIsLast
<1>3. Versions(new, k) = 1 .. n + 1
  <2>1. Versions(new, k) = 1 .. n \cup {n + 1}
    <3>1. Versions(new, k) = Versions(rows, k) \cup {row.version}
      BY AddedVersions
    <3>. QED  BY <3>1, <1>1, <1>2
  <2>. QED  BY <2>1
<1>4. CurrentVersion(new, k) = n + 1
  BY <1>3, CurrentIsLast
<1>5. \A r \in Under(rows, k) : r.version \in 1 .. n
  BY <1>1 DEF Versions
<1>6. Chained(new, keys)
  <2>1. \A r \in new : r.key \in keys
    BY DEF Chained, Inserted
  <2>2. ASSUME NEW r \in new, NEW q \in new, r.key = q.key, r.version = q.version
        PROVE  r = q
    <3>1. \A s \in rows : s.key = k => s.version # row.version
      BY <1>2, <1>5 DEF Under
    <3>. QED  BY <2>2, <3>1 DEF Chained, Inserted
  <2>3. ASSUME NEW other \in keys
        PROVE  \E m \in Nat : Versions(new, other) = 1 .. m
    <3>1. CASE other = k
      BY <1>3, <3>1
    <3>2. CASE other # k
      BY <3>2, AddedVersions DEF Chained
    <3>. QED  BY <3>1, <3>2
  <2>. QED  BY <2>1, <2>2, <2>3 DEF Chained
<1>7. ASSUME NEW other \in keys \ {k}
      PROVE  AsChain(new, keys)[other] = AsChain(rows, keys)[other]
  <2>1. Under(new, other) = Under(rows, other) /\ Versions(new, other) = Versions(rows, other)
    BY AddedVersions
  <2>2. CurrentVersion(new, other) = CurrentVersion(rows, other)
    BY <2>1 DEF CurrentVersion
  <2>. QED  BY <2>1, <2>2 DEF AsChain
<1>8. /\ Len(AsChain(new, keys)[k]) = Len(AsChain(rows, keys)[k]) + 1
      /\ SubSeq(AsChain(new, keys)[k], 1, Len(AsChain(rows, keys)[k])) = AsChain(rows, keys)[k]
  <2>. DEFINE chain  == [i \in 1 .. n |-> {r \in Under(rows, k) : r.version = i}]
              longer == [i \in 1 .. n + 1 |-> {r \in Under(new, k) : r.version = i}]
  <2>1. AsChain(rows, keys)[k] = chain /\ AsChain(new, keys)[k] = longer
    BY <1>2, <1>4 DEF AsChain
  <2>2. Len(chain) = n /\ Len(longer) = n + 1
    OBVIOUS
  <2>3. ASSUME NEW i \in 1 .. n
        PROVE  longer[i] = chain[i]
    <3>1. Under(new, k) = Under(rows, k) \cup {row}
      BY AddedVersions
    <3>2. i # row.version /\ i \in 1 .. n + 1
      BY <1>2
    <3>. QED  BY <3>1, <3>2
  <2>4. SubSeq(longer, 1, n) = [i \in 1 .. n |-> longer[i]]
    OBVIOUS
  <2>5. SubSeq(longer, 1, n) = chain
    BY <2>3, <2>4
  <2>. QED  BY <2>1, <2>2, <2>5
<1>. QED  BY <1>6, <1>7, <1>8 DEF Grows

\* The rows stay, or one more version of one key comes to them.
Grown(rows, new, keys) ==
    \/ new = rows
    \/ \E k \in keys : \E row :
          row.key = k /\ row.version = CurrentVersion(rows, k) + 1 /\ new = Inserted(rows, row)

LEMMA GrownRows ==
    ASSUME NEW rows, NEW keys, Chained(rows, keys), NEW new, Grown(rows, new, keys)
    PROVE  /\ Chained(new, keys)
           /\ rows \subseteq new
           /\ \/ AsChain(new, keys) = AsChain(rows, keys)
              \/ \E k \in keys : Grows(AsChain(rows, keys), AsChain(new, keys), keys, k)
<1>1. CASE new = rows
  BY <1>1
<1>2. ASSUME NEW k \in keys, NEW row, row.key = k, row.version = CurrentVersion(rows, k) + 1,
             new = Inserted(rows, row)
      PROVE  /\ Chained(new, keys)
             /\ rows \subseteq new
             /\ Grows(AsChain(rows, keys), AsChain(new, keys), keys, k)
  BY <1>2, AddedAtEnd DEF Inserted
<1>. QED  BY <1>1, <1>2 DEF Grown

\* The row after the current one
LEMMA NextIsGrown ==
    ASSUME NEW rows, NEW keys, NEW k \in keys, NEW content
    PROVE  Grown(rows, Inserted(rows, NextRow(k, CurrentVersion(rows, k), content)), keys)
  BY DEF Grown, NextRow

\* The row after any one, if the table takes it
LEMMA AfterIsGrown ==
    ASSUME NEW rows, NEW keys, Chained(rows, keys), NEW prior \in rows, NEW content,
           Unused(rows, NextRow(prior.key, prior.version, content))
    PROVE  Grown(rows, Inserted(rows, NextRow(prior.key, prior.version, content)), keys)
<1>. DEFINE k == prior.key
            row == NextRow(k, prior.version, content)
<1>1. k \in keys
  BY DEF Chained
<1>2. PICK n \in Nat : Versions(rows, k) = 1 .. n
  BY <1>1 DEF Chained
<1>3. CurrentVersion(rows, k) = n
  BY <1>2, CurrentIsLast
<1>4. prior.version \in 1 .. n
  BY <1>2 DEF Versions, Under
<1>5. prior.version + 1 \notin 1 .. n
  BY <1>2 DEF Unused, NextRow
<1>6. prior.version = n
  BY <1>4, <1>5
<1>. QED  BY <1>1, <1>3, <1>6, NextIsGrown

\* The first row of a key that has none
LEMMA FirstIsGrown ==
    ASSUME NEW rows, NEW keys, NEW k \in keys, Under(rows, k) = {}, NEW content
    PROVE  Grown(rows, Inserted(rows, NextRow(k, 0, content)), keys)
<1>1. CurrentVersion(rows, k) = 0
  BY DEF CurrentVersion
<1>. QED  BY <1>1, NextIsGrown

-----------------------------------------------------------------------------
\* What the rows of a plan are worth

AmountOrNone == Nat \cup {None}

SoundIntent(i) ==
    /\ i.content.company = i.key
    /\ i.content.target \in AmountOrNone
    /\ i.content.maximum \in AmountOrNone
    /\ i.content.current \in AmountOrNone
    /\ InOrder(i.content.target, i.content.maximum)

SoundPlan(p) ==
    /\ p.content.target \in Nat
    /\ p.content.allocated \in Int
    /\ p.content.reserve = AtLeast0(p.content.target - p.content.allocated)
    /\ p.content.allocated <= p.content.target + 1
    /\ \E i \in intents : /\ i.key = p.content.company
                          /\ i.version = p.content.intent
                          /\ i.content.target = p.content.target

\* No property of the plans is inductive without what is known of the intents
\* they divide, and that takes the types of what an intent copies.
PlanningInv ==
    /\ context \in Contexts \cup {None}
    /\ IsFiniteSet(Held)
    /\ positions \in [Tickers -> Position \cup {None}]
    /\ owner \in [Tickers -> Companies \cup {NoCompany}]
    /\ Chained(policies, {PolicyKey})
    /\ \A r \in policies : r.content \in Policies
    /\ \A i \in intents : SoundIntent(i)
    /\ \A p \in plans : SoundPlan(p)

LEMMA NoneIsNoNumber == None \notin Int /\ None \notin Nat
  BY NoneAssumption

LEMMA ContextAmounts ==
    ASSUME context \in Contexts \cup {None}
    PROVE  /\ context # None => context \in ContextInput /\ context.cash <= context.investable
           /\ Investable \in Nat \cup {None}
<1>1. context # None => context \in ContextInput /\ context.cash <= context.investable
  BY PortfolioAssumption
<1>. QED  BY <1>1 DEF ContextInput, Investable

LEMMA ShareIsAmount ==
    ASSUME NEW percent \in Nat, NEW total \in Nat
    PROVE  Share(percent, total) \in Nat
<1>1. percent * total \in Nat
  OBVIOUS
<1>. QED  BY <1>1 DEF Share

LEMMA ResolvedAmount ==
    ASSUME NEW amount \in Money, NEW percent \in Percent, NEW total \in AmountOrNone,
           amount # None \/ percent # None
    PROVE  Resolve(amount, percent, total) \in AmountOrNone
<1>1. CASE amount # None
  BY <1>1 DEF Resolve, Money, AmountOrNone
<1>2. CASE amount = None /\ Known(total) > 0
  <2>1. total \in Nat
    BY <1>2, NoneIsNoNumber DEF Known, AmountOrNone
  <2>2. percent \in Nat
    BY <1>2 DEF Percent
  <2>. QED  BY <1>2, <2>1, <2>2, ShareIsAmount DEF Resolve, AmountOrNone
<1>3. CASE amount = None /\ ~ (Known(total) > 0)
  BY <1>3 DEF Resolve, AmountOrNone
<1>. QED  BY <1>1, <1>2, <1>3

LEMMA WorthIsAmount ==
    ASSUME NEW h \in Held, positions \in [Tickers -> Position \cup {None}],
           NEW price \in Money, Worth(h, price) # None
    PROVE  Worth(h, price) \in Nat
<1>1. positions[h] \in Position
  BY DEF Held
<1>2. positions[h].value \in Int \cup {None} /\ positions[h].shares \in Int
  BY <1>1 DEF Position
<1>3. \A n \in Int : Magnitude(n) \in Nat
  BY DEF Magnitude
<1>4. CASE positions[h].value # None
  BY <1>2, <1>3, <1>4 DEF Worth
<1>5. CASE positions[h].value = None
  <2>1. price \in Nat /\ Worth(h, price) = Magnitude(positions[h].shares * price)
    BY <1>5 DEF Worth, Money
  <2>2. positions[h].shares * price \in Int
    BY <1>2, <2>1
  <2>. QED  BY <1>3, <2>1, <2>2
<1>. QED  BY <1>4, <1>5

LEMMA ExposureIsAmount ==
    ASSUME NEW c, NEW t, NEW price \in Money,
           positions \in [Tickers -> Position \cup {None}], IsFiniteSet(Held)
    PROVE  Exposure(c, t, price) \in AmountOrNone
<1>. DEFINE f == [h \in Matching(c, t) |-> Worth(h, price)]
<1>1. CASE \E h \in Matching(c, t) : Worth(h, price) = None
  BY <1>1 DEF Exposure, AmountOrNone
<1>2. CASE \A h \in Matching(c, t) : Worth(h, price) # None
  <2>1. Matching(c, t) \in SUBSET Held
    BY DEF Matching
  <2>2. IsFiniteSet(Matching(c, t))
    BY <2>1, FS_Subset
  <2>3. \A h \in Matching(c, t) : f[h] \in Nat
    BY <1>2, <2>1, WorthIsAmount
  <2>4. SumFunctionOnSet(f, Matching(c, t)) \in Nat
    BY <2>2, <2>3, SumNatural
  <2>5. Exposure(c, t, price) = SumFunctionOnSet(f, Matching(c, t))
    BY <1>2 DEF Exposure, SumFunction
  <2>. QED  BY <2>4, <2>5 DEF AmountOrNone
<1>. QED  BY <1>1, <1>2

LEMMA AllocatedIsInteger ==
    ASSUME NEW tranches \in PlanInputs, NEW target \in Nat
    PROVE  Allocated(tranches, target) \in Int
<1>. DEFINE f == [n \in DOMAIN tranches |-> Amount(tranches[n], target)]
<1>1. tranches \in Seq(Tranche)
  BY PlanningAssumption
<1>2. \A n \in DOMAIN tranches : tranches[n] \in Tranche
                                 /\ (tranches[n].amount # None \/ tranches[n].percent # None)
  BY <1>1, PlanningAssumption
<1>3. IsFiniteSet(DOMAIN tranches)
  <2>1. DOMAIN tranches = 1 .. Len(tranches) /\ Len(tranches) \in Nat
    BY <1>1
  <2>. QED  BY <2>1, FS_Interval
<1>4. ASSUME NEW n \in DOMAIN tranches PROVE f[n] \in Int
  <2>. DEFINE tranche == tranches[n]
  <2>1. /\ tranche.amount \in Nat \cup {None} /\ tranche.percent \in (0 .. 100) \cup {None}
        /\ tranche.amount # None \/ tranche.percent # None
    BY <1>2 DEF Tranche
  <2>2. f[n] = Amount(tranche, target)
    OBVIOUS
  <2>. HIDE DEF tranche, f
  <2>3. CASE tranche.amount # None
    BY <2>1, <2>2, <2>3 DEF Amount
  <2>4. CASE tranche.amount = None
    <3>1. tranche.percent \in Nat
      BY <2>1, <2>4
    <3>2. Share(tranche.percent, target) \in Nat
      BY <3>1, ShareIsAmount
    <3>3. f[n] = Share(tranche.percent, target)
      BY <2>2, <2>4 DEF Amount
    <3>. QED  BY <3>2, <3>3
  <2>. QED  BY <2>3, <2>4
<1>5. SumFunctionOnSet(f, DOMAIN tranches) \in Int
  <2>. HIDE DEF f
  <2>. QED  BY <1>3, <1>4, SumInteger
<1>. QED  BY <1>5 DEF Allocated, SumFunction

-----------------------------------------------------------------------------
\* What one step does to intents and plans

LEMMA ConsistentIntent ==
    ASSUME NEW t \in Tickers, NEW input \in IntentInputs, PlanningInv,
           owner[t] # NoCompany, NEW version,
           Consistent(input, Intent(owner[t], t, input))
    PROVE  SoundIntent(NextRow(owner[t], version, Intent(owner[t], t, input)))
<1>. DEFINE intent == Intent(owner[t], t, input)
<1>1. input \in IntentInput /\ (input.target # None \/ input.targetPercent # None)
                            /\ (input.maximum # None \/ input.maximumPercent # None)
  BY PlanningAssumption
<1>2. Investable \in AmountOrNone
  BY ContextAmounts DEF PlanningInv, AmountOrNone
<1>3. intent.target \in AmountOrNone /\ intent.maximum \in AmountOrNone
  BY <1>1, <1>2, ResolvedAmount DEF Intent, IntentInput
<1>4. intent.current \in AmountOrNone
  BY <1>1, ExposureIsAmount DEF PlanningInv, Intent, IntentInput
<1>5. InOrder(intent.target, intent.maximum)
  BY DEF Consistent
<1>6. intent.company = owner[t]
  BY DEF Intent
<1>. HIDE DEF intent
<1>7. SoundIntent(NextRow(owner[t], version, intent))
  BY <1>3, <1>4, <1>5, <1>6 DEF SoundIntent, NextRow
<1>. QED  BY <1>7 DEF intent

LEMMA PlanOfIntent ==
    ASSUME NEW t \in Tickers, NEW intent \in intents, NEW tranches \in PlanInputs, NEW e,
           PlanningInv, MayPlan(t, intent, tranches, e), NEW key, NEW version
    PROVE  SoundPlan(NextRow(key, version, EntryPlan(t, intent, tranches, e)))
<1>. DEFINE target == intent.content.target
            allocated == Allocated(tranches, target)
            content == EntryPlan(t, intent, tranches, e)
<1>1. SoundIntent(intent) /\ target \in Nat
  <2>1. SoundIntent(intent) /\ target # None
    BY DEF PlanningInv, MayPlan
  <2>. QED  BY <2>1 DEF SoundIntent, AmountOrNone
<1>2. allocated \in Int /\ allocated <= target + 1
  <2>1. allocated <= target + 1
    BY DEF MayPlan, WithinTarget
  <2>. QED  BY <1>1, <2>1, AllocatedIsInteger
<1>3. /\ content.company = intent.content.company /\ content.intent = intent.version
      /\ content.target = target /\ content.allocated = allocated
      /\ content.reserve = AtLeast0(target - allocated)
  BY DEF EntryPlan
<1>4. intent.key = content.company
  BY <1>1, <1>3 DEF SoundIntent
<1>. HIDE DEF target, allocated, content
<1>5. SoundPlan(NextRow(key, version, content))
  BY <1>1, <1>2, <1>3, <1>4 DEF SoundPlan, NextRow, target
<1>. QED  BY <1>5 DEF content

LEMMA PositionsStay ==
    ASSUME PlanningInv, UNCHANGED positions
    PROVE  IsFiniteSet(Held') /\ positions' \in [Tickers -> Position \cup {None}]
<1>1. Held' = Held
  BY DEF Held
<1>. QED  BY <1>1 DEF PlanningInv

LEMMA PortfolioKeepsBooks ==
    ASSUME PlanningInv, PortfolioNext
    PROVE  /\ context' \in Contexts \cup {None}
           /\ IsFiniteSet(Held')
           /\ positions' \in [Tickers -> Position \cup {None}]
           /\ owner' \in [Tickers -> Companies \cup {NoCompany}]
           /\ Chained(policies', {PolicyKey})
           /\ \A r \in policies' : r.content \in Policies
<1>0. /\ context \in Contexts \cup {None}
      /\ IsFiniteSet(Held)
      /\ positions \in [Tickers -> Position \cup {None}]
      /\ owner \in [Tickers -> Companies \cup {NoCompany}]
      /\ Chained(policies, {PolicyKey})
      /\ \A r \in policies : r.content \in Policies
  BY DEF PlanningInv
<1>1. ASSUME NEW t \in Tickers, NEW input \in Holdings
      PROVE  Holding(t, input) \in Position
  BY <1>0, PortfolioAssumption DEF Holding, Position, HoldingInput
<1>2. CASE Rename
  <2>1. owner' \in [Tickers -> Companies \cup {NoCompany}]
    BY <1>0, <1>2 DEF Rename, Directory!Next, Directory!Changes
  <2>. QED  BY <1>0, <1>2, <2>1, PositionsStay DEF Rename
<1>3. ASSUME NEW input \in Contexts, SaveContext(input)
      PROVE  context' \in Contexts /\ UNCHANGED <<owner, positions, policies>>
  BY <1>3 DEF SaveContext
<1>4. ASSUME NEW t \in Tickers, NEW input \in Holdings, CreatePosition(t, input)
      PROVE  /\ IsFiniteSet(Held') /\ positions' \in [Tickers -> Position \cup {None}]
             /\ UNCHANGED <<owner, context, policies>>
  <2>1. positions' = [positions EXCEPT ![t] = Holding(t, input)]
        /\ UNCHANGED <<owner, context, policies>>
    BY <1>4 DEF CreatePosition
  <2>2. positions' \in [Tickers -> Position \cup {None}]
    BY <1>0, <1>1, <2>1
  <2>3. Held' \in SUBSET (Held \cup {t}) /\ IsFiniteSet(Held \cup {t})
    BY <1>0, <2>1, FS_AddElement DEF Held
  <2>. QED  BY <2>1, <2>2, <2>3, FS_Subset
<1>5. ASSUME NEW t \in Tickers, NEW input \in Holdings, NEW new \in Tickers,
             UpdatePosition(t, new, input)
      PROVE  /\ IsFiniteSet(Held') /\ positions' \in [Tickers -> Position \cup {None}]
             /\ UNCHANGED <<owner, context, policies>>
  <2>1. positions' = [positions EXCEPT ![t] = None, ![new] = Holding(new, input)]
        /\ UNCHANGED <<owner, context, policies>>
    BY <1>5 DEF UpdatePosition
  <2>2. positions' \in [Tickers -> Position \cup {None}]
    BY <1>0, <1>1, <2>1
  <2>3. Held' \in SUBSET (Held \cup {new}) /\ IsFiniteSet(Held \cup {new})
    BY <1>0, <2>1, FS_AddElement DEF Held
  <2>. QED  BY <2>1, <2>2, <2>3, FS_Subset
<1>6. ASSUME NEW t \in Tickers, DeletePosition(t)
      PROVE  /\ IsFiniteSet(Held') /\ positions' \in [Tickers -> Position \cup {None}]
             /\ UNCHANGED <<owner, context, policies>>
  <2>1. positions' = [positions EXCEPT ![t] = None] /\ UNCHANGED <<owner, context, policies>>
    BY <1>6 DEF DeletePosition
  <2>2. Held' \in SUBSET Held
    BY <1>0, <2>1 DEF Held
  <2>. QED  BY <1>0, <2>1, <2>2, FS_Subset
<1>7. ASSUME NEW input \in Policies, SavePolicy(input)
      PROVE  /\ Chained(policies', {PolicyKey})
             /\ \A r \in policies' : r.content \in Policies
             /\ UNCHANGED <<owner, context, positions>>
  <2>1. /\ policies' = Inserted(policies, NextRow(PolicyKey, CurrentVersion(policies, PolicyKey), input))
        /\ UNCHANGED <<owner, context, positions>>
    BY <1>7 DEF SavePolicy
  <2>2. Chained(policies', {PolicyKey})
    BY <1>0, <2>1, NextIsGrown, GrownRows
  <2>3. \A r \in policies' : r.content \in Policies
    BY <1>0, <2>1 DEF Inserted, NextRow
  <2>. QED  BY <2>1, <2>2, <2>3
<1>8. CASE SnapshotPolicy
  BY <1>0, <1>8, PositionsStay DEF SnapshotPolicy
<1>. QED
  BY <1>0, <1>2, <1>3, <1>4, <1>5, <1>6, <1>7, <1>8, PositionsStay DEF PortfolioNext

LEMMA SoundPlansStay ==
    ASSUME NEW p, SoundPlan(p), intents \subseteq intents'
    PROVE  SoundPlan(p)'
  BY DEF SoundPlan

\* One step of the planning, or one that leaves the books alone
LEMMA PlanningStep ==
    ASSUME PlanningInv, PlanningNext \/ UNCHANGED Books
    PROVE  PlanningInv'
<1>0. /\ \A i \in intents : SoundIntent(i)
      /\ \A p \in plans : SoundPlan(p)
  BY DEF PlanningInv
<1>1. CASE UNCHANGED Books
  <2>1. \A p : SoundPlan(p)' <=> SoundPlan(p)
    BY <1>1 DEF Books, SoundPlan
  <2>2. \A i : SoundIntent(i)' <=> SoundIntent(i)
    BY DEF SoundIntent
  <2>3. Held' = Held
    BY <1>1 DEF Books, Held
  <2>. QED  BY <1>1, <2>1, <2>2, <2>3 DEF Books, PlanningInv
<1>2. CASE PortfolioNext /\ UNCHANGED <<intents, plans>>
  <2>1. \A p : SoundPlan(p)' <=> SoundPlan(p)
    BY <1>2 DEF SoundPlan
  <2>2. \A i : SoundIntent(i)' <=> SoundIntent(i)
    BY DEF SoundIntent
  <2>. QED  BY <1>0, <1>2, <2>1, <2>2, PortfolioKeepsBooks DEF PlanningInv
<1>3. ASSUME NEW t \in Tickers, NEW input \in IntentInputs, SaveIntent(t, input)
      PROVE  PlanningInv'
  <2>. DEFINE row == NextRow(owner[t], CurrentVersion(intents, owner[t]), Intent(owner[t], t, input))
  <2>1. /\ owner[t] # NoCompany /\ intents' = intents \cup {row}
        /\ UNCHANGED <<owner, context, positions, policies, frozen, plans>>
    BY <1>3 DEF SaveIntent, Inserted
  <2>2. SoundIntent(row)
    <3>1. Consistent(input, Intent(owner[t], t, input))
      BY <1>3 DEF SaveIntent, NextRow
    <3>. QED  BY <2>1, <3>1, ConsistentIntent
  <2>. HIDE DEF row
  <2>3. \A i : SoundIntent(i)' <=> SoundIntent(i)
    BY DEF SoundIntent
  <2>4. \A i \in intents' : SoundIntent(i)'
    BY <1>0, <2>1, <2>2, <2>3
  <2>5. \A p \in plans' : SoundPlan(p)'
    BY <1>0, <2>1, SoundPlansStay
  <2>. QED  BY <2>1, <2>4, <2>5, PositionsStay DEF PlanningInv
<1>4. ASSUME NEW row, SoundPlan(row), AddPlan(row)
      PROVE  PlanningInv'
  <2>1. plans' = plans \cup {row} /\ UNCHANGED <<owner, context, positions, policies, frozen, intents>>
    BY <1>4 DEF AddPlan, Inserted
  <2>2. \A i \in intents' : SoundIntent(i)'
    BY <1>0, <2>1 DEF SoundIntent
  <2>3. \A p \in plans' : SoundPlan(p)'
    BY <1>0, <1>4, <2>1, SoundPlansStay
  <2>. QED  BY <2>1, <2>2, <2>3, PositionsStay DEF PlanningInv
<1>5. ASSUME NEW t \in Tickers, NEW intent \in intents, NEW tranches \in PlanInputs,
             NEW e \in Expressions, CreatePlan(t, intent, tranches, e)
      PROVE  PlanningInv'
  <2>1. PICK key \in PlanKeys :
            /\ MayPlan(t, intent, tranches, e)
            /\ AddPlan(NextRow(key, 0, EntryPlan(t, intent, tranches, e)))
    BY <1>5 DEF CreatePlan
  <2>. QED  BY <1>4, <2>1, PlanOfIntent
<1>6. ASSUME NEW t \in Tickers, NEW intent \in intents, NEW tranches \in PlanInputs,
             NEW e \in Expressions, NEW prior \in plans, UpdatePlan(t, prior, intent, tranches, e)
      PROVE  PlanningInv'
  <2>1. /\ MayPlan(t, intent, tranches, e)
        /\ AddPlan(NextRow(prior.key, prior.version, EntryPlan(t, intent, tranches, e)))
    BY <1>6 DEF UpdatePlan
  <2>. QED  BY <1>4, <2>1, PlanOfIntent
<1>. QED  BY <1>1, <1>2, <1>3, <1>5, <1>6 DEF PlanningNext

LEMMA PlanningBegins == PlanningInit => PlanningInv
<1>. SUFFICES ASSUME PlanningInit PROVE PlanningInv
  OBVIOUS
<1>1. /\ owner \in [Tickers -> Companies \cup {NoCompany}]
      /\ context = None /\ positions = [t \in Tickers |-> None]
      /\ policies = {} /\ intents = {} /\ plans = {}
  BY DEF PlanningInit, PortfolioInit
<1>2. Held = {}
  BY <1>1 DEF Held
<1>. QED  BY <1>1, <1>2, FS_EmptySet, NoRowsChained DEF PlanningInv

\* Everything the planning properties need, in every state
THEOREM PlanningInvariant == PlanningSpec => []PlanningInv
<1>1. PlanningInv /\ [PlanningNext]_planningVars => PlanningInv'
  BY PlanningStep DEF planningVars, portfolioVars, Books
<1>. QED  BY <1>1, PlanningBegins, PTL DEF PlanningSpec

-----------------------------------------------------------------------------
\* What the invariant says of plans and holdings

LEMMA SoundPlansWithinIntent == PlanningInv => PlanWithinIntent
<1>. SUFFICES ASSUME PlanningInv, NEW p \in plans
              PROVE  \E i \in Under(intents, p.content.company) :
                        /\ i.version = p.content.intent
                        /\ i.content.target = p.content.target
                        /\ p.content.allocated + p.content.reserve - p.content.target \in {0, 1}
                        /\ i.content.maximum # None => p.content.allocated <= i.content.maximum + 1
  BY DEF PlanWithinIntent
<1>1. SoundPlan(p)
  BY DEF PlanningInv
<1>2. PICK i \in intents : /\ i.key = p.content.company
                           /\ i.version = p.content.intent
                           /\ i.content.target = p.content.target
  BY <1>1 DEF SoundPlan
<1>3. SoundIntent(i)
  BY DEF PlanningInv
<1>. DEFINE target == p.content.target
            allocated == p.content.allocated
            maximum == i.content.maximum
<1>4. /\ target \in Nat /\ allocated \in Int /\ allocated <= target + 1
      /\ p.content.reserve = AtLeast0(target - allocated)
  BY <1>1 DEF SoundPlan
<1>5. maximum # None => maximum \in Nat /\ target <= maximum
  BY <1>2, <1>3, <1>4, NoneIsNoNumber DEF SoundIntent, InOrder, AmountOrNone
<1>. HIDE DEF target, allocated, maximum
<1>6. allocated + p.content.reserve - target \in {0, 1}
  BY <1>4 DEF AtLeast0
<1>7. maximum # None => allocated <= maximum + 1
  BY <1>4, <1>5
<1>. QED  BY <1>2, <1>6, <1>7 DEF Under, target, allocated, maximum

LEMMA OneCompanyPerHolding == HoldingCountsOnce
  BY DEF HoldingCountsOnce, Matching

-----------------------------------------------------------------------------
\* The arithmetic of a purchase

\* A whole number of shares spends no more than there is, and leaves less than
\* the price of one.
LEMMA SharesBought ==
    ASSUME NEW m \in Nat, NEW price \in Nat \ {0}
    PROVE  /\ m \div price \in Nat
           /\ (m \div price) * price \in Nat
           /\ (m \div price) * price <= m
           /\ m - (m \div price) * price < price
<1>1. m \div price \in Int
  OBVIOUS
<1>2. m = price * (m \div price) + (m % price) /\ m % price \in 0 .. price - 1
  OBVIOUS
<1>3. m \div price >= 0
  OBVIOUS
<1>. DEFINE q == m \div price
<1>. HIDE DEF q
<1>4. q * price = price * q /\ price * q \in Nat
  BY <1>1, <1>3 DEF q
<1>. QED  BY <1>1, <1>2, <1>3, <1>4 DEF q

LEMMA SizedPurchase ==
    ASSUME NEW intent, intent.target \in Nat, intent.current \in Nat,
           intent.maximum \in AmountOrNone, InOrder(intent.target, intent.maximum),
           NEW e, e.kind = "shares", e.quantity = None, e.price \in Nat \ {0}
    PROVE  /\ PostExposure(intent, e) <= Larger(intent.target, intent.current)
           /\ intent.target - PostExposure(intent, e) < e.price
           /\ SizeCheck(intent, e) # "fail"
<1>. DEFINE missing == Missing(intent)
            spent == (missing \div e.price) * e.price
<1>1. missing = AtLeast0(intent.target - intent.current) /\ missing \in Nat
  BY NoneIsNoNumber DEF Missing, Known, AtLeast0
<1>2. Footprint(intent, e) = spent
  <2>1. intent.target # None
    BY NoneIsNoNumber
  <2>. QED  BY <2>1 DEF Footprint, SharesCapital, Quantity
<1>. HIDE DEF missing
<1>3. spent \in Nat /\ spent <= missing /\ missing - spent < e.price
  BY <1>1, SharesBought
<1>. HIDE DEF spent
<1>4. PostExposure(intent, e) = intent.current + spent
  BY <1>2, <1>3, NoneIsNoNumber DEF PostExposure, Plus
<1>5. PostExposure(intent, e) <= Larger(intent.target, intent.current)
  BY <1>1, <1>3, <1>4 DEF Larger, AtLeast0
<1>6. intent.target - PostExposure(intent, e) < e.price
  BY <1>1, <1>3, <1>4 DEF AtLeast0
<1>7. ASSUME intent.maximum # None PROVE spent <= intent.maximum
  <2>1. intent.maximum \in Nat /\ intent.target <= intent.maximum
    BY <1>7, NoneIsNoNumber DEF InOrder, AmountOrNone
  <2>2. missing <= intent.target
    BY <1>1 DEF AtLeast0
  <2>. QED  BY <1>1, <1>3, <2>1, <2>2
<1>8. SizeCheck(intent, e) # "fail"
  <2>1. CASE intent.maximum = None
    BY <2>1 DEF SizeCheck
  <2>2. CASE intent.maximum # None
    <3>1. intent.maximum \in Nat
      BY <2>2 DEF AmountOrNone
    <3>. QED  BY <1>2, <1>3, <1>7, <2>2, <3>1 DEF SizeCheck
  <2>. QED  BY <2>1, <2>2
<1>. QED  BY <1>5, <1>6, <1>8

LEMMA SizingWithinIntent == PlanningInv => SizingStopsAtTarget
<1>. SUFFICES ASSUME PlanningInv, NEW i \in intents, NEW e \in Candidates,
                     e.kind = "shares", e.quantity = None,
                     None \notin {i.content.target, i.content.current}
              PROVE  /\ PostExposure(i.content, e) <= Larger(i.content.target, i.content.current)
                     /\ i.content.target - PostExposure(i.content, e) < e.price
                     /\ SizeCheck(i.content, e) # "fail"
  BY DEF SizingStopsAtTarget
<1>1. SoundIntent(i)
  BY DEF PlanningInv
<1>2. e.price \in Nat \ {0}
  BY PlanningAssumption DEF SharesEntry, OptionEntry
<1>. QED  BY <1>1, <1>2, SizedPurchase DEF SoundIntent, AmountOrNone

-----------------------------------------------------------------------------
\* What fits survives a fall of the price

LEMMA AllChecksPass ==
    ASSUME NEW checks, Overall(checks) = "pass"
    PROVE  \A key \in DOMAIN checks : checks[key] \notin {"fail", "incomplete"}
  BY DEF Overall

LEMMA PassedPercent ==
    ASSUME NEW amount, NEW limit \in Nat, NEW held, held.investable \in Nat,
           WithinPercent(amount, limit, held) \notin {"fail", "incomplete"}
    PROVE  /\ amount # None /\ held.investable # 0
           /\ 100 * amount <= limit * held.investable
  BY DEF WithinPercent

LEMMA SmallerPasses ==
    ASSUME NEW amount \in Int, NEW limit \in Nat, NEW held, held.investable \in Nat \ {0},
           NEW less \in Int, less <= amount, 100 * amount <= limit * held.investable
    PROVE  /\ WithinPercent(less, limit, held) = "pass"
           /\ 100 * less <= limit * held.investable
<1>1. limit * held.investable \in Nat
  OBVIOUS
<1>2. 100 * less <= limit * held.investable
  BY <1>1
<1>. QED  BY <1>2, NoneIsNoNumber DEF WithinPercent

\* Rounding does not lift a price that falls.
LEMMA FallenPrice ==
    ASSUME NEW price \in Nat \ {0}, NEW change \in -100 .. 0
    PROVE  StressedPrice(price, change) \in 0 .. price
<1>. DEFINE rest == 100 + change
            scaled == price * rest
<1>1. rest \in Nat /\ rest <= 100
  OBVIOUS
<1>. HIDE DEF rest
<1>2. scaled \in Nat /\ scaled <= 100 * price
  BY <1>1
<1>. HIDE DEF scaled
<1>3. (scaled + 50) \div 100 \in 0 .. price
  BY <1>2
<1>. QED  BY <1>3 DEF StressedPrice, scaled, rest

\* A fall, and what the Option Lab makes of it
Fall == [change : -100 .. 0, repriced : Int]

FitsAndFalls(intent, e, held, policy, fall) ==
    /\ held \in ContextInput \cup {None} /\ policy \in PolicyInput \cup {None}
    /\ e \in SharesEntry \cup OptionEntry
    /\ intent.target \in AmountOrNone /\ intent.current \in AmountOrNone
    /\ Fit(intent, e, held, policy) = "pass"
    /\ fall \in Fall /\ fall.repriced <= 0
    /\ e.kind = "option" => ~e.secured /\ -fall.repriced <= e.loss

LEMMA FittingPurchase ==
    ASSUME NEW intent, NEW e, NEW held, NEW policy, NEW fall,
           FitsAndFalls(intent, e, held, policy, fall)
    PROVE  /\ held # None /\ policy # None
           /\ held.investable \in Nat \ {0} /\ policy.single \in Nat /\ policy.stress \in Nat
           /\ Footprint(intent, e) # None /\ intent.current \in Nat
           /\ 100 * PostExposure(intent, e) <= policy.single * held.investable
           /\ Loss(intent, e) # Unbounded
           /\ 100 * Loss(intent, e) <= policy.stress * held.investable
<1>. DEFINE checks == Checks(intent, e, held, policy)
<1>1. \A key \in DOMAIN checks : checks[key] \notin {"fail", "incomplete"}
  BY AllChecksPass DEF FitsAndFalls, Fit
<1>2. held # None /\ policy # None
  <2>1. SUFFICES ASSUME None \in {held, policy} PROVE FALSE
    OBVIOUS
  <2>2. checks = [key \in CheckKeys |-> "incomplete"] /\ "size" \in CheckKeys
    BY <2>1 DEF Checks, CheckKeys
  <2>. QED  BY <1>1, <2>2
<1>3. /\ held.investable \in Nat /\ policy.single \in Nat /\ policy.stress \in Nat
  BY <1>2 DEF FitsAndFalls, ContextInput, PolicyInput
<1>4. /\ "single_name" \in DOMAIN checks /\ "stress_loss" \in DOMAIN checks
      /\ checks["single_name"] = WithinPercent(PostExposure(intent, e), policy.single, held)
      /\ checks["stress_loss"] = LossCheck(intent, e, held, policy)
  BY <1>2 DEF Checks
<1>. HIDE DEF checks
<1>5. /\ PostExposure(intent, e) # None /\ held.investable # 0
      /\ 100 * PostExposure(intent, e) <= policy.single * held.investable
  BY <1>1, <1>3, <1>4, PassedPercent
<1>6. Footprint(intent, e) # None /\ intent.current \in Nat
  BY <1>5 DEF PostExposure, Plus, FitsAndFalls, AmountOrNone
<1>7. Loss(intent, e) # Unbounded
  BY <1>1, <1>4 DEF LossCheck
<1>8. 100 * Loss(intent, e) <= policy.stress * held.investable
  <2>1. WithinPercent(Loss(intent, e), policy.stress, held) \notin {"fail", "incomplete"}
    BY <1>1, <1>4, <1>7 DEF LossCheck
  <2>. QED  BY <1>3, <2>1, PassedPercent
<1>. QED  BY <1>2, <1>3, <1>5, <1>6, <1>7, <1>8

\* What is stressed is at most what was checked: the exposure after the purchase
\* and its loss.
LEMMA StressedAmounts ==
    ASSUME NEW intent, NEW e, NEW held, NEW policy, NEW fall,
           FitsAndFalls(intent, e, held, policy, fall)
    PROVE  /\ PostExposure(intent, e) \in Int /\ Loss(intent, e) \in Int
           /\ StressedExposure(intent, e, fall) \in Int
           /\ StressedExposure(intent, e, fall) <= PostExposure(intent, e)
           /\ AtLeast0(-StressPnl(intent, e, fall)) \in Int
           /\ AtLeast0(-StressPnl(intent, e, fall)) <= Loss(intent, e)
<1>0. /\ intent.current \in Nat /\ Known(intent.current) = intent.current
      /\ Footprint(intent, e) # None
  BY FittingPurchase, NoneIsNoNumber DEF Known
<1>1. CASE e.kind = "shares"
  <2>1. e \in SharesEntry /\ e.price \in Nat \ {0}
    BY <1>1 DEF FitsAndFalls, SharesEntry, OptionEntry
  <2>. DEFINE q == Quantity(intent, e)
              low == StressedPrice(e.price, fall.change)
              price == e.price
  <2>2. q \in Nat
    <3>1. CASE e.quantity # None
      BY <2>1, <3>1 DEF Quantity, SharesEntry
    <3>2. CASE e.quantity = None /\ intent.target = None
      BY <3>2 DEF Quantity
    <3>3. CASE e.quantity = None /\ intent.target # None
      <4>1. Missing(intent) \in Nat
        BY <1>0, <3>3 DEF FitsAndFalls, AmountOrNone, Missing, AtLeast0
      <4>. QED  BY <2>1, <3>3, <4>1, SharesBought DEF Quantity
    <3>. QED  BY <3>1, <3>2, <3>3
  <2>3. low \in 0 .. price
    BY <2>1, FallenPrice DEF FitsAndFalls, Fall
  <2>4. /\ SharesCapital(intent, e) = q * price
        /\ Footprint(intent, e) = q * price /\ Capital(intent, e) = q * price
        /\ Loss(intent, e) = q * price
    BY <1>0, <1>1 DEF Footprint, Capital, Loss, SharesCapital
  <2>5. StressPnl(intent, e, fall) = q * (low - price)
    BY <1>1 DEF StressPnl
  <2>. HIDE DEF q, low
  <2>6. price \in Nat
    BY <2>1
  <2>. HIDE DEF price
  <2>. DEFINE paid == q * price
              worth == q * low
  <2>7. q * (low - price) = worth - paid /\ worth \in Nat /\ paid \in Nat /\ worth <= paid
    BY <2>2, <2>3, <2>6
  <2>. HIDE DEF paid, worth
  <2>8. Known(Capital(intent, e)) = paid
    BY <2>4, <2>7, NoneIsNoNumber DEF Known, paid
  <2>9. StressedExposure(intent, e, fall) = intent.current + worth
    BY <1>0, <2>5, <2>7, <2>8 DEF StressedExposure, AtLeast0
  <2>10. PostExposure(intent, e) = intent.current + paid
    BY <1>0, <2>4, NoneIsNoNumber DEF PostExposure, Plus, paid
  <2>11. Loss(intent, e) = paid /\ AtLeast0(-StressPnl(intent, e, fall)) = paid - worth
    BY <2>4, <2>5, <2>7 DEF AtLeast0, paid
  <2>. QED  BY <1>0, <2>7, <2>9, <2>10, <2>11
<1>2. CASE e.kind = "option"
  <2>1. /\ e \in OptionEntry /\ ~e.secured /\ e.kind # "shares"
        /\ fall.repriced \in Int /\ fall.repriced <= 0 /\ -fall.repriced <= e.loss
    BY <1>2 DEF FitsAndFalls, SharesEntry, Fall
  <2>2. e.loss \in Nat /\ e.committed \in Nat /\ e.collateral \in Nat
    <3>1. Loss(intent, e) = e.loss /\ Loss(intent, e) # Unbounded
      BY <2>1, FittingPurchase DEF Loss
    <3>. QED  BY <2>1, <3>1 DEF OptionEntry
  <2>. DEFINE capital == OptionCapital(e)
  <2>3. capital \in Nat
    BY <2>2, FitAssumption DEF OptionCapital, Larger
  <2>4. Footprint(intent, e) = capital /\ Capital(intent, e) = capital /\ Loss(intent, e) = e.loss
    BY <2>1 DEF Footprint, Capital, Loss
  <2>5. StressPnl(intent, e, fall) = fall.repriced
    BY <2>1 DEF StressPnl
  <2>. HIDE DEF capital
  <2>6. StressedExposure(intent, e, fall) = intent.current + AtLeast0(capital + fall.repriced)
    BY <1>0, <2>3, <2>4, <2>5, NoneIsNoNumber DEF StressedExposure, Known
  <2>7. PostExposure(intent, e) = intent.current + capital
    BY <1>0, <2>3, <2>4, NoneIsNoNumber DEF PostExposure, Plus
  <2>. QED  BY <1>0, <2>1, <2>2, <2>3, <2>4, <2>5, <2>6, <2>7 DEF AtLeast0
<1>. QED  BY <1>1, <1>2 DEF FitsAndFalls, SharesEntry, OptionEntry

LEMMA FitSurvivesFall ==
    ASSUME NEW intent, NEW e, NEW held, NEW policy, NEW fall,
           FitsAndFalls(intent, e, held, policy, fall)
    PROVE  Overall(StressChecks(intent, e, held, policy, fall)) = "pass"
<1>. DEFINE checks == StressChecks(intent, e, held, policy, fall)
            lost == AtLeast0(-StressPnl(intent, e, fall))
<1>1. /\ WithinPercent(StressedExposure(intent, e, fall), policy.single, held) = "pass"
      /\ 100 * lost <= policy.stress * held.investable
  BY FittingPurchase, StressedAmounts, SmallerPasses
<1>2. checks = [single_name |-> "pass", stress_loss |-> "pass"]
  BY <1>1, FittingPurchase DEF StressChecks
<1>3. {checks[key] : key \in DOMAIN checks} = {"pass"}
  BY <1>2
<1>. HIDE DEF checks
<1>4. Overall(checks) = "pass"
  BY <1>3 DEF Overall
<1>. QED  BY <1>4 DEF checks

LEMMA FitCovers == PlanningInv => FitCoversStress
<1>. SUFFICES ASSUME PlanningInv, NEW i \in intents, NEW e \in Candidates, NEW fall \in Falls,
                     Fit(i.content, e, context, PolicyInForce) = "pass",
                     e.kind = "option" => ~e.secured /\ -fall.repriced <= e.loss
              PROVE  Overall(StressChecks(i.content, e, context, PolicyInForce, fall)) = "pass"
  BY DEF FitCoversStress
<1>1. fall \in Fall /\ fall.repriced <= 0
  BY DEF Falls, Fall
<1>2. context \in ContextInput \cup {None}
  BY PortfolioAssumption DEF PlanningInv
<1>3. PolicyInForce \in PolicyInput \cup {None}
  <2>1. CASE Under(policies, PolicyKey) = {}
    BY <2>1 DEF PolicyInForce, CurrentPolicy
  <2>2. CASE Under(policies, PolicyKey) # {}
    <3>1. CurrentPolicy = Current(policies, PolicyKey)
      BY <2>2 DEF CurrentPolicy
    <3>2. CurrentPolicy \in policies
      BY <2>2, <3>1, CurrentIsRow DEF PlanningInv, Under
    <3>3. CurrentPolicy.content \in PolicyInput
      BY <3>2, PortfolioAssumption DEF PlanningInv
    <3>. QED  BY <3>3 DEF PolicyInForce
  <2>. QED  BY <2>1, <2>2
<1>4. e \in SharesEntry \cup OptionEntry
  BY PlanningAssumption
<1>5. i.content.target \in AmountOrNone /\ i.content.current \in AmountOrNone
  BY DEF PlanningInv, SoundIntent
<1>. DEFINE policy == PolicyInForce
<1>6. policy \in PolicyInput \cup {None} /\ Fit(i.content, e, context, policy) = "pass"
  BY <1>3
<1>. HIDE DEF policy
<1>7. FitsAndFalls(i.content, e, context, policy, fall)
  BY <1>1, <1>2, <1>4, <1>5, <1>6 DEF FitsAndFalls
<1>8. Overall(StressChecks(i.content, e, context, policy, fall)) = "pass"
  BY <1>7, FitSurvivesFall
<1>. QED  BY <1>8 DEF policy

-----------------------------------------------------------------------------
\* The planning, alone and under the journal

\* The journal writes none of the planning's tables.
LEMMA JournalPlansOrRests ==
    ASSUME [Next]_vars
    PROVE  PlanningNext \/ UNCHANGED Books
<1>1. ASSUME NEW row, Write(row) PROVE UNCHANGED Books
  BY <1>1 DEF Write
<1>2. CASE Request
  <2>1. ASSUME NEW t \in Tickers, NEW input, SaveThesis(t, input) PROVE UNCHANGED Books
    BY <2>1 DEF SaveThesis
  <2>2. ASSUME NEW t \in Tickers, SnapshotThesis(t) PROVE UNCHANGED Books
    BY <2>2 DEF SnapshotThesis
  <2>3. ASSUME NEW d, NEW t, NEW thesis, NEW intent, NEW plan, NEW e, NEW state,
               CreateDecision(d, t, thesis, intent, plan, e, state)
        PROVE  UNCHANGED Books
    BY <1>1, <2>3 DEF CreateDecision
  <2>4. ASSUME NEW row, NEW state, NEW review, UpdateDecision(row, state, review)
        PROVE  UNCHANGED Books
    BY <1>1, <2>4 DEF UpdateDecision
  <2>. QED  BY <1>2, <2>1, <2>2, <2>3, <2>4 DEF Request
<1>3. CASE Interrupt \/ \E row \in saving : AppendRevision(row)
  BY <1>3 DEF Interrupt, AppendRevision
<1>4. CASE UNCHANGED vars
  BY <1>4 DEF vars, planningVars, portfolioVars, Books
<1>. QED  BY <1>2, <1>3, <1>4 DEF Next

\* Plans keep dividing the intents they name while theses and decisions are
\* written around them.
THEOREM PlanningUnderJournal == Spec => []PlanningInv
<1>1. PlanningInv /\ [Next]_vars => PlanningInv'
  BY PlanningStep, JournalPlansOrRests
<1>2. Init => PlanningInv
  BY PlanningBegins DEF Init
<1>. QED  BY <1>1, <1>2, PTL DEF Spec

\* Whatever capital was saved between an intent and its plans, a plan stays
\* within the target it divides and the maximum of that intent (save_entry_plan).
THEOREM PlansWithinIntent == PlanningSpec => []PlanWithinIntent
  BY PlanningInvariant, SoundPlansWithinIntent, PTL

\* A purchase the program sizes never carries the exposure over the target and
\* stops less than a share short of it (_analyze_shares).
THEOREM SizingStops == PlanningSpec => []SizingStopsAtTarget
  BY PlanningInvariant, SizingWithinIntent, PTL

\* What fits the policy passes the stress test (analyze_expression and
\* stress_expression, computed apart).
THEOREM FitCoversFalls == PlanningSpec => []FitCoversStress
  BY PlanningInvariant, FitCovers, PTL

\* No holding counts for two companies (save_position_intent).
THEOREM HoldingsCountOnce == PlanningSpec => []HoldingCountsOnce
  BY OneCompanyPerHolding, PTL

-----------------------------------------------------------------------------
\* What one step does to the tables in versions

Owners == [Tickers -> Companies \cup {NoCompany}]

TablesInv ==
    /\ owner \in Owners
    /\ Chained(policies, {PolicyKey})
    /\ Chained(theses, Companies)
    /\ Chained(intents, Companies)
    /\ Chained(plans, PlanKeys)

TablesGrow ==
    /\ owner' \in Owners
    /\ Grown(policies, policies', {PolicyKey})
    /\ Grown(theses, theses', Companies)
    /\ Grown(intents, intents', Companies)
    /\ Grown(plans, plans', PlanKeys)

LEMMA PortfolioGrows ==
    ASSUME TablesInv, PortfolioNext
    PROVE  owner' \in Owners /\ Grown(policies, policies', {PolicyKey})
<1>0. owner \in Owners
  BY DEF TablesInv
<1>1. CASE Rename
  <2>1. owner' \in Owners
    BY <1>1 DEF Rename, Directory!Next, Directory!Changes, Owners
  <2>. QED  BY <1>1, <2>1 DEF Rename, Grown
<1>2. ASSUME NEW input \in Contexts, SaveContext(input)
      PROVE  owner' = owner /\ policies' = policies
  BY <1>2 DEF SaveContext
<1>3. ASSUME NEW t \in Tickers, NEW input \in Holdings,
             CreatePosition(t, input) \/ \E new \in Tickers : UpdatePosition(t, new, input)
      PROVE  owner' = owner /\ policies' = policies
  BY <1>3 DEF CreatePosition, UpdatePosition
<1>4. ASSUME NEW t \in Tickers, DeletePosition(t)
      PROVE  owner' = owner /\ policies' = policies
  BY <1>4 DEF DeletePosition
<1>5. ASSUME NEW input \in Policies, SavePolicy(input)
      PROVE  owner' = owner /\ Grown(policies, policies', {PolicyKey})
  <2>1. /\ owner' = owner
        /\ policies' = Inserted(policies, NextRow(PolicyKey, CurrentVersion(policies, PolicyKey), input))
    BY <1>5 DEF SavePolicy
  <2>. QED  BY <2>1, NextIsGrown
<1>6. CASE SnapshotPolicy
  BY <1>0, <1>6 DEF SnapshotPolicy, Grown
<1>. QED  BY <1>0, <1>1, <1>2, <1>3, <1>4, <1>5, <1>6 DEF PortfolioNext, Grown

LEMMA PlanningGrows ==
    ASSUME TablesInv, PlanningNext, UNCHANGED journalVars
    PROVE  TablesGrow
<1>0. /\ owner \in Owners /\ Chained(plans, PlanKeys)
      /\ Grown(theses, theses', Companies)
      /\ Grown(policies, policies, {PolicyKey})
      /\ Grown(intents, intents, Companies) /\ Grown(plans, plans, PlanKeys)
  BY DEF TablesInv, Grown, journalVars
<1>1. CASE PortfolioNext /\ UNCHANGED <<intents, plans>>
  BY <1>0, <1>1, PortfolioGrows DEF TablesGrow
<1>2. ASSUME NEW t \in Tickers, NEW input \in IntentInputs, SaveIntent(t, input)
      PROVE  TablesGrow
  <2>. DEFINE c == owner[t]
  <2>1. /\ c \in Companies
        /\ intents' = Inserted(intents, NextRow(c, CurrentVersion(intents, c), Intent(c, t, input)))
        /\ UNCHANGED <<owner, policies, plans>>
    BY <1>0, <1>2 DEF SaveIntent, Owners
  <2>2. Grown(intents, intents', Companies)
    BY <2>1, NextIsGrown
  <2>. QED  BY <1>0, <2>1, <2>2 DEF TablesGrow
<1>3. ASSUME NEW t \in Tickers, NEW intent \in intents, NEW tranches \in PlanInputs,
             NEW e \in Expressions, CreatePlan(t, intent, tranches, e)
      PROVE  TablesGrow
  <2>1. PICK key \in PlanKeys :
            /\ Under(plans, key) = {}
            /\ AddPlan(NextRow(key, 0, EntryPlan(t, intent, tranches, e)))
    BY <1>3 DEF CreatePlan
  <2>2. Grown(plans, plans', PlanKeys) /\ UNCHANGED <<owner, policies, intents>>
    BY <2>1, FirstIsGrown DEF AddPlan
  <2>. QED  BY <1>0, <2>2 DEF TablesGrow
<1>4. ASSUME NEW t \in Tickers, NEW intent \in intents, NEW tranches \in PlanInputs,
             NEW e \in Expressions, NEW prior \in plans, UpdatePlan(t, prior, intent, tranches, e)
      PROVE  TablesGrow
  <2>1. AddPlan(NextRow(prior.key, prior.version, EntryPlan(t, intent, tranches, e)))
    BY <1>4 DEF UpdatePlan
  <2>2. Grown(plans, plans', PlanKeys) /\ UNCHANGED <<owner, policies, intents>>
    BY <1>0, <2>1, AfterIsGrown DEF AddPlan
  <2>. QED  BY <1>0, <2>2 DEF TablesGrow
<1>. QED  BY <1>1, <1>2, <1>3, <1>4 DEF PlanningNext

LEMMA WriteKeepsTables ==
    ASSUME TablesInv, NEW row, Write(row)
    PROVE  TablesGrow
  BY DEF TablesInv, TablesGrow, Write, Books, Grown

LEMMA TablesStep ==
    ASSUME TablesInv, [Next]_vars
    PROVE  TablesGrow
<1>0. ASSUME UNCHANGED <<Books, theses>>
      PROVE  TablesGrow
  BY <1>0 DEF TablesInv, TablesGrow, Books, Grown
<1>1. CASE UNCHANGED vars
  BY <1>0, <1>1 DEF vars, planningVars, portfolioVars, journalVars, Books
<1>2. ASSUME NEW t \in Tickers, NEW input \in ThesisInputs, SaveThesis(t, input)
      PROVE  TablesGrow
  <2>. DEFINE c == owner[t]
              content == [company |-> c, ticker |-> t, status |-> input.status, spans |-> input.spans]
  <2>1. /\ c \in Companies
        /\ theses' = Inserted(theses, NextRow(c, CurrentVersion(theses, c), content))
        /\ UNCHANGED Books
    BY <1>2 DEF SaveThesis, TablesInv, Owners
  <2>2. Grown(theses, theses', Companies)
    BY <2>1, NextIsGrown
  <2>. QED  BY <2>1, <2>2 DEF TablesInv, TablesGrow, Books, Grown
<1>3. ASSUME NEW t \in Tickers, SnapshotThesis(t)
      PROVE  TablesGrow
  BY <1>0, <1>3 DEF SnapshotThesis
<1>4. ASSUME NEW row, AppendRevision(row) \/ Interrupt
      PROVE  TablesGrow
  BY <1>0, <1>4 DEF AppendRevision, Interrupt
<1>5. ASSUME NEW d, NEW t, NEW thesis, NEW intent, NEW plan, NEW e, NEW state,
             CreateDecision(d, t, thesis, intent, plan, e, state)
      PROVE  TablesGrow
  BY <1>5, WriteKeepsTables DEF CreateDecision
<1>6. ASSUME NEW row, NEW state, NEW review, UpdateDecision(row, state, review)
      PROVE  TablesGrow
  BY <1>6, WriteKeepsTables DEF UpdateDecision
<1>7. CASE Request
  BY <1>2, <1>3, <1>5, <1>6, <1>7, PlanningGrows DEF Request
<1>. QED  BY <1>1, <1>4, <1>7 DEF Next

LEMMA TablesKept ==
    ASSUME TablesInv, TablesGrow
    PROVE  /\ TablesInv'
           /\ policies \subseteq policies' /\ theses \subseteq theses'
           /\ intents \subseteq intents' /\ plans \subseteq plans'
<1>1. Chained(policies', {PolicyKey}) /\ policies \subseteq policies'
  BY GrownRows DEF TablesInv, TablesGrow
<1>2. Chained(theses', Companies) /\ theses \subseteq theses'
  BY GrownRows DEF TablesInv, TablesGrow
<1>3. Chained(intents', Companies) /\ intents \subseteq intents'
  BY GrownRows DEF TablesInv, TablesGrow
<1>4. Chained(plans', PlanKeys) /\ plans \subseteq plans'
  BY GrownRows DEF TablesInv, TablesGrow
<1>. QED  BY <1>1, <1>2, <1>3, <1>4 DEF TablesInv, TablesGrow

-----------------------------------------------------------------------------
\* The journal

\* Neither property is inductive without the tables, whose rows decisions point
\* to, and without the numbers, which the next revision follows.
JournalInv ==
    /\ TablesInv
    /\ \A r \in journal \cup revisions : r.revision \in Nat
    /\ FrozenComponents
    /\ RevisionsTellTheJournal

\* Stored rows, all of the company of the decision
PartsStored(parts) ==
    /\ parts.thesis \in theses \cup {None}
    /\ parts.intent \in intents \cup {None}
    /\ parts.plan \in plans \cup {None}
    /\ parts.policy \in policies \cup {None}
    /\ \A part \in {parts.thesis, parts.intent, parts.plan} \ {None} :
          part.content.company = parts.company

LEMMA FrozenParts ==
    FrozenComponents <=>
        /\ \A r \in journal \cup revisions :
              /\ \E row \in journal : row.id = r.id /\ row.parts = r.parts
              /\ PartsStored(r.parts)
        /\ \A r, q \in journal : r.id = q.id => r = q
  BY DEF FrozenComponents, PartsStored

LEMMA PartsStayStored ==
    ASSUME TablesInv, TablesGrow, NEW parts, PartsStored(parts)
    PROVE  PartsStored(parts)'
<1>1. /\ policies \subseteq policies' /\ theses \subseteq theses'
      /\ intents \subseteq intents' /\ plans \subseteq plans'
  BY TablesKept
<1>. QED  BY <1>1 DEF PartsStored

LEMMA JournalRests ==
    ASSUME JournalInv, TablesGrow, UNCHANGED <<journal, revisions>>, saving' \subseteq saving
    PROVE  JournalInv'
<1>1. TablesInv'
  BY TablesKept DEF JournalInv
<1>2. \A r \in journal \cup revisions : PartsStored(r.parts)'
  BY FrozenParts, PartsStayStored DEF JournalInv
<1>3. FrozenComponents'
  BY <1>2, FrozenParts DEF JournalInv, FrozenComponents, PartsStored
<1>4. RevisionsTellTheJournal'
  BY DEF JournalInv, RevisionsTellTheJournal, NewRevision
<1>. QED  BY <1>1, <1>3, <1>4 DEF JournalInv

\* A row of a new decision, or the next one of a decision with the same parts
LEMMA JournalWritten ==
    ASSUME JournalInv, NEW row, Write(row), PartsStored(row.parts), row.revision \in Nat,
           \/ row.id \notin Recorded
           \/ \E old \in journal :
                 old.id = row.id /\ old.parts = row.parts /\ row.revision = old.revision + 1
    PROVE  JournalInv'
<1>1. /\ journal' = {r \in journal : r.id # row.id} \cup {row}
      /\ saving' = {row} /\ revisions' = revisions
  BY DEF Write
<1>2. TablesInv /\ TablesGrow
  BY WriteKeepsTables DEF JournalInv
<1>3. TablesInv'
  BY <1>2, TablesKept
<1>4. /\ \A r \in journal \cup revisions : \E q \in journal : q.id = r.id /\ q.parts = r.parts
      /\ \A r, q \in journal : r.id = q.id => r = q
      /\ \A r \in journal \cup revisions : PartsStored(r.parts)
  BY FrozenParts DEF JournalInv
<1>5. ASSUME NEW r \in revisions, r.id = row.id
      PROVE  r.parts = row.parts /\ r.revision < row.revision
  <2>1. PICK q \in journal : q.id = r.id /\ q.parts = r.parts
    BY <1>4
  <2>2. q.id \in Recorded
    BY DEF Recorded
  <2>3. /\ q.parts = row.parts /\ row.revision = q.revision + 1
    BY <1>4, <1>5, <2>1, <2>2
  <2>4. r.revision <= q.revision /\ r.revision \in Nat /\ q.revision \in Nat
    BY <2>1 DEF JournalInv, RevisionsTellTheJournal
  <2>. QED  BY <2>1, <2>3, <2>4
<1>6. ASSUME NEW r \in journal' \cup revisions'
      PROVE  /\ \E q \in journal' : q.id = r.id /\ q.parts = r.parts
             /\ PartsStored(r.parts)'
  <2>1. PartsStored(r.parts)'
    <3>1. PartsStored(r.parts)
      BY <1>1, <1>4
    <3>. QED  BY <1>2, <3>1, PartsStayStored
  <2>2. CASE r.id = row.id
    BY <1>1, <1>5, <2>1, <2>2
  <2>3. CASE r.id # row.id
    BY <1>1, <1>4, <2>1, <2>3
  <2>. QED  BY <2>1, <2>2, <2>3
<1>7. \A r, q \in journal' : r.id = q.id => r = q
  BY <1>1, <1>4
<1>8. FrozenComponents'
  BY <1>6, <1>7 DEF FrozenComponents, PartsStored
<1>9. \A r \in journal' \cup revisions' : r.revision \in Nat
  BY <1>1 DEF JournalInv
<1>10. RevisionsTellTheJournal'
  <2>1. ASSUME NEW r \in revisions', NEW q \in journal', q.id = r.id
        PROVE  r.revision <= q.revision /\ (r.revision = q.revision => r = q)
    <3>1. CASE q = row
      BY <1>1, <1>5, <1>9, <2>1, <3>1
    <3>2. CASE q # row
      BY <1>1, <2>1, <3>2 DEF JournalInv, RevisionsTellTheJournal
    <3>. QED  BY <3>1, <3>2
  <2>2. NewRevision(row)'
    <3>1. \A r \in revisions : r.id = row.id => r.revision # row.revision
      BY <1>5, <1>9, <1>1
    <3>. QED  BY <1>1, <3>1 DEF NewRevision
  <2>3. \A r, q \in revisions' : q.id = r.id /\ q.revision = r.revision => q = r
    BY <1>1 DEF JournalInv, RevisionsTellTheJournal
  <2>4. \A q \in saving' : q \in journal' /\ NewRevision(q)'
    BY <1>1, <2>2
  <2>. QED  BY <2>1, <2>3, <2>4 DEF RevisionsTellTheJournal
<1>. QED  BY <1>3, <1>8, <1>9, <1>10 DEF JournalInv

LEMMA JournalCreated ==
    ASSUME JournalInv, NEW d \in Decisions, NEW t \in Tickers,
           NEW thesis \in theses \cup {None}, NEW intent \in intents \cup {None},
           NEW plan \in plans \cup {None}, NEW e, NEW state, Fresh(d),
           CreateDecision(d, t, thesis, intent, plan, e, state)
    PROVE  JournalInv'
<1>. DEFINE parts == Parts(t, thesis, intent, plan, e)
            row == Entry(d, 1, parts, state, "unreviewed", None)
<1>1. Belong(owner[t], {thesis, intent, plan}) /\ Write(row)
  BY DEF CreateDecision
<1>2. CurrentPolicy \in policies \cup {None}
  <2>1. Under(policies, PolicyKey) # {} =>
            Current(policies, PolicyKey) \in Under(policies, PolicyKey)
    BY CurrentIsRow DEF JournalInv, TablesInv
  <2>. QED  BY <2>1 DEF CurrentPolicy, Under
<1>3. /\ parts.thesis = thesis /\ parts.intent = intent /\ parts.plan = plan
      /\ parts.policy = CurrentPolicy /\ parts.company = owner[t]
  BY DEF Parts
<1>4. row.parts = parts /\ row.id = d /\ row.revision = 1
  BY DEF Entry
<1>. HIDE DEF parts, row
<1>5. PartsStored(parts)
  BY <1>1, <1>2, <1>3 DEF PartsStored, Belong
<1>6. row.id \notin Recorded
  BY <1>4 DEF Fresh
<1>. QED  BY <1>1, <1>4, <1>5, <1>6, JournalWritten

LEMMA JournalUpdated ==
    ASSUME JournalInv, NEW old \in journal, NEW state, NEW review,
           UpdateDecision(old, state, review)
    PROVE  JournalInv'
<1>. DEFINE row == Entry(old.id, old.revision + 1, old.parts, state, review.quality, review.outcome)
<1>1. Write(row)
  BY DEF UpdateDecision, NextRevision, Kept
<1>2. row.id = old.id /\ row.parts = old.parts /\ row.revision = old.revision + 1
  BY DEF Entry
<1>. HIDE DEF row
<1>3. PartsStored(row.parts) /\ row.revision \in Nat
  BY <1>2, FrozenParts DEF JournalInv
<1>. QED  BY <1>1, <1>2, <1>3, JournalWritten

LEMMA JournalAppended ==
    ASSUME JournalInv, NEW row \in saving, AppendRevision(row)
    PROVE  JournalInv'
<1>1. /\ revisions' = revisions \cup {row} /\ saving' = {} /\ journal' = journal
      /\ row \in journal /\ NewRevision(row)
  BY DEF AppendRevision, JournalInv, RevisionsTellTheJournal
<1>2. TablesInv /\ TablesGrow
  BY TablesStep DEF JournalInv, Next
<1>3. TablesInv'
  BY <1>2, TablesKept
<1>4. \A r \in journal' \cup revisions' : r.revision \in Nat
  BY <1>1 DEF JournalInv
<1>5. FrozenComponents'
  <2>1. \A r \in journal \cup revisions : PartsStored(r.parts)'
    BY <1>2, FrozenParts, PartsStayStored DEF JournalInv
  <2>2. /\ \A r \in journal \cup revisions : \E q \in journal : q.id = r.id /\ q.parts = r.parts
        /\ \A r, q \in journal : r.id = q.id => r = q
    BY FrozenParts DEF JournalInv
  <2>. QED  BY <1>1, <2>1, <2>2 DEF FrozenComponents, PartsStored
<1>6. RevisionsTellTheJournal'
  <2>1. \A r \in revisions', q \in journal' : q.id = r.id =>
            r.revision <= q.revision /\ (r.revision = q.revision => r = q)
    <3>1. \A q \in journal : q.id = row.id => q = row
      BY <1>1 DEF JournalInv, FrozenComponents
    <3>2. row.revision <= row.revision
      BY <1>1 DEF JournalInv
    <3>. QED  BY <1>1, <3>1, <3>2 DEF JournalInv, RevisionsTellTheJournal
  <2>2. \A r, q \in revisions' : q.id = r.id /\ q.revision = r.revision => q = r
    BY <1>1 DEF JournalInv, RevisionsTellTheJournal, NewRevision
  <2>. QED  BY <1>1, <2>1, <2>2 DEF RevisionsTellTheJournal
<1>. QED  BY <1>3, <1>4, <1>5, <1>6 DEF JournalInv

LEMMA JournalStep ==
    ASSUME JournalInv, [Next]_vars
    PROVE  JournalInv'
<1>0. TablesGrow
  BY TablesStep DEF JournalInv
<1>1. CASE UNCHANGED vars
  BY <1>0, <1>1, JournalRests DEF vars, journalVars
<1>2. CASE Interrupt
  BY <1>0, <1>2, JournalRests DEF Interrupt
<1>3. CASE \E row \in saving : AppendRevision(row)
  BY <1>3, JournalAppended
<1>4. CASE Request
  <2>1. CASE PlanningNext /\ UNCHANGED journalVars
    BY <1>0, <2>1, JournalRests DEF journalVars
  <2>2. ASSUME NEW t \in Tickers, NEW input \in ThesisInputs, SaveThesis(t, input)
        PROVE  JournalInv'
    BY <1>0, <2>2, JournalRests DEF SaveThesis
  <2>3. ASSUME NEW t \in Tickers, SnapshotThesis(t)
        PROVE  JournalInv'
    BY <1>0, <2>3, JournalRests DEF SnapshotThesis
  <2>. QED  BY <1>4, <2>1, <2>2, <2>3, JournalCreated, JournalUpdated DEF Request
<1>. QED  BY <1>1, <1>2, <1>3, <1>4 DEF Next

LEMMA JournalBegins == Init => JournalInv
<1>. SUFFICES ASSUME Init PROVE JournalInv
  OBVIOUS
<1>1. TablesInv
  BY NoRowsChained DEF Init, PlanningInit, PortfolioInit, TablesInv, Owners
<1>2. journal = {} /\ revisions = {} /\ saving = {}
  BY DEF Init
<1>. QED  BY <1>1, <1>2 DEF JournalInv, FrozenComponents, RevisionsTellTheJournal

\* Tables in versions, frozen parts and revisions at once, in every state
THEOREM JournalInvariant == Spec => []JournalInv
  BY JournalBegins, JournalStep, PTL DEF Spec

\* What a decision was made on stays what it was, for any number of decisions,
\* updates and interruptions (create_decision, update_decision).
THEOREM PartsStayFrozen == Spec => []FrozenComponents
<1>1. JournalInv => FrozenComponents
  BY DEF JournalInv
<1>. QED  BY <1>1, JournalInvariant, PTL

\* The row is written before its revision, and after a stop in between that
\* revision is missing for ever; the others still agree with the row, and the
\* next update is not refused (_append_decision_revision).
THEOREM RevisionsAgree == Spec => []RevisionsTellTheJournal
<1>1. JournalInv => RevisionsTellTheJournal
  BY DEF JournalInv
<1>. QED  BY <1>1, JournalInvariant, PTL

\* Policies, theses, intents and plans keep the promise of VersionChain: the
\* maximum plus one, read apart from the insert, and the plan a client read
\* before it was updated, never rewrite, skip or fork a version.
THEOREM VersionsImplemented == Spec => VersionContract
<1>1. Spec => []TablesInv
  <2>1. JournalInv => TablesInv
    BY DEF JournalInv
  <2>. QED  BY <2>1, JournalInvariant, PTL
<1>2. Init => /\ PolicyChain!Init /\ ThesisChain!Init
              /\ IntentChain!Init /\ PlanChain!Init
  BY NoRowsChained DEF Init, PlanningInit, PortfolioInit,
       PolicyChain!Init, ThesisChain!Init, IntentChain!Init, PlanChain!Init
<1>3. TablesInv /\ [Next]_vars =>
          /\ [PolicyChain!Next]_(AsChain(policies, {PolicyKey}))
          /\ [ThesisChain!Next]_(AsChain(theses, Companies))
          /\ [IntentChain!Next]_(AsChain(intents, Companies))
          /\ [PlanChain!Next]_(AsChain(plans, PlanKeys))
  <2>. SUFFICES ASSUME TablesInv, TablesGrow
                PROVE  /\ [PolicyChain!Next]_(AsChain(policies, {PolicyKey}))
                       /\ [ThesisChain!Next]_(AsChain(theses, Companies))
                       /\ [IntentChain!Next]_(AsChain(intents, Companies))
                       /\ [PlanChain!Next]_(AsChain(plans, PlanKeys))
    BY TablesStep
  <2>1. [PolicyChain!Next]_(AsChain(policies, {PolicyKey}))
    <3>1. \/ AsChain(policies', {PolicyKey}) = AsChain(policies, {PolicyKey})
          \/ \E k \in {PolicyKey} : Grows(AsChain(policies, {PolicyKey}),
                                         AsChain(policies', {PolicyKey}), {PolicyKey}, k)
      BY GrownRows DEF TablesInv, TablesGrow
    <3>. QED  BY <3>1 DEF PolicyChain!Next, PolicyChain!Save, Grows
  <2>2. [ThesisChain!Next]_(AsChain(theses, Companies))
    BY GrownRows DEF TablesInv, TablesGrow, ThesisChain!Next, ThesisChain!Save, Grows
  <2>3. [IntentChain!Next]_(AsChain(intents, Companies))
    BY GrownRows DEF TablesInv, TablesGrow, IntentChain!Next, IntentChain!Save, Grows
  <2>4. [PlanChain!Next]_(AsChain(plans, PlanKeys))
    BY GrownRows DEF TablesInv, TablesGrow, PlanChain!Next, PlanChain!Save, Grows
  <2>. QED  BY <2>1, <2>2, <2>3, <2>4
<1>. QED
  BY <1>1, <1>2, <1>3, PTL DEF Spec, VersionContract, PolicyChain!Spec,
     ThesisChain!Spec, IntentChain!Spec, PlanChain!Spec

-----------------------------------------------------------------------------
\* Legs and what their contracts cost

\* No leg has more contracts closed than it had.
Legs == {s \in Seq(Leg) : \A i \in DOMAIN s : s[i].closed <= s[i].quantity}

LedgerRow == [status : {"open", "closed", "expired", "assigned", "exercised"},
              legs : Seq(Leg), shares : Int, basis : Nat, cash : Int, realized : Int]

Sound(l) == l \in LedgerRow /\ l.legs \in Legs

LEMMA MarketTypes ==
    /\ Lot \in Nat \ {0} /\ Lot \in Int
    /\ Marks \subseteq Int /\ Marks \subseteq Nat /\ Quotes \subseteq Nat \ {0}
    /\ Strikes \subseteq Nat
    /\ ShareTrades \subseteq Nat \ {0} /\ Contracts \subseteq Nat \ {0}
  BY OptionAssumption

LEMMA LegType ==
    ASSUME NEW leg \in Leg
    PROVE  /\ Direction(leg) \in {1, -1} /\ Direction(leg) \in Int /\ Open(leg) \in Int
           /\ leg.strike \in Nat /\ leg.premium \in Nat
           /\ leg.quantity \in Nat /\ leg.closed \in Nat
           /\ leg.closed <= leg.quantity => Open(leg) \in Nat /\ Open(leg) <= leg.quantity
  BY DEF Leg, Direction, Open

LEMMA CostIsInteger ==
    ASSUME NEW leg \in Leg, NEW n \in Int
    PROVE  CostOf(leg, n) \in Int
<1>1. Direction(leg) \in Int /\ leg.premium \in Int /\ Lot \in Int
  BY LegType, OptionAssumption
<1>. DEFINE d == Direction(leg)
<1>. HIDE DEF d
<1>2. d * leg.premium \in Int
  BY <1>1 DEF d
<1>3. d * leg.premium * n \in Int
  BY <1>2
<1>4. d * leg.premium * n * Lot \in Int
  BY <1>1, <1>3
<1>. QED  BY <1>4 DEF CostOf, d

\* The cost of contracts of one leg adds up.
LEMMA CostsAdd ==
    ASSUME NEW leg \in Leg, NEW m \in Int, NEW n \in Int
    PROVE  CostOf(leg, m + n) = CostOf(leg, m) + CostOf(leg, n)
<1>1. Direction(leg) \in Int /\ leg.premium \in Int /\ Lot \in Int
  BY LegType, OptionAssumption
<1>. DEFINE c == Direction(leg) * leg.premium
<1>2. c \in Int
  BY <1>1
<1>. HIDE DEF c
<1>3. c * (m + n) * Lot = c * m * Lot + c * n * Lot
  BY <1>1, <1>2
<1>. QED  BY <1>3 DEF CostOf, c

\* Only side and premium of a leg matter to what its contracts cost.
LEMMA SameCost ==
    ASSUME NEW leg, NEW other, leg.side = other.side, leg.premium = other.premium, NEW n
    PROVE  CostOf(leg, n) = CostOf(other, n)
  BY DEF CostOf, Direction

LEMMA LegsFinite ==
    ASSUME NEW s \in Seq(Leg), NEW S \in SUBSET DOMAIN s
    PROVE  /\ IsFiniteSet(DOMAIN s) /\ IsFiniteSet(S)
           /\ \A i \in S : s[i] \in Leg
<1>1. DOMAIN s = 1 .. Len(s) /\ Len(s) \in Nat
  OBVIOUS
<1>2. IsFiniteSet(DOMAIN s)
  BY <1>1, FS_Interval
<1>. QED  BY <1>1, <1>2, FS_Subset

LEMMA OpenCostType ==
    ASSUME NEW l, l.legs \in Seq(Leg)
    PROVE  OpenCost(l) \in Int
<1>. DEFINE f == [i \in DOMAIN l.legs |-> CostOf(l.legs[i], Open(l.legs[i]))]
<1>1. \A i \in DOMAIN l.legs : f[i] \in Int
  BY LegType, CostIsInteger
<1>2. IsFiniteSet(DOMAIN l.legs)
  BY LegsFinite
<1>. HIDE DEF f
<1>3. SumFunctionOnSet(f, DOMAIN l.legs) \in Int
  BY <1>1, <1>2, SumInteger
<1>. QED  BY <1>3 DEF OpenCost, SumFunction, f

\* Contracts of the legs of S to be gone: so many that are open
Contracted(s, n, S) ==
    S \in SUBSET DOMAIN s /\ \A i \in S : n[i] \in Nat /\ n[i] <= Open(s[i])

LEMMA ReducedLegs ==
    ASSUME NEW s \in Legs, NEW n, NEW S, Contracted(s, n, S)
    PROVE  /\ Reduced(s, n, S) \in Legs
           /\ DOMAIN Reduced(s, n, S) = DOMAIN s
           /\ \A i \in S : CostOf(s[i], Open(s[i]))
                 = CostOf(Reduced(s, n, S)[i], Open(Reduced(s, n, S)[i])) + CostOf(s[i], n[i])
           /\ \A i \in DOMAIN s \ S : Reduced(s, n, S)[i] = s[i]
<1>. DEFINE less == Reduced(s, n, S)
<1>1. s \in Seq(Leg) /\ \A i \in DOMAIN s : s[i] \in Leg /\ s[i].closed <= s[i].quantity
  BY DEF Legs
<1>2. ASSUME NEW i \in S
      PROVE  /\ less[i] \in Leg /\ less[i].closed <= less[i].quantity
             /\ CostOf(s[i], Open(s[i])) = CostOf(less[i], Open(less[i])) + CostOf(s[i], n[i])
  <2>. DEFINE leg == s[i]
              new == less[i]
  <2>1. leg \in Leg /\ n[i] \in Nat /\ n[i] <= Open(leg)
    BY <1>1 DEF Contracted
  <2>2. new = [leg EXCEPT !.closed = @ + n[i]]
    BY DEF Contracted, Reduced
  <2>. HIDE DEF leg, new
  <2>3. /\ new \in Leg /\ new.side = leg.side /\ new.premium = leg.premium
        /\ new.quantity = leg.quantity /\ new.closed = leg.closed + n[i]
    BY <2>1, <2>2 DEF Leg
  <2>4. leg.closed \in Nat /\ leg.quantity \in Nat
    BY <2>1, LegType
  <2>5. Open(new) = Open(leg) - n[i] /\ new.closed <= new.quantity
    BY <2>1, <2>3, <2>4 DEF Open
  <2>6. Open(leg) = Open(new) + n[i] /\ Open(new) \in Int
    BY <2>1, <2>3, <2>4, <2>5, LegType
  <2>7. CostOf(leg, Open(leg)) = CostOf(leg, Open(new)) + CostOf(leg, n[i])
    BY <2>1, <2>6, CostsAdd
  <2>8. CostOf(leg, Open(new)) = CostOf(new, Open(new))
    BY <2>3, SameCost
  <2>. QED  BY <2>3, <2>5, <2>7, <2>8 DEF leg, new
<1>3. DOMAIN less = DOMAIN s /\ \A i \in DOMAIN s \ S : less[i] = s[i]
  BY DEF Reduced
<1>4. \A i \in DOMAIN s : less[i] \in Leg /\ less[i].closed <= less[i].quantity
  BY <1>1, <1>2, <1>3
<1>5. less \in Seq(Leg)
  <2>1. DOMAIN s = 1 .. Len(s) /\ Len(s) \in Nat
    BY <1>1
  <2>2. less = [i \in 1 .. Len(s) |-> less[i]]
    BY <2>1 DEF Reduced
  <2>. HIDE DEF less
  <2>. QED  BY <1>4, <2>1, <2>2
<1>. QED  BY <1>2, <1>3, <1>4, <1>5 DEF Legs

LEMMA PremiumType ==
    ASSUME NEW l, l.legs \in Legs, NEW n, NEW S, Contracted(l.legs, n, S)
    PROVE  PremiumOf(l, n, S) \in Int
<1>. DEFINE f == [i \in S |-> CostOf(l.legs[i], n[i])]
<1>1. l.legs \in Seq(Leg) /\ S \in SUBSET DOMAIN l.legs
  BY DEF Legs, Contracted
<1>2. ASSUME NEW i \in S PROVE f[i] \in Int
  <2>1. l.legs[i] \in Leg /\ n[i] \in Int
    BY <1>1 DEF Contracted
  <2>. QED  BY <2>1, CostIsInteger
<1>3. IsFiniteSet(S)
  BY <1>1, LegsFinite
<1>. HIDE DEF f
<1>4. SumFunctionOnSet(f, S) \in Int
  BY <1>2, <1>3, SumInteger
<1>. QED  BY <1>4 DEF PremiumOf, SumFunction, f

\* Contracts that are gone no longer cost anything.
LEMMA CostOfReduced ==
    ASSUME NEW l, l.legs \in Legs, NEW less, NEW n, NEW S, Contracted(l.legs, n, S),
           less.legs = Reduced(l.legs, n, S)
    PROVE  OpenCost(less) = OpenCost(l) - PremiumOf(l, n, S)
<1>. DEFINE s == l.legs
            new == less.legs
            D == DOMAIN s
            h == [i \in D |-> CostOf(s[i], Open(s[i]))]
            f == [i \in D |-> CostOf(new[i], Open(new[i]))]
            g == [i \in D |-> IF i \in S THEN CostOf(s[i], n[i]) ELSE 0]
            p == [i \in S |-> CostOf(s[i], n[i])]
<1>1. /\ s \in Seq(Leg) /\ new \in Seq(Leg) /\ DOMAIN new = D /\ S \in SUBSET D
      /\ \A i \in S : CostOf(s[i], Open(s[i])) = CostOf(new[i], Open(new[i])) + CostOf(s[i], n[i])
      /\ \A i \in D \ S : new[i] = s[i]
  BY ReducedLegs DEF Legs, Contracted
<1>2. \A i \in D : s[i] \in Leg /\ new[i] \in Leg
  BY <1>1, LegsFinite
<1>3. ASSUME NEW i \in D
      PROVE  f[i] \in Int /\ g[i] \in Int /\ h[i] = f[i] + g[i]
  <2>1. f[i] \in Int
    BY <1>2, LegType, CostIsInteger
  <2>2. CASE i \in S
    <3>1. CostOf(s[i], n[i]) \in Int
      BY <1>2, <2>2, CostIsInteger DEF Contracted
    <3>. QED  BY <1>1, <2>1, <2>2, <3>1
  <2>3. CASE i \notin S
    BY <1>1, <2>1, <2>3
  <2>. QED  BY <2>2, <2>3
<1>4. \A i \in S : g[i] = p[i]
  BY <1>1
<1>5. \A i \in D \ S : g[i] = 0
  OBVIOUS
<1>6. IsFiniteSet(D) /\ IsFiniteSet(S)
  BY <1>1, LegsFinite
<1>7. /\ OpenCost(l) = SumFunctionOnSet(h, D) /\ OpenCost(less) = SumFunctionOnSet(f, D)
      /\ PremiumOf(l, n, S) = SumFunctionOnSet(p, S)
  BY <1>1 DEF OpenCost, PremiumOf, SumFunction
<1>. HIDE DEF f, g, h, p, D, s, new
<1>8. SumFunctionOnSet(h, D) = SumFunctionOnSet(f, D) + SumFunctionOnSet(g, D)
  BY <1>3, <1>6, SumsAdd
<1>9. SumFunctionOnSet(g, D) = SumFunctionOnSet(g, S)
  BY <1>1, <1>3, <1>5, <1>6, SumOfRest
<1>10. SumFunctionOnSet(g, S) = SumFunctionOnSet(p, S)
  BY <1>4, <1>6, SumsEqual
<1>11. SumFunctionOnSet(f, D) \in Int /\ SumFunctionOnSet(g, D) \in Int
  BY <1>3, <1>6, SumInteger
<1>. QED  BY <1>7, <1>8, <1>9, <1>10, <1>11

\* A leg that is added costs what its contracts cost.
LEMMA CostOfAdded ==
    ASSUME NEW l, l.legs \in Legs, NEW leg \in Leg, leg.closed = 0,
           NEW more, more.legs = Append(l.legs, leg)
    PROVE  /\ more.legs \in Legs
           /\ OpenCost(more) = OpenCost(l) + CostOf(leg, leg.quantity)
<1>. DEFINE s == l.legs
            new == more.legs
            e == Len(s) + 1
            D == DOMAIN s
            f == [i \in DOMAIN new |-> CostOf(new[i], Open(new[i]))]
            h == [i \in D |-> CostOf(s[i], Open(s[i]))]
<1>1. s \in Seq(Leg) /\ \A i \in D : s[i] \in Leg /\ s[i].closed <= s[i].quantity
  BY DEF Legs
<1>2. /\ new \in Seq(Leg) /\ DOMAIN new = D \cup {e} /\ e \notin D
      /\ \A i \in D : new[i] = s[i]
      /\ new[e] = leg
  <2>1. Len(s) \in Nat /\ D = 1 .. Len(s) /\ new = Append(s, leg)
    BY <1>1
  <2>. HIDE DEF new, s
  <2>. QED  BY <1>1, <2>1
<1>3. leg.quantity \in Nat /\ Open(leg) = leg.quantity
  BY LegType DEF Open
<1>4. new \in Legs
  <2>1. ASSUME NEW i \in DOMAIN new PROVE new[i].closed <= new[i].quantity
    <3>1. CASE i = e
      <4>1. leg.closed <= leg.quantity
        BY <1>3
      <4>. QED  BY <1>2, <3>1, <4>1
    <3>2. CASE i \in D
      BY <1>1, <1>2, <3>2
    <3>. QED  BY <1>2, <3>1, <3>2
  <2>. QED  BY <1>2, <2>1 DEF Legs
<1>5. \A i \in DOMAIN new : f[i] \in Int
  BY <1>2, LegsFinite, LegType, CostIsInteger
<1>6. f[e] = CostOf(leg, leg.quantity)
  BY <1>2, <1>3
<1>7. \A i \in D : f[i] = h[i]
  BY <1>2
<1>8. IsFiniteSet(D)
  BY <1>1, LegsFinite
<1>9. OpenCost(l) = SumFunctionOnSet(h, D) /\ OpenCost(more) = SumFunctionOnSet(f, D \cup {e})
  BY <1>2 DEF OpenCost, SumFunction
<1>. HIDE DEF f, h, s, new, e
<1>10. SumFunctionOnSet(f, D \cup {e}) = f[e] + SumFunctionOnSet(f, D)
  BY <1>2, <1>5, <1>8, SumPutsIn
<1>11. SumFunctionOnSet(f, D) = SumFunctionOnSet(h, D)
  BY <1>7, <1>8, SumsEqual
<1>12. SumFunctionOnSet(f, D) \in Int /\ f[e] \in Int
  BY <1>2, <1>5, <1>8, SumInteger
<1>. QED  BY <1>4, <1>6, <1>9, <1>10, <1>11, <1>12 DEF new

\* Contracts that are bought or sold at a mark: the cash is the gain and what they
\* had cost.
LEMMA ClosedReconciles ==
    ASSUME NEW l, Sound(l), NEW S, NEW n, Contracted(l.legs, n, S), NEW mark \in [S -> Marks]
    PROVE  /\ Sound(Closed(l, n, mark, S))
           /\ Closed(l, n, mark, S).legs = Reduced(l.legs, n, S)
           /\ Closed(l, n, mark, S).shares = l.shares /\ Closed(l, n, mark, S).basis = l.basis
           /\ Closed(l, n, mark, S).cash - Closed(l, n, mark, S).realized
                 = l.cash - l.realized + PremiumOf(l, n, S)
<1>. DEFINE value == [i \in S |-> Direction(l.legs[i]) * mark[i] * n[i] * Lot]
            gain  == [i \in S |-> Direction(l.legs[i]) * (mark[i] - l.legs[i].premium) * n[i] * Lot]
            paid  == [i \in S |-> CostOf(l.legs[i], n[i])]
            closed == Closed(l, n, mark, S)
<1>1. /\ l \in LedgerRow /\ l.legs \in Seq(Leg) /\ l.legs \in Legs
      /\ S \in SUBSET DOMAIN l.legs /\ \A i \in S : n[i] \in Nat
  BY DEF Sound, Legs, Contracted
<1>2. ASSUME NEW i \in S
      PROVE  gain[i] \in Int /\ paid[i] \in Int /\ value[i] = gain[i] + paid[i]
  <2>0. l.legs[i] \in Leg
    BY <1>1
  <2>1. /\ l.legs[i] \in Leg /\ n[i] \in Int /\ mark[i] \in Int
        /\ Direction(l.legs[i]) \in {1, -1} /\ l.legs[i].premium \in Int /\ Lot \in Int
    <3>1. n[i] \in Int /\ mark[i] \in Int /\ Lot \in Int
      <4>1. n[i] \in Nat
        BY <1>1
      <4>2. mark[i] \in Marks
        OBVIOUS
      <4>3. Lot \in Int /\ Marks \subseteq Int
        BY MarketTypes
      <4>4. mark[i] \in Int
        BY <4>2, <4>3
      <4>. QED  BY ONLY <4>1, <4>3, <4>4
    <3>. QED  BY <2>0, <3>1, LegType
  <2>2. paid[i] \in Int
    BY <2>1, CostIsInteger
  <2>. DEFINE d == Direction(l.legs[i])
              m == mark[i]
              p == l.legs[i].premium
              x == n[i] * Lot
  <2>3. x \in Int
    BY <2>1
  <2>4. /\ d * m * n[i] * Lot = d * m * x
        /\ d * (m - p) * n[i] * Lot = d * (m - p) * x
        /\ d * p * n[i] * Lot = d * p * x
    BY <2>1
  <2>5. d \in {1, -1} /\ m \in Int /\ p \in Int
    BY <2>1
  <2>6. value[i] = d * m * x /\ gain[i] = d * (m - p) * x /\ paid[i] = d * p * x
    BY <2>4 DEF CostOf
  <2>. HIDE DEF d, m, p, x, value, gain, paid
  <2>7. d * (m - p) * x \in Int /\ d * m * x = d * (m - p) * x + d * p * x
    BY <2>3, <2>5
  <2>. QED  BY <2>2, <2>6, <2>7
<1>3. IsFiniteSet(S)
  BY <1>1, LegsFinite
<1>. DEFINE less == LessContracts(l, n, S)
<1>a. less = [l EXCEPT !.legs = Reduced(l.legs, n, S)]
  BY DEF LessContracts
<1>b. closed = [less EXCEPT !.cash = @ + SumFunctionOnSet(value, S),
                            !.realized = @ + SumFunctionOnSet(gain, S)]
  BY DEF Closed, SumFunction
<1>. HIDE DEF value, gain, closed, less
<1>4. /\ closed = [l EXCEPT !.legs = Reduced(l.legs, n, S),
                            !.cash = @ + SumFunctionOnSet(value, S),
                            !.realized = @ + SumFunctionOnSet(gain, S)]
      /\ PremiumOf(l, n, S) = SumFunctionOnSet(paid, S)
  <2>1. PremiumOf(l, n, S) = SumFunctionOnSet(paid, S)
    BY DEF PremiumOf, SumFunction
  <2>. DEFINE v == SumFunctionOnSet(value, S)
              g == SumFunctionOnSet(gain, S)
              legs == Reduced(l.legs, n, S)
  <2>. HIDE DEF v, g, legs
  <2>2. closed = [l EXCEPT !.legs = legs, !.cash = @ + v, !.realized = @ + g]
    BY <1>1, <1>a, <1>b DEF LedgerRow, v, g, legs
  <2>. QED  BY <2>1, <2>2 DEF v, g, legs
<1>. HIDE DEF value, gain, paid, closed
<1>5. SumFunctionOnSet(value, S) = SumFunctionOnSet(gain, S) + SumFunctionOnSet(paid, S)
  BY <1>2, <1>3, SumsAdd
<1>6. SumFunctionOnSet(gain, S) \in Int /\ SumFunctionOnSet(paid, S) \in Int
  BY <1>2, <1>3, SumInteger
<1>. DEFINE v == SumFunctionOnSet(value, S)
            g == SumFunctionOnSet(gain, S)
<1>7. v = g + PremiumOf(l, n, S) /\ g \in Int /\ v \in Int /\ PremiumOf(l, n, S) \in Int
  BY <1>4, <1>5, <1>6
<1>8. Reduced(l.legs, n, S) \in Legs
  BY <1>1, ReducedLegs
<1>9. /\ closed.legs = Reduced(l.legs, n, S) /\ closed.shares = l.shares
      /\ closed.basis = l.basis /\ closed.status = l.status
      /\ closed.cash = l.cash + v /\ closed.realized = l.realized + g
      /\ closed = [status |-> closed.status, legs |-> closed.legs, shares |-> closed.shares,
                   basis |-> closed.basis, cash |-> closed.cash, realized |-> closed.realized]
  BY <1>1, <1>4 DEF LedgerRow
<1>. HIDE DEF v, g
<1>10. l.cash \in Int /\ l.realized \in Int
  BY <1>1 DEF LedgerRow
<1>11. closed.cash - closed.realized = l.cash - l.realized + PremiumOf(l, n, S)
  BY <1>7, <1>9, <1>10
<1>12. Sound(closed)
  <2>1. closed.cash \in Int /\ closed.realized \in Int
    BY <1>7, <1>9, <1>10
  <2>2. closed.legs \in Seq(Leg) /\ closed.legs \in Legs
    BY <1>8, <1>9 DEF Legs
  <2>3. closed \in LedgerRow
    BY <1>1, <1>9, <2>1, <2>2 DEF LedgerRow
  <2>. QED  BY <2>2, <2>3 DEF Sound
<1>. QED  BY <1>9, <1>11, <1>12 DEF closed

-----------------------------------------------------------------------------
\* Shares

LEMMA AverageType ==
    ASSUME NEW total \in Nat, NEW n \in Nat \ {0}
    PROVE  Average(total, n) \in Nat
<1>1. 2 * total + n \in Nat /\ 2 * n \in Nat \ {0}
  OBVIOUS
<1>. DEFINE a == 2 * total + n
            b == 2 * n
<1>2. a \in Nat /\ b \in Nat \ {0}
  BY <1>1
<1>. HIDE DEF a, b
<1>3. a \div b \in Nat
  BY <1>2
<1>. QED  BY <1>3 DEF Average, a, b

LEMMA TotalCostType ==
    ASSUME NEW l, Sound(l), NEW q \in Int, NEW price \in Nat
    PROVE  TotalCost(l, q, price) \in Nat
<1>1. l.shares \in Int /\ l.basis \in Nat
  BY DEF Sound, LedgerRow
<1>2. Abs(l.shares) \in Nat /\ Abs(q) \in Nat
  BY <1>1 DEF Abs
<1>. DEFINE m == Abs(l.shares)
            n == Abs(q)
            b == l.basis
<1>3. m \in Nat /\ n \in Nat /\ b \in Nat
  BY <1>1, <1>2
<1>. HIDE DEF m, n, b
<1>4. m * b + n * price \in Nat
  BY <1>3
<1>. QED  BY <1>4 DEF TotalCost, m, n, b

\* What the average does not account for is rounded away.
LEMMA RoundingOfGrowth ==
    ASSUME NEW l, Sound(l), NEW q \in Int \ {0}, NEW price \in Nat, AddsShares(l, q)
    PROVE  LET n == l.shares + q
               average == Average(TotalCost(l, q, price), Abs(n))
           IN  /\ average \in Nat
               /\ Rounding(l, q, price) = l.shares * l.basis + q * price - n * average
<1>. DEFINE s == l.shares
            b == l.basis
            n == s + q
            total == TotalCost(l, q, price)
            average == Average(total, Abs(n))
<1>1. s \in Int /\ b \in Nat
  BY DEF Sound, LedgerRow
<1>2. \/ s >= 0 /\ q > 0 /\ n > 0
      \/ s <= 0 /\ q < 0 /\ n < 0
  BY <1>1 DEF AddsShares
<1>3. Abs(n) \in Nat \ {0}
  BY <1>1, <1>2 DEF Abs
<1>4. total \in Nat /\ average \in Nat
  BY <1>3, TotalCostType, AverageType
<1>5. Rounding(l, q, price) = (IF n > 0 THEN 1 ELSE -1) * (total - Abs(n) * average)
  BY DEF Rounding
<1>6. total = Abs(s) * b + Abs(q) * price
  BY DEF TotalCost
<1>. HIDE DEF average, total
<1>7. Rounding(l, q, price) = s * b + q * price - n * average
  <2>. HIDE DEF s, b
  <2>. DEFINE sb == s * b
              qp == q * price
              na == n * average
  <2>1. sb \in Int /\ qp \in Int /\ na \in Int
    BY <1>1, <1>4
  <2>2. CASE s >= 0 /\ q > 0 /\ n > 0
    <3>1. Abs(s) = s /\ Abs(q) = q /\ Abs(n) = n
      BY <1>1, <2>2 DEF Abs
    <3>2. total = sb + qp /\ Abs(n) * average = na
      BY <1>6, <3>1
    <3>. HIDE DEF n
    <3>3. Rounding(l, q, price) = 1 * (total - Abs(n) * average)
      BY <1>5, <2>2
    <3>. HIDE DEF sb, qp, na
    <3>4. Rounding(l, q, price) = sb + qp - na
      BY <2>1, <3>2, <3>3
    <3>. QED  BY <3>4 DEF sb, qp, na, n
  <2>3. CASE s <= 0 /\ q < 0 /\ n < 0
    <3>1. Abs(s) = -s /\ Abs(q) = -q /\ Abs(n) = -n
      BY <1>1, <2>3 DEF Abs
    <3>2. total = -sb - qp
      BY <1>1, <1>6, <3>1
    <3>3. Abs(n) * average = -na
      <4>1. n \in Int
        BY <1>1
      <4>. HIDE DEF n
      <4>. QED  BY <1>4, <3>1, <4>1
    <3>. HIDE DEF n
    <3>4. Rounding(l, q, price) = (-1) * (total - Abs(n) * average)
      <4>1. ~(n > 0)
        BY <1>1, <2>3 DEF n
      <4>. QED  BY <1>5, <4>1
    <3>. HIDE DEF sb, qp, na
    <3>5. Rounding(l, q, price) = sb + qp - na
      BY <2>1, <3>2, <3>3, <3>4
    <3>. QED  BY <3>5 DEF sb, qp, na, n
  <2>. QED  BY <1>2, <2>2, <2>3
<1>. QED  BY <1>4, <1>7 DEF total, average, s, b

\* What a ledger holds besides its cash balances it.
Balance(l) == l.cash - l.realized + l.shares * l.basis + OpenCost(l)

\* Shares that are bought or sold balance but for the rounding of their basis.
LEMMA TradeBalances ==
    ASSUME NEW l, Sound(l), NEW q \in Int \ {0}, NEW price \in Nat
    PROVE  LET t == ShareTrade(l, q, price)
           IN  /\ Sound(t) /\ t.legs = l.legs
               /\ Rounding(l, q, price) \in Int
               /\ Balance(t) = Balance(l) - Rounding(l, q, price)
<1>. DEFINE s == l.shares
            b == l.basis
            n == s + q
            average == Average(TotalCost(l, q, price), Abs(n))
            t == ShareTrade(l, q, price)
            r == Rounding(l, q, price)
<1>1. /\ l \in LedgerRow /\ s \in Int /\ b \in Nat /\ l.cash \in Int /\ l.realized \in Int
      /\ l.legs \in Seq(Leg) /\ l.legs \in Legs /\ n \in Int
  BY DEF Sound, LedgerRow
<1>. DEFINE basis == IF AddsShares(l, q) THEN average
                    ELSE IF n = 0 THEN 0 ELSE IF (n > 0) # (s > 0) THEN price ELSE b
            realized == IF AddsShares(l, q) THEN l.realized
                        ELSE l.realized + (IF s > 0 THEN price - b ELSE b - price)
                                           * Least(Abs(s), Abs(q))
<1>a. t = [l EXCEPT !.shares = n, !.cash = @ - q * price, !.basis = basis, !.realized = realized]
  BY Zenon DEF ShareTrade
<1>2. /\ t.shares = n /\ t.cash = l.cash - q * price /\ t.legs = l.legs /\ t.status = l.status
      /\ t.basis = basis /\ t.realized = realized
      /\ t = [status |-> t.status, legs |-> t.legs, shares |-> t.shares,
              basis |-> t.basis, cash |-> t.cash, realized |-> t.realized]
  <2>. HIDE DEF t, basis, realized
  <2>. QED  BY <1>1, <1>a DEF LedgerRow
<1>. HIDE DEF t
<1>3. OpenCost(t) = OpenCost(l) /\ OpenCost(l) \in Int
  BY <1>1, <1>2, OpenCostType DEF OpenCost
<1>4. /\ t.basis \in Nat /\ t.realized \in Int /\ r \in Int
      /\ t.cash - t.realized + t.shares * t.basis = l.cash - l.realized + s * b - r
  <2>. DEFINE sb == s * b
              qp == q * price
  <2>1. sb \in Int /\ qp \in Int
    BY <1>1
  <2>2. CASE AddsShares(l, q)
    <3>1. average \in Nat /\ r = sb + qp - n * average
      BY <2>2, RoundingOfGrowth
    <3>2. t.basis = average /\ t.realized = l.realized
      BY <1>2, <2>2
    <3>. HIDE DEF average, r
    <3>. DEFINE na == n * average
    <3>3. na \in Int
      BY <1>1, <3>1
    <3>4. t.shares * t.basis = na /\ r = sb + qp - na /\ t.cash = l.cash - qp
      BY <1>2, <3>1, <3>2
    <3>. HIDE DEF na, sb, qp
    <3>5. t.cash - t.realized + t.shares * t.basis = l.cash - l.realized + sb - r
      BY <1>1, <2>1, <3>2, <3>3, <3>4
    <3>6. t.basis \in Nat /\ t.realized \in Int /\ r \in Int
      BY <1>1, <2>1, <3>1, <3>2, <3>3, <3>4
    <3>. QED  BY <3>5, <3>6 DEF sb
  <2>3. CASE ~AddsShares(l, q)
    <3>1. r = 0
      BY <2>3 DEF Rounding
    <3>2. \/ s > 0 /\ q < 0
          \/ s < 0 /\ q > 0
      BY <1>1, <2>3 DEF AddsShares
    <3>. DEFINE least == Least(Abs(s), Abs(q))
                gain  == (IF s > 0 THEN price - b ELSE b - price) * least
                now   == t.basis
    <3>3. t.realized = l.realized + gain
      BY <1>2, <2>3
    <3>4. now = IF n = 0 THEN 0 ELSE IF (n > 0) # (s > 0) THEN price ELSE b
      BY <1>2, <2>3
    <3>. HIDE DEF s, b, n, r, now
    <3>5. least \in Nat
      BY <1>1 DEF Least, Abs
    <3>6. n = s + q
      BY DEF n
    <3>7. gain \in Int /\ now \in Nat /\ n * now - gain = s * b + q * price
      <4>1. CASE s > 0 /\ q < 0 /\ n > 0
        <5>1. least = -q /\ now = b
          BY <1>1, <3>4, <3>6, <4>1 DEF Least, Abs
        <5>2. gain = (price - b) * (-q)
          BY <4>1, <5>1
        <5>. QED  BY <1>1, <3>6, <5>1, <5>2
      <4>2. CASE s > 0 /\ q < 0 /\ n <= 0
        <5>1. least = s /\ (now = price \/ (n = 0 /\ now = 0))
          BY <1>1, <3>4, <3>6, <4>2 DEF Least, Abs
        <5>2. gain = (price - b) * s
          BY <4>2, <5>1
        <5>3. n * now = n * price /\ now \in Nat
          BY <1>1, <5>1
        <5>. QED  BY <1>1, <3>6, <5>2, <5>3
      <4>3. CASE s < 0 /\ q > 0 /\ n < 0
        <5>1. least = q /\ now = b
          BY <1>1, <3>4, <3>6, <4>3 DEF Least, Abs
        <5>2. gain = (b - price) * q
          BY <1>1, <4>3, <5>1
        <5>. QED  BY <1>1, <3>6, <5>1, <5>2
      <4>4. CASE s < 0 /\ q > 0 /\ n >= 0
        <5>1. least = -s /\ (now = price \/ (n = 0 /\ now = 0))
          BY <1>1, <3>4, <3>6, <4>4 DEF Least, Abs
        <5>2. gain = (b - price) * (-s)
          BY <1>1, <4>4, <5>1
        <5>3. n * now = n * price /\ now \in Nat
          BY <1>1, <5>1
        <5>. QED  BY <1>1, <3>6, <5>2, <5>3
      <4>. QED  BY <1>1, <3>2, <4>1, <4>2, <4>3, <4>4
    <3>8. t.shares * t.basis = n * now /\ t.cash = l.cash - q * price
      BY <1>2 DEF now
    <3>. DEFINE nb == n * now
                sb2 == s * b
                qp2 == q * price
    <3>9. nb \in Int /\ sb2 \in Int /\ qp2 \in Int /\ nb - gain = sb2 + qp2
          /\ t.shares * t.basis = nb /\ t.cash = l.cash - qp2
      BY <1>1, <3>7, <3>8
    <3>10. gain \in Int
      BY <3>7
    <3>. HIDE DEF nb, sb2, qp2, gain
    <3>11. t.cash - t.realized + t.shares * t.basis = l.cash - l.realized + sb2 - r
      BY <1>1, <3>1, <3>3, <3>9, <3>10
    <3>12. t.realized \in Int
      BY <1>1, <3>3, <3>10
    <3>. QED  BY <3>1, <3>7, <3>11, <3>12 DEF sb2, now
  <2>. QED  BY <2>2, <2>3
<1>5. t.cash \in Int
  BY <1>1, <1>2
<1>6. Sound(t)
  BY <1>1, <1>2, <1>4, <1>5 DEF Sound, LedgerRow
<1>7. Balance(t) = Balance(l) - r
  <2>. DEFINE x == t.shares * t.basis
              y == s * b
              c == OpenCost(l)
  <2>1. x \in Int
    <3>1. t.shares \in Int /\ t.basis \in Int
      BY <1>1, <1>2, <1>4
    <3>. QED  BY <3>1
  <2>2. y \in Int
    BY <1>1
  <2>3. /\ Balance(t) = t.cash - t.realized + x + c
        /\ Balance(l) = l.cash - l.realized + y + c
    BY <1>3 DEF Balance
  <2>4. t.cash - t.realized + x = l.cash - l.realized + y - r
    BY <1>4
  <2>5. c \in Int /\ r \in Int /\ t.realized \in Int /\ l.cash \in Int /\ l.realized \in Int
    BY <1>1, <1>3, <1>4
  <2>. HIDE DEF x, y, c, r
  <2>. QED  BY <1>5, <2>1, <2>2, <2>3, <2>4, <2>5
<1>. QED  BY <1>2, <1>4, <1>6, <1>7 DEF t

-----------------------------------------------------------------------------
\* Events

\* LedgerReconciles is not inductive alone: that the average cost is a price and
\* that no more contracts are closed than there are is what makes sums of the
\* terms it balances.
LedgerInv ==
    /\ Sound(ledger)
    /\ unbooked \in Int
    /\ events \in 0 .. MaxEvents
    /\ Balance(ledger) + unbooked = 0

Statuses == {"open", "closed", "expired", "assigned", "exercised"}

LEMMA BalanceType ==
    ASSUME NEW l, Sound(l)
    PROVE  Balance(l) \in Int
<1>1. /\ l.cash \in Int /\ l.realized \in Int /\ l.shares \in Int /\ l.basis \in Int
      /\ l.legs \in Seq(Leg)
  BY DEF Sound, LedgerRow
<1>2. OpenCost(l) \in Int
  BY <1>1, OpenCostType
<1>3. l.shares * l.basis \in Int
  BY <1>1
<1>. QED  BY <1>1, <1>2, <1>3 DEF Balance

\* The tail of apply_event changes nothing but the status.
LEMMA Settled ==
    ASSUME LedgerInv, Accepts, NEW l, Sound(l), NEW status \in Statuses, Settle(l, status),
           unbooked' \in Int, Balance(l) + unbooked' = 0
    PROVE  LedgerInv'
<1>. DEFINE s == IF HasExposure(l) THEN "open" ELSE status
<1>1. s \in Statuses /\ l \in LedgerRow /\ l.legs \in Legs
  BY DEF Statuses, Sound
<1>2. ledger' = [l EXCEPT !.status = s] /\ events' = events + 1
  BY DEF Settle
<1>. HIDE DEF s
<1>3. /\ ledger' \in LedgerRow /\ ledger'.legs = l.legs /\ ledger'.cash = l.cash
      /\ ledger'.realized = l.realized /\ ledger'.shares = l.shares /\ ledger'.basis = l.basis
  BY <1>1, <1>2 DEF LedgerRow, Statuses
<1>4. Balance(ledger') = Balance(l)
  BY <1>3 DEF Balance, OpenCost
<1>5. events' \in 0 .. MaxEvents
  BY <1>2, OptionAssumption DEF LedgerInv, Accepts
<1>. QED  BY <1>1, <1>3, <1>4, <1>5 DEF LedgerInv, Sound

LEMMA LedgerFacts ==
    ASSUME LedgerInv
    PROVE  /\ ledger \in LedgerRow /\ ledger.legs \in Legs /\ ledger.legs \in Seq(Leg)
           /\ Sound(ledger) /\ unbooked \in Int /\ Balance(ledger) = -unbooked
           /\ \A i \in DOMAIN ledger.legs : ledger.legs[i] \in Leg /\ Open(ledger.legs[i]) \in Nat
<1>1. ledger \in LedgerRow /\ ledger.legs \in Legs /\ ledger.legs \in Seq(Leg)
  BY DEF LedgerInv, Sound, Legs
<1>2. \A i \in DOMAIN ledger.legs :
          ledger.legs[i] \in Leg /\ ledger.legs[i].closed <= ledger.legs[i].quantity
  BY <1>1 DEF Legs
<1>3. Balance(ledger) \in Int
  BY BalanceType DEF LedgerInv
<1>. QED  BY <1>1, <1>2, <1>3, LegType DEF LedgerInv

LEMMA SharesStep ==
    ASSUME LedgerInv, ShareEvent
    PROVE  LedgerInv'
<1>1. PICK q \in ShareTrades, price \in Quotes : BuyShares(q, price) \/ SellShares(q, price)
  BY DEF ShareEvent
<1>2. q \in Nat \ {0} /\ price \in Nat
  BY MarketTypes
<1>3. CASE BuyShares(q, price)
  <2>1. /\ Accepts /\ Settle(ShareTrade(ledger, q, price), "closed")
        /\ unbooked' = unbooked + Rounding(ledger, q, price)
    BY <1>3 DEF BuyShares
  <2>2. /\ Sound(ShareTrade(ledger, q, price)) /\ Rounding(ledger, q, price) \in Int
        /\ Balance(ShareTrade(ledger, q, price)) = Balance(ledger) - Rounding(ledger, q, price)
    BY <1>2, LedgerFacts, TradeBalances
  <2>3. unbooked' \in Int /\ Balance(ShareTrade(ledger, q, price)) + unbooked' = 0
    BY <2>1, <2>2, LedgerFacts
  <2>. QED  BY <2>1, <2>2, <2>3, Settled DEF Statuses
<1>4. CASE SellShares(q, price)
  <2>1. /\ Accepts /\ Settle(ShareTrade(ledger, -q, price), "closed")
        /\ unbooked' = unbooked /\ q <= ledger.shares
    BY <1>4 DEF SellShares
  <2>2. /\ Sound(ShareTrade(ledger, -q, price)) /\ Rounding(ledger, -q, price) \in Int
        /\ Balance(ShareTrade(ledger, -q, price)) = Balance(ledger) - Rounding(ledger, -q, price)
    <3>1. -q \in Int \ {0}
      BY <1>2
    <3>. QED  BY <1>2, <3>1, LedgerFacts, TradeBalances
  <2>3. Rounding(ledger, -q, price) = 0
    <3>1. ledger.shares \in Int /\ ledger.shares > 0 /\ ~(-q > 0)
      BY <1>2, <2>1, LedgerFacts DEF LedgerRow
    <3>2. ~AddsShares(ledger, -q)
      BY <3>1 DEF AddsShares
    <3>. QED  BY <3>2 DEF Rounding
  <2>4. unbooked' \in Int /\ Balance(ShareTrade(ledger, -q, price)) + unbooked' = 0
    BY <2>1, <2>2, <2>3, LedgerFacts
  <2>. QED  BY <2>1, <2>2, <2>4, Settled DEF Statuses
<1>. QED  BY <1>1, <1>3, <1>4

\* A leg more, paid for
LEMMA AddedBalances ==
    ASSUME NEW l, Sound(l), NEW leg \in Leg, leg.closed = 0, NEW more,
           more = [l EXCEPT !.cash = @ - CostOf(leg, leg.quantity), !.legs = Append(@, leg)]
    PROVE  Sound(more) /\ Balance(more) = Balance(l)
<1>1. /\ l \in LedgerRow /\ l.legs \in Legs /\ l.cash \in Int /\ l.realized \in Int
      /\ l.shares \in Int /\ l.basis \in Int /\ l.legs \in Seq(Leg)
  BY DEF Sound, LedgerRow
<1>. DEFINE c == CostOf(leg, leg.quantity)
            legs == Append(l.legs, leg)
<1>2. c \in Int
  BY LegType, CostIsInteger
<1>3. more = [l EXCEPT !.cash = @ - c, !.legs = legs]
  OBVIOUS
<1>. HIDE DEF c, legs
<1>4. /\ more.legs = legs /\ more.cash = l.cash - c /\ more.shares = l.shares
      /\ more.basis = l.basis /\ more.realized = l.realized
      /\ more = [status |-> l.status, legs |-> legs, shares |-> l.shares,
                 basis |-> l.basis, cash |-> more.cash, realized |-> l.realized]
  BY <1>1, <1>3 DEF LedgerRow
<1>5. more.legs \in Legs /\ OpenCost(more) = OpenCost(l) + c
  <2>1. more.legs = Append(l.legs, leg)
    BY <1>4 DEF legs
  <2>2. more.legs \in Legs /\ OpenCost(more) = OpenCost(l) + CostOf(leg, leg.quantity)
    BY <1>1, <2>1, CostOfAdded
  <2>. QED  BY <2>2 DEF c
<1>6. more.cash \in Int /\ more.legs \in Seq(Leg)
  BY <1>1, <1>2, <1>4, <1>5 DEF Legs
<1>7. Sound(more)
  BY <1>1, <1>4, <1>5, <1>6 DEF Sound, LedgerRow
<1>8. Balance(more) = Balance(l)
  <2>. DEFINE x == l.shares * l.basis
              o == OpenCost(l)
  <2>1. x \in Int /\ o \in Int
    BY <1>1, OpenCostType
  <2>2. /\ Balance(more) = more.cash - more.realized + x + OpenCost(more)
        /\ Balance(l) = l.cash - l.realized + x + o
    BY <1>4 DEF Balance
  <2>3. OpenCost(more) = o + c
    BY <1>5
  <2>. HIDE DEF x, o
  <2>. QED  BY <1>1, <1>2, <1>4, <2>1, <2>2, <2>3
<1>. QED  BY <1>7, <1>8

\* Contracts closed at their marks
LEMMA ClosedBalances ==
    ASSUME NEW l, Sound(l), NEW S, NEW n, Contracted(l.legs, n, S), NEW mark \in [S -> Marks]
    PROVE  Sound(Closed(l, n, mark, S)) /\ Balance(Closed(l, n, mark, S)) = Balance(l)
<1>. DEFINE closed == Closed(l, n, mark, S)
            x == l.shares * l.basis
            o == OpenCost(l)
            p == PremiumOf(l, n, S)
<1>1. /\ l.legs \in Legs /\ l.cash \in Int /\ l.realized \in Int
      /\ l.shares \in Int /\ l.basis \in Int /\ l.legs \in Seq(Leg)
  BY DEF Sound, LedgerRow
<1>2. /\ Sound(closed) /\ closed.legs = Reduced(l.legs, n, S)
      /\ closed.shares = l.shares /\ closed.basis = l.basis
      /\ closed.cash - closed.realized = l.cash - l.realized + p
  BY ClosedReconciles
<1>. HIDE DEF closed
<1>3. OpenCost(closed) = o - p
  BY <1>1, <1>2, CostOfReduced
<1>4. x \in Int /\ o \in Int /\ p \in Int
  BY <1>1, OpenCostType, PremiumType
<1>5. /\ Balance(closed) = closed.cash - closed.realized + x + OpenCost(closed)
      /\ Balance(l) = l.cash - l.realized + x + o
  BY <1>2 DEF Balance
<1>6. closed.cash \in Int /\ closed.realized \in Int
  BY <1>2 DEF Sound, LedgerRow
<1>. HIDE DEF x, o, p
<1>7. Balance(closed) = Balance(l)
  BY <1>1, <1>2, <1>3, <1>4, <1>5, <1>6
<1>. QED  BY <1>2, <1>7 DEF closed

\* Contracts that are gone leave their premium unbooked.
LEMMA LessBalances ==
    ASSUME NEW l, Sound(l), NEW S, NEW n, Contracted(l.legs, n, S)
    PROVE  /\ Sound(LessContracts(l, n, S)) /\ PremiumOf(l, n, S) \in Int
           /\ Balance(LessContracts(l, n, S)) = Balance(l) - PremiumOf(l, n, S)
<1>. DEFINE less == LessContracts(l, n, S)
            legs == Reduced(l.legs, n, S)
            x == l.shares * l.basis
            o == OpenCost(l)
            p == PremiumOf(l, n, S)
<1>1. /\ l \in LedgerRow /\ l.legs \in Legs /\ l.cash \in Int /\ l.realized \in Int
      /\ l.shares \in Int /\ l.basis \in Int /\ l.legs \in Seq(Leg)
  BY DEF Sound, LedgerRow
<1>2. legs \in Legs /\ legs \in Seq(Leg)
  BY <1>1, ReducedLegs DEF Legs
<1>3. less = [l EXCEPT !.legs = legs]
  BY DEF LessContracts
<1>4. OpenCost(less) = o - p
  <2>1. less.legs = legs
    BY <1>1, <1>3 DEF LedgerRow
  <2>. QED  BY <1>1, <2>1, CostOfReduced
<1>. HIDE DEF less, legs
<1>5. /\ less \in LedgerRow /\ less.legs = legs /\ less.cash = l.cash
      /\ less.realized = l.realized /\ less.shares = l.shares /\ less.basis = l.basis
  BY <1>1, <1>2, <1>3 DEF LedgerRow
<1>6. x \in Int /\ o \in Int /\ p \in Int
  BY <1>1, OpenCostType, PremiumType
<1>7. /\ Balance(less) = l.cash - l.realized + x + OpenCost(less)
      /\ Balance(l) = l.cash - l.realized + x + o
  BY <1>5 DEF Balance
<1>. HIDE DEF x, o, p
<1>8. Balance(less) = Balance(l) - p
  BY <1>1, <1>4, <1>6, <1>7
<1>9. Sound(less)
  BY <1>2, <1>5 DEF Sound
<1>. QED  BY <1>6, <1>8, <1>9 DEF less, p

LEMMA LegsStep ==
    ASSUME LedgerInv, LegEvent
    PROVE  LedgerInv'
<1>0. /\ ledger \in LedgerRow /\ ledger.legs \in Legs /\ ledger.legs \in Seq(Leg)
      /\ Sound(ledger) /\ unbooked \in Int /\ Balance(ledger) = -unbooked
      /\ \A i \in DOMAIN ledger.legs : ledger.legs[i] \in Leg /\ Open(ledger.legs[i]) \in Nat
  BY LedgerFacts
<1>s. \A S \in Selections : S \in SUBSET DOMAIN ledger.legs
  BY DEF Selections
<1>1. ASSUME NEW S \in SUBSET DOMAIN ledger.legs, NEW n, Contracted(ledger.legs, n, S),
             NEW mark \in [S -> Marks], Accepts,
             Settle(Closed(ledger, n, mark, S), "closed"), UNCHANGED unbooked
      PROVE  LedgerInv'
  <2>1. /\ Sound(Closed(ledger, n, mark, S))
        /\ Balance(Closed(ledger, n, mark, S)) + unbooked' = 0 /\ unbooked' \in Int
    BY <1>0, <1>1, ClosedBalances
  <2>. QED  BY <1>1, <2>1, Settled DEF Statuses
<1>2. ASSUME NEW S \in Selections, NEW mark \in [S -> Marks], Close(S, mark)
      PROVE  LedgerInv'
  <2>. DEFINE n == [i \in S |-> Open(ledger.legs[i])]
  <2>1. Contracted(ledger.legs, n, S)
    BY <1>0, <1>s DEF Contracted
  <2>. QED  BY <1>1, <1>2, <1>s, <2>1 DEF Close
<1>3. ASSUME NEW S \in Selections, NEW mark \in [S -> Marks], NEW q \in Contracts,
             PartialClose(S, q, mark)
      PROVE  LedgerInv'
  <2>. DEFINE n == [i \in S |-> q]
  <2>1. Contracted(ledger.legs, n, S)
    BY <1>3, <1>s, MarketTypes DEF Contracted, PartialClose
  <2>. QED  BY <1>1, <1>3, <1>s, <2>1 DEF PartialClose
<1>4. ASSUME NEW i \in DOMAIN ledger.legs, NEW mark \in Marks, NEW premium \in Marks,
             NEW strike \in Strikes, NEW expiration \in Expirations,
             Roll(i, mark, premium, strike, expiration)
      PROVE  LedgerInv'
  <2>. DEFINE leg == ledger.legs[i]
              q   == Open(leg)
              new == [leg EXCEPT !.strike = strike, !.expiration = expiration,
                                 !.premium = premium, !.quantity = q, !.closed = 0]
              n   == [k \in {i} |-> q]
              price == [k \in {i} |-> mark]
              old == Closed(ledger, n, price, {i})
              both == [old EXCEPT !.cash = @ - CostOf(new, q), !.legs = Append(@, new)]
  <2>1. Accepts /\ Settle(both, "open") /\ UNCHANGED unbooked
    BY <1>4 DEF Roll
  <2>2. leg \in Leg /\ q \in Nat
    BY <1>0
  <2>3. Contracted(ledger.legs, n, {i}) /\ price \in [{i} -> Marks]
    BY <2>2 DEF Contracted
  <2>4. Sound(old) /\ Balance(old) = Balance(ledger)
    <3>. HIDE DEF n, price
    <3>. QED  BY <1>0, <2>3, ClosedBalances
  <2>5. new \in Leg /\ new.closed = 0 /\ new.quantity = q
    <3>1. strike \in Nat /\ premium \in Nat
      BY MarketTypes
    <3>. HIDE DEF leg, q
    <3>. QED  BY <2>2, <3>1 DEF Leg
  <2>. HIDE DEF old, new, q, leg
  <2>6. Sound(both) /\ Balance(both) = Balance(old)
    <3>1. both = [old EXCEPT !.cash = @ - CostOf(new, new.quantity), !.legs = Append(@, new)]
      BY <2>5
    <3>. HIDE DEF both
    <3>. QED  BY <2>4, <2>5, <3>1, AddedBalances
  <2>. HIDE DEF both
  <2>7. Balance(both) + unbooked' = 0 /\ unbooked' \in Int
    BY <1>0, <2>1, <2>4, <2>6
  <2>. QED  BY <2>1, <2>6, <2>7, Settled DEF Statuses
<1>5. ASSUME NEW i \in DOMAIN ledger.legs, NEW q \in Contracts,
             NEW status \in {"exercised", "assigned"}, Exercise(i, q, status)
      PROVE  LedgerInv'
  <2>. DEFINE leg == ledger.legs[i]
              shares == Delivered(leg, q)
              n == [k \in {i} |-> q]
              trade == ShareTrade(ledger, shares, leg.strike)
              less == LessContracts(trade, n, {i})
              r == Rounding(ledger, shares, leg.strike)
              p == PremiumOf(ledger, n, {i})
  <2>1. /\ Accepts /\ q <= Open(leg) /\ Settle(less, status)
        /\ unbooked' = unbooked + r + p
    BY <1>5 DEF Exercise
  <2>2. leg \in Leg /\ q \in Nat \ {0} /\ leg.strike \in Nat
    BY <1>0, LegType, MarketTypes
  <2>3. shares \in Int \ {0}
    <3>1. Direction(leg) \in {1, -1} /\ Lot \in Nat \ {0}
      BY <2>2, LegType, MarketTypes
    <3>. DEFINE x == q * Lot
                d == Direction(leg)
                sign == IF leg.type = "call" THEN 1 ELSE -1
    <3>2. x \in Nat \ {0} /\ sign \in {1, -1} /\ d \in {1, -1}
      BY <2>2, <3>1
    <3>3. shares = x * d * sign
      BY DEF Delivered
    <3>. HIDE DEF x, d, sign, shares
    <3>. QED  BY <3>2, <3>3
  <2>4. Sound(trade) /\ trade.legs = ledger.legs /\ r \in Int /\ Balance(trade) = Balance(ledger) - r
    <3>. HIDE DEF shares
    <3>. QED  BY <1>0, <2>2, <2>3, TradeBalances
  <2>5. Contracted(ledger.legs, n, {i})
    BY <2>1, <2>2 DEF Contracted
  <2>6. PremiumOf(trade, n, {i}) = p
    <3>. HIDE DEF trade, n
    <3>. QED  BY <2>4 DEF PremiumOf
  <2>. HIDE DEF trade, r, p, n
  <2>7. Sound(less) /\ p \in Int /\ Balance(less) = Balance(trade) - p
    BY <2>4, <2>5, <2>6, LessBalances
  <2>. HIDE DEF less
  <2>8. unbooked' \in Int /\ Balance(less) + unbooked' = 0
    BY <1>0, <2>1, <2>4, <2>7
  <2>. QED  BY <2>1, <2>7, <2>8, Settled DEF Statuses
<1>6. ASSUME NEW S \in Selections, NEW price \in Quotes, Expire(S, price)
      PROVE  LedgerInv'
  <2>. DEFINE n == [i \in S |-> Open(ledger.legs[i])]
              less == LessContracts(ledger, n, S)
              p == PremiumOf(ledger, n, S)
  <2>1. Accepts /\ Settle(less, "expired") /\ unbooked' = unbooked + p
    BY <1>6 DEF Expire
  <2>2. Contracted(ledger.legs, n, S)
    BY <1>0, <1>s DEF Contracted
  <2>. HIDE DEF n
  <2>3. Sound(less) /\ p \in Int /\ Balance(less) = Balance(ledger) - p
    BY <1>0, <2>2, LessBalances
  <2>. HIDE DEF less, p
  <2>4. unbooked' \in Int /\ Balance(less) + unbooked' = 0
    BY <1>0, <2>1, <2>3
  <2>. QED  BY <2>1, <2>3, <2>4, Settled DEF Statuses
<1>. QED  BY <1>2, <1>3, <1>4, <1>5, <1>6 DEF LegEvent

LEMMA LedgerStep ==
    ASSUME LedgerInv, [LedgerNext]_ledgerVars
    PROVE  LedgerInv'
<1>1. CASE Hold
  BY <1>1, OptionAssumption DEF Hold, Accepts, LedgerInv
<1>2. ASSUME NEW leg \in AddedLegs, AddLeg(leg)
      PROVE  LedgerInv'
  <2>. DEFINE more == [ledger EXCEPT !.cash = @ - CostOf(leg, leg.quantity), !.legs = Append(@, leg)]
  <2>1. Accepts /\ Settle(more, "open") /\ UNCHANGED unbooked
    BY <1>2 DEF AddLeg
  <2>2. leg \in Leg /\ leg.closed = 0
    BY OptionAssumption
  <2>3. Sound(more) /\ Balance(more) = Balance(ledger)
    BY <2>2, LedgerFacts, AddedBalances
  <2>. HIDE DEF more
  <2>. QED  BY <2>1, <2>3, LedgerFacts, Settled DEF Statuses
<1>3. CASE UNCHANGED ledgerVars
  BY <1>3 DEF ledgerVars, LedgerInv
<1>. QED  BY <1>1, <1>2, <1>3, SharesStep, LegsStep DEF LedgerNext

LEMMA LedgerBegins == LedgerInit => LedgerInv
<1>. SUFFICES ASSUME NEW request \in Requests, ledger = Opened(request), unbooked = 0, events = 0
              PROVE  LedgerInv
  BY DEF LedgerInit
<1>. DEFINE basis == IF request.shares = 0 THEN 0 ELSE request.basis
            l == [status |-> "open", legs |-> request.legs, shares |-> request.shares,
                  basis |-> basis, cash |-> 0, realized |-> 0]
            o == OpenCost(l)
            paid == request.shares * request.basis
<1>1. /\ request.legs \in Seq(Leg) /\ request.shares \in Nat /\ request.basis \in Nat
      /\ \A i \in DOMAIN request.legs : request.legs[i].closed = 0
  BY OptionAssumption
<1>2. request.legs \in Legs
  <2>1. ASSUME NEW i \in DOMAIN request.legs
        PROVE  request.legs[i].closed <= request.legs[i].quantity
    <3>1. request.legs[i] \in Leg
      BY <1>1
    <3>. QED  BY <1>1, <3>1, LegType
  <2>. QED  BY <1>1, <2>1 DEF Legs
<1>3. basis \in Nat /\ paid = request.shares * basis /\ paid \in Nat
  <2>. DEFINE n == request.shares
              b == request.basis
  <2>1. n \in Nat /\ b \in Nat
    BY <1>1
  <2>2. n * b \in Nat /\ n * 0 = 0 /\ 0 * b = 0
    <3>. HIDE DEF n, b
    <3>. QED  BY <2>1
  <2>3. CASE n = 0
    <3>1. basis = 0 /\ paid = 0 * b
      BY <2>3
    <3>. HIDE DEF b
    <3>2. paid = 0
      BY <2>2, <3>1
    <3>3. request.shares * basis = 0
      BY <2>3, <3>1
    <3>. QED  BY <3>1, <3>2, <3>3
  <2>4. CASE n # 0
    <3>1. basis = b /\ paid = n * b
      BY <2>4
    <3>. QED  BY <2>1, <2>2, <3>1
  <2>. QED  BY <2>3, <2>4
<1>4. o \in Int
  BY <1>1, OpenCostType
<1>5. ledger = [l EXCEPT !.cash = -o - paid]
  BY DEF Opened
<1>. HIDE DEF o, paid, basis
<1>6. /\ ledger = [status |-> "open", legs |-> request.legs, shares |-> request.shares,
                   basis |-> basis, cash |-> -o - paid, realized |-> 0]
  BY <1>5
<1>7. Sound(ledger)
  BY <1>1, <1>2, <1>3, <1>4, <1>6 DEF Sound, LedgerRow
<1>8. OpenCost(ledger) = o
  BY <1>6 DEF OpenCost, o
<1>9. Balance(ledger) = 0
  <2>1. ledger.shares * ledger.basis = paid
    BY <1>3, <1>6
  <2>2. Balance(ledger) = -o - paid - 0 + paid + o
    BY <1>6, <1>8, <2>1 DEF Balance
  <2>. QED  BY <1>3, <1>4, <2>2
<1>. QED  BY <1>7, <1>9, OptionAssumption DEF LedgerInv

\* Types, and a ledger in balance, in every state
THEOREM LedgerInvariant == LedgerSpec => []LedgerInv
  BY LedgerBegins, LedgerStep, PTL DEF LedgerSpec

\* After any events the cash is the realized profit less what the open shares and
\* contracts cost and the premium that was never booked (apply_event,
\* apply_share_trade).
THEOREM LedgerBalances == LedgerSpec => []LedgerReconciles
<1>1. LedgerInv => LedgerReconciles
  <2>. SUFFICES ASSUME LedgerInv PROVE LedgerReconciles
    OBVIOUS
  <2>. DEFINE x == ledger.shares * ledger.basis
              o == OpenCost(ledger)
  <2>1. ledger \in LedgerRow /\ unbooked \in Int /\ Balance(ledger) = -unbooked /\ ledger.legs \in Seq(Leg)
    BY LedgerFacts
  <2>2. o \in Int /\ x \in Int /\ ledger.cash \in Int /\ ledger.realized \in Int
    BY <2>1, OpenCostType DEF LedgerRow
  <2>3. Balance(ledger) = ledger.cash - ledger.realized + x + o
    BY DEF Balance
  <2>4. LedgerReconciles <=> ledger.cash = ledger.realized - x - o - unbooked
    BY DEF LedgerReconciles
  <2>. HIDE DEF x, o
  <2>. QED  BY <2>1, <2>2, <2>3, <2>4
<1>. QED  BY <1>1, LedgerInvariant, PTL

-----------------------------------------------------------------------------
\* The structure's name and the shares behind it

\* What classify_position asks of a covered call or a conversion
Backed(l) ==
    LET all == AllShares(l, OfKind(l, "short", "call"))
    IN  l.shares = all \/ l.shares >= all

Covering == {"Covered Call", "Covered Call + Short Put", "Conversion"}

LEMMA CoveredByStructure ==
    ASSUME NEW l, Structure(l) \in Covering
    PROVE  Backed(l)
<1>1. CASE IsConversion(l)
  BY <1>1 DEF IsConversion, Backed
<1>2. CASE ~IsConversion(l)
  BY <1>2 DEF Structure, Backed, Covering
<1>. QED  BY <1>1, <1>2

LEMMA KindFacts ==
    ASSUME NEW l, Sound(l), NEW side, NEW type
    PROVE  /\ IsFiniteSet(OfKind(l, side, type)) /\ IsFiniteSet(DOMAIN l.legs)
           /\ OfKind(l, side, type) \subseteq DOMAIN l.legs
           /\ \A i \in DOMAIN l.legs : /\ l.legs[i] \in Leg
                                       /\ Open(l.legs[i]) \in Nat
                                       /\ Open(l.legs[i]) <= l.legs[i].quantity
           /\ \A i \in OfKind(l, side, type) : /\ l.legs[i].side = side /\ l.legs[i].type = type
                                               /\ Open(l.legs[i]) > 0
<1>1. l.legs \in Seq(Leg) /\ \A i \in DOMAIN l.legs : l.legs[i].closed <= l.legs[i].quantity
  BY DEF Sound, Legs
<1>2. OfKind(l, side, type) \in SUBSET DOMAIN l.legs
  BY DEF OfKind, OpenLegs
<1>3. /\ IsFiniteSet(OfKind(l, side, type)) /\ IsFiniteSet(DOMAIN l.legs)
      /\ \A i \in DOMAIN l.legs : l.legs[i] \in Leg
  BY <1>1, <1>2, LegsFinite
<1>. QED  BY <1>1, <1>2, <1>3, LegType DEF OfKind, OpenLegs

LEMMA SoundIsCovered ==
    ASSUME NEW l, Sound(l), l.shares \in Int, Backed(l)
    PROVE  l.shares >= SumFunction([i \in OfKind(l, "short", "call") |-> Open(l.legs[i]) * Lot])
<1>. DEFINE calls == OfKind(l, "short", "call")
            f == [i \in calls |-> Open(l.legs[i]) * Lot]
            g == [i \in calls |-> l.legs[i].quantity * Lot]
<1>1. ASSUME NEW i \in calls
      PROVE  f[i] \in Int /\ g[i] \in Int /\ f[i] <= g[i]
  <2>. DEFINE m == Open(l.legs[i])
              n == l.legs[i].quantity
  <2>1. m \in Nat /\ n \in Nat /\ m <= n /\ Lot \in Nat
    BY KindFacts, LegType, MarketTypes
  <2>2. f[i] = m * Lot /\ g[i] = n * Lot
    OBVIOUS
  <2>. HIDE DEF m, n, f, g
  <2>3. m * Lot <= n * Lot /\ m * Lot \in Int /\ n * Lot \in Int
    <3>. DEFINE more == n - m
    <3>1. more \in Nat /\ n = m + more
      BY <2>1
    <3>. HIDE DEF more
    <3>2. more * Lot \in Nat /\ m * Lot \in Nat /\ n * Lot = m * Lot + more * Lot
      BY <2>1, <3>1
    <3>. QED  BY <3>2
  <2>. QED  BY <2>2, <2>3
<1>2. IsFiniteSet(calls)
  BY KindFacts
<1>3. SumFunction(f) = SumFunctionOnSet(f, calls) /\ SumFunction(g) = SumFunctionOnSet(g, calls)
  BY DEF SumFunction
<1>4. AllShares(l, calls) = SumFunction(g)
  BY DEF AllShares
<1>. HIDE DEF f, g, calls
<1>5. SumFunction(f) <= SumFunction(g) /\ SumFunction(f) \in Int /\ SumFunction(g) \in Int
  BY <1>1, <1>2, <1>3, SumsGrow, SumInteger
<1>6. l.shares = AllShares(l, calls) \/ l.shares >= AllShares(l, calls)
  BY DEF Backed, calls
<1>7. l.shares >= SumFunction(f)
  <2>. DEFINE x == SumFunction(f)
              y == SumFunction(g)
  <2>1. l.shares = y \/ l.shares >= y
    BY <1>4, <1>6
  <2>2. x <= y /\ x \in Int /\ y \in Int
    BY <1>5
  <2>. HIDE DEF x, y
  <2>3. l.shares >= x
    BY <2>1, <2>2
  <2>. QED  BY <2>3 DEF x
<1>. QED  BY <1>7 DEF f, calls

\* What classify_position calls covered has the shares for its open short calls,
\* although it looks at the quantities of closed legs too.
THEOREM CoveredCallsHaveShares == LedgerSpec => []CoveredMeansCovered
<1>1. LedgerInv => CoveredMeansCovered
  <2>. DEFINE Enough == ledger.shares >= SumFunction([i \in OfKind(ledger, "short", "call") |->
                                                         Open(ledger.legs[i]) * Lot])
  <2>1. LedgerInv => Sound(ledger) /\ ledger.shares \in Int
    BY LedgerFacts DEF LedgerRow
  <2>2. LedgerInv /\ Backed(ledger) => Enough
    BY <2>1, SoundIsCovered
  <2>3. (Backed(ledger) => Enough) => CoveredMeansCovered
    <3>1. CoveredMeansCovered <=> (Structure(ledger) \in Covering => Enough)
      BY DEF CoveredMeansCovered, Covering
    <3>. HIDE DEF Enough
    <3>. QED  BY <3>1, CoveredByStructure
  <2>. HIDE DEF Enough
  <2>. QED  BY <2>2, <2>3
<1>. QED  BY <1>1, LedgerInvariant, PTL

-----------------------------------------------------------------------------
\* What one short put can lose, and the collateral that is held for it

LEMMA LeastFacts ==
    ASSUME NEW m \in Nat, NEW n \in Nat
    PROVE  /\ Least(m, n) \in Nat /\ Least(m, n) <= m /\ Least(m, n) <= n
           /\ Least(m, n) \in {m, n}
  BY DEF Least

LEMMA NearestProtects ==
    ASSUME NEW l, Sound(l), NEW i \in DOMAIN l.legs, Protective(l, i) # {}
    PROVE  Nearest(l, i) \in Protective(l, i)
<1>. DEFINE P == Protective(l, i)
            distance == [k \in P |-> Abs(l.legs[k].strike - l.legs[i].strike)]
            near == {k \in P : \A m \in P : distance[k] <= distance[m]}
<1>1. P \subseteq OfKind(l, "long", l.legs[i].type) /\ P \subseteq DOMAIN l.legs
  BY KindFacts DEF Protective
<1>2. IsFiniteSet(P) /\ \A k \in DOMAIN l.legs : l.legs[k] \in Leg
  BY <1>1, KindFacts, FS_Subset
<1>3. \A k \in P : distance[k] \in Int
  BY <1>1, <1>2, LegType DEF Abs
<1>4. near # {}
  <2>. HIDE DEF distance, P
  <2>1. P # {}
    BY DEF P
  <2>2. \E k \in P : \A m \in P : distance[k] <= distance[m]
    BY <1>2, <1>3, <2>1, FunctionHasExtremes
  <2>. QED  BY <2>2
<1>5. P \subseteq Int
  <2>1. l.legs \in Seq(Leg)
    BY DEF Sound, Legs
  <2>. QED  BY <1>1, <2>1
<1>6. near \in SUBSET Int /\ near \subseteq P
  BY <1>5
<1>7. Nearest(l, i) = CHOOSE k \in near : \A m \in near : k <= m
  <2>1. near = {k \in P : \A m \in P : Abs(l.legs[k].strike - l.legs[i].strike)
                                       <= Abs(l.legs[m].strike - l.legs[i].strike)}
    OBVIOUS
  <2>. QED  BY <2>1 DEF Nearest
<1>. HIDE DEF near, P
<1>8. IsFiniteSet(near)
  BY <1>2, <1>6, FS_Subset
<1>9. \E k \in near : \A m \in near : k <= m
  BY <1>4, <1>6, <1>8, FiniteSetHasExtremes
<1>. QED  BY <1>6, <1>7, <1>9 DEF P

LEMMA CoveredBounds ==
    ASSUME NEW l, Sound(l), l.shares \in Int, NEW i \in DOMAIN l.legs
    PROVE  /\ CoveredCalls(l, i) \in Int /\ CoveredCalls(l, i) <= Open(l.legs[i])
           /\ l.legs[i].type = "put" => CoveredCalls(l, i) = 0
<1>. DEFINE B == {k \in OfKind(l, "short", "call") : k < i}
            f == [k \in B |-> Open(l.legs[k])]
            before == SumFunction(f)
            lots == l.shares \div Lot
            o == Open(l.legs[i])
<1>1. IsFiniteSet(B) /\ \A k \in B : f[k] \in Int
  BY KindFacts, FS_Subset
<1>2. before \in Int
  <2>1. SumFunction(f) = SumFunctionOnSet(f, B)
    BY DEF SumFunction
  <2>. HIDE DEF f, B
  <2>. QED  BY <1>1, <2>1, SumInteger
<1>3. lots \in Int
  BY MarketTypes
<1>4. o \in Nat
  BY KindFacts
<1>5. CoveredCalls(l, i) =
        IF l.legs[i].type = "call" /\ (before = 0 \/ lots > before)
        THEN Least(o, lots - before) ELSE 0
  BY DEF CoveredCalls
<1>. HIDE DEF before, lots, o
<1>6. lots - before \in Int /\ Least(o, lots - before) <= o /\ Least(o, lots - before) \in Int
  BY <1>2, <1>3, <1>4 DEF Least
<1>. QED  BY <1>4, <1>5, <1>6 DEF o

LEMMA ProtectedBounds ==
    ASSUME NEW l, Sound(l), l.shares \in Int, NEW i \in DOMAIN l.legs
    PROVE  /\ Protected(l, i) \in Nat
           /\ Protected(l, i) <= Open(l.legs[i]) - CoveredCalls(l, i)
           /\ Protective(l, i) # {} => Protected(l, i) <= Open(l.legs[Nearest(l, i)])
<1>. DEFINE rest == Open(l.legs[i]) - CoveredCalls(l, i)
            n == Nearest(l, i)
<1>1. rest \in Nat
  BY CoveredBounds, KindFacts
<1>2. CASE Protective(l, i) = {}
  BY <1>1, <1>2 DEF Protected
<1>3. CASE Protective(l, i) # {}
  <2>1. n \in DOMAIN l.legs
    BY <1>3, NearestProtects, KindFacts DEF Protective
  <2>2. Open(l.legs[n]) \in Nat
    BY <2>1, KindFacts
  <2>3. Protected(l, i) = Least(rest, Open(l.legs[n]))
    BY <1>3 DEF Protected
  <2>. HIDE DEF rest, n
  <2>. QED  BY <1>1, <2>2, <2>3, LeastFacts DEF rest, n
<1>. QED  BY <1>2, <1>3

LEMMA CollateralIsNatural ==
    ASSUME NEW l, Sound(l), l.shares \in Int, NEW i \in DOMAIN l.legs
    PROVE  LegCollateral(l, i) \in Nat
<1>. DEFINE p == Protected(l, i)
            rest == Open(l.legs[i]) - CoveredCalls(l, i) - p
            width == IF p = 0 THEN 0 ELSE Abs(l.legs[Nearest(l, i)].strike - l.legs[i].strike)
            K == l.legs[i].strike
            naked == IF l.legs[i].type = "put" THEN K * rest ELSE 0
<1>1. p \in Nat /\ rest \in Nat
  BY ProtectedBounds, CoveredBounds, KindFacts
<1>2. width \in Nat
  <2>1. CASE p = 0
    BY <2>1
  <2>2. CASE p # 0
    <3>1. Protective(l, i) # {}
      BY <2>2 DEF Protected
    <3>2. l.legs[Nearest(l, i)] \in Leg /\ l.legs[i] \in Leg
      BY <3>1, NearestProtects, KindFacts DEF Protective
    <3>. QED  BY <2>2, <3>2, LegType DEF Abs
  <2>. QED  BY <2>1, <2>2
<1>3. K \in Nat
  BY KindFacts, LegType
<1>4. naked \in Nat
  <2>. HIDE DEF K, rest
  <2>1. K * rest \in Nat
    BY <1>1, <1>3
  <2>. QED  BY <2>1
<1>5. LegCollateral(l, i) = (width * p + naked) * Lot
  BY DEF LegCollateral
<1>. HIDE DEF width, p, naked
<1>6. width * p \in Nat
  BY <1>1, <1>2
<1>7. width * p + naked \in Nat
  BY <1>4, <1>6
<1>. DEFINE x == width * p + naked
<1>. HIDE DEF x
<1>8. x * Lot \in Nat
  BY <1>7, MarketTypes DEF x
<1>. QED  BY <1>5, <1>8 DEF x

\* What a put can lose, and what is set aside for it: K and K2 are the strikes
\* of the put and of the one that protects it, n the contracts of the put, m
\* those of the other, of which p are counted.
LEMMA PutArithmetic ==
    ASSUME NEW K \in Nat, NEW K2 \in Nat, NEW price \in Nat, NEW n \in Nat, NEW m \in Nat,
           NEW p \in Nat, NEW fall \in Nat,
           price <= K, p <= n, p <= m, fall >= K2 - price
    PROVE  n * (K - price) - m * fall <= (K - K2) * p + K * (n - p)
<1>. DEFINE r == n - p
<1>1. r \in Nat /\ n = p + r
  OBVIOUS
<1>. HIDE DEF r
<1>. DEFINE a == p * (K - price)   b == r * (K - price)   c == p * fall   d == m * fall
            e == p * (K - K2)      f == r * K
<1>2. n * (K - price) = a + b
  BY <1>1
<1>3. b <= f
  <2>1. K - price \in Nat /\ K - price <= K
    OBVIOUS
  <2>. DEFINE x == K - price
  <2>. HIDE DEF x
  <2>2. r * x <= r * K
    BY <1>1, <2>1 DEF x
  <2>. QED  BY <2>2 DEF x
<1>4. c <= d
  OBVIOUS
<1>5. a - c <= e
  <2>. DEFINE x == K - price - fall
              y == K - K2
  <2>1. x \in Int /\ y \in Int /\ x <= y
    OBVIOUS
  <2>2. a - c = p * x /\ e = p * y
    OBVIOUS
  <2>. HIDE DEF x, y, a, c, e
  <2>3. p * x <= p * y
    BY <2>1
  <2>. QED  BY <2>2, <2>3
<1>6. (K - K2) * p = e /\ K * (n - p) = f
  BY <1>1 DEF r
<1>7. a \in Int /\ b \in Int /\ c \in Int /\ d \in Int /\ e \in Int /\ f \in Int
  BY <1>1
<1>8. m * fall = d
  OBVIOUS
<1>. HIDE DEF a, b, c, d, e, f
<1>. QED  BY <1>2, <1>3, <1>4, <1>5, <1>6, <1>7, <1>8

\* The loss of the legs at a price
LossAt(l, price) ==
    [k \in DOMAIN l.legs |-> Open(l.legs[k]) * Lot * Max({l.legs[k].strike - price, 0})]

LEMMA LossFacts ==
    ASSUME NEW l, Sound(l), NEW price \in Nat, NEW k \in DOMAIN l.legs
    PROVE  /\ LossAt(l, price)[k] \in Nat
           /\ \E fall \in Nat : /\ LossAt(l, price)[k] = Open(l.legs[k]) * fall * Lot
                                /\ fall >= l.legs[k].strike - price
                                /\ price <= l.legs[k].strike => fall = l.legs[k].strike - price
<1>. DEFINE o == Open(l.legs[k])
            K == l.legs[k].strike
            fall == Max({K - price, 0})
<1>1. o \in Nat /\ K \in Nat /\ Lot \in Nat
  BY KindFacts, LegType, MarketTypes
<1>2. LossAt(l, price)[k] = o * Lot * fall
  BY DEF LossAt
<1>. HIDE DEF o, K
<1>3. fall \in Nat /\ fall >= K - price /\ (price <= K => fall = K - price)
  <2>. DEFINE d == K - price
  <2>1. d \in Int /\ (price <= K => d >= 0)
    BY <1>1
  <2>. HIDE DEF d
  <2>2. fall \in {d, 0} /\ fall >= d /\ fall >= 0
    BY <2>1, MaxOfTwo DEF d
  <2>3. fall \in Nat /\ fall >= d /\ (price <= K => fall = d)
    <3>. HIDE DEF fall
    <3>. QED  BY <2>1, <2>2
  <2>. QED  BY <2>3 DEF d
<1>. HIDE DEF fall
<1>4. o * Lot * fall \in Nat /\ o * Lot * fall = o * fall * Lot
  BY <1>1, <1>3
<1>. QED  BY <1>2, <1>3, <1>4 DEF o, K

LEMMA OneCollateral ==
    ASSUME NEW l, Sound(l), l.shares \in Int, NEW i \in OfKind(l, "short", "put")
    PROVE  LegCollateral(l, i) <= Collateral(l) /\ Collateral(l) \in Nat
<1>. DEFINE f == [k \in ShortLegs(l) |-> LegCollateral(l, k)]
<1>1. IsFiniteSet(ShortLegs(l)) /\ ShortLegs(l) \subseteq DOMAIN l.legs /\ i \in ShortLegs(l)
  BY KindFacts, FS_Union DEF ShortLegs
<1>2. \A k \in ShortLegs(l) : f[k] \in Nat
  BY <1>1, CollateralIsNatural
<1>3. Collateral(l) = SumFunctionOnSet(f, ShortLegs(l)) /\ f[i] = LegCollateral(l, i)
  BY <1>1 DEF Collateral, SumFunction
<1>. HIDE DEF f
<1>. QED  BY <1>1, <1>2, <1>3, SumBoundsTerm, SumNatural

LEMMA PutIsSecured ==
    ASSUME NEW l, Sound(l), l.shares \in Int, NEW i \in OfKind(l, "short", "put"),
           NEW price \in 0 .. l.legs[i].strike
    PROVE  PutLoss(l, i, price) <= LegCollateral(l, i) /\ PutLoss(l, i, price) \in Int
<1>. DEFINE loss == LossAt(l, price)
            P == Protective(l, i)
            rest == SumFunctionOnSet(loss, P)
            K == l.legs[i].strike
            n == Open(l.legs[i])
            p == Protected(l, i)
<1>1. PutLoss(l, i, price) = loss[i] - rest
  BY DEF PutLoss, LossAt
<1>2. /\ i \in DOMAIN l.legs /\ l.legs[i].type = "put"
      /\ K \in Nat /\ n \in Nat /\ Lot \in Nat /\ price \in Nat /\ price <= K
  BY KindFacts, LegType, MarketTypes
<1>3. loss[i] \in Nat /\ loss[i] = n * (K - price) * Lot
  <2>1. PICK fall \in Nat : /\ loss[i] = n * fall * Lot
                            /\ price <= K => fall = K - price
    BY <1>2, LossFacts
  <2>2. fall = K - price
    BY <1>2, <2>1
  <2>3. loss[i] \in Nat
    BY <1>2, LossFacts
  <2>. QED  BY <2>1, <2>2, <2>3
<1>4. /\ P \subseteq DOMAIN l.legs /\ IsFiniteSet(P)
      /\ \A k \in P : l.legs[k].strike < K
  BY <1>2, KindFacts, FS_Subset DEF Protective
<1>5. \A k \in P : loss[k] \in Nat
  BY <1>2, <1>4, LossFacts
<1>6. rest \in Nat /\ (P = {} => rest = 0)
  <2>. HIDE DEF loss, P
  <2>. QED  BY <1>4, <1>5, SumNatural, SumOfNone
<1>7. CoveredCalls(l, i) = 0 /\ p \in Nat /\ p <= n
  BY <1>2, CoveredBounds, ProtectedBounds
<1>8. CASE P = {}
  <2>1. p = 0
    BY <1>8 DEF Protected
  <2>2. LegCollateral(l, i) = (0 * 0 + K * (n - 0 - 0)) * Lot
    BY <1>2, <1>7, <2>1 DEF LegCollateral
  <2>. HIDE DEF loss, rest, K, n
  <2>3. n * (K - price) * Lot <= K * n * Lot
    <3>. DEFINE x == n * (K - price)
                y == n * price
    <3>1. x \in Int /\ y \in Nat /\ K * n = x + y
      BY <1>2
    <3>. HIDE DEF x, y
    <3>2. (x + y) * Lot = x * Lot + y * Lot /\ y * Lot \in Nat /\ x * Lot \in Int
      BY <1>2, <3>1
    <3>3. x * Lot <= (x + y) * Lot
      BY <3>2
    <3>. QED  BY <3>1, <3>3 DEF x
  <2>4. LegCollateral(l, i) = K * n * Lot
    BY <1>2, <2>2
  <2>. QED  BY <1>1, <1>3, <1>6, <1>8, <2>3, <2>4
<1>9. CASE P # {}
  <2>. DEFINE near == Nearest(l, i)
              m == Open(l.legs[near])
              K2 == l.legs[near].strike
  <2>1. near \in P
    BY <1>2, <1>9, NearestProtects
  <2>2. m \in Nat /\ m > 0 /\ K2 \in Nat /\ K2 < K /\ n > 0
    <3>1. near \in OfKind(l, "long", "put")
      BY <1>2, <2>1 DEF Protective
    <3>. QED  BY <1>4, <2>1, <3>1, KindFacts, LegType
  <2>3. p <= m /\ p # 0
    <3>1. p = Least(n - 0, m)
      BY <1>7, <1>9 DEF Protected
    <3>2. p <= m
      BY <1>2, <1>9, ProtectedBounds
    <3>. HIDE DEF p, n, m
    <3>3. p # 0
      BY <1>2, <2>2, <3>1 DEF Least
    <3>. QED  BY <3>2, <3>3
  <2>4. PICK fall \in Nat : loss[near] = m * fall * Lot /\ fall >= K2 - price
    BY <1>2, <1>4, <2>1, LossFacts
  <2>5. loss[near] <= rest
    <3>. HIDE DEF loss, P, near
    <3>. QED  BY <1>4, <1>5, <2>1, SumBoundsTerm
  <2>6. LegCollateral(l, i) = (Abs(K2 - K) * p + K * (n - 0 - p)) * Lot
    BY <1>2, <1>7, <2>3 DEF LegCollateral
  <2>7. Abs(K2 - K) = K - K2
    <3>. HIDE DEF K, K2
    <3>. QED  BY <1>2, <2>2 DEF Abs
  <2>. HIDE DEF loss, rest, P, K, n, p, near, m, K2
  <2>. DEFINE a == n * (K - price)
              b == m * fall
              c == (K - K2) * p + K * (n - p)
  <2>8. a - b <= c /\ a \in Int /\ b \in Int /\ c \in Int
    <3>1. a - b <= c
      BY <1>2, <1>7, <2>2, <2>3, <2>4, PutArithmetic
    <3>. QED  BY <1>2, <1>7, <2>2, <2>4, <3>1
  <2>9. LegCollateral(l, i) = c * Lot
    <3>1. n - 0 - p = n - p
      BY <1>2, <1>7
    <3>. QED  BY <2>6, <2>7, <3>1
  <2>10. loss[i] = a * Lot /\ loss[near] = b * Lot
    BY <1>3, <2>4
  <2>. HIDE DEF a, b, c
  <2>11. a * Lot - b * Lot <= c * Lot
    <3>. DEFINE d == c - (a - b)
    <3>1. d \in Nat /\ c = (a - b) + d
      BY <2>8
    <3>. HIDE DEF d
    <3>2. c * Lot = (a * Lot - b * Lot) + d * Lot /\ d * Lot \in Nat
      BY <1>2, <2>8, <3>1
    <3>3. a * Lot \in Int /\ b * Lot \in Int
      BY <1>2, <2>8
    <3>. QED  BY <3>2, <3>3
  <2>12. a * Lot \in Int /\ b * Lot \in Int /\ c * Lot \in Int
    BY <1>2, <2>8
  <2>13. a * Lot - rest <= c * Lot
    <3>. DEFINE x == a * Lot
                y == b * Lot
                z == c * Lot
    <3>1. x \in Int /\ y \in Int /\ z \in Int /\ x - y <= z /\ y <= rest /\ rest \in Nat
      BY <1>6, <2>5, <2>10, <2>11, <2>12
    <3>. HIDE DEF x, y, z
    <3>2. x - rest <= z
      BY <3>1
    <3>. QED  BY <3>2 DEF x, z
  <2>. QED  BY <1>1, <1>3, <1>6, <2>9, <2>10, <2>13
<1>. QED  BY <1>8, <1>9

\* The collateral of one short put is never less than what it can lose against the
\* long puts that protect it, at any price (position_collateral).
THEOREM CollateralIsEnough == LedgerSpec => []CollateralSecuresPut
<1>1. LedgerInv => CollateralSecuresPut
  <2>. SUFFICES ASSUME LedgerInv, NEW i \in OfKind(ledger, "short", "put"),
                       NEW price \in 0 .. ledger.legs[i].strike
                PROVE  PutLoss(ledger, i, price) <= Collateral(ledger)
    BY DEF CollateralSecuresPut
  <2>1. Sound(ledger) /\ ledger.shares \in Int
    BY LedgerFacts DEF LedgerRow
  <2>2. PutLoss(ledger, i, price) <= LegCollateral(ledger, i) /\ PutLoss(ledger, i, price) \in Int
    BY <2>1, PutIsSecured
  <2>3. LegCollateral(ledger, i) <= Collateral(ledger) /\ Collateral(ledger) \in Nat
    BY <2>1, OneCollateral
  <2>4. LegCollateral(ledger, i) \in Nat
    BY <2>1, KindFacts, CollateralIsNatural
  <2>. QED  BY <2>2, <2>3, <2>4
<1>. QED  BY <1>1, LedgerInvariant, PTL

=============================================================================
