------------------------------ MODULE FiniteSums ------------------------------
(***************************************************************************)
(* Facts that the proofs about money need.  The sum of a function of       *)
(* integers over a finite set does not depend on the order it is taken in, *)
(* is an integer, grows with its terms and is taken apart along its set; a *)
(* finite set of integers has extremes; what goes on from each element to  *)
(* the next exists.  They rest on induction over the numbers and over the  *)
(* subsets of a finite set, stated for a set instead of a predicate.       *)
(***************************************************************************)
EXTENDS Integers, FiniteSetsExt, Functions, FiniteSetTheorems, WellFoundedInduction, TLAPS

-----------------------------------------------------------------------------
\* Induction

\* What holds of a number once it holds of all smaller ones holds of them all.
LEMMA NatInductionOnSet ==
    ASSUME NEW F, 0 \in F, \A n \in Nat : n \in F => n + 1 \in F
    PROVE  Nat \subseteq F
<1>. DEFINE Rest == Nat \ F
<1>1. SUFFICES ASSUME Rest # {} PROVE FALSE
  OBVIOUS
<1>2. PICK n \in Rest : \A m \in Rest : <<m, n>> \notin OpToRel(<, Nat)
  <2>1. Rest \subseteq Nat
    OBVIOUS
  <2>. QED  BY <1>1, <2>1, NatLessThanWellFounded, WFMin
<1>3. n \in Nat /\ n # 0
  OBVIOUS
<1>4. n - 1 \in Nat /\ n - 1 < n /\ (n - 1) + 1 = n
  BY <1>3
<1>5. <<n - 1, n>> \in OpToRel(<, Nat)
  BY <1>3, <1>4 DEF OpToRel
<1>6. n - 1 \in F
  BY <1>2, <1>4, <1>5
<1>. QED  BY <1>3, <1>4, <1>6

\* What holds of a finite set once it holds of all its smaller subsets
LEMMA SubsetInduction ==
    ASSUME NEW S, IsFiniteSet(S), NEW F,
           \A T \in SUBSET S : (\A U \in SUBSET T : U # T => U \in F) => T \in F
    PROVE  S \in F
<1>. DEFINE Rest == (SUBSET S) \ F
<1>1. SUFFICES ASSUME Rest # {} PROVE FALSE
  OBVIOUS
<1>2. PICK T \in Rest : \A U \in Rest : <<U, T>> \notin StrictSubsetOrdering(S)
  <2>1. Rest \subseteq FiniteSubsetsOf(S)
    BY FS_FiniteSubsetsOfFinite
  <2>2. IsWellFoundedOn(StrictSubsetOrdering(S), FiniteSubsetsOf(S))
    BY FS_StrictSubsetOrderingWellFounded
  <2>. HIDE DEF Rest
  <2>. QED  BY <1>1, <2>1, <2>2, WFMin
<1>3. ASSUME NEW U \in SUBSET T, U # T PROVE U \in F
  <2>1. U \in SUBSET S /\ T \in SUBSET S
    OBVIOUS
  <2>2. <<U, T>> \in StrictSubsetOrdering(S)
    BY <1>3, <2>1 DEF StrictSubsetOrdering
  <2>. QED  BY <1>2, <2>1, <2>2
<1>. QED  BY <1>3

-----------------------------------------------------------------------------
\* SumFunctionOnSet obeys its recursion.

\* The element the sum takes first
SomeMember(s) == CHOOSE x \in s : TRUE

\* g is the sum of f for every set of D.
IsSum(g, f, D) ==
    g = [s \in D |-> IF s = {} THEN 0 ELSE f[SomeMember(s)] + g[s \ {SomeMember(s)}]]

LEMMA SumUnfolded ==
    ASSUME NEW f, NEW S
    PROVE  SumFunctionOnSet(f, S) = (CHOOSE g : IsSum(g, f, SUBSET S))[S]
BY DEF SumFunctionOnSet, FoldFunctionOnSet, MapThenFoldSet, IsSum, SomeMember

LEMMA FirstRemoved ==
    ASSUME NEW S, IsFiniteSet(S), NEW s \in SUBSET S, s # {}
    PROVE  /\ SomeMember(s) \in s /\ IsFiniteSet(s) /\ Cardinality(s) \in Nat
           /\ s \ {SomeMember(s)} \in SUBSET S
           /\ IsFiniteSet(s \ {SomeMember(s)})
           /\ Cardinality(s \ {SomeMember(s)}) = Cardinality(s) - 1
           /\ Cardinality(s) # 0
<1>1. SomeMember(s) \in s
  BY DEF SomeMember
<1>2. IsFiniteSet(s)
  BY FS_Subset
<1>3. Cardinality(s) \in Nat
  BY <1>2, FS_CardinalityType
<1>4. Cardinality(s \ {SomeMember(s)}) = Cardinality(s) - 1 /\ IsFiniteSet(s \ {SomeMember(s)})
  BY <1>1, <1>2, FS_RemoveElement
<1>5. Cardinality(s) # 0
  BY <1>2, FS_EmptySet
<1>. QED  BY <1>1, <1>2, <1>3, <1>4, <1>5

LEMMA SumExists ==
    ASSUME NEW S, IsFiniteSet(S), NEW f
    PROVE  \E g : IsSum(g, f, SUBSET S)
<1>. DEFINE Small(n) == {s \in SUBSET S : Cardinality(s) <= n}
            F == {n \in Nat : \E g : IsSum(g, f, Small(n))}
<1>1. 0 \in F
  <2>. DEFINE g == [s \in Small(0) |-> 0]
  <2>1. ASSUME NEW s \in Small(0) PROVE s = {}
    <3>1. IsFiniteSet(s) /\ Cardinality(s) \in Nat /\ Cardinality(s) <= 0
      BY FS_Subset, FS_CardinalityType
    <3>2. Cardinality(s) = 0
      BY <3>1
    <3>. QED  BY <3>1, <3>2, FS_EmptySet
  <2>2. g = [s \in Small(0) |-> IF s = {} THEN 0 ELSE f[SomeMember(s)] + g[s \ {SomeMember(s)}]]
    BY <2>1
  <2>3. IsSum(g, f, Small(0))
    BY <2>2 DEF IsSum
  <2>. QED  BY <2>3
<1>2. ASSUME NEW n \in Nat, n \in F PROVE n + 1 \in F
  <2>1. PICK g : IsSum(g, f, Small(n))
    BY <1>2
  <2>. DEFINE h == [s \in Small(n + 1) |-> IF s \in Small(n) THEN g[s]
                                           ELSE f[SomeMember(s)] + g[s \ {SomeMember(s)}]]
  <2>2. ASSUME NEW s \in Small(n + 1)
        PROVE  h[s] = IF s = {} THEN 0 ELSE f[SomeMember(s)] + h[s \ {SomeMember(s)}]
    <3>1. CASE s = {}
      <4>1. s \in Small(n)
        BY <3>1, FS_EmptySet
      <4>2. g[s] = 0
        BY <2>1, <3>1, <4>1 DEF IsSum
      <4>. QED  BY <3>1, <4>1, <4>2
    <3>2. CASE s # {}
      <4>. DEFINE rest == s \ {SomeMember(s)}
      <4>1. rest \in Small(n) /\ rest \in Small(n + 1)
        <5>1. s \in SUBSET S /\ Cardinality(s) <= n + 1
          OBVIOUS
        <5>2. rest \in SUBSET S /\ Cardinality(s) \in Nat /\ Cardinality(rest) = Cardinality(s) - 1
          BY <3>2, <5>1, FirstRemoved
        <5>. HIDE DEF rest
        <5>3. Cardinality(rest) <= n /\ Cardinality(rest) <= n + 1
          BY <5>1, <5>2
        <5>. QED  BY <5>2, <5>3
      <4>2. h[rest] = g[rest]
        BY <4>1
      <4>3. CASE s \in Small(n)
        <5>1. g[s] = f[SomeMember(s)] + g[rest]
          BY <2>1, <3>2, <4>3 DEF IsSum
        <5>. QED  BY <3>2, <4>2, <4>3, <5>1
      <4>4. CASE s \notin Small(n)
        BY <3>2, <4>2, <4>4
      <4>. QED  BY <4>3, <4>4
    <3>. QED  BY <3>1, <3>2
  <2>3. h = [s \in Small(n + 1) |-> IF s = {} THEN 0 ELSE f[SomeMember(s)] + h[s \ {SomeMember(s)}]]
    BY <2>2
  <2>. HIDE DEF h
  <2>4. IsSum(h, f, Small(n + 1))
    BY <2>3 DEF IsSum
  <2>5. \E k : IsSum(k, f, Small(n + 1))
    BY <2>4
  <2>. HIDE DEF Small
  <2>. QED  BY <2>5
<1>. HIDE DEF F
<1>3. Nat \subseteq F
  BY <1>1, <1>2, NatInductionOnSet
<1>4. Cardinality(S) \in Nat
  BY FS_CardinalityType
<1>5. Small(Cardinality(S)) = SUBSET S
  <2>1. ASSUME NEW s \in SUBSET S PROVE Cardinality(s) <= Cardinality(S)
    BY FS_Subset
  <2>. QED  BY <2>1
<1>. QED  BY <1>3, <1>4, <1>5 DEF F

LEMMA SumsAgree ==
    ASSUME NEW S, IsFiniteSet(S), NEW T \in SUBSET S, NEW f, NEW g, NEW h,
           IsSum(g, f, SUBSET S), IsSum(h, f, SUBSET T)
    PROVE  g[T] = h[T]
<1>. DEFINE F == {U \in SUBSET T : g[U] = h[U]}
<1>1. IsFiniteSet(T)
  BY FS_Subset
<1>2. ASSUME NEW U \in SUBSET T, \A V \in SUBSET U : V # U => V \in F
      PROVE  U \in F
  <2>1. U \in SUBSET S
    OBVIOUS
  <2>2. CASE U = {}
    BY <2>1, <2>2 DEF IsSum
  <2>3. CASE U # {}
    <3>. DEFINE rest == U \ {SomeMember(U)}
    <3>1. rest \in SUBSET U /\ rest # U
      BY <1>1, <2>3, FirstRemoved
    <3>2. g[rest] = h[rest]
      <4>1. rest \in F
        BY <1>2, <3>1
      <4>. HIDE DEF rest
      <4>. QED  BY <4>1
    <3>3. g[U] = f[SomeMember(U)] + g[rest] /\ h[U] = f[SomeMember(U)] + h[rest]
      BY <2>1, <2>3 DEF IsSum
    <3>. QED  BY <3>2, <3>3
  <2>. QED  BY <2>2, <2>3
<1>. HIDE DEF F
<1>3. T \in F
  BY <1>1, <1>2, SubsetInduction
<1>. QED  BY <1>3 DEF F

LEMMA SumOfNone ==
    ASSUME NEW f
    PROVE  SumFunctionOnSet(f, {}) = 0
<1>. DEFINE g == CHOOSE g : IsSum(g, f, SUBSET {})
<1>1. IsSum(g, f, SUBSET {})
  BY FS_EmptySet, SumExists
<1>. HIDE DEF g
<1>2. g[{}] = 0
  BY <1>1 DEF IsSum
<1>. QED  BY <1>2, SumUnfolded DEF g

LEMMA SumStep ==
    ASSUME NEW S, IsFiniteSet(S), S # {}, NEW f
    PROVE  SumFunctionOnSet(f, S) = f[SomeMember(S)] + SumFunctionOnSet(f, S \ {SomeMember(S)})
<1>. DEFINE rest == S \ {SomeMember(S)}
<1>1. rest \in SUBSET S /\ IsFiniteSet(rest)
  BY FirstRemoved
<1>. HIDE DEF rest
<1>2. \A g, h : IsSum(g, f, SUBSET S) /\ IsSum(h, f, SUBSET rest) => g[rest] = h[rest]
  BY <1>1, SumsAgree
<1>3. PICK g : IsSum(g, f, SUBSET S) /\ SumFunctionOnSet(f, S) = g[S]
  BY SumExists, SumUnfolded
<1>4. PICK h : IsSum(h, f, SUBSET rest) /\ SumFunctionOnSet(f, rest) = h[rest]
  BY <1>1, SumExists, SumUnfolded
<1>5. g[S] = f[SomeMember(S)] + g[rest]
  BY <1>3 DEF IsSum, rest
<1>. QED  BY <1>2, <1>3, <1>4, <1>5 DEF rest

-----------------------------------------------------------------------------
\* What sums are worth

LEMMA SumInteger ==
    ASSUME NEW S, IsFiniteSet(S), NEW f, \A x \in S : f[x] \in Int
    PROVE  SumFunctionOnSet(f, S) \in Int
<1>. DEFINE F == {T \in SUBSET S : SumFunctionOnSet(f, T) \in Int}
<1>1. ASSUME NEW T \in SUBSET S, \A U \in SUBSET T : U # T => U \in F
      PROVE  T \in F
  <2>1. IsFiniteSet(T)
    BY FS_Subset
  <2>2. CASE T = {}
    BY <2>2, SumOfNone
  <2>3. CASE T # {}
    <3>. DEFINE rest == T \ {SomeMember(T)}
    <3>1. SomeMember(T) \in T /\ rest \in SUBSET T /\ rest # T
      BY <2>1, <2>3, FirstRemoved
    <3>2. SumFunctionOnSet(f, rest) \in Int
      BY <1>1, <3>1
    <3>3. SumFunctionOnSet(f, T) = f[SomeMember(T)] + SumFunctionOnSet(f, rest)
      BY <2>1, <2>3, SumStep
    <3>4. f[SomeMember(T)] \in Int
      BY <3>1
    <3>. HIDE DEF rest
    <3>5. SumFunctionOnSet(f, T) \in Int
      BY <3>2, <3>3, <3>4
    <3>. QED  BY <3>5
  <2>. QED  BY <2>2, <2>3
<1>. HIDE DEF F
<1>2. S \in F
  BY <1>1, SubsetInduction
<1>. QED  BY <1>2 DEF F

\* Any element may be taken first.
LEMMA SumTakesOut ==
    ASSUME NEW S, IsFiniteSet(S), NEW f, \A x \in S : f[x] \in Int, NEW e \in S
    PROVE  SumFunctionOnSet(f, S) = f[e] + SumFunctionOnSet(f, S \ {e})
<1>. DEFINE Z(T) == SumFunctionOnSet(f, T)
            F == {T \in SUBSET S : \A x \in T : Z(T) = f[x] + Z(T \ {x})}
<1>. HIDE DEF Z
<1>1. ASSUME NEW T \in SUBSET S, \A U \in SUBSET T : U # T => U \in F
      PROVE  T \in F
  <2>1. SUFFICES ASSUME NEW x \in T PROVE Z(T) = f[x] + Z(T \ {x})
    OBVIOUS
  <2>. DEFINE c == SomeMember(T)
  <2>2. IsFiniteSet(T) /\ c \in T
    BY FS_Subset, FirstRemoved
  <2>. HIDE DEF c
  <2>3. Z(T) = f[c] + Z(T \ {c})
    BY <2>2, SumStep DEF Z, c
  <2>4. CASE x = c
    BY <2>3, <2>4
  <2>5. CASE x # c
    <3>1. T \ {c} \in F /\ T \ {x} \in F
      BY <1>1, <2>2
    <3>2. Z(T \ {c}) = f[x] + Z((T \ {c}) \ {x})
      BY <2>5, <3>1
    <3>3. Z(T \ {x}) = f[c] + Z((T \ {x}) \ {c})
      BY <2>2, <2>5, <3>1
    <3>4. Z((T \ {c}) \ {x}) = Z((T \ {x}) \ {c})
      <4>1. (T \ {c}) \ {x} = (T \ {x}) \ {c}
        OBVIOUS
      <4>. QED  BY <4>1
    <3>5. Z((T \ {x}) \ {c}) \in Int
      <4>1. (T \ {x}) \ {c} \in SUBSET S
        OBVIOUS
      <4>2. IsFiniteSet((T \ {x}) \ {c})
        BY <4>1, FS_Subset
      <4>. QED  BY <4>1, <4>2, SumInteger DEF Z
    <3>6. f[x] \in Int /\ f[c] \in Int
      BY <2>2
    <3>. QED  BY <2>3, <3>2, <3>3, <3>4, <3>5, <3>6
  <2>. QED  BY <2>4, <2>5
<1>. HIDE DEF F
<1>2. S \in F
  BY <1>1, SubsetInduction
<1>. QED  BY <1>2 DEF F, Z

LEMMA SumPutsIn ==
    ASSUME NEW S, IsFiniteSet(S), NEW e, e \notin S,
           NEW f, \A x \in S \cup {e} : f[x] \in Int
    PROVE  SumFunctionOnSet(f, S \cup {e}) = f[e] + SumFunctionOnSet(f, S)
<1>1. IsFiniteSet(S \cup {e}) /\ e \in S \cup {e} /\ (S \cup {e}) \ {e} = S
  BY FS_AddElement
<1>. QED  BY <1>1, SumTakesOut

\* Sums of three functions on the same set, each term related to the others, are
\* related likewise.
LEMMA SumsAdd ==
    ASSUME NEW S, IsFiniteSet(S), NEW f, NEW g, NEW h,
           \A x \in S : f[x] \in Int /\ g[x] \in Int /\ h[x] = f[x] + g[x]
    PROVE  SumFunctionOnSet(h, S) = SumFunctionOnSet(f, S) + SumFunctionOnSet(g, S)
<1>. DEFINE F == {T \in SUBSET S : SumFunctionOnSet(h, T)
                                    = SumFunctionOnSet(f, T) + SumFunctionOnSet(g, T)}
<1>1. ASSUME NEW T \in SUBSET S, \A U \in SUBSET T : U # T => U \in F
      PROVE  T \in F
  <2>1. IsFiniteSet(T)
    BY FS_Subset
  <2>2. CASE T = {}
    BY <2>2, SumOfNone
  <2>3. CASE T # {}
    <3>. DEFINE rest == T \ {SomeMember(T)}
                c == SomeMember(T)
    <3>1. c \in T /\ rest \in SUBSET T /\ rest # T /\ IsFiniteSet(rest)
      BY <2>1, <2>3, FirstRemoved
    <3>2. rest \in F
      BY <1>1, <3>1
    <3>3. /\ SumFunctionOnSet(f, T) = f[c] + SumFunctionOnSet(f, rest)
          /\ SumFunctionOnSet(g, T) = g[c] + SumFunctionOnSet(g, rest)
          /\ SumFunctionOnSet(h, T) = h[c] + SumFunctionOnSet(h, rest)
      BY <2>1, <2>3, SumStep
    <3>4. f[c] \in Int /\ g[c] \in Int /\ h[c] = f[c] + g[c]
      BY <3>1
    <3>. HIDE DEF rest, c
    <3>5. SumFunctionOnSet(f, rest) \in Int /\ SumFunctionOnSet(g, rest) \in Int
      BY <3>1, SumInteger
    <3>6. SumFunctionOnSet(h, rest) = SumFunctionOnSet(f, rest) + SumFunctionOnSet(g, rest)
      BY <3>2
    <3>7. SumFunctionOnSet(h, T) = SumFunctionOnSet(f, T) + SumFunctionOnSet(g, T)
      BY <3>3, <3>4, <3>5, <3>6
    <3>. QED  BY <3>7
  <2>. QED  BY <2>2, <2>3
<1>. HIDE DEF F
<1>2. S \in F
  BY <1>1, SubsetInduction
<1>. QED  BY <1>2 DEF F

LEMMA SumNatural ==
    ASSUME NEW S, IsFiniteSet(S), NEW f, \A x \in S : f[x] \in Nat
    PROVE  SumFunctionOnSet(f, S) \in Nat
<1>. DEFINE F == {T \in SUBSET S : SumFunctionOnSet(f, T) \in Nat}
<1>1. ASSUME NEW T \in SUBSET S, \A U \in SUBSET T : U # T => U \in F
      PROVE  T \in F
  <2>1. IsFiniteSet(T)
    BY FS_Subset
  <2>2. CASE T = {}
    BY <2>2, SumOfNone
  <2>3. CASE T # {}
    <3>. DEFINE rest == T \ {SomeMember(T)}
    <3>1. SomeMember(T) \in T /\ rest \in SUBSET T /\ rest # T
      BY <2>1, <2>3, FirstRemoved
    <3>2. SumFunctionOnSet(f, rest) \in Nat
      BY <1>1, <3>1
    <3>3. SumFunctionOnSet(f, T) = f[SomeMember(T)] + SumFunctionOnSet(f, rest)
      BY <2>1, <2>3, SumStep
    <3>4. f[SomeMember(T)] \in Nat
      BY <3>1
    <3>. HIDE DEF rest
    <3>5. SumFunctionOnSet(f, T) \in Nat
      BY <3>2, <3>3, <3>4
    <3>. QED  BY <3>5
  <2>. QED  BY <2>2, <2>3
<1>. HIDE DEF F
<1>2. S \in F
  BY <1>1, SubsetInduction
<1>. QED  BY <1>2 DEF F

LEMMA SumsEqual ==
    ASSUME NEW S, IsFiniteSet(S), NEW f, NEW g, \A x \in S : f[x] = g[x]
    PROVE  SumFunctionOnSet(f, S) = SumFunctionOnSet(g, S)
<1>. DEFINE F == {T \in SUBSET S : SumFunctionOnSet(f, T) = SumFunctionOnSet(g, T)}
<1>1. ASSUME NEW T \in SUBSET S, \A U \in SUBSET T : U # T => U \in F
      PROVE  T \in F
  <2>1. IsFiniteSet(T)
    BY FS_Subset
  <2>2. CASE T = {}
    BY <2>2, SumOfNone
  <2>3. CASE T # {}
    <3>. DEFINE rest == T \ {SomeMember(T)}
    <3>1. SomeMember(T) \in T /\ rest \in SUBSET T /\ rest # T
      BY <2>1, <2>3, FirstRemoved
    <3>2. rest \in F
      BY <1>1, <3>1
    <3>3. /\ SumFunctionOnSet(f, T) = f[SomeMember(T)] + SumFunctionOnSet(f, rest)
          /\ SumFunctionOnSet(g, T) = g[SomeMember(T)] + SumFunctionOnSet(g, rest)
      BY <2>1, <2>3, SumStep
    <3>4. f[SomeMember(T)] = g[SomeMember(T)]
      BY <3>1
    <3>. QED  BY <3>2, <3>3, <3>4
  <2>. QED  BY <2>2, <2>3
<1>. HIDE DEF F
<1>2. S \in F
  BY <1>1, SubsetInduction
<1>. QED  BY <1>2 DEF F

LEMMA SumOfOne ==
    ASSUME NEW e, NEW f, f[e] \in Int
    PROVE  SumFunctionOnSet(f, {e}) = f[e]
<1>1. IsFiniteSet({e}) /\ {e} \ {e} = {}
  BY FS_Singleton
<1>2. SumFunctionOnSet(f, {e}) = f[e] + SumFunctionOnSet(f, {e} \ {e})
  BY <1>1, SumTakesOut
<1>. QED  BY <1>1, <1>2, SumOfNone

\* A sum of nonnegative terms is no less than any of them.
LEMMA SumBoundsTerm ==
    ASSUME NEW S, IsFiniteSet(S), NEW f, \A x \in S : f[x] \in Nat, NEW e \in S
    PROVE  f[e] <= SumFunctionOnSet(f, S)
<1>1. SumFunctionOnSet(f, S) = f[e] + SumFunctionOnSet(f, S \ {e})
  BY SumTakesOut
<1>2. IsFiniteSet(S \ {e})
  BY FS_RemoveElement
<1>3. SumFunctionOnSet(f, S \ {e}) \in Nat
  BY <1>2, SumNatural
<1>. QED  BY <1>1, <1>3

LEMMA SumsGrow ==
    ASSUME NEW S, IsFiniteSet(S), NEW f, NEW g,
           \A x \in S : f[x] \in Int /\ g[x] \in Int /\ f[x] <= g[x]
    PROVE  SumFunctionOnSet(f, S) <= SumFunctionOnSet(g, S)
<1>. DEFINE more == [x \in S |-> g[x] - f[x]]
<1>1. \A x \in S : more[x] \in Nat /\ g[x] = f[x] + more[x]
  OBVIOUS
<1>. HIDE DEF more
<1>2. SumFunctionOnSet(more, S) \in Nat
  BY <1>1, SumNatural
<1>3. SumFunctionOnSet(g, S) = SumFunctionOnSet(f, S) + SumFunctionOnSet(more, S)
  BY <1>1, SumsAdd
<1>4. SumFunctionOnSet(f, S) \in Int
  BY SumInteger
<1>. QED  BY <1>2, <1>3, <1>4

\* Terms that are zero may be left out.
LEMMA SumOfRest ==
    ASSUME NEW S, IsFiniteSet(S), NEW T \in SUBSET S, NEW f,
           \A x \in S : f[x] \in Int, \A x \in S \ T : f[x] = 0
    PROVE  SumFunctionOnSet(f, S) = SumFunctionOnSet(f, T)
<1>. DEFINE F == {U \in SUBSET S : T \subseteq U =>
                                    SumFunctionOnSet(f, U) = SumFunctionOnSet(f, T)}
<1>1. ASSUME NEW U \in SUBSET S, \A V \in SUBSET U : V # U => V \in F
      PROVE  U \in F
  <2>1. SUFFICES ASSUME T \subseteq U, T # U
                 PROVE  SumFunctionOnSet(f, U) = SumFunctionOnSet(f, T)
    OBVIOUS
  <2>2. PICK e \in U : e \notin T
    BY <2>1
  <2>. DEFINE rest == U \ {e}
  <2>3. rest \in SUBSET U /\ rest # U /\ T \subseteq rest /\ f[e] = 0
    BY <2>1, <2>2
  <2>4. IsFiniteSet(U) /\ IsFiniteSet(rest)
    BY FS_Subset
  <2>5. SumFunctionOnSet(f, U) = f[e] + SumFunctionOnSet(f, rest)
    BY <2>4, SumTakesOut
  <2>6. SumFunctionOnSet(f, rest) \in Int
    BY <2>4, SumInteger
  <2>7. rest \in F
    BY <1>1, <2>3
  <2>. HIDE DEF rest
  <2>8. SumFunctionOnSet(f, rest) = SumFunctionOnSet(f, T)
    BY <2>3, <2>7
  <2>. QED  BY <2>3, <2>5, <2>6, <2>8
<1>. HIDE DEF F
<1>2. S \in F
  BY <1>1, SubsetInduction
<1>. QED  BY <1>2 DEF F

-----------------------------------------------------------------------------
\* Extremes

LEMMA FiniteSetHasExtremes ==
    ASSUME NEW S \in SUBSET Int, IsFiniteSet(S), S # {}
    PROVE  /\ \E x \in S : \A y \in S : x >= y
           /\ \E x \in S : \A y \in S : x <= y
<1>. DEFINE Extremes(T) == /\ \E x \in T : \A y \in T : x >= y
                           /\ \E x \in T : \A y \in T : x <= y
            F == {T \in SUBSET S : T # {} => Extremes(T)}
<1>1. ASSUME NEW T \in SUBSET S, \A U \in SUBSET T : U # T => U \in F
      PROVE  T \in F
  <2>1. SUFFICES ASSUME T # {} PROVE Extremes(T)
    OBVIOUS
  <2>2. PICK e \in T : TRUE
    BY <2>1
  <2>. DEFINE rest == T \ {e}
  <2>3. CASE rest = {}
    <3>1. T = {e} /\ e \in Int
      BY <2>2, <2>3
    <3>. QED  BY <3>1
  <2>4. CASE rest # {}
    <3>1. rest \in F
      BY <1>1, <2>2
    <3>2. PICK high \in rest : \A y \in rest : high >= y
      BY <2>4, <3>1
    <3>3. PICK low \in rest : \A y \in rest : low <= y
      BY <2>4, <3>1
    <3>4. e \in Int /\ high \in Int /\ low \in Int /\ T = rest \cup {e} /\ T \subseteq Int
      BY <2>2
    <3>. HIDE DEF rest
    <3>5. \E x \in T : \A y \in T : x >= y
      <4>1. CASE e >= high
        <5>1. \A y \in T : e >= y
          BY <3>2, <3>4, <4>1
        <5>. QED  BY <5>1
      <4>2. CASE high >= e
        <5>1. \A y \in T : high >= y
          BY <3>2, <3>4, <4>2
        <5>. QED  BY <3>4, <5>1
      <4>. QED  BY <3>4, <4>1, <4>2
    <3>6. \E x \in T : \A y \in T : x <= y
      <4>1. CASE e <= low
        <5>1. \A y \in T : e <= y
          BY <3>3, <3>4, <4>1
        <5>. QED  BY <5>1
      <4>2. CASE low <= e
        <5>1. \A y \in T : low <= y
          BY <3>3, <3>4, <4>2
        <5>. QED  BY <3>4, <5>1
      <4>. QED  BY <3>4, <4>1, <4>2
    <3>. QED  BY <3>5, <3>6
  <2>. QED  BY <2>3, <2>4
<1>. HIDE DEF F
<1>2. S \in F
  BY <1>1, SubsetInduction
<1>. QED  BY <1>2 DEF F

LEMMA FunctionHasExtremes ==
    ASSUME NEW S, IsFiniteSet(S), S # {}, NEW f, \A x \in S : f[x] \in Int
    PROVE  /\ \E x \in S : \A y \in S : f[x] >= f[y]
           /\ \E x \in S : \A y \in S : f[x] <= f[y]
<1>. DEFINE g == [x \in S |-> f[x]]
            T == {f[x] : x \in S}
<1>1. g \in Surjection(S, T)
  BY DEF Surjection
<1>2. IsFiniteSet(T)
  <2>. HIDE DEF g, T
  <2>. QED  BY <1>1, FS_Surjection
<1>3. T \in SUBSET Int /\ T # {}
  OBVIOUS
<1>4. (\E m \in T : \A n \in T : m >= n) /\ (\E m \in T : \A n \in T : m <= n)
  <2>. HIDE DEF T
  <2>. QED  BY <1>2, <1>3, FiniteSetHasExtremes
<1>. QED  BY <1>4

LEMMA ExtremesOf ==
    ASSUME NEW S \in SUBSET Int, IsFiniteSet(S), S # {}
    PROVE  /\ Max(S) \in S /\ \A x \in S : Max(S) >= x
           /\ Min(S) \in S /\ \A x \in S : Min(S) <= x
<1>1. /\ \E x \in S : \A y \in S : x >= y
      /\ \E x \in S : \A y \in S : x <= y
  BY FiniteSetHasExtremes
<1>. QED  BY <1>1, Zenon DEF Max, Min

LEMMA MinOfTwo ==
    ASSUME NEW m \in Int, NEW n \in Int
    PROVE  Min({m, n}) \in {m, n} /\ Min({m, n}) <= m /\ Min({m, n}) <= n
<1>1. \E x \in {m, n} : \A y \in {m, n} : x <= y
  <2>1. CASE m <= n
    BY <2>1
  <2>2. CASE n <= m
    BY <2>2
  <2>. QED  BY <2>1, <2>2
<1>2. /\ Min({m, n}) \in {m, n}
      /\ \A y \in {m, n} : Min({m, n}) <= y
  BY <1>1, Zenon DEF Min
<1>. QED  BY <1>2

LEMMA MaxOfTwo ==
    ASSUME NEW m \in Int, NEW n \in Int
    PROVE  Max({m, n}) \in {m, n} /\ Max({m, n}) >= m /\ Max({m, n}) >= n
<1>1. \E x \in {m, n} : \A y \in {m, n} : x >= y
  <2>1. CASE m >= n
    BY <2>1
  <2>2. CASE n >= m
    BY <2>2
  <2>. QED  BY <2>1, <2>2
<1>2. /\ Max({m, n}) \in {m, n}
      /\ \A y \in {m, n} : Max({m, n}) >= y
  BY <1>1, Zenon DEF Max
<1>. QED  BY <1>2

\* The sum over a set of two parts is the sum of the sums over each.
LEMMA SumOfUnion ==
    ASSUME NEW S, IsFiniteSet(S), NEW T, IsFiniteSet(T), S \cap T = {},
           NEW f, \A x \in S \cup T : f[x] \in Int
    PROVE  SumFunctionOnSet(f, S \cup T) = SumFunctionOnSet(f, S) + SumFunctionOnSet(f, T)
<1>. DEFINE F == {U \in SUBSET T : SumFunctionOnSet(f, S \cup U)
                                    = SumFunctionOnSet(f, S) + SumFunctionOnSet(f, U)}
<1>1. SumFunctionOnSet(f, S) \in Int
  BY SumInteger
<1>2. ASSUME NEW U \in SUBSET T, \A V \in SUBSET U : V # U => V \in F
      PROVE  U \in F
  <2>1. CASE U = {}
    <3>1. S \cup U = S /\ SumFunctionOnSet(f, U) = 0
      BY <2>1, SumOfNone
    <3>. DEFINE z == SumFunctionOnSet(f, S)
    <3>2. SumFunctionOnSet(f, S \cup U) = z
      BY <3>1
    <3>3. z = z + 0
      <4>. HIDE DEF z
      <4>. QED  BY <1>1 DEF z
    <3>4. SumFunctionOnSet(f, S \cup U) = z + SumFunctionOnSet(f, U)
      BY <3>1, <3>2, <3>3
    <3>. QED  BY <3>4
  <2>2. CASE U # {}
    <3>1. PICK e \in U : TRUE
      BY <2>2
    <3>. DEFINE V == U \ {e}
    <3>2. V \in F /\ IsFiniteSet(V) /\ IsFiniteSet(S \cup V)
      <4>1. V \in SUBSET U /\ V # U /\ V \in SUBSET T
        OBVIOUS
      <4>2. IsFiniteSet(V)
        BY <4>1, FS_Subset
      <4>. QED  BY <1>2, <4>1, <4>2, FS_Union
    <3>3. /\ U = V \cup {e} /\ S \cup U = (S \cup V) \cup {e}
          /\ e \notin V /\ e \notin S \cup V
          /\ \A x \in V \cup {e} : f[x] \in Int
          /\ \A x \in (S \cup V) \cup {e} : f[x] \in Int
      OBVIOUS
    <3>4. SumFunctionOnSet(f, S \cup V) = SumFunctionOnSet(f, S) + SumFunctionOnSet(f, V)
      BY <3>2
    <3>. HIDE DEF V, F
    <3>5. SumFunctionOnSet(f, V \cup {e}) = f[e] + SumFunctionOnSet(f, V)
      BY <3>2, <3>3, SumPutsIn
    <3>6. SumFunctionOnSet(f, (S \cup V) \cup {e}) = f[e] + SumFunctionOnSet(f, S \cup V)
      BY <3>2, <3>3, SumPutsIn
    <3>7. f[e] \in Int /\ SumFunctionOnSet(f, V) \in Int
      BY <3>2, <3>3, SumInteger
    <3>. DEFINE a == SumFunctionOnSet(f, S)
                b == SumFunctionOnSet(f, V)
                c == f[e]
    <3>8. a \in Int /\ b \in Int /\ c \in Int
      BY <1>1, <3>7
    <3>9. SumFunctionOnSet(f, S \cup U) = c + (a + b) /\ SumFunctionOnSet(f, U) = c + b
      BY <3>3, <3>4, <3>5, <3>6
    <3>10. c + (a + b) = a + (c + b)
      <4>. HIDE DEF a, b, c
      <4>. QED  BY <3>8
    <3>11. SumFunctionOnSet(f, S \cup U) = a + SumFunctionOnSet(f, U)
      BY <3>9, <3>10
    <3>. QED  BY <3>11 DEF F
  <2>. QED  BY <2>1, <2>2
<1>. HIDE DEF F
<1>3. T \in F
  BY <1>2, SubsetInduction
<1>. QED  BY <1>3 DEF F

\* The sum over disjoint parts is the sum of the sums over each.
LEMMA SumOfParts ==
    ASSUME NEW E, IsFiniteSet(E), NEW part, \A e \in E : IsFiniteSet(part[e]),
           \A d, e \in E : d # e => part[d] \cap part[e] = {},
           NEW f, \A e \in E : \A x \in part[e] : f[x] \in Int,
           NEW g, \A e \in E : g[e] = SumFunctionOnSet(f, part[e]),
           NEW whole, \A x : x \in whole <=> \E e \in E : x \in part[e]
    PROVE  IsFiniteSet(whole) /\ SumFunctionOnSet(f, whole) = SumFunctionOnSet(g, E)
<1>. DEFINE All(T) == UNION {part[e] : e \in T}
            F == {T \in SUBSET E : /\ IsFiniteSet(All(T))
                                   /\ SumFunctionOnSet(f, All(T)) = SumFunctionOnSet(g, T)}
<1>1. ASSUME NEW T \in SUBSET E, \A U \in SUBSET T : U # T => U \in F
      PROVE  T \in F
  <2>1. CASE T = {}
    <3>1. All(T) = {}
      BY <2>1
    <3>2. IsFiniteSet({}) /\ SumFunctionOnSet(f, {}) = 0 /\ SumFunctionOnSet(g, {}) = 0
      BY FS_EmptySet, SumOfNone
    <3>. HIDE DEF All
    <3>. QED  BY <2>1, <3>1, <3>2
  <2>2. CASE T # {}
    <3>1. PICK d \in T : TRUE
      BY <2>2
    <3>. DEFINE V == T \ {d}
    <3>2. V \in SUBSET T /\ V # T /\ V \in SUBSET E /\ d \in E /\ T = V \cup {d} /\ d \notin V
      OBVIOUS
    <3>3. V \in F /\ IsFiniteSet(V)
      BY <1>1, <3>2, FS_Subset
    <3>4. All(T) = All(V) \cup part[d] /\ All(V) \cap part[d] = {}
      OBVIOUS
    <3>5. /\ \A x \in All(V) \cup part[d] : f[x] \in Int
          /\ IsFiniteSet(part[d])
      OBVIOUS
    <3>6. IsFiniteSet(All(V)) /\ SumFunctionOnSet(f, All(V)) = SumFunctionOnSet(g, V)
      BY <3>3
    <3>7. \A e \in V \cup {d} : g[e] \in Int
      <4>1. ASSUME NEW e \in E PROVE g[e] \in Int
        <5>1. SumFunctionOnSet(f, part[e]) \in Int
          BY SumInteger
        <5>. QED  BY <5>1
      <4>. QED  BY <3>2, <4>1
    <3>. HIDE DEF All, V
    <3>8. IsFiniteSet(All(T))
      <4>1. IsFiniteSet(All(V) \cup part[d])
        BY <3>5, <3>6, FS_Union
      <4>. QED  BY <3>4, <4>1
    <3>9. SumFunctionOnSet(f, All(T)) = SumFunctionOnSet(f, All(V)) + SumFunctionOnSet(f, part[d])
      BY <3>4, <3>5, <3>6, SumOfUnion
    <3>10. SumFunctionOnSet(g, T) = g[d] + SumFunctionOnSet(g, V)
      BY <3>2, <3>3, <3>7, SumPutsIn
    <3>11. g[d] = SumFunctionOnSet(f, part[d]) /\ g[d] \in Int /\ SumFunctionOnSet(g, V) \in Int
      BY <3>2, <3>3, <3>7, SumInteger
    <3>12. SumFunctionOnSet(f, All(T)) = SumFunctionOnSet(g, T)
      BY <3>6, <3>9, <3>10, <3>11
    <3>. QED  BY <3>8, <3>12
  <2>. QED  BY <2>1, <2>2
<1>. HIDE DEF F
<1>2. E \in F
  BY <1>1, SubsetInduction
<1>3. whole = All(E)
  OBVIOUS
<1>. QED  BY <1>2, <1>3 DEF F

-----------------------------------------------------------------------------
\* Recursion along a sequence

\* g begins with a value and goes on from each element to the next.
IsIteration(g, n, first, next) ==
    g = [k \in 1 .. n |-> IF k = 1 THEN first ELSE next[<<k, g[k - 1]>>]]

LEMMA IterationExists ==
    ASSUME NEW n \in Nat, NEW first, NEW next
    PROVE  \E g : IsIteration(g, n, first, next)
<1>. DEFINE F == {m \in Nat : \E g : IsIteration(g, m, first, next)}
<1>1. 0 \in F
  <2>. DEFINE g == [k \in 1 .. 0 |-> first]
  <2>1. g = [k \in 1 .. 0 |-> IF k = 1 THEN first ELSE next[<<k, g[k - 1]>>]]
    OBVIOUS
  <2>2. IsIteration(g, 0, first, next)
    BY <2>1 DEF IsIteration
  <2>. QED  BY <2>2
<1>2. ASSUME NEW m \in Nat, m \in F PROVE m + 1 \in F
  <2>1. PICK g : IsIteration(g, m, first, next)
    BY <1>2
  <2>. DEFINE h == [k \in 1 .. m + 1 |-> IF k = 1 THEN first ELSE next[<<k, g[k - 1]>>]]
  <2>2. ASSUME NEW k \in 1 .. m + 1, k # 1
        PROVE  h[k - 1] = g[k - 1]
    <3>1. k - 1 \in 1 .. m /\ k - 1 \in 1 .. m + 1
      BY <2>2
    <3>. DEFINE i == k - 1
    <3>. HIDE DEF i
    <3>2. g[i] = IF i = 1 THEN first ELSE next[<<i, g[i - 1]>>]
      BY <2>1, <3>1 DEF IsIteration, i
    <3>3. h[i] = IF i = 1 THEN first ELSE next[<<i, g[i - 1]>>]
      BY <3>1 DEF i
    <3>. QED  BY <3>2, <3>3 DEF i
  <2>3. h = [k \in 1 .. m + 1 |-> IF k = 1 THEN first ELSE next[<<k, h[k - 1]>>]]
    BY <2>2
  <2>. HIDE DEF h
  <2>4. IsIteration(h, m + 1, first, next)
    BY <2>3 DEF IsIteration
  <2>. QED  BY <2>4
<1>. HIDE DEF F
<1>3. Nat \subseteq F
  BY <1>1, <1>2, NatInductionOnSet
<1>. QED  BY <1>3 DEF F

=============================================================================
