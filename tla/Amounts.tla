------------------------------- MODULE Amounts -------------------------------
(***************************************************************************)
(* Whole numbers of which any may be missing, as in Python's "x or 0" and  *)
(* "None if x is None else x + y".                                         *)
(***************************************************************************)
EXTENDS Integers

CONSTANT None          \* NULL

ASSUME NoneAssumption == None \notin Int

Known(amount) == IF amount = None THEN 0 ELSE amount
AtLeast0(n)   == IF n < 0 THEN 0 ELSE n
Larger(m, n)  == IF m < n THEN n ELSE m
Magnitude(n)  == IF n < 0 THEN -n ELSE n
Plus(m, n)    == IF None \in {m, n} THEN None ELSE m + n
Minus(m, n)   == IF None \in {m, n} THEN None ELSE m - n

InOrder(low, high) == None \notin {low, high} => low <= high

=============================================================================
