--------------------------- MODULE TickerDirectory ---------------------------
(***************************************************************************)
(* What the rest of the program may expect of the ticker look-up: at any   *)
(* time a ticker belongs to one company or to none, a ticker that was once *)
(* known stays known, and an operation on one company gives it tickers or  *)
(* takes them from it, but never moves a ticker between two others.        *)
(* CompanyIdentity implements it; the portfolio and the decision center    *)
(* are checked against it instead of against the rows.                     *)
(***************************************************************************)
CONSTANTS Companies, Tickers, NoCompany

VARIABLE owner         \* [Tickers -> Companies \cup {NoCompany}]

NoTickers == [t \in Tickers |-> NoCompany]

Init == owner = NoTickers

\* An operation on company c
Changes(c) ==
    /\ owner' \in [Tickers -> Companies \cup {NoCompany}]
    /\ \A t \in Tickers : owner'[t] # owner[t] =>
          /\ owner'[t] # NoCompany
          /\ c \in {owner[t], owner'[t]}

Next == \E c \in Companies : Changes(c)

Spec == Init /\ [][Next]_owner

=============================================================================
