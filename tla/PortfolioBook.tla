---------------------------- MODULE PortfolioBook ----------------------------
(***************************************************************************)
(* The personal portfolio: PortfolioService and PortfolioRepository.  One  *)
(* context with its capital, manual holdings, and a risk policy in         *)
(* versions with explicit snapshots.  Every operation is a route on the    *)
(* event loop that ends in one statement, so it is one step, and nothing   *)
(* remains of one that raises.                                             *)
(*                                                                         *)
(* Money is a whole number of dollars and a limit a whole percentage.      *)
(* Notes, cost basis, names and timestamps are left out.                   *)
(***************************************************************************)
EXTENDS VersionedRows, Amounts

CONSTANTS
    Companies, Tickers, NoCompany,
    Contexts,      \* capital a client enters
    Holdings,      \* shares and market value of a holding a client enters
    Policies,      \* risk policies a client enters
    MaxChanges     \* bound on the operations

ContextInput == [investable : Nat, cash : Nat]
HoldingInput == [shares : Int \ {0}, value : Int \cup {None}]
PolicyInput  == [normal : 1 .. 100, single : 1 .. 100, assignment : 1 .. 100,
                 collateral : 1 .. 100, stress : 1 .. 100,
                 reservePercent : (0 .. 100) \cup {None}, reserve : Nat \cup {None}]

\* The model validators of the inputs
ASSUME PortfolioAssumption ==
    /\ NoCompany \notin Companies
    /\ MaxChanges \in Nat
    /\ Contexts \subseteq ContextInput
    /\ \A c \in Contexts : c.cash <= c.investable
    /\ Holdings \subseteq HoldingInput
    /\ Policies \subseteq PolicyInput
    /\ \A p \in Policies : /\ p.normal <= p.single
                           /\ p.reservePercent # None \/ p.reserve # None

PolicyKey == "personal-default"

VARIABLES
    owner,         \* what a ticker resolves to
    context,       \* portfolio_contexts: the personal row or None
    positions,     \* portfolio_positions by ticker, UNIQUE (context_id, ticker)
    policies,      \* risk_policies
    frozen,        \* risk_policy_snapshots
    changes        \* number of operations so far

portfolioVars == <<owner, context, positions, policies, frozen, changes>>

Directory == INSTANCE TickerDirectory WITH owner <- owner

Position == [company : Companies \cup {NoCompany}, shares : Int, value : Int \cup {None}]

\* A holding belongs to the company its ticker has when it is saved.
Holding(t, input) ==
    [company |-> owner[t], shares |-> input.shares, value |-> input.value]

Held == {t \in Tickers : positions[t] # None}

Changed == changes < MaxChanges /\ changes' = changes + 1

-----------------------------------------------------------------------------
SaveContext(input) ==
    /\ Changed
    /\ context' = input
    /\ UNCHANGED <<owner, positions, policies, frozen>>

CreatePosition(t, input) ==
    /\ Changed
    /\ context # None
    /\ t \notin Held
    /\ positions' = [positions EXCEPT ![t] = Holding(t, input)]
    /\ UNCHANGED <<owner, context, policies, frozen>>

\* The new ticker is resolved anew; another holding may not have it.
UpdatePosition(t, new, input) ==
    /\ Changed
    /\ context # None
    /\ t \in Held
    /\ new # t => new \notin Held
    /\ positions' = [positions EXCEPT ![t] = None, ![new] = Holding(new, input)]
    /\ UNCHANGED <<owner, context, policies, frozen>>

DeletePosition(t) ==
    /\ Changed
    /\ t \in Held
    /\ positions' = [positions EXCEPT ![t] = None]
    /\ UNCHANGED <<owner, context, policies, frozen>>

CurrentPolicy == IF Under(policies, PolicyKey) = {} THEN None ELSE Current(policies, PolicyKey)

PolicyInForce == IF CurrentPolicy = None THEN None ELSE CurrentPolicy.content

SavePolicy(input) ==
    LET row == NextRow(PolicyKey, CurrentVersion(policies, PolicyKey), input)
    IN  /\ Changed
        /\ Unused(policies, row)
        /\ policies' = Inserted(policies, row)
        /\ UNCHANGED <<owner, context, positions, frozen>>

\* snapshot_current_policy copies the whole row.
SnapshotPolicy ==
    /\ Changed
    /\ CurrentPolicy # None
    /\ frozen' = frozen \cup {CurrentPolicy}
    /\ UNCHANGED <<owner, context, positions, policies>>

\* The ticker directory changes under the portfolio.
Rename ==
    /\ Changed
    /\ Directory!Next
    /\ UNCHANGED <<context, positions, policies, frozen>>

\* The directory may know companies before there is a portfolio.
PortfolioInit ==
    /\ owner \in [Tickers -> Companies \cup {NoCompany}]
    /\ changes = 0
    /\ context = None
    /\ positions = [t \in Tickers |-> None]
    /\ policies = {}
    /\ frozen = {}

PortfolioNext ==
    \/ Rename
    \/ \E input \in Contexts : SaveContext(input)
    \/ \E t \in Tickers, input \in Holdings :
          \/ CreatePosition(t, input)
          \/ \E new \in Tickers : UpdatePosition(t, new, input)
    \/ \E t \in Tickers : DeletePosition(t)
    \/ \E input \in Policies : SavePolicy(input)
    \/ SnapshotPolicy

=============================================================================
