----------------------------- MODULE OptionLedger -----------------------------
(***************************************************************************)
(* The ledger of a paper option position: initial_state and apply_event of *)
(* options/lifecycle.py, applied one event at a time by the route that     *)
(* reads the stored state, validates it, applies the event and stores the  *)
(* result without an await in between.                                     *)
(*                                                                         *)
(* Money is counted in integer ticks.  The only quotient, the average cost *)
(* of the shares, is rounded to a tick; sums and products are exact.  A    *)
(* leg carries the contracts that were closed, which the program keeps in  *)
(* closed_quantities under the leg's identifier.                           *)
(***************************************************************************)
EXTENDS Integers, Sequences, FiniteSetsExt, Functions

CONSTANTS
    Lot,           \* shares a contract stands for (multiplier, and the 100
                   \* position_collateral divides by)
    Requests,      \* the positions a client opens
    Quotes,        \* prices of the shares
    Marks,         \* option marks and premiums
    Strikes,       \* strikes a leg is rolled to
    Expirations,   \* expirations a leg is rolled to
    ShareTrades,   \* share quantities of buy_shares and sell_shares
    Contracts,     \* contract quantities of events
    AddedLegs,     \* legs of add_leg events
    MaxLegs,       \* bound on the legs of a position
    MaxEvents      \* bound on its events

Leg == [type : {"call", "put"}, side : {"long", "short"}, strike : Nat,
        expiration : Expirations, premium : Nat, quantity : Nat, closed : Nat]

ASSUME OptionAssumption ==
    /\ Lot \in Nat \ {0}
    /\ Requests \subseteq [legs : Seq(Leg), shares : Nat, basis : Nat]
    /\ \A r \in Requests : \A i \in DOMAIN r.legs :
          r.legs[i].quantity > 0 /\ r.legs[i].closed = 0
    /\ AddedLegs \subseteq Leg
    /\ \A leg \in AddedLegs : leg.quantity > 0 /\ leg.closed = 0
    /\ Quotes \subseteq Nat \ {0} /\ Strikes \subseteq Nat \ {0} /\ Marks \subseteq Nat
    /\ ShareTrades \subseteq Nat \ {0} /\ Contracts \subseteq Nat \ {0}
    /\ MaxLegs \in Nat /\ MaxEvents \in Nat

VARIABLES
    ledger,        \* PositionLedgerState
    unbooked,      \* history: net cost that left without entering realized_pnl
    events         \* number of lifecycle events stored

ledgerVars == <<ledger, unbooked, events>>

-----------------------------------------------------------------------------
\* Legs

Direction(leg) == IF leg.side = "long" THEN 1 ELSE -1
Open(leg) == leg.quantity - leg.closed
OpenLegs(l) == {i \in DOMAIN l.legs : Open(l.legs[i]) > 0}
OfKind(l, side, type) == {i \in OpenLegs(l) : l.legs[i].side = side /\ l.legs[i].type = type}

Abs(n)  == IF n < 0 THEN -n ELSE n
Least(a, b) == IF a < b THEN a ELSE b

\* has_open_exposure
HasExposure(l) == l.shares # 0 \/ OpenLegs(l) # {}

\* What n contracts of a leg cost, counting premium received as negative
CostOf(leg, n) == Direction(leg) * leg.premium * n * Lot

\* ... and what the open contracts cost
OpenCost(l) == SumFunction([i \in DOMAIN l.legs |-> CostOf(l.legs[i], Open(l.legs[i]))])

-----------------------------------------------------------------------------
\* position_collateral

\* Short calls before leg i take the covered lots first.  A negative number of
\* lots is taken by the first of them.
CoveredCalls(l, i) ==
    LET lots   == l.shares \div Lot
        before == SumFunction([k \in {k \in OfKind(l, "short", "call") : k < i} |-> Open(l.legs[k])])
    IN  IF l.legs[i].type = "call" /\ (before = 0 \/ lots > before)
        THEN Least(Open(l.legs[i]), lots - before) ELSE 0

\* Open long legs of the same kind and expiration that limit the loss of leg i
Protective(l, i) ==
    LET short == l.legs[i]
    IN  {k \in OfKind(l, "long", short.type) :
            /\ l.legs[k].expiration = short.expiration
            /\ IF short.type = "call" THEN l.legs[k].strike > short.strike
                                      ELSE l.legs[k].strike < short.strike}

\* min(protective, key=distance): the first of the nearest
Nearest(l, i) ==
    LET distance(k) == Abs(l.legs[k].strike - l.legs[i].strike)
        near == {k \in Protective(l, i) :
                    \A m \in Protective(l, i) : distance(k) <= distance(m)}
    IN  CHOOSE k \in near : \A m \in near : k <= m

\* Mutated form: contracts of the protective leg that were closed still protect.
ProtectedByAll(l, i) ==
    IF Protective(l, i) = {} THEN 0
    ELSE Least(Open(l.legs[i]) - CoveredCalls(l, i), l.legs[Nearest(l, i)].quantity)

\* protected_quantity
Protected(l, i) ==
    IF Protective(l, i) = {} THEN 0
    ELSE Least(Open(l.legs[i]) - CoveredCalls(l, i), Open(l.legs[Nearest(l, i)]))

LegCollateral(l, i) ==
    LET short == l.legs[i]
        rest  == Open(short) - CoveredCalls(l, i) - Protected(l, i)
        width == IF Protected(l, i) = 0 THEN 0
                 ELSE Abs(l.legs[Nearest(l, i)].strike - short.strike)
    IN  (width * Protected(l, i) + (IF short.type = "put" THEN short.strike * rest ELSE 0)) * Lot

ShortLegs(l) == OfKind(l, "short", "call") \cup OfKind(l, "short", "put")

Collateral(l) == SumFunction([i \in ShortLegs(l) |-> LegCollateral(l, i)])

-----------------------------------------------------------------------------
\* classify_position: shares are compared with all contracts of an open leg,
\* the closed ones included.

AllShares(l, S) == SumFunction([i \in S |-> l.legs[i].quantity * Lot])

\* A long leg at another strike of the same expiration as a short one
Spread(l, longs, shorts, below) ==
    \E i \in longs, k \in shorts :
        /\ l.legs[i].expiration = l.legs[k].expiration
        /\ IF below THEN l.legs[i].strike < l.legs[k].strike
                    ELSE l.legs[i].strike > l.legs[k].strike

IsConversion(l) ==
    LET calls == OfKind(l, "short", "call")
        first == l.legs[CHOOSE i \in calls : \A k \in calls : i <= k]
        puts  == {i \in OfKind(l, "long", "put") :
                     l.legs[i].strike = first.strike /\ l.legs[i].expiration = first.expiration}
    IN  /\ calls # {}
        /\ l.shares = AllShares(l, calls)
        /\ AllShares(l, puts) >= AllShares(l, calls)

\* Mutated form: any shares cover the calls.
StructureAnyShares(l) ==
    LET calls == OfKind(l, "short", "call")
        puts  == OfKind(l, "short", "put")
    IN  IF calls # {} /\ l.shares > 0
        THEN IF puts = {} THEN "Covered Call" ELSE "Covered Call + Short Put"
        ELSE "Custom Multi-Leg"

Structure(l) ==
    LET calls == OfKind(l, "short", "call")
        puts  == OfKind(l, "short", "put")
        longCalls == OfKind(l, "long", "call")
        longPuts  == OfKind(l, "long", "put")
    IN  IF IsConversion(l) THEN "Conversion"
        ELSE IF calls # {} /\ l.shares >= AllShares(l, calls)
        THEN IF puts = {} THEN "Covered Call" ELSE "Covered Call + Short Put"
        ELSE IF calls # {} /\ l.shares > 0 THEN "Partially Covered Short Call"
        ELSE IF calls # {} /\ puts # {} THEN "Short Call + Short Put"
        ELSE IF Spread(l, longCalls, calls, FALSE) THEN "Bear Call Spread"
        ELSE IF Spread(l, longCalls, calls, TRUE) THEN "Bull Call Spread"
        ELSE IF Spread(l, longPuts, puts, TRUE) THEN "Bull Put Spread"
        ELSE IF Spread(l, longPuts, puts, FALSE) THEN "Bear Put Spread"
        ELSE IF Cardinality(OpenLegs(l)) = 1 THEN "Single Leg"
        ELSE IF OpenLegs(l) # {} THEN "Custom Multi-Leg"
        ELSE IF l.shares > 0 THEN "Long Shares"
        ELSE IF l.shares < 0 THEN "Short Shares" ELSE "Cash"

-----------------------------------------------------------------------------
\* apply_share_trade

\* total / n, rounded to a tick
Average(total, n) == (2 * total + n) \div (2 * n)

AddsShares(l, q) == l.shares = 0 \/ ((l.shares > 0) <=> (q > 0))
TotalCost(l, q, price) == Abs(l.shares) * l.basis + Abs(q) * price

\* Mutated form: shares bought back beyond a short position keep its cost.
ShareTradeSameBasis(l, q, price) ==
    LET n == l.shares + q
    IN  [l EXCEPT
           !.shares = n,
           !.cash = @ - q * price,
           !.basis = IF AddsShares(l, q) THEN Average(TotalCost(l, q, price), Abs(n))
                     ELSE IF n = 0 THEN 0 ELSE @,
           !.realized = IF AddsShares(l, q) THEN @
                        ELSE @ + (IF l.shares > 0 THEN price - l.basis ELSE l.basis - price)
                                 * Least(Abs(l.shares), Abs(q))]

\* q shares bought (or sold, when negative) at a price
ShareTrade(l, q, price) ==
    LET n == l.shares + q
    IN  [l EXCEPT
           !.shares = n,
           !.cash = @ - q * price,
           !.basis = IF AddsShares(l, q) THEN Average(TotalCost(l, q, price), Abs(n))
                     ELSE IF n = 0 THEN 0
                     ELSE IF (n > 0) # (l.shares > 0) THEN price ELSE @,
           !.realized = IF AddsShares(l, q) THEN @
                        ELSE @ + (IF l.shares > 0 THEN price - l.basis ELSE l.basis - price)
                                 * Least(Abs(l.shares), Abs(q))]

\* Cost lost when the average is rounded
Rounding(l, q, price) ==
    LET n == l.shares + q
    IN  IF AddsShares(l, q)
        THEN (IF n > 0 THEN 1 ELSE -1)
             * (TotalCost(l, q, price) - Abs(n) * Average(TotalCost(l, q, price), Abs(n)))
        ELSE 0

-----------------------------------------------------------------------------
\* initial_state

Opened(request) ==
    LET l == [status |-> "open", legs |-> request.legs, shares |-> request.shares,
              basis |-> IF request.shares = 0 THEN 0 ELSE request.basis,
              cash |-> 0, realized |-> 0]
    IN  [l EXCEPT !.cash = -OpenCost(l) - request.shares * request.basis]

-----------------------------------------------------------------------------
\* apply_event

\* The stored state is read through the model, which refuses a leg of no
\* contracts, and only an open position receives events.
Accepts ==
    /\ events < MaxEvents
    /\ ledger.status = "open"
    /\ \A i \in DOMAIN ledger.legs : ledger.legs[i].quantity > 0

\* The tail of apply_event: exposure keeps the position open.
Settle(l, status) ==
    /\ ledger' = [l EXCEPT !.status = IF HasExposure(l) THEN "open" ELSE status]
    /\ events' = events + 1

Hold == Accepts /\ events' = events + 1 /\ UNCHANGED <<ledger, unbooked>>

BuyShares(q, price) ==
    /\ Accepts
    /\ Settle(ShareTrade(ledger, q, price), "closed")
    /\ unbooked' = unbooked + Rounding(ledger, q, price)

SellShares(q, price) ==
    /\ Accepts
    /\ q <= ledger.shares
    /\ Settle(ShareTrade(ledger, -q, price), "closed")
    /\ UNCHANGED unbooked

AddLeg(leg) ==
    /\ Accepts
    /\ Len(ledger.legs) < MaxLegs
    /\ Settle([ledger EXCEPT
                  !.cash = @ - CostOf(leg, leg.quantity),
                  !.legs = Append(@, leg)], "open")
    /\ UNCHANGED unbooked

\* One leg, or all of them when the event names none
Selections == {{i} : i \in DOMAIN ledger.legs} \cup {DOMAIN ledger.legs}

\* n[i] contracts of every leg i of S are gone.
Reduced(legs, n, S) ==
    [i \in DOMAIN legs |-> IF i \in S THEN [legs[i] EXCEPT !.closed = @ + n[i]] ELSE legs[i]]

LessContracts(l, n, S) == [l EXCEPT !.legs = Reduced(@, n, S)]

\* ... bought or sold at their marks
Closed(l, n, mark, S) ==
    LET value == [i \in S |-> Direction(l.legs[i]) * mark[i] * n[i] * Lot]
        gain  == [i \in S |-> Direction(l.legs[i]) * (mark[i] - l.legs[i].premium) * n[i] * Lot]
    IN  [LessContracts(l, n, S) EXCEPT !.cash = @ + SumFunction(value),
                                       !.realized = @ + SumFunction(gain)]

\* A selected leg without open contracts makes the event fail.
Close(S, mark) ==
    /\ Accepts
    /\ S \subseteq OpenLegs(ledger)
    /\ Settle(Closed(ledger, [i \in S |-> Open(ledger.legs[i])], mark, S), "closed")
    /\ UNCHANGED unbooked

PartialClose(S, q, mark) ==
    /\ Accepts
    /\ \A i \in S : q <= Open(ledger.legs[i])
    /\ Settle(Closed(ledger, [i \in S |-> q], mark, S), "closed")
    /\ UNCHANGED unbooked

\* roll_strike and roll_expiry: the open contracts are closed at the mark and
\* as many opened on a new leg.  Nothing asks whether there are any.
Roll(i, mark, premium, strike, expiration) ==
    LET leg == ledger.legs[i]
        n   == Open(leg)
        new == [leg EXCEPT !.strike = strike, !.expiration = expiration,
                           !.premium = premium, !.quantity = n, !.closed = 0]
        old == Closed(ledger, [k \in {i} |-> n], [k \in {i} |-> mark], {i})
    IN  /\ Accepts
        /\ Len(ledger.legs) < MaxLegs
        /\ Settle([old EXCEPT !.cash = @ - CostOf(new, n),
                              !.legs = Append(@, new)], "open")
        /\ UNCHANGED unbooked

\* Long calls and short puts bring shares at the strike, the others take them.
Delivered(leg, q) ==
    q * Lot * Direction(leg) * (IF leg.type = "call" THEN 1 ELSE -1)

PremiumOf(l, n, S) == SumFunction([i \in S |-> CostOf(l.legs[i], n[i])])

\* exercise ("exercised"), early_assignment and expiry_assignment ("assigned"):
\* any leg, on either side
Exercise(i, q, status) ==
    LET leg    == ledger.legs[i]
        shares == Delivered(leg, q)
        n      == [k \in {i} |-> q]
    IN  /\ Accepts
        /\ q <= Open(leg)
        /\ Settle(LessContracts(ShareTrade(ledger, shares, leg.strike), n, {i}), status)
        /\ unbooked' = unbooked + Rounding(ledger, shares, leg.strike) + PremiumOf(ledger, n, {i})

InTheMoney(leg, price) ==
    IF leg.type = "call" THEN price > leg.strike ELSE price < leg.strike

\* A selected leg in the money makes the event fail, a closed one too.
Expire(S, price) ==
    LET n == [i \in S |-> Open(ledger.legs[i])]
    IN  /\ Accepts
        /\ \A i \in S : ~InTheMoney(ledger.legs[i], price)
        /\ Settle(LessContracts(ledger, n, S), "expired")
        /\ unbooked' = unbooked + PremiumOf(ledger, n, S)

-----------------------------------------------------------------------------
LedgerInit ==
    /\ \E request \in Requests : ledger = Opened(request)
    /\ unbooked = 0
    /\ events = 0

ShareEvent ==
    \E q \in ShareTrades, price \in Quotes : BuyShares(q, price) \/ SellShares(q, price)

LegEvent ==
    \/ \E S \in Selections : \E mark \in [S -> Marks] :
          Close(S, mark) \/ \E q \in Contracts : PartialClose(S, q, mark)
    \/ \E i \in DOMAIN ledger.legs : \E mark, premium \in Marks :
          \E strike \in Strikes, expiration \in Expirations :
             Roll(i, mark, premium, strike, expiration)
    \/ \E i \in DOMAIN ledger.legs, q \in Contracts, status \in {"exercised", "assigned"} :
          Exercise(i, q, status)
    \/ \E S \in Selections, price \in Quotes : Expire(S, price)

LedgerNext == Hold \/ ShareEvent \/ LegEvent \/ \E leg \in AddedLegs : AddLeg(leg)

LedgerSpec == LedgerInit /\ [][LedgerNext]_ledgerVars

-----------------------------------------------------------------------------
\* Safety

\* Shape of a ledger: no leg has more contracts closed than it had.
LedgerTypeOK ==
    /\ ledger \in [status : {"open", "closed", "expired", "assigned", "exercised"},
                   legs : Seq(Leg), shares : Int, basis : Nat, cash : Int, realized : Int]
    /\ \A i \in DOMAIN ledger.legs : ledger.legs[i].closed <= ledger.legs[i].quantity
    /\ unbooked \in Int
    /\ events \in 0 .. MaxEvents

\* "The ledger can therefore reconcile premium cash, signed shares, share basis,
\* contracts, ... realized P&L": after any sequence of events the cash is the
\* realized profit less what the open shares and contracts cost, and less the
\* premium of contracts that expired, were exercised or assigned, which
\* apply_event leaves in the cash alone.
LedgerReconciles ==
    ledger.cash = ledger.realized - ledger.shares * ledger.basis - OpenCost(ledger) - unbooked

\* A structure named a covered call has the shares for every open short call
\* (current_structure after partial closes, rolls and assignments).
CoveredMeansCovered ==
    Structure(ledger) \in {"Covered Call", "Covered Call + Short Put", "Conversion"} =>
        ledger.shares >= SumFunction([i \in OfKind(ledger, "short", "call") |->
                                         Open(ledger.legs[i]) * Lot])

\* The collateral of a position with one short put is never less than what that
\* put can lose at its expiration against the long puts that expire with it, at
\* any price and after any closes of either (position_collateral).
PutLoss(l, i, price) ==
    LET loss == [k \in DOMAIN l.legs |-> Open(l.legs[k]) * Lot * Max({l.legs[k].strike - price, 0})]
    IN  loss[i] - SumFunctionOnSet(loss, Protective(l, i))

CollateralSecuresPut ==
    \A i \in OfKind(ledger, "short", "put") :
        OfKind(ledger, "short", "put") = {i} =>
            \A price \in 0 .. ledger.legs[i].strike :
                PutLoss(ledger, i, price) <= Collateral(ledger)

=============================================================================
