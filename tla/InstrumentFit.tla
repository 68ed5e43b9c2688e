---------------------------- MODULE InstrumentFit ----------------------------
(***************************************************************************)
(* Whether a purchase fits an intent, the capital and the risk policy: the *)
(* arithmetic of decision_center/engine.py.                                *)
(*                                                                         *)
(* An intent knows its target, its maximum and the exposure of the moment  *)
(* it was saved, any of them None when unknown.  An expression is a        *)
(* purchase of shares, with or without a quantity, or an option position,  *)
(* of which the Option Lab says what it commits, secures, may lose, may    *)
(* have to buy and earns in premium.  Money is in cents.  A percentage of  *)
(* the portfolio is compared by multiplication: the code divides and       *)
(* rounds to four decimals, which differs by less than one in 10^6 of the  *)
(* portfolio.  Labels, arithmetic lines and warnings are left out.         *)
(***************************************************************************)
EXTENDS Amounts

CONSTANT Unbounded     \* the maximum loss that is a text

ASSUME FitAssumption == Unbounded \notin Int \cup {None}

-----------------------------------------------------------------------------
\* Sizes

\* What is left to buy up to the target
Missing(intent) == AtLeast0(intent.target - Known(intent.current))

\* Mutated form: one share more than there is room for.
QuantityUp(intent, e) ==
    IF e.quantity # None THEN e.quantity
    ELSE IF intent.target = None THEN 0
    ELSE (Missing(intent) + e.price - 1) \div e.price

Quantity(intent, e) ==
    IF e.quantity # None THEN e.quantity
    ELSE IF intent.target = None THEN 0
    ELSE Missing(intent) \div e.price

SharesCapital(intent, e) ==
    IF intent.target = None /\ Quantity(intent, e) = 0 THEN None
    ELSE Quantity(intent, e) * e.price

OptionCapital(e) ==
    Larger(Larger(e.committed, e.collateral), IF e.loss = Unbounded THEN 0 ELSE e.loss)

\* A cash-secured put counts with the shares it may have to buy.
Footprint(intent, e) ==
    IF e.kind = "shares" THEN SharesCapital(intent, e)
    ELSE IF e.secured THEN e.assignment
    ELSE OptionCapital(e)

CashUse(intent, e) ==
    IF e.kind = "shares" THEN SharesCapital(intent, e)
    ELSE IF e.secured THEN e.assignment - e.premium
    ELSE OptionCapital(e)

Capital(intent, e) == IF e.kind = "shares" THEN SharesCapital(intent, e) ELSE OptionCapital(e)
Loss(intent, e)    == IF e.kind = "shares" THEN SharesCapital(intent, e) ELSE e.loss
Obligation(e)      == IF e.kind = "shares" THEN 0 ELSE e.assignment
Secured(e)         == IF e.kind = "shares" THEN 0 ELSE e.collateral

\* Mutated form: what is already held is forgotten.
PostExposureAlone(intent, e) == IF intent.current = None THEN None ELSE Footprint(intent, e)

PostExposure(intent, e) == Plus(intent.current, Footprint(intent, e))

CashLeft(intent, e, context) ==
    IF context = None THEN None ELSE Minus(context.cash, CashUse(intent, e))

-----------------------------------------------------------------------------
\* Checks

\* _percent and _percent_check
WithinPercent(amount, limit, context) ==
    IF amount = None \/ context.investable = 0 THEN "incomplete"
    ELSE IF 100 * amount <= limit * context.investable THEN "pass"
    ELSE "fail"

SizeCheck(intent, e) ==
    IF None \in {intent.maximum, Footprint(intent, e)} THEN "incomplete"
    ELSE IF Footprint(intent, e) > intent.maximum THEN "fail"
    ELSE "pass"

\* A hundred times the cash to be kept
Reserve100(context, policy) ==
    Larger(100 * Known(policy.reserve), Known(policy.reservePercent) * context.investable)

ReserveCheck(intent, e, context, policy) ==
    IF CashLeft(intent, e, context) = None THEN "incomplete"
    ELSE IF 100 * CashLeft(intent, e, context) >= Reserve100(context, policy) THEN "pass"
    ELSE "fail"

LossCheck(intent, e, context, policy) ==
    IF Loss(intent, e) = Unbounded THEN "fail"
    ELSE WithinPercent(Loss(intent, e), policy.stress, context)

CheckKeys == {"size", "single_name", "assignment", "cash_reserve", "collateral", "stress_loss"}

\* _policy_checks: without capital or policy no check can be made.
Checks(intent, e, context, policy) ==
    IF None \in {context, policy} THEN [key \in CheckKeys |-> "incomplete"]
    ELSE [size         |-> SizeCheck(intent, e),
          single_name  |-> WithinPercent(PostExposure(intent, e), policy.single, context),
          assignment   |-> IF Obligation(e) > 0
                           THEN WithinPercent(Obligation(e), policy.assignment, context)
                           ELSE "not_applicable",
          cash_reserve |-> ReserveCheck(intent, e, context, policy),
          collateral   |-> IF Secured(e) > 0
                           THEN WithinPercent(Secured(e), policy.collateral, context)
                           ELSE "not_applicable",
          stress_loss  |-> LossCheck(intent, e, context, policy)]

\* _overall
Overall(checks) ==
    LET statuses == {checks[key] : key \in DOMAIN checks}
    IN  IF "fail" \in statuses THEN "fail"
        ELSE IF "incomplete" \in statuses THEN "incomplete"
        ELSE "pass"

Fit(intent, e, context, policy) == Overall(Checks(intent, e, context, policy))

-----------------------------------------------------------------------------
\* Stress: the shares are repriced, an option is repriced by the Option Lab.

StressedPrice(price, change) == (price * (100 + change) + 50) \div 100

StressPnl(intent, e, scenario) ==
    IF e.kind = "shares"
    THEN Quantity(intent, e) * (StressedPrice(e.price, scenario.change) - e.price)
    ELSE scenario.repriced

\* The stressed purchase on top of the exposure at its old value
StressedExposure(intent, e, scenario) ==
    Known(intent.current)
      + AtLeast0(Known(Capital(intent, e)) + StressPnl(intent, e, scenario))

\* _stress_checks: without capital in the portfolio the loss counts as none.
StressChecks(intent, e, context, policy, scenario) ==
    LET lost == AtLeast0(-StressPnl(intent, e, scenario))
    IN  IF None \in {context, policy} THEN [stress_loss |-> "incomplete"]
        ELSE [single_name |-> WithinPercent(StressedExposure(intent, e, scenario),
                                            policy.single, context),
              stress_loss |-> IF 100 * lost <= policy.stress * context.investable
                                 \/ context.investable = 0
                              THEN "pass" ELSE "fail"]

=============================================================================
