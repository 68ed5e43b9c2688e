--------------------------- MODULE PositionPlanning ---------------------------
(***************************************************************************)
(* From the portfolio to a staged entry: the intents and entry plans of    *)
(* DecisionCenterService and DecisionCenterRepository on top of the        *)
(* portfolio.  An intent resolves target and maximum and copies what the   *)
(* holdings amount to at that moment; an entry plan divides the target of  *)
(* one intent.  Both are kept in versions.  Every operation is a route on  *)
(* the event loop that writes one statement, so it is one step.            *)
(*                                                                         *)
(* A percentage that only repeats an amount is left out, as are labels,    *)
(* triggers, preferred prices, modes and notes.                            *)
(***************************************************************************)
EXTENDS PortfolioBook, InstrumentFit, Sequences, Functions

CONSTANTS
    IntentInputs,  \* target, maximum and price a client enters
    PlanInputs,    \* sequences of tranches a client enters
    Expressions,   \* expressions a client enters with a plan
    Candidates,    \* expressions a client asks about
    PlanKeys       \* 1 .. n: keys of entry plans, in the order of creation

Percent == (1 .. 100) \cup {None}
Money   == (Nat \ {0}) \cup {None}

IntentInput == [target : Money, targetPercent : Percent,
                maximum : Money, maximumPercent : Percent, price : Money]
Tranche     == [amount : Nat \cup {None}, percent : (0 .. 100) \cup {None}]
SharesEntry == [kind : {"shares"}, quantity : Nat \cup {None}, price : Nat \ {0}]
OptionEntry == [kind : {"option"}, ticker : Tickers, secured : BOOLEAN, committed : Nat,
                collateral : Nat, loss : Nat \cup {Unbounded}, assignment : Nat, premium : Nat]

\* The model validators of the inputs
ASSUME PlanningAssumption ==
    /\ IntentInputs \subseteq IntentInput
    /\ \A i \in IntentInputs :
          /\ i.target # None \/ i.targetPercent # None
          /\ i.maximum # None \/ i.maximumPercent # None
          /\ InOrder(i.target, i.maximum)
          /\ InOrder(i.targetPercent, i.maximumPercent)
    /\ PlanInputs \subseteq Seq(Tranche) \ {<< >>}
    /\ \A p \in PlanInputs : \A n \in DOMAIN p : p[n].amount # None \/ p[n].percent # None
    /\ Expressions \cup Candidates \subseteq SharesEntry \cup OptionEntry
    /\ PlanKeys \subseteq Nat

VARIABLES
    intents,       \* decision_position_intents, one key per company
    plans          \* decision_entry_plans, a key of its own per plan

planningVars == <<portfolioVars, intents, plans>>

-----------------------------------------------------------------------------
\* _resolve_amount_percent

\* round(x, 2): half a cent and more is a cent.
Share(percent, total) == (percent * total + 50) \div 100

\* By more than a dollar and more than a thousandth of the total
Apart(amount, percent, total) ==
    10 * Magnitude(100 * amount - percent * total) > Larger(100000, total)

\* Both are given and say different things.
Disagree(amount, percent, total) ==
    None \notin {amount, percent} /\ Apart(amount, percent, total)

\* None where only a percentage is given and there is no capital to apply it to
Resolve(amount, percent, total) ==
    IF amount # None THEN amount
    ELSE IF Known(total) > 0 THEN Share(percent, total)
    ELSE None

-----------------------------------------------------------------------------
\* save_position_intent

\* Mutated form: every holding under the ticker is counted.
MatchingTicker(c, t) == {h \in Held : positions[h].company = c \/ h = t}

\* Holdings of the company, and unresolved ones under the ticker it has now
Matching(c, t) ==
    {h \in Held : \/ positions[h].company = c
                  \/ positions[h].company = NoCompany /\ h = t}

Worth(h, price) ==
    IF positions[h].value # None THEN Magnitude(positions[h].value)
    ELSE IF price # None THEN Magnitude(positions[h].shares * price)
    ELSE None

Exposure(c, t, price) ==
    IF \E h \in Matching(c, t) : Worth(h, price) = None THEN None
    ELSE SumFunction([h \in Matching(c, t) |-> Worth(h, price)])

Shares(c, t) == SumFunction([h \in Matching(c, t) |-> positions[h].shares])

Investable == IF context = None THEN None ELSE context.investable

Intent(c, t, input) ==
    [company |-> c,
     ticker  |-> t,
     target  |-> Resolve(input.target, input.targetPercent, Investable),
     maximum |-> Resolve(input.maximum, input.maximumPercent, Investable),
     current |-> Exposure(c, t, input.price),
     shares  |-> Shares(c, t)]

\* Mutated form: target and maximum are compared only as they were entered.
ConsistentAsEntered(input, intent) ==
    Known(Investable) > 0 =>
          /\ ~Disagree(input.target, input.targetPercent, Investable)
          /\ ~Disagree(input.maximum, input.maximumPercent, Investable)

Consistent(input, intent) ==
    /\ Known(Investable) > 0 =>
          /\ ~Disagree(input.target, input.targetPercent, Investable)
          /\ ~Disagree(input.maximum, input.maximumPercent, Investable)
    /\ InOrder(intent.target, intent.maximum)

SaveIntent(t, input) ==
    LET c   == owner[t]
        row == NextRow(c, CurrentVersion(intents, c), Intent(c, t, input))
    IN  /\ Changed
        /\ c # NoCompany
        /\ Consistent(input, row.content)
        /\ Unused(intents, row)
        /\ intents' = Inserted(intents, row)
        /\ UNCHANGED <<owner, context, positions, policies, frozen, plans>>

-----------------------------------------------------------------------------
\* save_entry_plan

Amount(tranche, target) ==
    IF tranche.amount # None THEN tranche.amount ELSE Share(tranche.percent, target)

Allocated(tranches, target) ==
    SumFunction([n \in DOMAIN tranches |-> Amount(tranches[n], target)])

WithinTarget(tranches, target) ==
    /\ \A n \in DOMAIN tranches : ~Disagree(tranches[n].amount, tranches[n].percent, target)
    /\ Allocated(tranches, target) <= target + 1

\* Only an option says which ticker it is on.
OnTicker(t, e) == e.kind = "option" => e.ticker = t

EntryPlan(t, intent, tranches, e) ==
    [company    |-> intent.content.company,
     ticker     |-> t,
     intent     |-> intent.version,
     target     |-> intent.content.target,
     allocated  |-> Allocated(tranches, intent.content.target),
     reserve    |-> AtLeast0(intent.content.target - Allocated(tranches, intent.content.target)),
     expression |-> e]

AddPlan(row) ==
    /\ Unused(plans, row)
    /\ plans' = Inserted(plans, row)
    /\ UNCHANGED <<owner, context, positions, policies, frozen, intents>>

\* Any intent of the company may be named, not only the current one.
MayPlan(t, intent, tranches, e) ==
    /\ owner[t] # NoCompany
    /\ intent.content.company = owner[t]
    /\ OnTicker(t, e)
    /\ intent.content.target # None
    /\ WithinTarget(tranches, intent.content.target)

CreatePlan(t, intent, tranches, e) ==
    \E key \in PlanKeys :
        /\ Changed
        /\ Under(plans, key) = {}
        /\ \A other \in PlanKeys : other < key => Under(plans, other) # {}
        /\ MayPlan(t, intent, tranches, e)
        /\ AddPlan(NextRow(key, 0, EntryPlan(t, intent, tranches, e)))

\* The prior plan may be one that has a successor: then the insert fails.
UpdatePlan(t, prior, intent, tranches, e) ==
    /\ Changed
    /\ MayPlan(t, intent, tranches, e)
    /\ prior.content.company = owner[t]
    /\ AddPlan(NextRow(prior.key, prior.version, EntryPlan(t, intent, tranches, e)))

-----------------------------------------------------------------------------
PlanningInit ==
    /\ PortfolioInit
    /\ intents = {}
    /\ plans = {}

PlanningNext ==
    \/ PortfolioNext /\ UNCHANGED <<intents, plans>>
    \/ \E t \in Tickers :
          \/ \E input \in IntentInputs : SaveIntent(t, input)
          \/ \E intent \in intents, tranches \in PlanInputs, e \in Expressions :
                \/ CreatePlan(t, intent, tranches, e)
                \/ \E prior \in plans : UpdatePlan(t, prior, intent, tranches, e)

PlanningSpec == PlanningInit /\ [][PlanningNext]_planningVars

-----------------------------------------------------------------------------
\* Properties

(* However target and maximum were entered and whatever capital was saved  *)
(* in between, an entry plan divides the target of an intent of its own    *)
(* company that is still stored, to the cent, leaves the rest in reserve   *)
(* and never plans for more than the maximum of that intent.               *)
PlanWithinIntent ==
    \A p \in plans :
        \E i \in Under(intents, p.content.company) :
            /\ i.version = p.content.intent
            /\ i.content.target = p.content.target
            /\ p.content.allocated + p.content.reserve - p.content.target \in {0, 1}
            /\ i.content.maximum # None => p.content.allocated <= i.content.maximum + 1

(* A purchase the program sizes itself never carries the exposure of the   *)
(* intent over its target or its maximum, and stops less than one share    *)
(* short of the target.                                                    *)
SizingStopsAtTarget ==
    \A i \in intents, e \in Candidates :
        LET intent == i.content
            post   == PostExposure(intent, e)
        IN  /\ e.kind = "shares"
            /\ e.quantity = None
            /\ None \notin {intent.target, intent.current}
            => /\ post <= Larger(intent.target, intent.current)
               /\ intent.target - post < e.price
               /\ SizeCheck(intent, e) # "fail"

(* A purchase that passes every check against the policy in force also     *)
(* passes the stress test at any fall of the price: the two answers a      *)
(* client compares, computed apart, do not contradict each other.  For an  *)
(* option that needs the Option Lab not to reprice it below its maximum    *)
(* loss, nor above its cost, and its footprint to be its capital.          *)
Falls == {[change |-> change, repriced |-> -loss] : change \in {0, -20, -40, -99}, loss \in {0, 500, 900}}

FitCoversStress ==
    \A i \in intents, e \in Candidates, fall \in Falls :
        /\ Fit(i.content, e, context, PolicyInForce) = "pass"
        /\ e.kind = "option" => ~e.secured /\ -fall.repriced <= e.loss
        => Overall(StressChecks(i.content, e, context, PolicyInForce, fall)) = "pass"

(* No holding counts towards the exposure of two companies, however its    *)
(* ticker changes hands after it was saved.                                *)
HoldingCountsOnce ==
    \A h \in Held, s, t \in Tickers :
        h \in Matching(owner[s], s) \cap Matching(owner[t], t)
        => owner[s] = owner[t] \/ NoCompany \in {owner[s], owner[t]}

=============================================================================
