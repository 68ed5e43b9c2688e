--------------------------- MODULE CompanyIdentity ---------------------------
(***************************************************************************)
(* Which company a ticker belongs to: CompanyIdentityRepository.  A        *)
(* company is known by its CIK; the rows of company_security_mappings say  *)
(* from which day to which day it had a ticker on an exchange, and which   *)
(* of its tickers is the primary one.  Each operation is one transaction:  *)
(* one that raises leaves nothing behind, so it is not a step.             *)
(*                                                                         *)
(* A row is active while its valid_to is NULL; both columns are only ever  *)
(* written together, so the status is read off the day, NULL being a day   *)
(* after all others as it is in coalesce(valid_to, DATE '9999-12-31').     *)
(* Names, sectors, provenance and timestamps are left out.                 *)
(***************************************************************************)
EXTENDS Integers

CONSTANTS
    Companies,     \* CIKs
    Tickers,
    Exchanges,     \* normalized exchanges
    NoExchange,    \* the one that is NULL
    LastDay,       \* days are 1 .. LastDay
    NoCompany,     \* the answer None
    MaxChanges     \* bound on the operations

ASSUME IdentityAssumption ==
    /\ LastDay \in Nat \ {0}
    /\ NoCompany \notin Companies
    /\ MaxChanges \in Nat

Days    == 1 .. LastDay
Forever == LastDay + 1

Mapping == [company : Companies, ticker : Tickers, exchange : Exchanges,
            from : Days, to : 1 .. Forever, primary : BOOLEAN]

VARIABLES
    status,        \* companies.status, "absent" without a row
    mappings,      \* company_security_mappings
    effective,     \* history: the first day the last operation is about
    changes        \* number of operations so far

identityVars == <<status, mappings, effective, changes>>

-----------------------------------------------------------------------------
\* Reads

Active(rows)      == {m \in rows : m.to = Forever}
OfTicker(rows, t) == {m \in rows : m.ticker = t}
Of(rows, c)       == {m \in rows : m.company = c}
Primaries(rows)   == {m \in rows : m.primary}

\* ORDER BY is_primary DESC, valid_from DESC: a lower rank comes first.
Rank(m) == (IF m.primary THEN 0 ELSE Forever) + (Forever - m.from)

\* ... LIMIT 1
First(rows) == CHOOSE m \in rows : \A n \in rows : Rank(m) <= Rank(n)

\* _active_ticker_owner
ActiveOwner(rows, t) ==
    LET owning == OfTicker(Active(rows), t)
    IN  IF owning = {} THEN NoCompany ELSE First(owning).company

\* A ticker another company has at present
Taken(rows, t, c) == ActiveOwner(rows, t) \notin {NoCompany, c}

\* _active_primary: there may be none
ActivePrimaries(rows, c) == Primaries(Active(Of(rows, c)))

\* The rows among which resolve_ticker(as_of=d) finds its answer
Covering(t, d) == {m \in OfTicker(mappings, t) : m.from <= d /\ d <= m.to}

\* ORDER BY coalesce(valid_to, DATE '9999-12-31') DESC, valid_from DESC LIMIT 1
Latest(rows) ==
    CHOOSE m \in rows : \A n \in rows : m.to > n.to \/ (m.to = n.to /\ m.from >= n.from)

\* Mutated form: a ticker that nobody has at present is unknown.
ResolveActive(rows, t) == ActiveOwner(rows, t)

\* resolve_ticker without a date: an active mapping, else the latest one
Resolve(rows, t) ==
    IF ActiveOwner(rows, t) # NoCompany THEN ActiveOwner(rows, t)
    ELSE IF OfTicker(rows, t) = {} THEN NoCompany
    ELSE Latest(OfTicker(rows, t)).company

-----------------------------------------------------------------------------
\* Writes

NewRow(c, t, x, day, primary) ==
    [company |-> c, ticker |-> t, exchange |-> x, from |-> day, to |-> Forever,
     primary |-> primary]

\* Active rows of a company for a ticker on an exchange
Same(rows, c, t, x) == {m \in OfTicker(Active(Of(rows, c)), t) : m.exchange = x}

\* UNIQUE (company_id, ticker, exchange, valid_from), where a NULL equals nothing
Unique(rows, c, t, x, day) ==
    x # NoExchange => \A m \in OfTicker(Of(rows, c), t) : m.exchange = x => m.from # day

\* _register_security raises for a foreign ticker and for a second primary, and
\* the table refuses a row it has already had.
MayRegister(rows, c, t, x, day, primary) ==
    /\ ~Taken(rows, t, c)
    /\ Same(rows, c, t, x) = {} =>
          /\ primary => ActivePrimaries(rows, c) = {}
          /\ Unique(rows, c, t, x, day)

\* _register_security: an existing row is kept, or becomes primary where the
\* company has no primary; otherwise a row is added.
Registered(rows, c, t, x, day, primary) ==
    LET old == First(Same(rows, c, t, x))
    IN  IF Same(rows, c, t, x) = {} THEN rows \cup {NewRow(c, t, x, day, primary)}
        ELSE IF primary /\ ActivePrimaries(rows, c) = {}
        THEN (rows \ {old}) \cup {[old EXCEPT !.primary = TRUE]}
        ELSE rows

\* valid_to and the status of some rows
Ended(rows, some, day) == (rows \ some) \cup {[m EXCEPT !.to = day] : m \in some}

Changed(day) ==
    /\ changes < MaxChanges
    /\ changes' = changes + 1
    /\ effective' = day

\* Mutated form: the ticker of another company is not refused.
RegistersAny(c, t, x, day, primary) ==
    mappings' = Registered(mappings, c, t, x, day, primary)

Registers(c, t, x, day, primary) ==
    /\ MayRegister(mappings, c, t, x, day, primary)
    /\ mappings' = Registered(mappings, c, t, x, day, primary)

\* upsert_company: a primary that is the registered ticker is only refreshed,
\* any other ticker of a company with a primary is an alternate.
UpsertCompany(c, t, x, day) ==
    /\ Changed(day)
    /\ status' = [status EXCEPT ![c] = "active"]
    /\ IF ActivePrimaries(mappings, c) = {} THEN Registers(c, t, x, day, TRUE)
       ELSE LET current == First(ActivePrimaries(mappings, c))
            IN  IF current.ticker = t /\ current.exchange = x
                THEN ~Taken(mappings, t, c) /\ UNCHANGED mappings
                ELSE Registers(c, t, x, day, FALSE)

\* register_security
RegisterSecurity(c, t, x, day) ==
    /\ Changed(day)
    /\ status[c] # "absent"
    /\ Registers(c, t, x, day, FALSE)
    /\ UNCHANGED status

\* The rows a ticker change ends
Replaced(c, t) == {m \in Active(Of(mappings, c)) : m.primary \/ m.ticker = t}

\* Mutated form: the earlier mapping ends two days before the change.
EndedBeforeEarly(rows, some, day) ==
    Ended(rows, some, day - 2)

\* ... on the day before the new one begins
EndedBefore(rows, some, day) ==
    Ended(rows, some, day - 1)

Reactivated(c) ==
    status' = [status EXCEPT ![c] = "active"]

\* change_primary_ticker, which returns at once when nothing changes
ChangePrimaryTicker(c, t, x, day) ==
    LET old  == Replaced(c, t)
        rows == EndedBefore(mappings, old, day)
    IN  /\ Changed(day)
        /\ status[c] # "absent"
        /\ ~Taken(mappings, t, c)
        /\ \A m \in ActivePrimaries(mappings, c) : m.ticker # t \/ m.exchange # x
        /\ \A m \in old : m.from < day
        /\ MayRegister(rows, c, t, x, day, TRUE)
        /\ mappings' = Registered(rows, c, t, x, day, TRUE)
        /\ Reactivated(c)

\* mark_inactive
MarkInactive(c, last) ==
    LET old == Active(Of(mappings, c))
    IN  /\ Changed(last + 1)
        /\ status[c] # "absent"
        /\ \A m \in old : m.from <= last
        /\ mappings' = Ended(mappings, old, last)
        /\ status' = [status EXCEPT ![c] = "inactive"]

-----------------------------------------------------------------------------
Init ==
    /\ status = [c \in Companies |-> "absent"]
    /\ mappings = {}
    /\ effective = 1
    /\ changes = 0

Next ==
    \E c \in Companies, day \in Days :
        \/ MarkInactive(c, day)
        \/ \E t \in Tickers, x \in Exchanges :
              \/ UpsertCompany(c, t, x, day)
              \/ RegisterSecurity(c, t, x, day)
              \/ ChangePrimaryTicker(c, t, x, day)

Spec == Init /\ [][Next]_identityVars

-----------------------------------------------------------------------------
\* Properties

(* Every table holds rows of its type, and a closed mapping ends on a day  *)
(* that is not before the day it begins.                                   *)
TypeOK ==
    /\ status \in [Companies -> {"absent", "active", "inactive"}]
    /\ mappings \subseteq Mapping
    /\ \A m \in mappings : m.from <= m.to
    /\ effective \in 1 .. Forever
    /\ changes \in 0 .. MaxChanges

(* An active ticker belongs to one company, whatever the order in which    *)
(* companies are registered, renamed, delisted and registered again: the   *)
(* look-up of a ticker cannot answer with one of two companies.            *)
ActiveTickerHasOneOwner ==
    \A m, n \in Active(mappings) : m.ticker = n.ticker => m.company = n.company

(* A company is active exactly while one of its active mappings is its     *)
(* primary one, and never has two: the workspace of an active company      *)
(* always finds its ticker, and no operation leaves a delisted company     *)
(* with a primary that is still open.                                      *)
ActiveCompanyHasOnePrimary ==
    \A c \in Companies :
        /\ (status[c] = "active") <=> ActivePrimaries(mappings, c) # {}
        /\ \A m, n \in ActivePrimaries(mappings, c) : m = n

(* No registration, ticker change or delisting alters which companies had  *)
(* a ticker on the days before the one it takes effect: research as of     *)
(* those days keeps resolving its tickers among the same owners.           *)
Owners(t, d) == {m.company : m \in Covering(t, d)}

PastOwnersStay ==
    [][\A t \in Tickers, d \in Days : d < effective' => Owners(t, d)' = Owners(t, d)]_identityVars

(* Tickers resolve as the rest of the program expects: a step on one       *)
(* company gives it tickers or takes them from it, and a ticker that was   *)
(* known once always finds a company, the last one that had it.            *)
Directory == INSTANCE TickerDirectory
             WITH owner <- [t \in Tickers |-> Resolve(mappings, t)]

DirectoryContract == Directory!Spec

=============================================================================
