# A verification project for GBB Terminal

TLA+ modules that model GBB Terminal (the Python package `src/src/gbb_terminal`, below
written without that prefix), TLC configurations that check them on small instances, and
theorems the TLA+ proof system checks for every size. `PROJECT.json` is the machine-readable
index: components, runs, the code lines every definition stands for, the hazards of the code,
and the theorems.

GBB Terminal is a local research application: a FastAPI process with one DuckDB file. It
refreshes a research universe (the S&P 500) and the public SEC evidence of companies in
background jobs, caches market data, keeps point-in-time research records, runs backtests
and parameter searches, and keeps ledgers of option positions and a decision journal.

1. Inventory
2. The modules and how they correspond to the code
3. Runs
4. Bounds, fairness and assumptions
5. Proofs
6. Disagreements between code and documents
7. What is not modelled
8. What is left

---

## 1. Inventory

### How the parts interact

* **One process, one event loop.** Most routes are `async def` and run their repository calls
  on the loop, so whatever stands between two `await`s is atomic with respect to other
  coroutines. A process that is stopped comes back with the database and nothing else: no
  start-up code looks at rows a dead process left behind.
* **Worker threads.** The intelligence refresh runs in `asyncio.to_thread`; provider calls
  of the universe refresh do too, but they write nothing. So the repositories of the
  intelligence package are used from the loop *and* from a thread.
* **One connection.** All repositories of `LocalMarketStore` share a single DuckDB connection.
  A transaction belongs to that connection, whichever thread began it. Only the job rows are
  read and written through cursors, which are connections of their own.
* **Jobs.** A job is a row of `local_jobs`. A route creates it, a runner reports on it, the
  client polls it, and a cancellation route sets a flag the runner reads.

```
 client -> routes (event loop) ---- create / cancel / poll ----> local_jobs (own cursors)
              |                                                     ^
              +-> universe refresh (coroutines on the loop) --------+
              +-> intelligence refresh (one thread per job) --------+
              +-> parameter search (inside the request) ------------+
              |        |
              v        v
      repositories: universe, evidence, identity, relationships, guidance, operations,
      facts, options, strategies, decisions, portfolio
              |        |
              v        v
            one DuckDB connection (BEGIN / COMMIT / ROLLBACK)
```

### Components

| Component | State | Operations | What is hard | What makes it correct |
|---|---|---|---|---|
| Local jobs (`storage/database.py`) | row: status, progress, result, error, cancel flag | create, update, request cancellation, read | updates keyed by id alone, never guarded by the status; error text decides `cancelled` | a job ends once, progress is monotone, an ended row is final |
| Universe refresh (`universe/`) | snapshots, run, items, company cache; coroutine locals | post, cancel, snapshot, benchmark, one task per company, reconcile | tasks under a semaphore, values read before an await and used after it, late cancellation, a crash between two writes | run, items and job agree; a complete record is backed; cancellation wins |
| Public document collection (`intelligence/collection_*`) | run, items, counters; thread locals | discover, loop over documents, stop, finish | two jobs of one company in two threads; cancellation read once per document | every outcome stored; the run follows from its items; cancel ends the loop |
| Evidence store (`intelligence/evidence_*`) | document versions, content, parse status, spans | save document, content, span, mark parsed/failed | check and write in two statements; parser-version caching | failed documents have no spans; versions are linear; parsed evidence stays |
| Option ledger (`options/lifecycle.py`) | cash, realized, shares, basis, legs, status | buy/sell shares, close, roll, expire, assign, exercise, add leg | long sequences of legal events; retried requests; partial closes | cash reconciles; open exactly while exposed; covered means covered; stored state is readable |
| Shared connection (`storage/database.py`) | open transaction, its pending rows | every repository call | statements of two threads interleave; BEGIN outside the try; ROLLBACK of whatever is open | transactional calls are whole; no transaction is left open; returned rows stay |
| Market data cache (`market_data/service.py`) | price history, refresh loop | load, save, refresh in the background | window arithmetic, stale fallback, loop ended by an exception | a saved history is found again; the loop goes on |
| Company identity (`intelligence/repository.py`) | companies, securities, ticker histories | upsert, register, change ticker, mark inactive, resolve as of | ticker reuse, intervals that overlap | one owner per ticker and date, one primary per company |
| Relationships (`intelligence/relationship*`) | observations of an edge, their evidence | extract, correct, read as of | observations saved out of the order they became known; corrections dated freely | the current observation is not superseded; what was seen as of a time stays |
| Guidance (`intelligence/guidance*`) | statements, evaluations, evidence | extract, withdraw, evaluate, read as of | documents newest first, a predecessor chosen among all times, forced re-extraction | one chain of revisions; superseded exactly with a successor |
| Operating metrics (`intelligence/operations*`) | definition versions, figures, evidence | extract in two transactions, read as of | a basis that changes and changes back, earlier filings refused | versions 1..n of one chain; growth and mix inside one version or basis |
| Facts, metrics, valuation (`intelligence/fact_*`, `metrics.py`, `valuation.py`, `earnings.py`) | observations with the time they became known; points, events, reactions | fetch with stand-ins from the cache, save, upgrade of times, read as of, derive quarters and years, value sessions, date events | facts and times of acceptance arrive in any order; amendments, comparatives, gaps | nothing uses what was not known yet; what was known stays; quarters and years agree with the books |
| Strategy catalogue | strategies, fingerprints, references | save, deduplicate | references repointed while rows go | no reference dangles |
| Backtest engine (`backtesting/engine.py`, `execution.py`) | position, entry price, trailing extreme; equity | one step per bar, execution at the next open with costs, trade ledger | a signal of a bar and its execution on the next, stops before signals, a position carried into a window | no trade uses its future; the ledger explains the equity |
| Parameter search (`backtesting/parameter_search.py`) | job row, trials | load, split, try, test, store, cancel | a thread inside a request, cancellation between trials, an error that is not a `ValueError` | the choice ignores the final window; the stored run is the best one; every job ends |
| Portfolio and risk policy (`portfolio/`) | context, holdings, policies and their frozen copies | save, resolve a ticker, freeze | holdings matched by a company that was resolved at saving | no holding counts twice |
| Decision center (`decision_center/`) | theses, intents, plans, decisions, revisions | save, plan, decide, update, size, check, stress | amounts or percentages or both, rounding; row and revision in two statements; versions computed as max + 1 | plans stay in their intent; sizing stops at the target; decisions keep what they froze; versions are one chain |
| Option planning and pricing, charting, document parser, providers, translator, migrations, shell, web client | none, or wiring | | numerical or textual | not a question of states |

`PROJECT.json` lists each with its sources, its modules and its status, and 40 hazards with the
line where each bites and the properties that cover it.

---

## 2. The modules and how they correspond to the code

```
 LocalJobStore  (rows and row functions of local_jobs)
   ^    ^   ^
   |    |   +-- IntelligenceRefresh -----------+
   |    +------ UniverseRefresh ---------------+-- implement --> LocalJob (the contract of a job)
   +----------- ParameterSearch ---------------+
                   |
                   v
                BacktestEngine  (one pass over a price history)

 AsOfRows  (append-only rows read as of a time)
   ^   ^   ^
   |   |   +-- RelationshipHistory --+
   |   +------ GuidanceHistory ------+--> DocumentClaims  (who writes them, and when)
   +---------- OperatingHistory -----+

 CompanyIdentity -- implements --> TickerDirectory
                                        ^
 VersionedRows   PortfolioBook ---------+
   ^                ^
   |                |    InstrumentFit (sizing, checks, stress)
   |                |        ^
   +------------ PositionPlanning  (intents and entry plans)
                     ^
                 DecisionJournal -- implements --> VersionChain (four times)

 FactStore ---+
              +--> PointInTime  (valuations, events and reactions)
 PeriodMetrics+
 OptionLedger
 RepositoryCalls --> SharedConnection  (the programs and how they interleave)
 Amounts  (integers that may be missing)
```

Each module that is checked by itself has an `MC...`
module with the definitions its configurations assign to the constants. Operators marked
*Mutated form* are plausible wrong versions of the definition that follows them; they are never
part of a specification and serve to show that each property can be violated by a change of
the code it is about.

### LocalJobStore and LocalJob

`LocalJobStore` has the row and what `create_job`, `update_job` and `request_job_cancellation` do to
it, pure functions from row to row. Progress is an integer in `0..Whole`. The store does not
guard its updates, so whether a job behaves is a property of the *runners*. `LocalJob` states the
contract a polling client relies on, and both refreshes and the parameter search are checked to implement it
(`JobContract`, with the rows themselves as refinement mapping).

### UniverseRefresh

`UniverseResearchService.refresh`, the rows `UniverseRepository` keeps and the routes of
`api/routes/universes.py`. A coroutine is `pc[j]` (created, awaiting the snapshot, awaiting the
benchmark, awaiting `gather`) and its company tasks are `task[j][s]` (ready, waiting for a permit,
fetching, done). An action is what the loop runs between two awaits:

| Action | Code |
|---|---|
| `Post`, `Cancel` | the two routes |
| `Begin`, `SnapshotAnswer`, `BenchmarkAnswer`, `Raise` | `refresh` up to `gather`, and `run_refresh` recording an exception |
| `Process` | `process`: start, skip a fresh record, wait for a permit, fetch three inputs, persist |
| `Finish`, `FinishRaises` | from `gather`'s return: reconcile items, compute the status, write run and job |
| `CrashWhileStoring`, `CrashWhileFinishing`, `Crash` | process death within or between those writes |
| `Expire` | `_fresh` compares `last_success_at` with the clock |

The bodies under `persistence_lock` hold no `await`, so they are atomic but for crashes and
exceptions, which are modelled at every write. A download that is retried inside
`_fetch_inputs` is one answer: complete, partial or failed. A fraction of work is `completed / total`.

### IntelligenceRefresh

`IntelligenceRefreshService.refresh`, the document rows of `EvidenceRepository`, and the route that
runs it as a job. The worker thread is a program counter with one position per access to rows
another thread may change; `job`, `run`, `item`, `document` are the tables; `index`, `content`,
`base`, `seen`, `counts` are locals. What a parser makes of a content (evidence, text without
evidence, unreadable, unsupported) is a constant `Outcome` per content and *release*: a restart may
bring a new `DOCUMENT_PARSER_VERSION`, as the code's cache key foresees. Spans are a Boolean (there
are some): several spans of a document behave alike with respect to status.

### AsOfRows, the three histories and DocumentClaims

What `IntelligenceRefresh` takes for a Boolean (a document has claims) is the subject here. `AsOfRows` has
what the tables share: rows are only appended, carry `known_at`, and are read with
`known_at <= as_of` in the order of `known_at, created_at`. A table is a sequence, a row's
position its identifier: identifiers hash the content, so a row that says the same is the same row.

| Module | Code |
|---|---|
| `RelationshipHistory` | `RelationshipRepository`, `override`, `network` and `history` of `RelationshipService` |
| `GuidanceHistory` | `GuidanceRepository`, `GuidanceService`, the choice of a predecessor in `GuidanceDocumentExtractor._command` |
| `OperatingHistory` | `OperationsRepository`, `OperationsIntelligenceService.history`, the choice of a predecessor in `OperationsDocumentExtractor.extract` |
| `DocumentClaims` | the loop of `IntelligenceRefreshService.refresh` over documents, newest first (`_submission_rows`), `DocumentExtractionService.extract` claim by claim, the override route, `withdraw` and `evaluate_numeric` |

Every save is one step, because each repository wraps it in one transaction; a figure takes two
(`save_definition`, then `save_observation`), and `definition` holds what the first returned. A document
is the sequence of claims extraction finds in it (`Claims`): relationships, then figures, then sentences, as
`extract` goes through them. A thread of guidance is topic, metric and fiscal period; all commitments without
a metric share one thread. Sentences are model values with the interval of actual values that deliver them.
`dated` is a history variable: the `known_at` of the command of the last step.

Facts of the code the model shows and no document contradicts: an older filing, extracted after a newer one,
supersedes its guidance (`guidance_repository.py:178`) and its figures are refused when their basis is the one of
the newer (`operations_repository.py:57`); a range of numbers without a unit gives up the rest of the
document (`document_extraction.py:245`); the mix of a member is relative to its own basis, whose text names the
member, so it compares a member with itself (`operations.py:152`); an extracted statement has no
`applicable_period_end`, so `evaluate_from_metrics` refuses all of them.

### OptionLedger

`initial_state`, `apply_event` and `position_collateral` of `options/lifecycle.py` with
`current_structure`, and the route that reads, applies and stores one event. Money is in integers, the
contract multiplier is the constant `Lot`. `ShareEvent`, `LegEvent` and `AddLeg` are the kinds of
events with their checks; a rejected event changes nothing and is not a step. `unbooked`
is a history variable: the premium of contracts that expired or were exercised or assigned, which
`apply_event` leaves in `cash` without moving it to `realized_pnl`. `LedgerReconciles` states the
identity with this term, so it says both that nothing else is lost and what is left out.

Facts of the code the model shows and no document contradicts: a roll does not ask whether its leg has
open contracts (`lifecycle.py:162`); EXPIRE without a leg also tests closed legs (194-198); one
protective long leg counts for several short legs (216-237), which is why `CollateralSecuresPut` is
stated for positions with a single short put; events carry no request key, so a retried
request is applied twice.

### SharedConnection

Every repository call is a *program*: its statements in order (`begin`, `read`, `write`, `commit`).
`RepositoryCalls` holds them, each mapped to the method it stands for, nineteen in all. A thread runs one call at a
time; each action executes one statement, and statements of different threads interleave.
`owner` is the call that began the open transaction, `pending` its rows.

* BEGIN stands *before* the `try` in every repository; with a transaction open it is refused and the
  call ends without ROLLBACK. This placement is what keeps transactions whole, and the mutant
  `BeginRefusedInTry` shows it.
* A failing statement inside the `try` leads to ROLLBACK and the error is raised again.
* A write with no BEGIN of its own joins whatever transaction is open.

What a statement does to the connection is DuckDB's and is modelled from how the code relies on it
(external in the map): a refused statement may or may not abort the open transaction; an aborted one
refuses everything but ROLLBACK; a COMMIT may fail and end the transaction; an unfinished transaction
is gone after a restart.

### CompanyIdentity and TickerDirectory

`CompanyIdentityRepository`: `upsert_company`, `register_security`, `change_primary_ticker` and
`mark_inactive` in any order, each one transaction that leaves nothing behind when it raises. A row of
`company_security_mappings` is a record with the days it covers; `valid_to` NULL is the day after all others, as it
is in `coalesce(valid_to, DATE '9999-12-31')`. `Resolve` is `resolve_ticker` with `as_of`. `effective` is a history
variable: the first day the last operation is about. `TickerDirectory` is what other components rely on, a partial
function from tickers to companies one operation of one company changes; `DirectoryContract` maps
`owner` to the look-up of the active rows. `PortfolioBook` starts from that directory and not from the rows.

### Versions, portfolio and the decision center

`VersionedRows` is what `risk_policies`, `decision_theses`, `decision_position_intents` and
`decision_entry_plans` have in common: rows under a key and a version with UNIQUE (key, version), the current one
being the highest. `VersionChain` is the promise: versions 1, 2, 3, ... under each key, added at the end and never
altered. `Amounts` has integers that may be missing and what Python's `None` checks make of them.

| Module | Code |
|---|---|
| `PortfolioBook` | context, holdings, policies and frozen policies (`portfolio/service.py`, `portfolio/repository.py`) |
| `InstrumentFit` | sizing, checks against the policy and stress test (`decision_center/engine.py`), functions without a state |
| `PositionPlanning` | intents and entry plans (`decision_center/service.py`, `repository.py`) |
| `DecisionJournal` | theses, their frozen copies, decisions and revisions, the two statements of a decision and a stop between them |

Money is in cents and percentages are integers, so `round(x, 2)` is `(percent * total + 50) \div 100` and the tolerance
of `_resolve_amount_percent` is exact. Every request is one step of the event loop, because no `await` stands
between its reads and its statement, except that a decision has two statements (`saving` holds the row whose
revision is still missing; `Interrupt` is a stop or a failing insert).

Facts of the code the model shows: the size check compares the *footprint* of one expression with the maximum, which the
exposure after the purchase is then compared with again; a holding whose ticker resolved to no company
when it was saved counts under that ticker only; the engine works with the exposure the intent copied when it was
saved; the stress test takes an unknown exposure for 0; an update that leaves out the review or the outcome
erases it; an unknown thesis or intent id freezes nothing and says nothing.

### BacktestEngine and ParameterSearch

`BacktestEngine` is one pass of `DeclarativeStrategy.positions`, `apply_execution`, `_trades` and `calculate_metrics` over a
history of integer opens and closes: a strategy is its side, the closes at which it enters and leaves, its warm-up, and
stop, target, trailing stop, ATR stop and limit in time. It is a recursive function over the sessions. Equity is a
product of ratios; prices of which each divides the double of every other make every factor a number of quarters, so it is kept as
a whole number of units (`Unit`, a power of four).

`ParameterSearch` is the route with its thread: load, split (`_walk_forward_windows`, with integer percentages), ask
whether it is cancelled, try a candidate on every fold, choose, test on the final window, store, close the job. `Worth` is
what each candidate scores on each history that can be split (`Searchable`). Grid and guided searches differ in
how many candidates they try. An error other than `ValueError` ends the search with its row running (`Raise`).

Facts of the code: a position that is open when a window begins keeps the entry price of its warm-up while the
ledger enters it at the window's next open (`engine.py:239`, `docs/strategy-engine.md:47` speaks of isolated folds);
`TradesReconcile` is stated of the ledger as it is.

### FactStore, PeriodMetrics and PointInTime

`FactStore` is `sec_financial_facts` and the two answers of the SEC it is filled from. The SEC is external: a filing is
accepted at a moment, dated with that day or, after the close, with the next, and says things of quarters. The frame
of a period is on the observation filed last, and the list of recent submissions is limited. `Sync` is what
`_persist_item` and `sync_company_facts` do with the answers: each fails or not, the stored payload stands in, all
observations are inserted or ignored by the hash of their identity, and a stored one takes over the time of
acceptance when that becomes known. A day has four moments: before the open, the session, the close, after it.

`PeriodMetrics` is `NormalizedMetricsService`. Quarters are numbered and a flow is about the quarters `start .. end`,
so 60 to 120 days are one quarter and 250 days and more at least three. Five metrics stand for all of
`METRIC_DEFINITIONS`: one per behaviour, one reported to date, one composed (debt). A value is an integer or `None`,
and each carries the filings it comes from. Precedence of concepts, units, the latest of several
observations, quarters from the year to date, the inferred fourth quarter and trailing years are all there.

`PointInTime` adds what is read: `Value(t)` is `HistoricalValuationService.calculate` as of `t` with its snapshots and
points, `Analyze(t)` is `EarningsIntelligenceService.analyze` with its events and reactions. `settled` is a history
variable: the moments for which all that had been accepted is stored with its exact time.

Facts of the code: a valuation as of a moment uses facts until the close of its last session, also after that moment
(`docs/historical-valuation.md:16`); a report accepted at 16:00:00 sharp counts for that session's valuation and is
classified `after_close`; a stored event is never updated, while its reaction is computed again;
growth compares with the period four places before in the list, which is not a year before when a quarter is
missing; a fourth quarter told by a 10-K is quarterly only by its frame, which it loses if it is first fetched after a
later filing repeated it; nothing calls `sync_company_facts`.


---

## 3. Runs

All runs check exhaustively and visit every action.

| Run | Module / cfg | Question |
|---|---|---|
| `universe_two_jobs` | MCUniverseRefresh / UniverseTwoJobs | two overlapping refreshes on two membership tables, cancellations, ageing, a crash: `AcceptedCancelWins`, `CoverageWithinSnapshot`, `CompleteCacheIsBacked` |
| `universe_one_job` | MCUniverseRefresh / UniverseOneJob | one refresh of three companies with two permits, exceptions and a crash: `ClosedRunAccountsForItems`, refinement `JobContract`, liveness `JobsEnd` |
| `intelligence_turns` | MCIntelligenceRefresh / IntelligenceTurns | refreshes one after another, any statement may raise, a crash, a new release: `ParsedEvidenceStays` |
| `intelligence_two_jobs` | MCIntelligenceRefresh / IntelligenceTwoJobs | two refreshes in two threads with cancellations: `RunAccountsForDocuments`, `CancelEndsLoop`, refinement `JobContract` |
| `claims_histories` | MCDocumentClaims / DocumentClaims | two refreshes over three filings, forced or not, corrections in between, an error and a process death: `CurrentIsNotSuperseded`, `HistoriesAreLinear`, `EveryClaimHasEvidence`, `PastIsSettled` |
| `option_ledger` | MCOptionLedger / OptionLedger | all sequences of three events on four positions: `LedgerReconciles`, `CoveredMeansCovered`, `CollateralSecuresPut` |
| `connection_calls` | MCSharedConnection / SharedConnection | three calls on two threads, statements that fail, a stop: `AllOrNothing` |
| `company_identity` | MCCompanyIdentity / CompanyIdentity | four operations on three companies, two tickers, two exchanges, three days: `ActiveTickerHasOneOwner`, `PastOwnersStay`, refinement `DirectoryContract` |
| `position_planning` | MCPositionPlanning / PositionPlanning | five operations on capital, holdings, policy, intents and plans while tickers change hands: `PlanWithinIntent`, `SizingStopsAtTarget`, `FitCoversStress`, `HoldingCountsOnce` |
| `decision_journal` | MCDecisionJournal / DecisionJournal | five operations on theses, plans, policies and two decisions, a stop between two statements: `FrozenComponents`, `RevisionsTellTheJournal`, refinement `VersionContract` |
| `parameter_search` | MCParameterSearch / ParameterSearch | one search over three candidates on every history of a small set, cancelled at any time, errors, a process death: `NoLookAhead`, `TradesReconcile`, `SelectionIgnoresFinal`, `ResultIsBestRun`, `CancelStopsSearch`, refinement `JobContract`, liveness `SearchesEnd` |
| `point_in_time` | MCPointInTime / PointInTime | six filings fetched in any order with failing answers; amendments, comparatives, a gap; valuations and analyses as of any time: `ValuationIsPointInTime`, `PeriodsMatchTheBooks`, `SettledPastStays`, `EventIsOfItsReport`, `ReactionFollowsNews` |

What each property says, and of which code, stands above its definition.

---

## 4. Bounds, fairness and assumptions

**Bounds.** `MaxCrashes`, `MaxCalls`, `MaxEvents`, `MaxLegs`, `MaxChanges`, `MaxRefreshes`, `MaxFailures`,
`MaxRequests`, `MaxSyncs` and `MaxTrials` are the only counters' bounds and stand
in guards. They are chosen so that what the properties are about happens:

* Two jobs suffice for interference: every interaction goes through a row both write or a record
  one reads and the other replaces, and both orders of both are reached. One crash
  suffices because recovery does nothing; a second crash starts from a database the first
  could have left.
* Two membership tables, one without a member of the other, give a company that is in one snapshot
  and not in the other. Three companies with two permits give a task that waits and one that
  finishes out of order. `Whole = 6` makes the fractions of one, two and three companies exact.
* Two contents and two releases give each change of outcome (readable to unreadable and back);
  listings of none, one and two documents give the empty loop, its first and its last round.
* Two filings and an exhibit known with the newer one, at two times, are listed in every order the
  collector can produce: newest first, relevant current reports first, exhibit before or after its filing. They
  differ about one edge, one segment and one thread, so every claim of one meets a claim of the other; the older one
  says two things of a thread; the second basis has two periods, for growth. Two refreshes give
  a repetition, forced or not; one request puts a correction between any two claims, and one failure ends any extraction.
* A lot of two shares and legs of two contracts give half lots and partial closes. Three events reach
  a roll or assignment after a partial close. Strikes and prices lie on both sides of each other.
* Three calls on the connection give two on one thread around one on the other, so a transaction
  of one call meets the end of another and the beginning of a third.
* Four operations on tickers let one pass to a second company and come back; three companies make a third one
  stand between them; three days give a past, a present and a future; the second exchange is the missing one.
* Five operations on the portfolio are capital, a holding, a rename, an intent and a plan, and any four with a
  change of capital or an update in between. Amounts and percentages of the inputs agree, contradict each
  other, or agree only where there is no capital; tranches add up to all of the target or to more.
* Five operations on the journal are a thesis, an intent, a plan, a decision and its update; or a decision and
  a change of each thing it froze. A stop may come between the two statements of each write.
* Histories of five sessions over two prices are too short to be split and reach every way into and out of a trade; those
  of twelve are split into a development part, two folds and a final window. The three rules between
  them use stop, target, trailing stop, ATR stop, the limit in time, both sides and a warm-up.
* A fiscal year and the next quarter give each kind of quarter, an inferred fourth one, two trailing years and a gap. Six
  filings, one of them an amendment and one a year with comparatives, are fetched twice at any of four moments, and four
  of them fit the list of acceptances, so times are exact, missing, late and lost. Five sessions with a holiday
  put reports before, within and after a session and on a day without one. Two requests give an event that was
  stored before and a valuation that is replaced.

The configurations set `CHECK_DEADLOCK FALSE`: each system may stop when all jobs, calls or events
of the bound are used up. Symmetry is used only in runs without liveness and without properties that tell the
permuted values apart.

**Fairness.** `FairSpec` of `UniverseRefresh` is weak fairness of the loop's steps for each job and of
each company task; that of `ParameterSearch` is weak fairness of the steps of its thread and of the route. The code justifies it:
asyncio runs every ready callback and a thread of `asyncio.to_thread` runs; provider calls end by answer or by a client timeout (some 20 s) and
retries are counted; waiting for a permit is first come, first served and holders always release
(`async with`). Weak fairness of a waiting task is enough because a permit that is free stays free
until some task takes it, and finitely many tasks exist. Requests, cancellations, ageing
and crashes are not fair: the world need not do them. The liveness properties excuse jobs whose process
died: nothing revives them. `SearchesEnd` also excuses a search that ended with an error other than `ValueError`.

**Assumptions on constants** are named (`UniverseAssumption`, `IntelligenceAssumption`, `WholeAssumption`,
`ConnectionAssumption`, `IdentityAssumption`, `FactAssumption`, ...) and evaluated by the runs. A listing of documents has
no duplicates (`IntelligenceAssumption`), and a company has finitely many documents (`ClaimsAssumption`). `ConnectionAssumption` asks that programs be
*well bracketed*: one BEGIN, writes after it, a COMMIT after which only reads follow.
`RepositoriesAreWellBracketed` in the MC module checks that of all nineteen programs.

**Histories.** `DocumentClaims` assumes that `created_at` orders rows as they were written (a clock that does not
go back), and that refreshes of one company follow one another; overlapping ones are the subject of
`IntelligenceRefresh`. The evidence of evaluations is not modelled: it hides nothing from a reader.
`withdraw` and `evaluate_numeric` are called by tests and by no route; they are part of `Next` all the same.

**Facts.** `FactAssumption` has EDGAR date a filing with the day of its acceptance or, after the close, with that day or the
next. The end of the filing day is after every acceptance of that day, which is why the fallback of `_parse_fact` is
never too early. `PeriodsMatchTheBooks` is stated where what is known agrees with the books: between a restatement and
the annual report that repeats it the reported numbers themselves do not add up. `SettledPastStays` is stated of `Unambiguous`
filings (section 5).

The theorems about events need to know what original reports are like, and `ReportsAssumption` says it of EDGAR: a 10-Q or 10-K
tells of the period it is about and of earlier ones, a 10-K tells its own period as a year, a period has one
original report, and reports come in the order of their periods, a day apart. Of the books `SessionsAssumption` says that
they are integers and about flows, `RevenueAssumption` that the revenue is one of the flows an event shows
(`EVENT_CONCEPTS`, `earnings.py:34`), `RowsAssumption` that None is not a row.

**Commits that are not written.** `AllOrNothing` and `ReturnedIsStored` assume `CommitsWritten`. When
DuckDB itself fails to write a COMMIT it ends the transaction, the `except` clause's ROLLBACK comes
later, and it may meet a transaction another call has begun in between. TLC finds that
behaviour within three calls without the assumption.

---

## 5. Proofs

Eight modules hold theorems: `FiniteSums` facts about sums and finite sets that the others cite, seven of them theorems about specifications, for every value of the constants the named assumptions
allow: any number of jobs, documents, companies, days, threads or rows. Each follows the same plan: the definitions a
component is built from are given lemmas of their own, one lemma per action (or per kind of action) shows what it
keeps, the inductive invariant follows, and the last step is propositional temporal logic.

| Module | Theorem | Statement |
|---|---|---|
| UniverseRefreshProofs | `TypeCorrect` | `TypeOK` |
| | `CancelWins` | `AcceptedCancelWins` |
| | `CacheBacked` | `CompleteCacheIsBacked` |
| | `RefreshInvariant` | `RefreshInv` |
| | `Coverage` | `CoverageWithinSnapshot` |
| | `ClosedRuns` | `ClosedRunAccountsForItems` |
| | `JobsKeepContract` | `JobContract`: the specification implements `LocalJob` |
| IntelligenceRefreshProofs | `TypeCorrect` | `TypeInv` |
| | `CancelStops` | `CancelEndsLoop` |
| | `JobsKeepContract` | `JobContract` |
| | `RunsAccount` | `RunAccountsForDocuments` |
| | `EvidenceStays` | `ParsedEvidenceStays`, unless `Overlap` |
| ParameterSearchProofs | `SearchInvariant` | `SearchInv` |
| | `SelectionIsBlind` | `SelectionIgnoresFinal` |
| | `CancelStops` | `CancelStopsSearch` |
| | `JobsKeepContract` | `JobContract` |
| | `RunsAreStoredOnce` | `StoredInv` |
| | `BestIsStored` | `ResultIsBestRun` |
| | `NoBacktestLooksAhead` | `NoLookAhead` |
| | `TradesAddUp` | `TradesReconcile` |
| DocumentClaimsProofs | `ClaimsInvariant` | `ClaimsInv` |
| | `EvidenceForAll` | `EveryClaimHasEvidence` |
| | `LinearHistories` | `HistoriesAreLinear` |
| | `CurrentStands` | `CurrentIsNotSuperseded` |
| | `SettledPast` | `PastIsSettled` |
| DecisionProofs | `PlanningInvariant` | `PlanningInv` |
| | `PlanningUnderJournal` | `PlanningInv`, of the journal that contains the planning |
| | `PlansWithinIntent` | `PlanWithinIntent` |
| | `SizingStops` | `SizingStopsAtTarget` |
| | `FitCoversFalls` | `FitCoversStress` |
| | `HoldingsCountOnce` | `HoldingCountsOnce` |
| | `JournalInvariant` | `JournalInv` |
| | `PartsStayFrozen` | `FrozenComponents` |
| | `RevisionsAgree` | `RevisionsTellTheJournal` |
| | `VersionsImplemented` | `VersionContract`: four tables implement `VersionChain` |
| | `LedgerInvariant` | `LedgerInv` |
| | `LedgerBalances` | `LedgerReconciles` |
| | `CoveredCallsHaveShares` | `CoveredMeansCovered` |
| | `CollateralIsEnough` | `CollateralSecuresPut` |
| StorageProofs | `IdentityInvariant` | `IdentityInv` |
| | `OneOwnerPerTicker` | `ActiveTickerHasOneOwner` |
| | `OnePrimaryPerCompany` | `ActiveCompanyHasOnePrimary` |
| | `PastIsKept` | `PastOwnersStay` |
| | `DirectoryImplemented` | `DirectoryContract`: the rows implement `TickerDirectory` |
| | `ConnectionTypeCorrect` | `ConnectionTypeOK` |
| | `TransactionOwned` | `TransactionIsOwned` |
| | `ConnectionInvariant` | `ConnectionInv` |
| | `WholeOrNothing` | `AllOrNothing` |
| | `ReturnedStored` | `ReturnedIsStored` |
| PointInTimeProofs | `FactsAreOfFilings` | `StoreInv` |
| | `ValuationsArePointInTime` | `ValuationIsPointInTime` |
| | `EventsAreOfTheirReports` | `EventIsOfItsReport` |
| | `ReactionsFollowTheNews` | `ReactionFollowsNews` |
| | `PeriodsMatch` | `PeriodsMatchTheBooks` |
| | `SettledPast` | `SettledPastStays` |

**Universe refresh.** `CoverageWithinSnapshot` and `ClosedRunAccountsForItems` are not inductive:
nothing in them says that the coroutine's local `constituents` are the members of the snapshot version it
stores with a record, or that no task is left when a run closes. `RefreshInv` adds that:
`TasksFollowCoroutine` (a task that is not done implies `gather`), `RunFollowsCoroutine` (a closed
run implies an ended coroutine) and `RefreshKeepsItsSnapshot`. Versions are only appended, so what
a refresh holds stays true while others add snapshots.
`AcceptedCancelWins` needs only that the last look at the flag and the end of the job are one step;
`CompleteCacheIsBacked` that the record is written after the rows it stands for.
For `JobContract`, `JobFollowsCoroutine` says that an ended row has an ended coroutine, so that no unguarded row
function meets one; that progress never falls is arithmetic about rounded fractions (`DivisionGrows`, `ShareGrows`).

**Intelligence refresh.** `TypeInv` is `TypeOK` with what the thread relies on: the document and content it works
on exist (`ThreadHolds`), and versions and releases count up. Three invariants stand on it. `CancelBound` counts
what a thread may still do after its cancellation was accepted: the document it is in. `JobFollowsThread`
says what the thread has reported by each line. `RunInv` says that the outcomes counted so far are those of the documents
passed so far (`Tally`), which needs that a listing has no duplicates (`IntelligenceAssumption`), and is
the hypothesis of the verdict at the end (`Accounts`). `ParsedEvidenceStays` is an action property; it holds because a
thread that writes is alone (`Alone`), a parsed row has its spans (`SpansAreStored`) and the row has the
status the thread left it with (`RowFollowsThread`). Only `Alone` needs `Overlap = FALSE`, and with
`Overlap = TRUE` the property is false (section 6, 7).

**Parameter search.** `SearchInv` is three parts per search: where the row and the request stand on the route (`RouteOf`),
what a cancellation leaves to do (`StopOf`), and that every attempt is what its candidate is worth on the history of
the search (`JudgedOf`). `SelectionIsBlind` rests on the split: windows depend on the length of a history alone
(`SameLengthSameWindows`), no fold reaches the final window (`FoldsEndInTime`), and a segment depends on the sessions it
has (`SameBeginningSameSegment`); so two histories with the same beginning give every candidate the same evaluation,
whatever the engine computes from a segment (`BeginningDecides`). `StoredInv` adds where the run of a search is; that it is the
run of the first best attempt needs that the worth of an attempt is an integer (`EvaluationType`, through `ScoreType`,
`RankedType` and `MedianType`) and that a non-empty set of them has a greatest one (`BestIsBest`).

**Backtests.** `NoLookAhead` and `TradesReconcile` are statements about functions of a history. The loop over the sessions
is a recursive function, and the proofs begin by showing that it exists, that is, that it obeys its recursion
(`MindIterates`, `WealthExists`). Two histories with the same beginning have the same mind, signals and
positions there (`MindsAgree`, `PositionsAgree`), and equities that are one whole number in the units of each (`WealthsAlike`); the rows agree
(`RowsAgree`), so an entry is an entry in both (`EntriesAgree`) and a trade that was closed stays (`TradeStays`).
For the ledger, the gains of consecutive rows add up to the gain of the whole (`GainsTelescope`), trades do not
overlap (`TradesInOrder`), and the sum is taken apart into the trades and what is idle (`LedgerExplains`, with
`SumOfParts`). An equity is a whole number of units because a row's factor is a number of quarters and the
unit is a power of four (`FoursMultiply`); prices of which each divides the double of every other make it so.

**Document claims.** `ClaimsInv` says of each table what the next save and every reader assume. An observation, a
statement, a definition and a figure has a document known no later than itself; a predecessor is a row of the same edge,
thread or key: for observations one written before and known no later, for statements the revision before, for
definitions the version before; no two statements of a thread are the same revision, and the versions of a key are as many as
its rows. A save is shown to keep this and also to leave alone what was known before it (`RelationshipsKept`,
`GuidanceKept`, `OperatingKept`). From the frames alone follows `PastIsSettled`: the rows seen as of an earlier time are the
same (`SameRowsKnown`), so are the last of them (`SameLast`), and therefore each of the reads (`RelationshipsSettled`,
`GuidanceSettled`, `OperatingSettled`). That `ORDER BY ... LIMIT 1` and `max` find a row is proved, not assumed
(`GreatestUnder`: numbers that are compared have a greatest one).

**Company identity.** `IdentityInv` is the type of the rows, one owner per active ticker and one open primary mapping per
active company; the ways to register a security (`WaysToRegister`) are reduced to rows that end and one row that is added
(`Adds`). `PastIsKept` follows because what ends, ends on the effective day or after. For the refinement a look-up of
active rows moves only for the company an operation is about (`Moves`).

**Planning.** `PlanWithinIntent` is not inductive: a plan copies the target of an intent that is later replaced. `PlanningInv`
has the amounts of every stored intent as numbers that are in order (`SoundIntent`) and every plan divide the target of the
version it names (`SoundPlan`), which intents, never rewritten, keep. The rest is arithmetic about amounts that may be
missing: a share that agrees with its percentage is within a cent of it (`Resolve`), a rounded quotient
of what is left never exceeds it, and every check of the fit is compared with the check of the stress it stands
for. `HoldingsCountOnce` needs that resolving finds one company for a ticker, which is what `Matching` asks for in both
its cases. The journal contains planning; `PlanningUnderJournal` shows that its steps are steps of planning or leave it alone.

**Decision journal.** The four versioned tables share the lemmas about `VersionedRows`: a table is `Chained` when its
pairs are unique and its versions are `1 .. n`, and a row of version `n + 1` keeps it so and lengthens one chain
(`AddedAtEnd`). `JournalInv` adds that the parts of every decision and revision are stored rows of its company
(`PartsStored`), that revisions are numbered as the row is, and what `saving` holds between the two statements.

**Option ledger.** `LedgerInv` is the reconciliation itself with the shape of a ledger (`Sound`: no leg has more
contracts closed than it had). Each event is a sum over legs and the shares apart: what closing contracts does to
`OpenCost` is the sum of what it does to each leg (`SumFunction` over a disjoint part, lemmas of `FiniteSums`),
and what a trade of shares does to cost, basis and profit is a case of each sign of before and after, with the remainder of
the rounded average in `unbooked`. `CoveredMeansCovered` is about one state: the classification compares
all contracts of an open leg, and open ones are no more. For `CollateralSecuresPut` what the long puts earn
at a price is at least what the nearest of them does, the collateral of one short put is the width to that one and the
strike for the rest, and short calls add nothing negative (`PutIsSecured`).

**Shared connection.** Whole transactions are not inductive either: to know that the COMMIT of a call
stores *its* rows one must know that the open transaction is its own and that all its writes so far
are pending in it. `PositionInv` derives from the position in a well-bracketed program whether a call
is between BEGIN and COMMIT; `TransactionIsOwned` says the open transaction belongs to a call still
inside; `RowsInv` says a call inside is the owner and where each of its rows is. Lemmas about
programs (`AtBegin`, `AtCommit`, `AtWrite`, `InsideEnds`, `BeforeNext`, `LastHasBegun`) are about
sequences alone. `PositionInv` and `TransactionIsOwned` hold unconditionally, `RowsInv` while
`CommitsWritten`; `UnwrittenKept` shows that an unwritten commit is never forgotten, so the condition
at the end holds all along. The theorems are for any repertoire of well-bracketed
programs, so a new repository call is covered as soon as its program is.

**Facts, metrics and valuation.** `StoreInv` says of every stored row that it is an observation of a filing the SEC has published,
known at the acceptance of that filing or at the end of its day, and that a filing is stored whole or not at all (`ToldWhole`); an upgrade
keeps this because it moves a row to the same fact with the time of acceptance (`SavedFacts`, `SavedIsToldWhole`). Every metric, whichever way it was
selected, derived, inferred or summed, carries filings that are among the rows it was given (`Sourced`), so a valuation
from rows known at a close carries filings accepted by then; that the snapshots made day by day lose nothing
is a lemma about calendars (between two days on which something became known nothing changes).
For events, what is stored of the representative of a group is what its report says, whose period tells which group it belongs to.
For `PeriodsMatchTheBooks` each way to a value is a sum of its own: the year to date less the year to date before
(`DerivedAgrees`), the year less its three quarters (`FourthAgrees`), four quarters in a row; each needs that the
periods it is made of follow one another without a gap, which is what the checks of the code in days come to in quarters.

`SettledPastStays` compares two sets of rows, the stored ones that count as of a time and those of a program that asked at
that time. `SettledInv` adds to `StoreInv` that a settled time stays settled and that a row keeps its frame unless a later
filing tells its period again (`FramedInv`). It follows that the two sets are `Twins`: what one tells the other tells
too, in rows that count alike (`Alike`), and of two rows about one subject one is earlier in both. The rest is one lemma for each
way to a metric: twins have the same latest usable fact (`LatestAlike`), the same reported, derived and composed
values (`ReportedAlike`, `DerivedAlike`, `ComposedAlike`), hence the same periods.
The theorem has a condition on the filings, `Unambiguous`, and without it the property is false: `fact_id` contains the frame
and orders the rows that are otherwise equal, so of two values for one subject that became known at the same time a hash
decides; and the frame that makes the fourth quarter of a 10-K quarterly moves to the filing that tells it last. A filing whose
acceptance is not listed counts from the end of its day, so two filings about one subject need a day between
them. TLC checks that the histories of the run satisfy it (`HistoriesAreUnambiguous`).

**Sums, recursive functions and induction.** The library's induction theorems take a predicate as a parameter, which the installed
provers cannot instantiate. `FiniteSums` states induction over numbers and over the subsets of a finite set for a *set* of
those for which a fact holds, and proves both from the well-foundedness of `<` and of strict inclusion
(`NatInductionOnSet`, `SubsetInduction`). From them follow that a sum over a finite set obeys its recursion in any order, is
additive over disjoint parts (`SumOfUnion`, `SumOfParts`), that finite sets of integers have extremes
(`ExtremesOf`), and that a function which goes on from each element to the next exists (`IterationExists`). No module
with a theorem reaches a RECURSIVE operator.

**Only model-checked.** Liveness (`JobsEnd`, `SearchesEnd`): fairness and ENABLED are out of the
prover's reach. All other properties of the runs
are theorems, `ParsedEvidenceStays` for refreshes that do not overlap.

---

## 6. Disagreements between code and documents

Each was met while modelling. The models have these histories as the code does, so the properties that are
checked are the ones that stay true; the formula that fails is given where a reader may want to see it fail.

1. **A fresh record is lost** (`universe/service.py:150`). The freshness check and the write are separated by
   awaits; of two overlapping unforced refreshes the one that failed replaces the other's fresh complete
   record, against `docs/universe-cache.md:32`.
2. **A half-extracted document counts as unchanged** (`intelligence/collection_service.py:162`). The parser version
   is stored before parsing and the status with the first span, against `docs/public-document-collection.md:34,45`.
3. **A repeated refresh adds guidance** (`intelligence/document_extraction.py:297`). A sentence is compared with the
   latest statement of its thread only. A document with two sentences of one thread, extracted again by a
   forced refresh, appends the first as a revision of the second and the second as a revision of that,
   against `docs/public-document-collection.md:77`. Definitions of a basis that changed behave alike.
4. **An unreadable option position** (`options/lifecycle.py:162`). Rolling a leg that is closed already stores a leg
   of quantity 0, which the model refuses to read, against `docs/api.md:131`.
5. **An answered write disappears** (`storage/database.py:460`, the simulation run of an option). Its insert joins the
   transaction the other thread has open and goes with its ROLLBACK, against `docs/option-lab.md:52`. The program
   without BEGIN of `SharedConnection` shows it: the rows of a call that returned need not be in `stored`.
6. **Items stay queued** (`universe/service.py:130`). An unexpected exception in the benchmark download fails
   the job (`Raise`) and leaves its run running and its items queued, against `docs/universe-cache.md:64`.
7. **A failed document has spans** (`intelligence/evidence_repository.py:263`). The count of spans and the update of
   `mark_parse_failed` are two statements, and a second refresh in another thread may save a span in between,
   against `docs/evidence-intelligence.md:52`. For the same reason `ParsedEvidenceStays` is checked of refreshes that follow
   one another and fails with `Overlap = TRUE`.
8. **The row is replaced before its revision is appended** (`decision_center/repository.py:273`), against
   `docs/decision-center.md:66`. After a stop in between that revision is missing for ever; `RevisionsTellTheJournal`
   says what remains true.
9. **A stored earnings event is not updated** (`intelligence/earnings_repository.py:25`, ON CONFLICT DO NOTHING),
   although fetching the same data again "updates the same event row" (`docs/earnings-intelligence.md:9`).

---

## 7. What is not modelled

* Within modelled components: the parsing of constituent tables, sector views and coverage percentages;
  request validation that only refuses a request; the text of errors but for whether it contains "cancel";
  paging and filters; the view of a relationship from its counterparty. A membership
  that returns to an earlier content (A, B, A) gets the earlier version from `save_snapshot` while "latest" stays B:
  the model does this as the code does, but `CoverageWithinSnapshot` is about versions, not about which is latest.
* The connection's single *result slot*: `execute(...)` in one thread can replace the result another thread
  is about to fetch. `IntelligenceRefresh` takes it into account by letting any statement raise
  (`Fragile`); `SharedConnection` has `StatementFails` for it.
* Of the decision center `compare_expressions`, the wording of checks and the filters of lists; of the search the heat map,
  the deflated Sharpe ratio and `create_research_run`; of backtests benchmarks, peers and the ranked portfolio; of facts
  the derived ratios, estimates, weekly series, statistics, paths and volumes.
* The market data cache: whether a stored history is used is calendar arithmetic over a thousand days
  (`storage/database.py:207` compares its first day with the first day of a window that is longer than what the provider
  returns, so a history that was just saved may be fetched again).
* Numerical parts (option pricing and simulation, indicators), text processing (document
  parser, collectors), language-model prompts, HTTP, configuration and the web client: no states of their own, outside
  what a model checker adds to.

---

## 8. What is left

* A model of the market data cache and its refresh loop, in days.
* Growth and the other derived metrics, with the books to compare them with.
* The result slot as a variable of `SharedConnection`.
