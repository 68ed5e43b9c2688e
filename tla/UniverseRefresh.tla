--------------------------- MODULE UniverseRefresh ---------------------------
(***************************************************************************)
(* The S&P 500 research-universe refresh: UniverseResearchService.refresh, *)
(* the rows UniverseRepository keeps for it, and the routes that start the *)
(* job and ask for its cancellation.                                       *)
(*                                                                         *)
(* The service is a coroutine on one event loop, so whatever runs between  *)
(* two awaits is one action; it waits for the membership provider, for the *)
(* benchmark history, for a permit of the semaphore and for the three      *)
(* downloads of a company.  Several jobs may run: nothing stops a second   *)
(* POST.  The event loop also runs the cancellation route, and the process *)
(* may die at any time, in the middle of a sequence of writes too.  The    *)
(* database survives; no start-up code repairs rows left behind.           *)
(***************************************************************************)
EXTENDS LocalJobStore, Sequences, FiniteSets

CONSTANTS
    Jobs,          \* identifiers of universe refresh jobs
    Symbols,       \* constituent symbols
    Contents,      \* fingerprints of membership tables (content_hash)
    Members,       \* [Contents -> SUBSET Symbols]
    Commands,      \* the requests clients send
    Concurrency,   \* request.concurrency, permits of the semaphore
    Fragile,       \* symbols whose processing may raise an exception
    MaxCrashes     \* bound on process deaths

ASSUME UniverseAssumption ==
    /\ IsFiniteSet(Symbols)
    /\ Members \in [Contents -> SUBSET Symbols]
    /\ Commands \subseteq [force : BOOLEAN, refreshSnapshot : BOOLEAN]
    /\ Concurrency \in Nat \ {0}
    /\ Fragile \subseteq Symbols
    /\ MaxCrashes \in Nat

VARIABLES
    job,           \* local_jobs
    run,           \* universe_refresh_runs, one per job that got that far
    item,          \* universe_refresh_items
    versions,      \* universe_snapshots in version order
    cache,         \* universe_company_cache
    history,       \* symbols with rows in price_history
    facts,         \* symbols with SEC facts stored
    command,       \* the request each coroutine serves
    pc,            \* where each coroutine waits
    snapshot,      \* version of the snapshot each refresh works on
    constituents,  \* local variable constituents
    task,          \* where the task of each constituent waits
    completed,     \* local variable completed
    crashes

rows    == <<job, run, item>>
store   == <<versions, cache, history, facts>>
locals  == <<command, pc, snapshot, constituents, task, completed>>
vars    == <<rows, store, locals, crashes>>

-----------------------------------------------------------------------------
\* Types

OpenItem   == {"queued", "running"}
CachedItem == {"completed", "partial", "failed"}
ClosedItem == CachedItem \cup {"skipped", "cancelled"}
ItemStatus == {"absent"} \cup OpenItem \cup ClosedItem
FinalRun   == {"completed", "partial", "failed", "cancelled"}
RunStatus  == {"absent", "running"} \cup FinalRun

\* last_success_at: NULL, younger than fresh_hours, or older.
Age      == {"never", "fresh", "old"}
CacheRow == [status : {"absent"} \cup CachedItem, version : Nat, age : Age]
NoCache  == [status |-> "absent", version |-> 0, age |-> "never"]

NoCounts == [status \in ClosedItem |-> 0]
NoRun    == [status |-> "absent", counts |-> NoCounts]

\* Coroutine positions: "created" has not run yet, "snapshot" and "benchmark"
\* await a provider, "gather" awaits the constituent tasks.
Live     == {"created", "snapshot", "benchmark", "gather"}
Position == {"none", "ended", "lost"} \cup Live
TaskPosition == {"none", "ready", "waiting", "fetching", "done"}

TypeOK ==
    /\ job \in [Jobs -> JobRow]
    /\ run \in [Jobs -> [status : RunStatus, counts : [ClosedItem -> Nat]]]
    /\ item \in [Jobs -> [Symbols -> ItemStatus]]
    /\ versions \in Seq(Contents)
    /\ cache \in [Symbols -> CacheRow]
    /\ history \in SUBSET Symbols
    /\ facts \in SUBSET Symbols
    /\ command \in [Jobs -> [force : BOOLEAN, refreshSnapshot : BOOLEAN]]
    /\ pc \in [Jobs -> Position]
    /\ snapshot \in [Jobs -> Nat]
    /\ constituents \in [Jobs -> SUBSET Symbols]
    /\ task \in [Jobs -> [Symbols -> TaskPosition]]
    /\ completed \in [Jobs -> Nat]
    /\ crashes \in 0 .. MaxCrashes

-----------------------------------------------------------------------------
\* Reading the tables

Cancelled(j) == job[j].cancel

\* _fresh
Fresh(row) == row.status = "completed" /\ row.age = "fresh"

\* _status_counts
Counts(items) ==
    [status \in ClosedItem |-> Cardinality({s \in Symbols : items[s] = status})]

\* Items still open when gather returns become failed.
Reconciled(items) ==
    [s \in Symbols |-> IF items[s] \in OpenItem THEN "failed" ELSE items[s]]

\* Mutated form: the counts alone decide, without a last look at the cancellation.
RunVerdictFromCounts(items, cancelled) ==
    LET n == Counts(items)
    IN  IF n["cancelled"] > 0 THEN "cancelled"
        ELSE IF n["completed"] + n["partial"] + n["skipped"] = 0 THEN "failed"
        ELSE IF n["failed"] > 0 \/ n["partial"] > 0 THEN "partial"
        ELSE "completed"

\* The status of a run whose items are closed.
RunVerdict(items, cancelled) ==
    LET n == Counts(items)
    IN  IF cancelled \/ n["cancelled"] > 0 THEN "cancelled"
        ELSE IF n["completed"] + n["partial"] + n["skipped"] = 0 THEN "failed"
        ELSE IF n["failed"] > 0 \/ n["partial"] > 0 THEN "partial"
        ELSE "completed"

\* How run_refresh maps the status of the run to the status of the job.
JobVerdict(status) == IF status \in {"cancelled", "failed"} THEN status ELSE "completed"

\* Mutated form: the work left is reported instead of the work done.
ShareLeft(n, total) == ((total - n) * Whole) \div (IF total = 0 THEN 1 ELSE total)

\* report(completed / max(len(constituents), 1))
Share(n, total) == (n * Whole) \div (IF total = 0 THEN 1 ELSE total)

-----------------------------------------------------------------------------
\* The routes

\* POST /universes/sp500/refresh: the row is written, the task is scheduled.
Post(j) ==
    /\ pc[j] = "none"
    /\ \E c \in Commands : command' = [command EXCEPT ![j] = c]
    /\ job' = [job EXCEPT ![j] = NewRow]
    /\ pc' = [pc EXCEPT ![j] = "created"]
    /\ UNCHANGED <<run, item, store, snapshot, constituents, task, completed, crashes>>

\* POST /universe-jobs/{job_id}/cancel
Cancel(j) ==
    /\ job[j].status # "absent"
    /\ job' = [job EXCEPT ![j] = CancelRequested(@)]
    /\ UNCHANGED <<run, item, store, locals, crashes>>

\* except Exception in run_refresh: the coroutine ends, whatever its run says.
Fail(j) ==
    /\ \E mentionsCancel \in BOOLEAN :
          job' = [job EXCEPT ![j] = WithError(@, mentionsCancel)]
    /\ pc' = [pc EXCEPT ![j] = "ended"]

-----------------------------------------------------------------------------
\* Snapshot and start of the run

\* start_refresh on a version of the snapshot, up to the benchmark download
Open(j, version, content) ==
    /\ snapshot' = [snapshot EXCEPT ![j] = version]
    /\ constituents' = [constituents EXCEPT ![j] = Members[content]]
    /\ run' = [run EXCEPT ![j].status = "running"]
    /\ item' = [item EXCEPT ![j] =
                   [s \in Symbols |-> IF s \in Members[content]
                                      THEN "queued" ELSE "absent"]]
    /\ pc' = [pc EXCEPT ![j] = "benchmark"]
    /\ UNCHANGED <<job, cache, history, facts, command, task, completed, crashes>>

\* The newest stored snapshot is reused; without one refresh raises ValueError.
ReuseLatest(j) ==
    /\ versions' = versions
    /\ \/ versions # <<>> /\ Open(j, Len(versions), versions[Len(versions)])
       \/ versions = <<>> /\ Fail(j)
          /\ UNCHANGED <<run, item, cache, history, facts, command, snapshot,
                         constituents, task, completed, crashes>>

\* save_snapshot: a known fingerprint returns its version, a new one is appended.
SaveSnapshot(j, content) ==
    IF \E v \in DOMAIN versions : versions[v] = content
    THEN /\ versions' = versions
         /\ \E v \in DOMAIN versions : versions[v] = content /\ Open(j, v, content)
    ELSE /\ versions' = Append(versions, content)
         /\ Open(j, Len(versions) + 1, content)

\* The task of the job runs for the first time.
Begin(j) ==
    /\ pc[j] = "created"
    /\ \/ /\ command[j].refreshSnapshot
          /\ pc' = [pc EXCEPT ![j] = "snapshot"]
          /\ UNCHANGED <<rows, store, command, snapshot, constituents, task,
                         completed, crashes>>
       \/ ~command[j].refreshSnapshot /\ ReuseLatest(j)

\* The membership provider answers or is unavailable.
SnapshotAnswer(j) ==
    /\ pc[j] = "snapshot"
    /\ \/ \E content \in Contents : SaveSnapshot(j, content)
       \/ ReuseLatest(j)

\* The SPY download answers, or the stored or no benchmark is used instead;
\* the tasks of the constituents are created.
BenchmarkAnswer(j) ==
    /\ pc[j] = "benchmark"
    /\ pc' = [pc EXCEPT ![j] = "gather"]
    /\ task' = [task EXCEPT ![j] = [s \in Symbols |-> IF s \in constituents[j]
                                                      THEN "ready" ELSE "none"]]
    /\ UNCHANGED <<rows, store, command, snapshot, constituents, completed, crashes>>

\* An exception that is neither ProviderUnavailable nor ValueError, from a
\* provider or from the database, leaves refresh() before gather.
Raise(j) ==
    /\ pc[j] \in {"snapshot", "benchmark"}
    /\ Fail(j)
    /\ UNCHANGED <<run, item, store, command, snapshot, constituents, task,
                   completed, crashes>>

-----------------------------------------------------------------------------
\* One constituent: process(item)

\* Mutated form: the permit of a task that failed is not given back.
HoldersLeaking(j) ==
    {s \in Symbols : task[j][s] = "fetching" \/ item[j][s] = "failed"}

Holders(j) == {s \in Symbols : task[j][s] = "fetching"}
Waiters(j) == {s \in Symbols : task[j][s] = "waiting"}
PermitFree(j) == Cardinality(Holders(j)) < Concurrency

\* The item is closed (or, when even that write failed, left as it is) and
\* finish_progress runs in the finally block.
Close(j, s, status) ==
    /\ item' = [item EXCEPT ![j][s] = status]
    /\ task' = [task EXCEPT ![j][s] = "done"]
    /\ completed' = [completed EXCEPT ![j] = @ + 1]
    /\ job' = [job EXCEPT ![j] =
                  WithProgress(@, Share(completed[j] + 1, Cardinality(constituents[j])))]
    /\ UNCHANGED <<run, versions, command, pc, snapshot, constituents>>

\* cancelled_before_start
CancelBeforeStart(j, s) ==
    /\ task[j][s] = "ready"
    /\ Cancelled(j)
    /\ Close(j, s, "cancelled")
    /\ UNCHANGED <<cache, history, facts, crashes>>

\* fresh_cache: the record is kept and moved to this snapshot.
Skip(j, s) ==
    /\ task[j][s] = "ready"
    /\ ~Cancelled(j)
    /\ ~command[j].force /\ Fresh(cache[s])
    /\ cache' = [cache EXCEPT ![s].version = snapshot[j]]
    /\ Close(j, s, "skipped")
    /\ UNCHANGED <<history, facts, crashes>>

\* downloading: the item runs, and takes a permit or waits for one.
Start(j, s) ==
    /\ task[j][s] = "ready"
    /\ ~Cancelled(j)
    /\ command[j].force \/ ~Fresh(cache[s])
    /\ item' = [item EXCEPT ![j][s] = "running"]
    /\ task' = [task EXCEPT ![j][s] =
                    IF PermitFree(j) /\ Waiters(j) = {} THEN "fetching" ELSE "waiting"]
    /\ UNCHANGED <<job, run, store, command, pc, snapshot, constituents, completed, crashes>>

\* A permit comes free: cancellation is looked at before the download.
Admit(j, s) ==
    /\ task[j][s] = "waiting"
    /\ PermitFree(j)
    /\ ~Cancelled(j)
    /\ task' = [task EXCEPT ![j][s] = "fetching"]
    /\ UNCHANGED <<rows, store, command, pc, snapshot, constituents, completed, crashes>>

\* cancelled_after_download, with or without a download
CancelAfterDownload(j, s) ==
    /\ \/ task[j][s] = "waiting" /\ PermitFree(j)
       \/ task[j][s] = "fetching"
    /\ Cancelled(j)
    /\ Close(j, s, "cancelled")
    /\ UNCHANGED <<cache, history, facts, crashes>>

\* What three downloads and the calculations on them may bring.  "usable":
\* the stored price rows cover the three-year window load_history asks for.
\* Metrics can be available only from stored facts.
Fetched == [history : BOOLEAN, facts : BOOLEAN, submissions : BOOLEAN,
            usable : BOOLEAN, metrics : BOOLEAN]

PriceHistory(s, f) == f.history \/ (s \in history /\ f.usable)

ItemVerdict(s, f) ==
    IF PriceHistory(s, f) /\ f.metrics
    THEN IF f.history /\ f.facts /\ f.submissions THEN "completed" ELSE "partial"
    ELSE IF PriceHistory(s, f) \/ f.metrics THEN "partial" ELSE "failed"

\* _persist_item makes its writes in this order and commits each on its own.
Writes == <<"history", "facts", "cache">>

\* Mutated form: the record names the newest snapshot, not that of the refresh.
RecordOnNewest(j, s, f) ==
    [status |-> ItemVerdict(s, f), version |-> Len(versions),
     age |-> IF ItemVerdict(s, f) = "completed" THEN "fresh" ELSE "never"]

\* The UniverseCompanyCache built at the end of _persist_item
Record(j, s, f) ==
    [status |-> ItemVerdict(s, f), version |-> snapshot[j],
     age |-> IF ItemVerdict(s, f) = "completed" THEN "fresh" ELSE "never"]

\* Mutated form: the record is written before the data it stands for.
PersistRecordFirst(j, s, f, n) ==
    /\ f.metrics => s \in facts \/ f.facts
    /\ cache' = IF n >= 1 THEN [cache EXCEPT ![s] = Record(j, s, f)] ELSE cache
    /\ history' = IF n >= 2 /\ f.history THEN history \cup {s} ELSE history
    /\ facts' = IF n >= 3 /\ f.facts THEN facts \cup {s} ELSE facts

\* The first n writes of _persist_item
Persist(j, s, f, n) ==
    /\ f.metrics => s \in facts \/ (n >= 2 /\ f.facts)
    /\ history' = IF n >= 1 /\ f.history THEN history \cup {s} ELSE history
    /\ facts' = IF n >= 2 /\ f.facts THEN facts \cup {s} ELSE facts
    /\ cache' = IF n >= 3 THEN [cache EXCEPT ![s] = Record(j, s, f)] ELSE cache

\* The downloads return, nobody cancelled: everything is stored.
Store(j, s) ==
    /\ task[j][s] = "fetching"
    /\ ~Cancelled(j)
    /\ \E f \in Fetched : /\ Persist(j, s, f, Len(Writes))
                          /\ Close(j, s, ItemVerdict(s, f))
    /\ UNCHANGED crashes

\* An exception after n writes: the item fails, or keeps its open status when
\* the write of the failure fails as well.
StoreRaises(j, s) ==
    /\ task[j][s] = "fetching"
    /\ ~Cancelled(j)
    /\ \E f \in Fetched, n \in 0 .. Len(Writes) : Persist(j, s, f, n)
    /\ \E status \in {"failed", item[j][s]} : Close(j, s, status)
    /\ UNCHANGED crashes

\* The skipped status could not be written after the record was moved.
SkipRaises(j, s) ==
    /\ task[j][s] = "ready"
    /\ ~Cancelled(j)
    /\ ~command[j].force /\ Fresh(cache[s])
    /\ cache' = [cache EXCEPT ![s].version = snapshot[j]]
    /\ \E status \in {"failed", item[j][s]} : Close(j, s, status)
    /\ UNCHANGED <<history, facts, crashes>>

\* An exception from a table read, an item update or a download.
ProcessRaises(j, s) ==
    /\ \/ task[j][s] \in {"ready", "fetching"}
       \/ task[j][s] = "waiting" /\ PermitFree(j) /\ Cancelled(j)
    /\ \E status \in {"failed", item[j][s]} : Close(j, s, status)
    /\ UNCHANGED <<cache, history, facts, crashes>>

Process(j, s) ==
    \/ CancelBeforeStart(j, s) \/ Skip(j, s) \/ Start(j, s) \/ Admit(j, s)
    \/ CancelAfterDownload(j, s) \/ Store(j, s)
    \/ s \in Fragile /\ (StoreRaises(j, s) \/ SkipRaises(j, s) \/ ProcessRaises(j, s))

-----------------------------------------------------------------------------
\* gather returns: reconciliation, verdict, finish_refresh, final job update

Gathered(j) ==
    /\ pc[j] = "gather"
    /\ \A s \in constituents[j] : task[j][s] = "done"

\* Mutated form: the counts are taken before the open items are reconciled.
WriteRunEarlyCounts(j, n) ==
    LET closed == Reconciled(item[j])
    IN  /\ item' = IF n >= 1 THEN [item EXCEPT ![j] = closed] ELSE item
        /\ run' = IF n >= 2
                  THEN [run EXCEPT ![j] = [status |-> RunVerdict(closed, Cancelled(j)),
                                           counts |-> Counts(item[j])]]
                  ELSE run

\* The first n of the two groups of writes: the reconciled items, the run.
WriteRun(j, n) ==
    LET closed == Reconciled(item[j])
    IN  /\ item' = IF n >= 1 THEN [item EXCEPT ![j] = closed] ELSE item
        /\ run' = IF n >= 2
                  THEN [run EXCEPT ![j] = [status |-> RunVerdict(closed, Cancelled(j)),
                                           counts |-> Counts(closed)]]
                  ELSE run

Finish(j) ==
    /\ Gathered(j)
    /\ WriteRun(j, 2)
    /\ job' = [job EXCEPT ![j] = WithResult(@, JobVerdict(run'[j].status))]
    /\ pc' = [pc EXCEPT ![j] = "ended"]
    /\ UNCHANGED <<store, command, snapshot, constituents, task, completed, crashes>>

\* One of those writes, or the summary read after them, raises.
FinishRaises(j) ==
    /\ Gathered(j)
    /\ \E n \in 0 .. 2 : WriteRun(j, n)
    /\ Fail(j)
    /\ UNCHANGED <<store, command, snapshot, constituents, task, completed, crashes>>

-----------------------------------------------------------------------------
\* The process dies and is started again; the coroutines are gone.

LoseCoroutines ==
    /\ crashes < MaxCrashes
    /\ crashes' = crashes + 1
    /\ pc' = [j \in Jobs |-> IF pc[j] \in Live THEN "lost" ELSE pc[j]]
    /\ task' = [j \in Jobs |-> [s \in Symbols |->
                   IF pc[j] \in Live THEN "none" ELSE task[j][s]]]
    /\ UNCHANGED <<job, versions, command, snapshot, constituents, completed>>

Crash == LoseCoroutines /\ UNCHANGED <<run, item, cache, history, facts>>

\* ... between two writes of _persist_item
CrashWhileStoring(j, s) ==
    /\ task[j][s] = "fetching"
    /\ ~Cancelled(j)
    /\ \E f \in Fetched, n \in 1 .. Len(Writes) : Persist(j, s, f, n)
    /\ LoseCoroutines
    /\ UNCHANGED <<run, item>>

\* ... between two writes at the end of refresh
CrashWhileFinishing(j) ==
    /\ Gathered(j)
    /\ \E n \in 1 .. 2 : WriteRun(j, n)
    /\ LoseCoroutines
    /\ UNCHANGED <<cache, history, facts>>

\* A record grows older than fresh_hours.
Expire(s) ==
    /\ cache[s].age = "fresh"
    /\ cache' = [cache EXCEPT ![s].age = "old"]
    /\ UNCHANGED <<rows, versions, history, facts, locals, crashes>>

-----------------------------------------------------------------------------
Init ==
    /\ job = [j \in Jobs |-> AbsentRow]
    /\ run = [j \in Jobs |-> NoRun]
    /\ item = [j \in Jobs |-> [s \in Symbols |-> "absent"]]
    /\ versions = <<>>
    /\ cache = [s \in Symbols |-> NoCache]
    /\ history = {} /\ facts = {}
    /\ command = [j \in Jobs |-> [force |-> FALSE, refreshSnapshot |-> TRUE]]
    /\ pc = [j \in Jobs |-> "none"]
    /\ snapshot = [j \in Jobs |-> 0]
    /\ constituents = [j \in Jobs |-> {}]
    /\ task = [j \in Jobs |-> [s \in Symbols |-> "none"]]
    /\ completed = [j \in Jobs |-> 0]
    /\ crashes = 0

\* The steps the event loop takes for a job once a provider has answered.
Advance(j) ==
    \/ Begin(j) \/ SnapshotAnswer(j) \/ BenchmarkAnswer(j) \/ Raise(j)
    \/ Finish(j) \/ FinishRaises(j)

Next ==
    \/ \E j \in Jobs : Post(j) \/ Cancel(j) \/ Advance(j) \/ CrashWhileFinishing(j)
    \/ \E j \in Jobs, s \in Symbols : Process(j, s) \/ CrashWhileStoring(j, s)
    \/ \E s \in Symbols : Expire(s)
    \/ Crash

Spec == Init /\ [][Next]_vars

\* The loop runs every ready callback and every provider call ends, by its
\* answer or by its timeout; requests, crashes and ageing are up to the world.
Fairness ==
    /\ \A j \in Jobs : WF_vars(Advance(j))
    /\ \A j \in Jobs, s \in Symbols : WF_vars(Process(j, s))

FairSpec == Spec /\ Fairness

-----------------------------------------------------------------------------
\* Safety

\* "queued or running items are reconciled to failed before a parent run can
\* finish": a closed run has no open item, even when the last writes were cut
\* short by an exception or a crash, and its stored counts are those of its items.
ClosedRunAccountsForItems ==
    \A j \in Jobs : run[j].status \in FinalRun =>
        /\ \A s \in constituents[j] : item[j][s] \in ClosedItem
        /\ run[j].counts = Counts(item[j])

\* A cancellation the client was told is requested is never answered by a
\* completed job, however late it arrives (is_cancelled before final_status).
AcceptedCancelWins ==
    \A j \in Jobs : job[j].cancel => job[j].status # "completed"

\* Cache coverage counted for a snapshot never exceeds its members, also when
\* two refreshes work on different snapshots (status, unavailable_count).
CoverageWithinSnapshot ==
    \A s \in Symbols : cache[s].status # "absent" =>
        /\ cache[s].version \in DOMAIN versions
        /\ s \in Members[versions[cache[s].version]]

\* A record that a later refresh may skip as fresh and complete has its prices
\* and facts stored, wherever a crash cut _persist_item.
CompleteCacheIsBacked ==
    \A s \in Symbols : cache[s].status = "completed" => s \in history /\ s \in facts

\* The strengthening that makes the invariants above inductive: where the tasks
\* and the run of a job are for each position of its coroutine, and that a
\* refresh keeps the members of the snapshot version it works on (the local
\* variables of refresh agree with the rows it has written).
TasksFollowCoroutine ==
    \A j \in Jobs, s \in Symbols :
        /\ task[j][s] \in {"ready", "waiting", "fetching"} => pc[j] = "gather"
        /\ pc[j] \in {"none", "created", "snapshot", "benchmark"} => task[j][s] = "none"
        /\ task[j][s] # "none" => s \in constituents[j]

RunFollowsCoroutine ==
    \A j \in Jobs :
        /\ pc[j] \in {"none", "created", "snapshot"} => run[j].status = "absent"
        /\ run[j].status \in FinalRun => pc[j] \in {"ended", "lost"}

RefreshKeepsItsSnapshot ==
    \A j \in Jobs : constituents[j] # {} =>
        /\ snapshot[j] \in DOMAIN versions
        /\ constituents[j] = Members[versions[snapshot[j]]]
        /\ \A s \in constituents[j] : item[j][s] # "absent"

RefreshInv == /\ TasksFollowCoroutine
              /\ RunFollowsCoroutine
              /\ RefreshKeepsItsSnapshot
              /\ CoverageWithinSnapshot
              /\ ClosedRunAccountsForItems

-----------------------------------------------------------------------------
\* Steps

\* A job keeps the contract of local jobs: progress never moves backwards while
\* tasks finish out of order, and an ended job is never written again.
Contract == INSTANCE LocalJob WITH Whole <- Whole, Jobs <- Jobs, job <- job
JobContract == Contract!Spec

-----------------------------------------------------------------------------
\* Liveness, of every job whose process does not die

\* Every job ends, whatever providers and database do: no item waits for a
\* permit for ever, and no exception leaves run_refresh unrecorded.
JobsEnd ==
    \A j \in Jobs : job[j].status = "running" ~> job[j].status \in FinalStatus \/ pc[j] = "lost"

=============================================================================
