---------------------------- MODULE ParameterSearch ----------------------------
(***************************************************************************)
(* POST /api/v2/parameter-searches: the route that loads histories, tries  *)
(* candidates in a thread (run_parameter_search), tests the best of them   *)
(* on the final window, stores the research run and closes the job, with   *)
(* cancellations from the event loop, errors and process deaths.  Only a   *)
(* ValueError closes the job when something goes wrong.                    *)
(*                                                                         *)
(* A candidate is the strategy its parameters build.  Of the analysis of   *)
(* the attempts (heatmap, stability, deflated Sharpe) nothing is kept.     *)
(***************************************************************************)
EXTENDS LocalJobStore, BacktestEngine, TLC

CONSTANTS
    Jobs,
    Histories,       \* what the provider may return
    Grid,            \* the combinations of a search, in the order of product
    Guides,          \* may the search have three parameters or more (TPE)
    MaxTrials,
    TrainingPercent, FinalPercent, Folds,      \* ValidationDesign
    FoldRows,        \* rows a fold needs; 10 in the code
    Warmup,          \* rows before a window; 520 in the code
    Fragile,         \* may an error other than ValueError be raised
    MaxCrashes

ASSUME SearchAssumption ==
    /\ Histories \subseteq Seq(Session) \ {<< >>}
    /\ Grid \in Seq(Strategy) \ {<< >>}
    /\ Guides \subseteq BOOLEAN
    /\ MaxTrials \in Nat \ {0}
    /\ TrainingPercent \in 50 .. 80 /\ FinalPercent \in 10 .. 35
    /\ TrainingPercent + FinalPercent <= 95
    /\ Folds \in 2 .. 10
    /\ FoldRows \in Nat /\ Warmup \in Nat
    /\ Fragile \in BOOLEAN
    /\ MaxCrashes \in Nat

VARIABLES
    job,             \* local_jobs
    pc,              \* where a search is
    guided,          \* its method is TPE
    history,         \* the histories its route holds
    attempts,        \* what its thread has tried
    asked,           \* attempts when its cancellation was first accepted, or None
    runs,            \* research_runs
    crashes

vars == <<job, pc, guided, history, attempts, asked, runs, crashes>>

-----------------------------------------------------------------------------
\* _walk_forward_windows, rows counted from 1

TrainingEnd(h) == (Len(h) * TrainingPercent) \div 100

\* Mutated form: development takes the first row of the final test.
DevelopmentEndLate(h) == (Len(h) * (100 - FinalPercent)) \div 100 + 1

DevelopmentEnd(h) == (Len(h) * (100 - FinalPercent)) \div 100

FinalStart(h) == (Len(h) * (100 - FinalPercent)) \div 100 + 1

\* array_split: the first folds take what is left over.
FoldEnd(h, n) ==
    LET rows == DevelopmentEnd(h) - TrainingEnd(h)
    IN  TrainingEnd(h) + n * (rows \div Folds) + Min({n, rows % Folds})

Windows(h) == [n \in 1 .. Folds |-> [first |-> FoldEnd(h, n - 1) + 1, last |-> FoldEnd(h, n)]]

CanSplit(h) ==
    /\ DevelopmentEnd(h) < Len(h)
    /\ TrainingEnd(h) < DevelopmentEnd(h)
    /\ \A n \in 1 .. Folds : Windows(h)[n].last - Windows(h)[n].first + 1 >= FoldRows

\* The rows of a window and what comes before it
Segment(h, w) == SubSeq(h, Max({1, w.first - Warmup}), w.last)
Begin(w)      == Min({w.first, Warmup + 1})

-----------------------------------------------------------------------------
\* evaluate

Rejected == [ok |-> FALSE, score |-> 0]

\* The r-th of the scores in their order: the least that r of them do not exceed
Ranked(scores, r) ==
    Min({x \in Range(scores) : Cardinality({n \in DOMAIN scores : scores[n] <= x}) >= r})

\* Twice the median
Median(scores) ==
    LET n == Len(scores)
    IN  Ranked(scores, (n + 1) \div 2) + Ranked(scores, (n + 2) \div 2)

\* _walk_forward_score; a ValueError in any window rejects the candidate.
Evaluation(h, s) ==
    LET windows == Windows(h)
        fold    == [n \in 1 .. Folds |-> Segment(h, windows[n])]
    IN  IF \A n \in 1 .. Folds : CanRun(fold[n], s, Begin(windows[n]))
        THEN [ok    |-> TRUE,
              score |-> Median([n \in 1 .. Folds |-> Score(Rows(fold[n], s, Begin(windows[n])))])]
        ELSE Rejected

\* The histories a search does not refuse
Searchable == {h \in Histories : CanSplit(h)}

\* What each candidate is worth on each of them
Worth == [h \in Searchable |-> [i \in DOMAIN Grid |-> Evaluation(h, Grid[i])]]

Trials(j) == IF guided[j] THEN Min({MaxTrials, Len(Grid)}) ELSE Len(Grid)

Completed(tried) == {n \in DOMAIN tried : tried[n].ok}

\* Mutated form: the last attempt that completed is taken.
BestLast(tried) == tried[Max(Completed(tried))]

\* A stable sort: the first of those with the highest score.
Best(tried) ==
    LET done == Completed(tried)
    IN  tried[Min({n \in done : \A m \in done : tried[m].score <= tried[n].score})]

\* The window of the final test
FinalWindow(h) == [first |-> FinalStart(h), last |-> Len(h)]

\* What the final test computes is a function of history and candidate, and only
\* whether it can be computed matters to the search.
CanTest(h, s) == CanRun(Segment(h, FinalWindow(h)), s, Begin(FinalWindow(h)))

-----------------------------------------------------------------------------
\* The route and its thread

At(j, from) == pc[j] = from
Goto(j, to) == pc' = [pc EXCEPT ![j] = to]
Untried == UNCHANGED <<guided, history, attempts, asked>>

\* Between the two last statements of the route nothing else runs on the loop.
LoopFree == \A j \in Jobs : pc[j] # "saved"

Post(j) ==
    /\ LoopFree /\ At(j, "none")
    /\ job' = [job EXCEPT ![j] = NewRow]
    /\ Goto(j, "loading")
    /\ Untried /\ UNCHANGED <<runs, crashes>>

Load(j) ==
    /\ LoopFree /\ At(j, "loading")
    /\ \E h \in Histories : history' = [history EXCEPT ![j] = h]
    /\ Goto(j, "loaded")
    /\ UNCHANGED <<job, guided, attempts, asked, runs, crashes>>

\* A template of a portfolio, no ticker, or no history to be had
Refuse(j) ==
    /\ LoopFree /\ At(j, "loading")
    /\ Goto(j, "refused")
    /\ Untried /\ UNCHANGED <<job, runs, crashes>>

\* _validated_ranges, _walk_forward_windows and the size of a grid.  The number
\* of parameters of the request is first looked at here.
Split(j) ==
    /\ At(j, "loaded")
    /\ \E g \in Guides :
          /\ guided' = [guided EXCEPT ![j] = g]
          /\ Goto(j, IF CanSplit(history[j]) /\ (g \/ Len(Grid) <= MaxTrials)
                     THEN "searching" ELSE "refused")
    /\ UNCHANGED <<job, history, attempts, asked, runs, crashes>>

\* Mutated form: the request for cancellation is not looked at.
AskNot(j) ==
    /\ At(j, "searching") /\ Len(attempts[j]) < Trials(j)
    /\ Goto(j, "trying")
    /\ Untried /\ UNCHANGED <<job, runs, crashes>>

\* job_cancellation_requested before each trial
Ask(j) ==
    /\ At(j, "searching") /\ Len(attempts[j]) < Trials(j)
    /\ Goto(j, IF job[j].cancel THEN "stopped" ELSE "trying")
    /\ Untried /\ UNCHANGED <<job, runs, crashes>>

\* Mutated form: the share of the whole search that is left
ShareLeft(done, all) == Whole - (Whole * done) \div all

Share(done, all) == (Whole * done) \div all

\* A grid is tried in its order; TPE may suggest any candidate, also again.
Suggested(j) == IF guided[j] THEN DOMAIN Grid ELSE {Len(attempts[j]) + 1}

Try(j) ==
    /\ At(j, "trying")
    /\ \E i \in Suggested(j) :
          LET found == Worth[history[j]][i]
          IN  attempts' = [attempts EXCEPT ![j] =
                              Append(@, [candidate |-> i, ok |-> found.ok, score |-> found.score])]
    /\ job' = [job EXCEPT ![j] = WithProgress(@, Share(Len(attempts[j]) + 1, Trials(j)))]
    /\ Goto(j, "searching")
    /\ UNCHANGED <<guided, history, asked, runs, crashes>>

\* The best of the attempts meets the final window.
Test(j) ==
    /\ At(j, "searching") /\ Len(attempts[j]) = Trials(j)
    /\ Goto(j, IF Completed(attempts[j]) # {} /\ CanTest(history[j], Grid[Best(attempts[j]).candidate])
               THEN "tested" ELSE "refused")
    /\ Untried /\ UNCHANGED <<job, runs, crashes>>

\* save_research_run
Save(j) ==
    /\ LoopFree /\ At(j, "tested")
    /\ runs' = runs \cup {[job |-> j, candidate |-> Best(attempts[j]).candidate,
                           snapshot |-> history[j], tested |-> attempts[j]]}
    /\ Goto(j, "saved")
    /\ Untried /\ UNCHANGED <<job, crashes>>

\* update_job(result=...)
Finish(j) ==
    /\ At(j, "saved")
    /\ job' = [job EXCEPT ![j] = WithResult(@, "completed")]
    /\ Goto(j, "done")
    /\ Untried /\ UNCHANGED <<runs, crashes>>

\* Mutated form: a search that was refused leaves its row alone.
FailStopped(j) ==
    /\ LoopFree /\ pc[j] \in {"refused", "stopped"}
    /\ job' = IF pc[j] = "stopped" THEN [job EXCEPT ![j] = WithError(@, TRUE)] ELSE job
    /\ Goto(j, "done")
    /\ Untried /\ UNCHANGED <<runs, crashes>>

\* except ValueError: the word "cancelled" is in the text of one of them only.
Fail(j) ==
    /\ LoopFree /\ pc[j] \in {"refused", "stopped"}
    /\ job' = [job EXCEPT ![j] = WithError(@, pc[j] = "stopped")]
    /\ Goto(j, "done")
    /\ Untried /\ UNCHANGED <<runs, crashes>>

\* Where another error is not caught: the request fails, the row stays.
Raise(j) ==
    /\ Fragile
    /\ pc[j] \in {"loading", "trying", "tested", "saved"}
    /\ LoopFree \/ pc[j] \in {"trying", "saved"}
    /\ Goto(j, "lost")
    /\ Untried /\ UNCHANGED <<job, runs, crashes>>

\* POST /api/v2/jobs/{job_id}/cancel
Cancel(j) ==
    /\ LoopFree /\ job[j].status = "running" /\ ~job[j].cancel
    /\ job' = [job EXCEPT ![j] = CancelRequested(@)]
    /\ asked' = [asked EXCEPT ![j] = Len(attempts[j])]
    /\ UNCHANGED <<pc, guided, history, attempts, runs, crashes>>

\* The process dies; nothing takes up its jobs again.
Crash ==
    /\ crashes < MaxCrashes
    /\ crashes' = crashes + 1
    /\ pc' = [j \in Jobs |-> IF pc[j] \in {"none", "done"} THEN pc[j] ELSE "lost"]
    /\ Untried /\ UNCHANGED <<job, runs>>

Init ==
    /\ job = [j \in Jobs |-> AbsentRow]
    /\ pc = [j \in Jobs |-> "none"]
    /\ guided = [j \in Jobs |-> FALSE]
    /\ history = [j \in Jobs |-> << >>]
    /\ attempts = [j \in Jobs |-> << >>]
    /\ asked = [j \in Jobs |-> None]
    /\ runs = {}
    /\ crashes = 0

Step(j) ==
    \/ Load(j) \/ Refuse(j) \/ Split(j) \/ Ask(j) \/ Try(j) \/ Test(j)
    \/ Save(j) \/ Finish(j) \/ Fail(j)

Next ==
    \/ \E j \in Jobs : Post(j) \/ Cancel(j) \/ Raise(j) \/ Step(j)
    \/ Crash

Spec == Init /\ [][Next]_vars

\* Downloads end, the thread runs on, and the loop resumes the route.
FairSpec == Spec /\ \A j \in Jobs : WF_vars(Step(j))

-----------------------------------------------------------------------------
\* Properties

Loaded == {history[j] : j \in {j \in Jobs : pc[j] = "loaded"}}

(* No backtest of a history that arrives knows anything before it happened *)
(* (apply_execution, _trades).                                             *)
NoLookAhead ==
    \A h \in Loaded, i \in DOMAIN Grid, from \in {1, 3} : KnownInTime(h, Grid[i], from)

(* The ledger of every backtest explains its equity curve, with costs and  *)
(* with cash earned in between.                                            *)
TradesReconcile ==
    \A h \in Loaded, i \in DOMAIN Grid, from \in {1, 3} : LedgerExplainsCurve(h, Grid[i], from)

(* "Mutating final-window prices cannot change the selected parameters or  *)
(* development attempts": every history that agrees with the one that was  *)
(* searched before the final window gives every attempt the same score.    *)
SelectionIgnoresFinal ==
    \A j \in Jobs : At(j, "tested") =>
        \A h \in Searchable :
            /\ Len(h) = Len(history[j])
            /\ SubSeq(h, 1, FinalStart(h) - 1) = SubSeq(history[j], 1, FinalStart(h) - 1)
            => \A n \in DOMAIN attempts[j] :
                  LET a == attempts[j][n]
                  IN  Worth[h][a.candidate] = [ok |-> a.ok, score |-> a.score]

(* A job with a result has stored one run, of its own histories, and what  *)
(* it stored is the best of all it tried: no attempt that completed has a  *)
(* higher score, and a rejected one is never taken.                        *)
ResultIsBestRun ==
    \A j \in Jobs : job[j].result =>
        \E r \in runs :
            /\ {q \in runs : q.job = j} = {r}
            /\ r.snapshot = history[j]
            /\ Len(r.tested) = Trials(j)
            /\ \E n \in DOMAIN r.tested :
                  /\ r.tested[n].ok /\ r.tested[n].candidate = r.candidate
                  /\ \A m \in DOMAIN r.tested : r.tested[m].ok => r.tested[m].score <= r.tested[n].score

(* A search that is asked to stop tries at most one more candidate, and it *)
(* ends as cancelled unless that was the last one or it was refused.       *)
CancelStopsSearch ==
    \A j \in Jobs : asked[j] # None =>
        /\ Len(attempts[j]) <= asked[j] + 1
        /\ job[j].status = "completed" => asked[j] + 1 >= Trials(j)

(* The row of the job keeps the contract of local jobs.                    *)
Contract == INSTANCE LocalJob WITH Whole <- Whole, Jobs <- Jobs, job <- job
JobContract == Contract!Spec

(* Every search ends that meets no other error than ValueError and no      *)
(* process death.                                                          *)
SearchesEnd == \A j \in Jobs : job[j].status = "running" ~> (job[j].status # "running" \/ At(j, "lost"))

=============================================================================
