---------------------------- MODULE LocalJobStore ----------------------------
(***************************************************************************)
(* The rows of the DuckDB table local_jobs and what the job functions of   *)
(* LocalMarketStore do to one row.  Every background job of the program    *)
(* (universe refresh, intelligence refresh, parameter search) is followed  *)
(* through these functions, and every UPDATE is keyed by job_id alone: no  *)
(* function but the cancellation request looks at the row's status first.  *)
(*                                                                         *)
(* A fraction of work done is an integer between 0 and Whole (Whole = 1.0).*)
(***************************************************************************)
EXTENDS Integers

CONSTANT Whole

ASSUME WholeAssumption == Whole \in Nat \ {0}

\* The final_status values update_job accepts.
FinalStatus == {"completed", "failed", "cancelled"}

JobStatus == {"absent", "running"} \cup FinalStatus

JobRow == [status : JobStatus, progress : 0 .. Whole,
           result : BOOLEAN, error : BOOLEAN, cancel : BOOLEAN]

\* No row with this job_id yet.
AbsentRow == [status |-> "absent", progress |-> 0,
              result |-> FALSE, error |-> FALSE, cancel |-> FALSE]

\* create_job
NewRow == [AbsentRow EXCEPT !.status = "running"]

\* min(max(progress, 0), 1)
Clamp(p) == IF p < 0 THEN 0 ELSE IF p > Whole THEN Whole ELSE p

\* update_job(progress=p)
WithProgress(row, p) == [row EXCEPT !.progress = Clamp(p)]

\* update_job(result=..., final_status=status)
WithResult(row, status) ==
    [row EXCEPT !.status = status, !.progress = Whole, !.result = TRUE]

\* update_job(error=text): the text alone decides between the two statuses.
WithError(row, mentionsCancel) ==
    [row EXCEPT !.status = IF mentionsCancel THEN "cancelled" ELSE "failed",
                !.error  = TRUE]

\* request_job_cancellation
CancelRequested(row) ==
    IF row.status = "running" THEN [row EXCEPT !.cancel = TRUE] ELSE row

=============================================================================
