------------------------------- MODULE LocalJob -------------------------------
(***************************************************************************)
(* What a client that polls a job and may ask for its cancellation relies  *)
(* on: the contract the background runners keep with the unguarded job     *)
(* functions of LocalJobStore.  A job is created once, reports progress    *)
(* that never moves backwards while it runs, and ends at most once, with a *)
(* result or with an error; a row that has ended is never written again.   *)
(***************************************************************************)
EXTENDS LocalJobStore

CONSTANT Jobs

VARIABLE job          \* [Jobs -> JobRow]

Init == job = [j \in Jobs |-> AbsentRow]

Running(j) == job[j].status = "running"

Create(j) ==
    /\ job[j].status = "absent"
    /\ job' = [job EXCEPT ![j] = NewRow]

Report(j) ==
    /\ Running(j)
    /\ \E p \in job[j].progress .. Whole :
          job' = [job EXCEPT ![j] = WithProgress(@, p)]

RequestCancel(j) ==
    /\ Running(j)
    /\ job' = [job EXCEPT ![j] = CancelRequested(@)]

EndWithResult(j) ==
    /\ Running(j)
    /\ \E status \in FinalStatus : job' = [job EXCEPT ![j] = WithResult(@, status)]

EndWithError(j) ==
    /\ Running(j)
    /\ \E mentionsCancel \in BOOLEAN :
          job' = [job EXCEPT ![j] = WithError(@, mentionsCancel)]

Next == \E j \in Jobs : \/ Create(j)
                        \/ Report(j)
                        \/ RequestCancel(j)
                        \/ EndWithResult(j)
                        \/ EndWithError(j)

Spec == Init /\ [][Next]_job

=============================================================================
