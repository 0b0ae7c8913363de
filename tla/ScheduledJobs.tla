--------------------------- MODULE ScheduledJobs ---------------------------
(***************************************************************************)
(* One row of the table scheduled_jobs, and the SQL statements of          *)
(* db/queries/scheduled_jobs.sql as operators from a row to a row.  The    *)
(* operators only touch status and attempts, so they apply to the rows of  *)
(* every module that keeps a job table.                                    *)
(*                                                                         *)
(* RequeueJob and RetryJob are statements no code calls, and the           *)
(* parameter of CancelPendingJobsForSubscription is the JSON string with   *)
(* its quotes, which payload->>'subscription_id' never equals: none of the *)
(* three ever changes a row, so none of them is here.                      *)
(***************************************************************************)
EXTENDS Naturals

JobStatuses == {"pending", "processing", "done", "failed"}

Finished(row) == row.status \in {"done", "failed"}

(* The WHERE clause of ClaimNextJob, scheduled_at apart. *)
Claimable(row) == row.status = "pending" /\ row.attempts < row.max

(* The SET clause of ClaimNextJob. *)
Claimed(row) == [row EXCEPT !.status = "processing", !.attempts = @ + 1]

MarkedDone(row) == [row EXCEPT !.status = "done"]

MarkedFailed(row) == [row EXCEPT !.status = "failed"]

(* Mutant: the sweep also gives back rows that are done.                   *)
RecoverableWhenDone(row) == row.status \in {"processing", "done"}

(* RecoverStaleLocks: its WHERE clause, the age of locked_at apart, and its  *)
(* SET clause.  The attempt of the lost execution stays counted.             *)
Recoverable(row) == row.status = "processing"

Recovered(row) == [row EXCEPT !.status = "pending"]

=============================================================================
