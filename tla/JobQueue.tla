------------------------------ MODULE JobQueue ------------------------------
(***************************************************************************)
(* The PostgreSQL job queue of internal/scheduler: the table               *)
(* scheduled_jobs, the pool of polling goroutines that claim rows from it  *)
(* with FOR UPDATE SKIP LOCKED, the sweep that returns stale locks, and    *)
(* the death of a worker process.                                          *)
(*                                                                         *)
(* A handler is abstract here: it ends with an error, without one, or with *)
(* an outcome that could not be written.  Time is two flags of a row: due  *)
(* (scheduled_at <= NOW()) and stale (the lock is older than the sweep's   *)
(* ten minutes).                                                           *)
(***************************************************************************)
EXTENDS ScheduledJobs

CONSTANTS
  Workers,          \* the goroutines RunPool starts, in every process
  Processes,        \* the sets of goroutines that live and die together
  Sweepers,         \* the goroutines whose id is "worker-1"
  Jobs,             \* rows that may be inserted
  Times,            \* values of scheduled_at, ordered
  Limits,           \* values of max_attempts
  Idle,             \* no job
  Nobody,           \* locked_by IS NULL
  HandlersAreQuick, \* no handler of a live process runs for ten minutes
  MaxCrashes        \* bound: how many times a process dies

ASSUME QueueAssumption ==
  /\ Processes \subseteq SUBSET Workers
  /\ Sweepers \subseteq Workers
  /\ Times \subseteq Nat
  /\ Limits \subseteq Nat \ {0}
  /\ Idle \notin Jobs
  /\ Nobody \notin Workers
  /\ HandlersAreQuick \in BOOLEAN
  /\ MaxCrashes \in Nat

VARIABLES
  rows,    \* the table; status "absent" is a row not inserted yet
  doing,   \* the job each goroutine is inside processNext with, or Idle
  crashes  \* how many processes have died

vars == <<rows, doing, crashes>>

Row == [status : JobStatuses \cup {"absent"}, at : Times \cup {0}, due : BOOLEAN,
        attempts : Nat, max : Limits \cup {0},
        locked_by : Workers \cup {Nobody}, stale : BOOLEAN]

AbsentRow == [status |-> "absent", at |-> 0, due |-> FALSE, attempts |-> 0,
              max |-> 0, locked_by |-> Nobody, stale |-> FALSE]

(* Mutant: a status the schema does not know.                              *)
QueuedRow(at, max) ==
  [AbsentRow EXCEPT !.status = "queued", !.at = at, !.max = max]

(* EnqueueJob: the columns not named take their defaults. *)
PendingRow(at, max) ==
  [AbsentRow EXCEPT !.status = "pending", !.at = at, !.max = max]

Init ==
  /\ rows = [j \in Jobs |-> AbsentRow]
  /\ doing = [w \in Workers |-> Idle]
  /\ crashes = 0

-----------------------------------------------------------------------------

(* domain.JobRepository.Enqueue. *)
Enqueue(j) ==
  /\ rows[j].status = "absent"
  /\ \E at \in Times, max \in Limits :
       rows' = [rows EXCEPT ![j] = PendingRow(at, max)]
  /\ UNCHANGED <<doing, crashes>>

(* The clock passes scheduled_at, of earlier rows first. *)
FallDue(j) ==
  /\ rows[j].status = "pending" /\ ~rows[j].due
  /\ \A k \in Jobs : rows[k].status = "pending" /\ rows[k].at < rows[j].at => rows[k].due
  /\ rows' = [rows EXCEPT ![j].due = TRUE]
  /\ UNCHANGED <<doing, crashes>>

(* The clock passes locked_at + 10 minutes; locked_at outlives the end of  *)
(* the execution.  A goroutine that still runs the handler does not stop   *)
(* this: no code renews a lock.  That handlers are quicker is an           *)
(* assumption about them, switched by HandlersAreQuick.                    *)
LockAges(j) ==
  /\ rows[j].locked_by # Nobody /\ ~rows[j].stale
  /\ HandlersAreQuick => \A w \in Workers : doing[w] # j
  /\ rows' = [rows EXCEPT ![j].stale = TRUE]
  /\ UNCHANGED <<doing, crashes>>

(* Mutant: a row waits for every earlier one.                              *)
OfferedInOrder ==
  {j \in Jobs : /\ Claimable(rows[j]) /\ rows[j].due
                /\ \A k \in Jobs : rows[k].status = "pending" => rows[j].at <= rows[k].at}

(* The rows ClaimNextJob may return: due, with attempts left, and none     *)
(* scheduled earlier.                                                      *)
Offered ==
  LET ready == {j \in Jobs : Claimable(rows[j]) /\ rows[j].due}
  IN  {j \in ready : \A k \in ready : rows[j].at <= rows[k].at}

LockedFor(row, w) == [Claimed(row) EXCEPT !.locked_by = w, !.stale = FALSE]

(* processNext up to the handler. *)
ClaimNext(w) ==
  /\ doing[w] = Idle
  /\ \E j \in Offered :
       /\ rows' = [rows EXCEPT ![j] = LockedFor(@, w)]
       /\ doing' = [doing EXCEPT ![w] = j]
  /\ UNCHANGED crashes

(* The handler returns nil. *)
Succeed(w) ==
  /\ doing[w] # Idle
  /\ rows' = [rows EXCEPT ![doing[w]] = MarkedDone(@)]
  /\ doing' = [doing EXCEPT ![w] = Idle]
  /\ UNCHANGED crashes

(* The handler returns an error, or no handler is registered for the type. *)
Fail(w) ==
  /\ doing[w] # Idle
  /\ rows' = [rows EXCEPT ![doing[w]] = MarkedFailed(@)]
  /\ doing' = [doing EXCEPT ![w] = Idle]
  /\ UNCHANGED crashes

(* MarkDone or MarkFailed returns an error, which processNext discards.    *)
LoseOutcome(w) ==
  /\ doing[w] # Idle
  /\ doing' = [doing EXCEPT ![w] = Idle]
  /\ UNCHANGED <<rows, crashes>>

(* Mutants: the sweep ignores the age of a lock; it skips spent rows.      *)
SweepableAtAnyAge(row) == Recoverable(row)
SweepableIfRetriable(row) == Recoverable(row) /\ row.stale /\ row.attempts < row.max

Sweepable(row) == Recoverable(row) /\ row.stale

Swept(row) ==
  IF Sweepable(row)
  THEN [Recovered(row) EXCEPT !.locked_by = Nobody, !.stale = FALSE]
  ELSE row

(* The stale ticker of Run.  The goroutine that owns it serves one case of *)
(* its select at a time, so it never sweeps while it runs a handler.       *)
RecoverStaleLocks(w) ==
  /\ doing[w] = Idle
  /\ \E j \in Jobs : Sweepable(rows[j])
  /\ rows' = [j \in Jobs |-> Swept(rows[j])]
  /\ UNCHANGED <<doing, crashes>>

(* A process dies, or is told to stop: main returns without waiting for    *)
(* its goroutines.  Its replacement starts with all of them idle.          *)
Crash(P) ==
  /\ crashes < MaxCrashes
  /\ \E w \in P : doing[w] # Idle
  /\ doing' = [w \in Workers |-> IF w \in P THEN Idle ELSE doing[w]]
  /\ crashes' = crashes + 1
  /\ UNCHANGED rows

Return(w) == Succeed(w) \/ Fail(w) \/ LoseOutcome(w)

Next ==
  \/ \E j \in Jobs : Enqueue(j) \/ FallDue(j) \/ LockAges(j)
  \/ \E w \in Workers : ClaimNext(w) \/ Return(w)
  \/ \E w \in Sweepers : RecoverStaleLocks(w)
  \/ \E P \in Processes : Crash(P)

Spec == Init /\ [][Next]_vars

(* The clock runs, the tickers fire, handlers return and outcomes that can *)
(* be written are: nothing makes a process crash or a job arrive.          *)
Fairness ==
  /\ \A j \in Jobs : WF_vars(FallDue(j)) /\ WF_vars(LockAges(j))
  /\ \A w \in Workers : WF_vars(ClaimNext(w)) /\ WF_vars(Return(w))
  /\ \A w \in Sweepers : WF_vars(RecoverStaleLocks(w))

FairSpec == Spec /\ Fairness

-----------------------------------------------------------------------------

(* Every row is a row of the schema and every goroutine is idle or holds   *)
(* a row of the table: the shape ClaimNext and the Mark statements keep.   *)
TypeOK ==
  /\ rows \in [Jobs -> Row]
  /\ doing \in [Workers -> Jobs \cup {Idle}]
  /\ crashes \in Nat

(* Two goroutines are never inside a handler with the same job, whatever   *)
(* crashes, lost outcomes and sweeps came before: the claim of             *)
(* internal/scheduler/worker.go RunPool.                                   *)
OneWorkerPerJob ==
  \A v, w \in Workers : v # w /\ doing[v] # Idle => doing[v] # doing[w]

(* A claimed row whose goroutine is gone does not stay locked for ever:    *)
(* the sweep of Run gives it back.                                         *)
NoRowStaysLocked ==
  \A j \in Jobs : rows[j].status = "processing" ~> rows[j].status # "processing"

(* A due row with attempts left is executed until an outcome is written or *)
(* its attempts are spent: earlier rows, crashes and lost outcomes do not  *)
(* starve it in processNext.                                               *)
DueJobsAreServed ==
  \A j \in Jobs : rows[j].due /\ Claimable(rows[j])
                    ~> (Finished(rows[j]) \/ rows[j].attempts = rows[j].max)

(* The queue as the handlers see it. *)
settled == {j \in Jobs : Finished(rows[j])}
tries == [j \in Jobs |-> rows[j].attempts]
limit == [j \in Jobs |-> rows[j].max]

Promise == INSTANCE ExclusiveJobs WITH executing <- doing

(* The table, its locks and its sweep implement the promise of             *)
(* ExclusiveJobs: RunPool's goroutines share jobs as if each execution     *)
(* were handed out once.                                                   *)
KeepsPromise == Promise!Spec

=============================================================================
