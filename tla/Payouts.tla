------------------------------ MODULE Payouts ------------------------------
(***************************************************************************)
(* The payouts of one tenant: POST /v1/payouts (internal/api/handlers/     *)
(* payouts.go), which checks the balance under a Redis lock and queues a   *)
(* job, and the job's handler ProcessPayout (internal/payout/service.go),  *)
(* which asks Nomba for the bank transfer and books it.                    *)
(*                                                                         *)
(* Left out: names and account numbers, the events and webhooks the        *)
(* handlers emit, the read-only endpoints.  The job table is reduced to    *)
(* the one job a payout has; JobQueue shows why no two workers hold it.    *)
(***************************************************************************)
EXTENDS Integers, ScheduledJobs, FiniteSetsExt

CONSTANTS
  Payouts,          \* rows that may be inserted
  Handlers,         \* API requests served at the same time
  Workers,          \* goroutines of the job pool
  Amounts,          \* kobo a request may ask for
  Settled,          \* settled CHARGE less REFUND entries, by mode
  Idle,             \* no payout
  RequestsAreQuick, \* no request holds its lock for ten seconds
  MaxFaults         \* bound: deaths, failed writes and lost answers

Modes == {"live", "test"}

ASSUME PayoutAssumption ==
  /\ Idle \notin Payouts
  /\ Amounts \subseteq Nat \ {0}
  /\ Settled \in [Modes -> Nat]
  /\ RequestsAreQuick \in BOOLEAN
  /\ MaxFaults \in Nat

VARIABLES
  payouts,  \* the table; status "absent" is a row not inserted yet
  jobs,     \* the process_payout job of each payout
  ledger,   \* the payouts that have a PAYOUT entry
  lock,     \* the key payout_lock:<tenant> exists in Redis
  requests, \* where each request stands in Create
  doing,    \* where each goroutine stands in ProcessPayout
  moved,    \* how often Nomba moved the money of each payout
  faults    \* how many things went wrong

vars == <<payouts, jobs, ledger, lock, requests, doing, moved, faults>>
apiVars == <<lock, requests>>
workerVars == <<jobs, doing>>

Statuses == {"absent", "pending", "processing", "completed", "failed"}
RequestSteps == {"idle", "check", "create", "enqueue", "release"}
WorkerSteps == {"idle", "read", "mark", "transfer", "complete", "debit", "fail", "return"}
MaxAttempts == 5

Row == [status : Statuses, amount : Amounts \cup {0}, mode : Modes]
JobRow == [status : JobStatuses \cup {"absent"}, attempts : Nat, max : {MaxAttempts}]
Request == [step : RequestSteps, payout : Payouts \cup {Idle},
            amount : Amounts \cup {0}, mode : Modes]
Execution == [step : WorkerSteps, payout : Payouts \cup {Idle}]

NoRequest == [step |-> "idle", payout |-> Idle, amount |-> 0, mode |-> "live"]
NoExecution == [step |-> "idle", payout |-> Idle]

Init ==
  /\ payouts = [p \in Payouts |-> [status |-> "absent", amount |-> 0, mode |-> "live"]]
  /\ jobs = [p \in Payouts |-> [status |-> "absent", attempts |-> 0, max |-> MaxAttempts]]
  /\ ledger = {}
  /\ lock = FALSE
  /\ requests = [h \in Handlers |-> NoRequest]
  /\ doing = [w \in Workers |-> NoExecution]
  /\ moved = [p \in Payouts |-> 0]
  /\ faults = 0

(* A failure the code meets, and one it does not. *)
Fault == faults < MaxFaults /\ faults' = faults + 1
NoFault == UNCHANGED faults

-----------------------------------------------------------------------------
(* Create. *)

(* What GetBalance reports as available.  Payouts that are pending or      *)
(* processing are not in the ledger, so they do not reduce it.             *)
Available(mode) ==
  Settled[mode]
    - MapThenSumSet(LAMBDA p : payouts[p].amount, {p \in ledger : payouts[p].mode = mode})

(* Mutant: the lock is not consulted.                                      *)
LockIgnored == TRUE

(* SETNX succeeds. *)
LockIsFree == ~lock

Goto(h, step) == requests' = [requests EXCEPT ![h].step = step]

(* A request gets the lock; one that does not is answered with 409.        *)
Begin(h) ==
  /\ requests[h].step = "idle"
  /\ LockIsFree
  /\ lock' = TRUE
  /\ \E p \in Payouts, a \in Amounts, m \in Modes :
       /\ payouts[p].status = "absent"
       /\ \A g \in Handlers : requests[g].payout # p
       /\ requests' = [requests EXCEPT ![h] =
            [step |-> "check", payout |-> p, amount |-> a, mode |-> m]]
  /\ UNCHANGED <<payouts, ledger, workerVars, moved, faults>>

Approve(h) ==
  /\ requests[h].step = "check"
  /\ requests[h].amount <= Available(requests[h].mode)
  /\ Goto(h, "create")
  /\ UNCHANGED <<payouts, ledger, lock, workerVars, moved, faults>>

(* The amount exceeds the balance, or the balance cannot be read. *)
Refuse(h) ==
  /\ requests[h].step = "check"
  /\ Goto(h, "release")
  /\ UNCHANGED <<payouts, ledger, lock, workerVars, moved, faults>>

(* Mutant: the row takes the name of the event.                            *)
RequestedRow(amount, mode) == [status |-> "requested", amount |-> amount, mode |-> mode]

PendingRow(amount, mode) == [status |-> "pending", amount |-> amount, mode |-> mode]

CreateRow(h) ==
  LET q == requests[h] IN
  /\ q.step = "create"
  /\ \/ /\ payouts' = [payouts EXCEPT ![q.payout] = PendingRow(q.amount, q.mode)]
        /\ Goto(h, "enqueue")
        /\ NoFault
     \/ Goto(h, "release") /\ Fault /\ UNCHANGED payouts
  /\ UNCHANGED <<ledger, lock, workerVars, moved>>

EnqueueJob(h) ==
  /\ requests[h].step = "enqueue"
  /\ Goto(h, "release")
  /\ \/ jobs' = [jobs EXCEPT ![requests[h].payout].status = "pending"] /\ NoFault
     \/ Fault /\ UNCHANGED jobs
  /\ UNCHANGED <<payouts, ledger, lock, doing, moved>>

(* The deferred DEL: it removes the key whoever set it.                    *)
Release(h) ==
  /\ requests[h].step = "release"
  /\ requests' = [requests EXCEPT ![h] = NoRequest]
  /\ \/ lock' = FALSE /\ NoFault
     \/ Fault /\ UNCHANGED lock
  /\ UNCHANGED <<payouts, ledger, workerVars, moved>>

(* The ten seconds of SETNX pass. *)
LockExpires ==
  /\ lock
  /\ RequestsAreQuick => \A h \in Handlers : requests[h].step = "idle"
  /\ lock' = FALSE
  /\ UNCHANGED <<payouts, ledger, requests, workerVars, moved, faults>>

(* The API process dies: no deferred call runs. *)
CrashRequest(h) ==
  /\ requests[h].step # "idle"
  /\ requests' = [requests EXCEPT ![h] = NoRequest]
  /\ Fault
  /\ UNCHANGED <<payouts, ledger, lock, workerVars, moved>>

-----------------------------------------------------------------------------
(* ProcessPayout. *)

Proceed(w, step) == doing' = [doing EXCEPT ![w].step = step]

SetStatus(p, status) == payouts' = [payouts EXCEPT ![p].status = status]

ClaimNext(w) ==
  /\ doing[w].step = "idle"
  /\ \E p \in Payouts :
       /\ Claimable(jobs[p])
       /\ jobs' = [jobs EXCEPT ![p] = Claimed(@)]
       /\ doing' = [doing EXCEPT ![w] = [step |-> "read", payout |-> p]]
  /\ UNCHANGED <<payouts, ledger, apiVars, moved, faults>>

(* Mutant: what was begun but not completed is done again.                 *)
SkipsCompleted(p) == payouts[p].status = "completed"

Skips(p) == payouts[p].status # "pending"

Read(w) ==
  /\ doing[w].step = "read"
  /\ Proceed(w, IF Skips(doing[w].payout) THEN "return" ELSE "mark")
  /\ UNCHANGED <<payouts, jobs, ledger, apiVars, moved, faults>>

(* GetByID fails: processNext marks the job failed. *)
ReadFails(w) ==
  /\ doing[w].step = "read"
  /\ jobs' = [jobs EXCEPT ![doing[w].payout] = MarkedFailed(@)]
  /\ doing' = [doing EXCEPT ![w] = NoExecution]
  /\ Fault
  /\ UNCHANGED <<payouts, ledger, apiVars, moved>>

(* Mutants: a test payout ends here; the debit is written beforehand.      *)
AfterMarkSkippingTest(mode) == IF mode = "test" THEN "return" ELSE "transfer"
AfterMarkBookingFirst(mode) == IF mode = "test" THEN "complete" ELSE "debit"

(* The sandbox has no transfers: a test payout is completed without one.   *)
AfterMark(mode) == IF mode = "test" THEN "complete" ELSE "transfer"

(* MarkProcessing; its error is logged and the transfer made all the same. *)
MarkProcessing(w) ==
  LET p == doing[w].payout IN
  /\ doing[w].step = "mark"
  /\ Proceed(w, AfterMark(payouts[p].mode))
  /\ \/ SetStatus(p, "processing") /\ NoFault
     \/ Fault /\ UNCHANGED payouts
  /\ UNCHANGED <<jobs, ledger, apiVars, moved>>

(* TransferToBank: Nomba moves the money and says so, refuses, or moves it *)
(* and its answer is lost.  Whether Nomba would recognise a reference it   *)
(* has seen is not known: every call may move money.                       *)
Transfer(w) ==
  LET pay == moved' = [moved EXCEPT ![doing[w].payout] = @ + 1] IN
  /\ doing[w].step = "transfer"
  /\ \/ pay /\ Proceed(w, "complete") /\ NoFault
     \/ pay /\ Proceed(w, "fail") /\ Fault
     \/ Proceed(w, "fail") /\ NoFault /\ UNCHANGED moved
  /\ UNCHANGED <<payouts, jobs, ledger, apiVars>>

(* MarkCompleted; without it there is no ledger entry either. *)
MarkCompleted(w) ==
  /\ doing[w].step = "complete"
  /\ \/ SetStatus(doing[w].payout, "completed") /\ Proceed(w, "debit") /\ NoFault
     \/ Proceed(w, "return") /\ Fault /\ UNCHANGED payouts
  /\ UNCHANGED <<jobs, ledger, apiVars, moved>>

(* Mutant: the entry is lost.                                              *)
NotRecorded(p) == ledger

(* RecordPayout, under the key payout-<id>. *)
Recorded(p) == ledger \cup {p}

(* recordLedgerDebit; its error is only logged. *)
RecordLedgerDebit(w) ==
  /\ doing[w].step = "debit"
  /\ Proceed(w, "return")
  /\ \/ ledger' = Recorded(doing[w].payout) /\ NoFault
     \/ Fault /\ UNCHANGED ledger
  /\ UNCHANGED <<payouts, jobs, apiVars, moved>>

MarkFailed(w) ==
  /\ doing[w].step = "fail"
  /\ Proceed(w, "return")
  /\ \/ SetStatus(doing[w].payout, "failed") /\ NoFault
     \/ Fault /\ UNCHANGED payouts
  /\ UNCHANGED <<jobs, ledger, apiVars, moved>>

(* ProcessPayout returns nil; MarkDone may fail. *)
Return(w) ==
  /\ doing[w].step = "return"
  /\ doing' = [doing EXCEPT ![w] = NoExecution]
  /\ \/ jobs' = [jobs EXCEPT ![doing[w].payout] = MarkedDone(@)] /\ NoFault
     \/ Fault /\ UNCHANGED jobs
  /\ UNCHANGED <<payouts, ledger, apiVars, moved>>

(* The stale sweep.  Handlers end within its ten minutes, so the row it    *)
(* gives back is in nobody's hands.                                        *)
RecoverStaleLock(p) ==
  /\ Recoverable(jobs[p])
  /\ \A w \in Workers : doing[w].payout # p
  /\ jobs' = [jobs EXCEPT ![p] = Recovered(@)]
  /\ UNCHANGED <<payouts, ledger, apiVars, doing, moved, faults>>

CrashWorker(w) ==
  /\ doing[w].step # "idle"
  /\ doing' = [doing EXCEPT ![w] = NoExecution]
  /\ Fault
  /\ UNCHANGED <<payouts, jobs, ledger, apiVars, moved>>

-----------------------------------------------------------------------------

Serve(h) == Begin(h) \/ Approve(h) \/ Refuse(h) \/ CreateRow(h) \/ EnqueueJob(h) \/ Release(h)

Work(w) ==
  \/ ClaimNext(w) \/ Read(w) \/ ReadFails(w) \/ MarkProcessing(w) \/ Transfer(w)
  \/ MarkCompleted(w) \/ RecordLedgerDebit(w) \/ MarkFailed(w) \/ Return(w)

Next ==
  \/ \E h \in Handlers : Serve(h) \/ CrashRequest(h)
  \/ \E w \in Workers : Work(w) \/ CrashWorker(w)
  \/ LockExpires
  \/ \E p \in Payouts : RecoverStaleLock(p)

Spec == Init /\ [][Next]_vars

(* The pool polls and its handlers return, the sweep runs. *)
Fairness ==
  /\ \A w \in Workers : WF_vars(Work(w))
  /\ \A p \in Payouts : WF_vars(RecoverStaleLock(p))

FairSpec == Spec /\ Fairness

-----------------------------------------------------------------------------

Holds(w, p) == doing[w].payout = p

(* Create and ProcessPayout write only the statuses of migration 000021;   *)
(* requests and goroutines stand at a step of theirs.                      *)
TypeOK ==
  /\ payouts \in [Payouts -> Row]
  /\ jobs \in [Payouts -> JobRow]
  /\ ledger \subseteq Payouts
  /\ lock \in BOOLEAN
  /\ requests \in [Handlers -> Request]
  /\ doing \in [Workers -> Execution]
  /\ moved \in [Payouts -> Nat]
  /\ faults \in Nat

(* Payout creation is serialised by Create: as long as requests end within *)
(* ten seconds no two are between the balance check and the new row,       *)
(* although a lock may survive its request and is deleted without looking  *)
(* whose it is.                                                            *)
OneRequestAtATime ==
  RequestsAreQuick =>
    \A g, h \in Handlers : requests[g].step # "idle" /\ requests[h].step # "idle" => g = h

(* A PAYOUT entry, which lowers the balance for ever, stands for a payout  *)
(* ProcessPayout completed and, outside test mode, for money that left,    *)
(* whatever crashed or could not be written.                               *)
DebitsAreBacked ==
  \A p \in ledger : /\ payouts[p].status = "completed"
                    /\ payouts[p].mode = "live" => moved[p] > 0

(* While nothing goes wrong, a payout ProcessPayout has let go of is       *)
(* completed exactly when its entry is in the ledger and, in live mode,    *)
(* exactly when its money moved, once.                                     *)
BooksBalance ==
  faults = 0 =>
    \A p \in Payouts :
      (\A w \in Workers : ~Holds(w, p)) =>
        /\ payouts[p].status = "completed" <=> p \in ledger
        /\ moved[p] = IF p \in ledger /\ payouts[p].mode = "live" THEN 1 ELSE 0

(* Whatever single thing goes wrong -- a death anywhere, a write that      *)
(* fails, a lost answer -- ProcessPayout is not made to send the money of  *)
(* one payout twice by the sweep that executes its job again.              *)
PaidOutOnce ==
  faults <= 1 => \A p \in Payouts : moved[p] <= 1

(* ProcessPayout decides every payout whose job was queued, unless         *)
(* something goes wrong.                                                   *)
PayoutsAreDecided ==
  \A p \in Payouts :
    jobs[p].status = "pending" ~> (payouts[p].status \in {"completed", "failed"} \/ faults > 0)

(* "A tenant can never withdraw money Nomba hasn't actually settled to     *)
(* them yet" (ARCHITECTURE.md:1102): the live payouts whose money moved    *)
(* never exceed what Create could count as settled.                        *)
WithdrawalsAreSettled ==
  MapThenSumSet(LAMBDA p : payouts[p].amount * moved[p],
                {p \in Payouts : payouts[p].mode = "live"}) <= Settled["live"]

=============================================================================
